------------------------------ MODULE Gateways ------------------------------
(***************************************************************************)
(* WebSocket gateways that hold a process or a stream for a client: compose*)
(* actions (compose-action.gateway.ts), container streams (exec, logs and  *)
(* stats gateways, which are alike) and terminals (terminal.gateway.ts).   *)
(***************************************************************************)
EXTENDS Integers

CONSTANTS
  Conn,  \* WebSocket connections
  Kind   \* what each is for

ASSUME GatewaysAssumption == Kind \in [Conn -> {"action", "stream", "terminal"}]

VARIABLES
  server,    \* "up", "stopping" once the modules are destroyed, "gone"
  ws,        \* the server's end of a connection
  vanished,  \* clients that went away without a word
  sessions,  \* connections in the map of their gateway
  opening,   \* connections whose stack or stream is still being looked up
  handle,    \* sessions whose child, stream or pty is not null
  work,      \* the process or stream: "told" has a signal, "killed" the last
  timer      \* kill timers armed

vars == <<server, ws, vanished, sessions, opening, handle, work, timer>>

Is(c, kind) == Kind[c] = kind

TypeOK ==
  /\ server \in {"up", "stopping", "gone"}
  /\ ws \in [Conn -> {"none", "auth", "open", "closing", "closed"}]
  /\ vanished \subseteq Conn
  /\ sessions \subseteq {c \in Conn : ws[c] \in {"open", "closing"}}
  /\ opening \subseteq Conn /\ handle \subseteq Conn
  /\ work \in [Conn -> {"none", "running", "told", "killed", "over"}]
  /\ timer \in [Conn -> Nat]

Init ==
  /\ server = "up"
  /\ ws = [c \in Conn |-> "none"]
  /\ vanished = {} /\ sessions = {} /\ opening = {} /\ handle = {}
  /\ work = [c \in Conn |-> "none"]
  /\ timer = [c \in Conn |-> 0]

\* ws.close() of the server: the closing handshake begins, if it has not.
Closing(c) == [ws EXCEPT ![c] = IF @ = "open" THEN "closing" ELSE @]

-----------------------------------------------------------------------------
(* Ending what the connections of C hold: killChild(), stream.destroy() and *)
(* pty.kill().                                                              *)

\* A mistake the checks exclude: killChild() leaves session.child set.
EndWorkAgain(C) ==
  LET H == handle \cap C IN
  /\ handle' = handle \ {c \in H : ~Is(c, "action")}
  /\ work' = [c \in Conn |->
                IF c \in H /\ work[c] = "running"
                THEN IF Is(c, "stream") THEN "over" ELSE "told"
                ELSE work[c]]
  /\ timer' = [c \in Conn |-> IF c \in H /\ Is(c, "action") THEN timer[c] + 1 ELSE timer[c]]

\* A mistake the checks exclude: nothing follows the SIGTERM.
EndWorkOnce(C) ==
  LET H == handle \cap C IN
  /\ handle' = handle \ H
  /\ work' = [c \in Conn |->
                IF c \in H /\ work[c] = "running"
                THEN IF Is(c, "stream") THEN "over" ELSE "told"
                ELSE work[c]]
  /\ UNCHANGED timer

\* A child is told to end, and killed 10 s later; a pty is hung up.
EndWork(C) ==
  LET H == handle \cap C IN
  /\ handle' = handle \ H
  /\ work' = [c \in Conn |->
                IF c \in H /\ work[c] = "running"
                THEN IF Is(c, "stream") THEN "over" ELSE "told"
                ELSE work[c]]
  /\ timer' = [c \in Conn |-> IF c \in H /\ Is(c, "action") THEN timer[c] + 1 ELSE timer[c]]

-----------------------------------------------------------------------------
(* A connection.                                                           *)

\* The upgrade request; its token is verified.
Upgrade(c) ==
  /\ server = "up" /\ ws[c] = "none"
  /\ ws' = [ws EXCEPT ![c] = "auth"]
  /\ UNCHANGED <<server, vanished, sessions, opening, handle, work, timer>>

\* The token is refused, or handleUpgrade() is, because the gateway is closed.
Refuse(c) ==
  /\ server # "gone" /\ ws[c] = "auth"
  /\ ws' = [ws EXCEPT ![c] = "closed"]
  /\ UNCHANGED <<server, vanished, sessions, opening, handle, work, timer>>

\* onConnection(): a terminal has its pty at once, the others ask for theirs.
Connect(c) ==
  /\ server = "up" /\ ws[c] = "auth"
  /\ ws' = [ws EXCEPT ![c] = "open"]
  /\ sessions' = sessions \cup {c}
  /\ IF Is(c, "terminal")
     THEN /\ handle' = handle \cup {c}
          /\ work' = [work EXCEPT ![c] = "running"]
          /\ UNCHANGED opening
     ELSE opening' = opening \cup {c} /\ UNCHANGED <<handle, work>>
  /\ UNCHANGED <<server, vanished, timer>>

\* A mistake the checks exclude: whether the client is still there is not asked.
OpenedAnyway(c) ==
  /\ server # "gone" /\ c \in opening
  /\ opening' = opening \ {c}
  /\ handle' = handle \cup {c}
  /\ work' = [work EXCEPT ![c] = "running"]
  /\ UNCHANGED <<server, ws, vanished, sessions, timer>>

\* The stack is found, or the stream is there.  When the client has gone
\* meanwhile no child is started and the stream is destroyed.
Opened(c) ==
  /\ server # "gone" /\ c \in opening
  /\ opening' = opening \ {c}
  /\ IF ws[c] = "open"
     THEN handle' = handle \cup {c} /\ work' = [work EXCEPT ![c] = "running"]
     ELSE UNCHANGED <<handle, work>>
  /\ UNCHANGED <<server, ws, vanished, sessions, timer>>

\* No such stack or container, or the child cannot be started.
OpenFails(c) ==
  /\ server # "gone" /\ c \in opening
  /\ opening' = opening \ {c}
  /\ ws' = Closing(c)
  /\ sessions' = IF Is(c, "action") THEN sessions \ {c} ELSE sessions
  /\ UNCHANGED <<server, vanished, handle, work, timer>>

\* The process or the stream ends; a child's 'close' disarms its last timer.
\* One whose server is gone ends without it.
WorkEnds(c) ==
  /\ work[c] \in {"running", "told", "killed"}
  /\ work' = [work EXCEPT ![c] = "over"]
  /\ IF server = "gone"
     THEN UNCHANGED <<ws, sessions, handle, timer>>
     ELSE /\ ws' = Closing(c)
          /\ IF Is(c, "action")
             THEN /\ handle' = handle \ {c}
                  /\ timer' = [timer EXCEPT ![c] = IF @ > 0 THEN @ - 1 ELSE 0]
                  /\ sessions' = sessions \ {c}
             ELSE UNCHANGED <<sessions, handle, timer>>
  /\ UNCHANGED <<server, vanished, opening>>

\* SIGKILL.
KillTimer(c) ==
  /\ timer[c] > 0
  /\ timer' = [timer EXCEPT ![c] = @ - 1]
  /\ work' = [work EXCEPT ![c] = IF @ = "told" THEN "killed" ELSE @]
  /\ UNCHANGED <<server, ws, vanished, sessions, opening, handle>>

\* The client is gone for the network only.
Vanish(c) ==
  /\ server # "gone" /\ ws[c] = "open"
  /\ vanished' = vanished \cup {c}
  /\ UNCHANGED <<server, ws, sessions, opening, handle, work, timer>>

\* No heartbeat of a terminal for 90 s: its interval closes the connection.
Watchdog(c) ==
  /\ Is(c, "terminal") /\ c \in vanished /\ c \in sessions
  /\ ws[c] = "open"
  /\ ws' = Closing(c)
  /\ UNCHANGED <<server, vanished, sessions, opening, handle, work, timer>>

\* A mistake the checks exclude: the map keeps the connection.
CloseKeepsEntry(c) ==
  /\ server # "gone"
  /\ ws[c] = "closing" \/ (ws[c] = "open" /\ c \notin vanished)
  /\ ws' = [ws EXCEPT ![c] = "closed"]
  /\ EndWork({c})
  /\ UNCHANGED <<server, vanished, sessions, opening>>

\* The 'close' event: the client left, or the handshake is over or timed out.
Close(c) ==
  /\ server # "gone"
  /\ ws[c] = "closing" \/ (ws[c] = "open" /\ c \notin vanished)
  /\ ws' = [ws EXCEPT ![c] = "closed"]
  /\ sessions' = sessions \ {c}
  /\ EndWork({c})
  /\ UNCHANGED <<server, vanished, opening>>

\* The 'error' event: the same cleanup, which the 'close' event repeats.
WsError(c) ==
  /\ server # "gone"
  /\ ws[c] \in {"open", "closing"}
  /\ ws' = Closing(c)
  /\ sessions' = sessions \ {c}
  /\ EndWork({c})
  /\ UNCHANGED <<server, vanished, opening>>

-----------------------------------------------------------------------------
(* Shutdown.                                                               *)

\* onModuleDestroy() of every gateway.
Destroy ==
  /\ server = "up"
  /\ server' = "stopping"
  /\ ws' = [c \in Conn |-> IF c \in sessions THEN Closing(c)[c] ELSE ws[c]]
  /\ EndWork(sessions)
  /\ sessions' = {}
  /\ UNCHANGED <<vanished, opening>>

\* The last connection has ended and the process does; its timers go with it.
Exit ==
  /\ server = "stopping"
  /\ \A c \in Conn : ws[c] \in {"none", "closed"}
  /\ server' = "gone"
  /\ opening' = {} /\ handle' = {}
  /\ timer' = [c \in Conn |-> 0]
  /\ UNCHANGED <<ws, vanished, sessions, work>>

Next ==
  \/ \E c \in Conn :
       \/ Upgrade(c) \/ Refuse(c) \/ Connect(c) \/ Opened(c) \/ OpenFails(c)
       \/ WorkEnds(c) \/ KillTimer(c) \/ Vanish(c) \/ Watchdog(c) \/ Close(c) \/ WsError(c)
  \/ Destroy \/ Exit

Spec == Init /\ [][Next]_vars

\* Timers fire, a closing handshake ends or times out, lookups end, and what
\* is killed or hung up dies.  A child may ignore SIGTERM for ever.
Fairness ==
  \A c \in Conn :
    /\ WF_vars(KillTimer(c))
    /\ WF_vars(Watchdog(c))
    /\ WF_vars(ws[c] = "closing" /\ Close(c))
    /\ WF_vars(Opened(c) \/ OpenFails(c))
    /\ WF_vars((work[c] = "killed" \/ (work[c] = "told" /\ Is(c, "terminal"))) /\ WorkEnds(c))

FairSpec == Spec /\ Fairness

-----------------------------------------------------------------------------
(* Properties.                                                             *)

\* Nothing goes on running for a client that has left: not when it leaves while
\* its stack or stream is looked up, nor when the gateway is destroyed then
\* (getStack().then 93-94, exec.gateway.ts 102-105).  A socket that is open is in the map,
\* so shutdown finds it.  Of an exec only the stream counts: the panel has no hold on
\* the process Docker runs inside the container.
NoOrphanWork ==
  \A c \in Conn :
    /\ ws[c] = "closed" => work[c] # "running"
    /\ ws[c] = "open" => c \in sessions

\* A kill timer is armed once, for a child that has been told to end and has
\* not, however often cleanup runs (killChild 147-156).
TimerIsForChild == \A c \in Conn : timer[c] > 0 => timer[c] = 1 /\ work[c] = "told"

\* What EndsWhenGone rests on besides fairness: a child that has been told to end
\* and has not has the timer that will kill it, whichever of the client, an error
\* and the shutdown had it told, unless the server has gone (killChild 147-156).
ToldIsKilled ==
  \A c \in Conn :
    work[c] = "told" /\ Is(c, "action") => timer[c] > 0 \/ server = "gone"

\* A client that closed its connection, or a terminal's that vanished, is
\* followed by the end of what was held for it, unless the server has gone
\* (docs/containers.md 350, terminal watchdog 90-95).
EndsWhenGone ==
  \A c \in Conn :
    ws[c] = "closed" \/ (c \in vanished /\ Is(c, "terminal"))
      ~> work[c] \in {"none", "over"} \/ server = "gone"
=============================================================================
