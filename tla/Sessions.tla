------------------------------ MODULE Sessions ------------------------------
(***************************************************************************)
(* Sign-in: the token pairs AuthService issues and rotates over the table  *)
(* sessions (auth.service.ts), and the tabs of a browser that keep one     *)
(* pair in their common storage and renew it when a request is answered    *)
(* 401 (web/src/lib/api.ts, web/src/stores/auth.ts).                       *)
(***************************************************************************)
EXTENDS Integers

CONSTANTS
  Tab,      \* tabs of one browser
  Login,    \* bound: logins
  Request,  \* bound: requests, those that may be answered 401
  Owner,    \* the tab of a request
  None,     \* nothing
  MaxLost   \* bound: answers that never arrive, pages that are left

ASSUME SessionsAssumption ==
  /\ Owner \in [Request -> Tab]
  /\ Login \cap Request = {} /\ None \notin Login \cup Request
  /\ MaxLost \in Nat

\* A pair is named after the login or the refresh it was issued for.
Pair == Login \cup Request

VARIABLES
  live,     \* pairs with a row in sessions
  ended,    \* pairs whose row expired or a logout has deleted
  root,     \* the login a pair descends from, once it is issued
  stored,   \* the pair in localStorage
  out,      \* tabs at the login page
  leaving,  \* the pair a tab's logout revokes
  at,       \* where a request is
  promise,  \* a tab's refreshPromise: the request whose refresh it is
  call,     \* where the refresh of a request is at the server
  spent,    \* the pair it was posted with
  heard,    \* refreshes whose answer somebody waits for
  left,     \* history: those whose page was left before the answer
  lost      \* answers lost and pages left so far

rowVars == <<live, ended, root>>
tabVars == <<out, leaving, promise>>
callVars == <<call, spent, heard, left>>
vars == <<rowVars, stored, tabVars, at, callVars, lost>>

Of(t) == {r \in Request : Owner[r] = t}

TypeOK ==
  /\ live \subseteq Pair /\ ended \subseteq Pair
  /\ root \in [Pair -> Login \cup {None}]
  /\ stored \in Pair \cup {None}
  /\ out \subseteq Tab
  /\ leaving \in [Tab -> Pair \cup {None}]
  /\ at \in [Request -> {"new", "sent", "waiting", "over"}]
  /\ promise \in [Tab -> Request \cup {None}]
  /\ \A t \in Tab : promise[t] # None => promise[t] \in heard \cap Of(t)
  /\ call \in [Request -> {"none", "posted", "signing", "answered", "rejected", "over"}]
  /\ spent \in [Request -> Pair \cup {None}]
  /\ heard \subseteq Request
  /\ left \subseteq Request
  /\ lost \in 0 .. MaxLost

Init ==
  /\ live = {} /\ ended = {}
  /\ root = [p \in Pair |-> None]
  /\ stored = None
  /\ out = Tab
  /\ leaving = [t \in Tab |-> None]
  /\ at = [r \in Request |-> "new"]
  /\ promise = [t \in Tab |-> None]
  /\ call = [r \in Request |-> "none"]
  /\ spent = [r \in Request |-> None]
  /\ heard = {} /\ left = {}
  /\ lost = 0

-----------------------------------------------------------------------------
(* The server.                                                             *)

\* issueTokens(): the row of the new pair.
Issue(p, l) ==
  /\ live' = live \cup {p}
  /\ root' = [root EXCEPT ![p] = l]

\* A mistake the checks exclude: the old row is left to the end.
RotateLater(r) ==
  /\ call[r] = "posted"
  /\ call' = [call EXCEPT ![r] = IF spent[r] \in live THEN "signing" ELSE "rejected"]
  /\ UNCHANGED <<rowVars, stored, tabVars, at, spent, heard, left, lost>>

\* refresh(): the row is looked up and deleted without giving way.
Rotate(r) ==
  /\ call[r] = "posted"
  /\ call' = [call EXCEPT ![r] = IF spent[r] \in live THEN "signing" ELSE "rejected"]
  /\ live' = live \ {spent[r]}
  /\ UNCHANGED <<ended, root, stored, tabVars, at, spent, heard, left, lost>>

\* The new pair is signed, its row inserted and the answer sent.
Answer(r) ==
  /\ call[r] = "signing"
  /\ Issue(r, root[spent[r]])
  /\ call' = [call EXCEPT ![r] = "answered"]
  /\ UNCHANGED <<ended, stored, tabVars, at, spent, heard, left, lost>>

\* The row of a pair expires.
RowExpires(p) ==
  /\ p \in live
  /\ live' = live \ {p}
  /\ ended' = ended \cup {p}
  /\ UNCHANGED <<root, stored, tabVars, at, callVars, lost>>

-----------------------------------------------------------------------------
(* A tab and its requests.                                                 *)

\* login() of the store, at the login page.
SignIn(t, l) ==
  /\ t \in out /\ root[l] = None
  /\ Issue(l, l)
  /\ stored' = l
  /\ out' = out \ {t}
  /\ UNCHANGED <<ended, leaving, promise, at, callVars, lost>>

\* refreshMe() as the page loads: the tokens of the storage are taken over.
Resume(t) ==
  /\ t \in out /\ stored # None
  /\ out' = out \ {t}
  /\ UNCHANGED <<rowVars, stored, leaving, promise, at, callVars, lost>>

\* refreshMe() fails, for whatever reason: the tokens are dropped.
ResumeFails(t) ==
  /\ t \in out /\ stored # None
  /\ lost < MaxLost
  /\ lost' = lost + 1
  /\ stored' = None
  /\ UNCHANGED <<rowVars, tabVars, at, callVars>>

\* The page of a tab goes: what it had under way is gone, what the server does
\* for it is not.
PageGoes(t) ==
  /\ out' = out \cup {t}
  /\ at' = [r \in Request |-> IF r \in Of(t) /\ at[r] # "new" THEN "over" ELSE at[r]]
  /\ promise' = [promise EXCEPT ![t] = None]
  /\ heard' = heard \ Of(t)

\* The tokens are dropped and the page is loaded again, at the login.
Redirect(t) == stored' = None /\ PageGoes(t)

\* The user reloads or closes the page: nothing catches that, the tokens stay.
\* A logout under way may still be carried out, as RowExpires.
Leave(t) ==
  /\ t \notin out
  /\ lost < MaxLost
  /\ lost' = lost + 1
  /\ PageGoes(t)
  /\ leaving' = [leaving EXCEPT ![t] = None]
  /\ left' = left \cup (heard \cap Of(t))
  /\ UNCHANGED <<rowVars, stored, call, spent>>

\* A request goes out.
Send(r) ==
  /\ at[r] = "new" /\ Owner[r] \notin out
  /\ at' = [at EXCEPT ![r] = "sent"]
  /\ UNCHANGED <<rowVars, stored, tabVars, callVars, lost>>

\* It is answered.  Whether its access token has expired is a choice.
Done(r) ==
  /\ at[r] = "sent"
  /\ at' = [at EXCEPT ![r] = "over"]
  /\ UNCHANGED <<rowVars, stored, tabVars, callVars, lost>>

\* A mistake the checks exclude: every 401 posts a refresh of its own.
RefusedAlone(r) ==
  /\ at[r] = "sent"
  /\ IF stored = None
     THEN Redirect(Owner[r]) /\ UNCHANGED <<call, spent>>
     ELSE /\ at' = [at EXCEPT ![r] = "waiting"]
          /\ promise' = [promise EXCEPT ![Owner[r]] = r]
          /\ call' = [call EXCEPT ![r] = "posted"]
          /\ spent' = [spent EXCEPT ![r] = stored]
          /\ heard' = heard \cup {r}
          /\ UNCHANGED <<stored, out>>
  /\ UNCHANGED <<rowVars, leaving, left, lost>>

\* 401: the request waits for the refresh under way in its tab, or starts it.
Refused(r) ==
  /\ at[r] = "sent"
  /\ \/ /\ promise[Owner[r]] # None
        /\ at' = [at EXCEPT ![r] = "waiting"]
        /\ UNCHANGED <<stored, out, promise, callVars>>
     \/ /\ promise[Owner[r]] = None /\ stored # None
        /\ at' = [at EXCEPT ![r] = "waiting"]
        /\ promise' = [promise EXCEPT ![Owner[r]] = r]
        /\ call' = [call EXCEPT ![r] = "posted"]
        /\ spent' = [spent EXCEPT ![r] = stored]
        /\ heard' = heard \cup {r}
        /\ UNCHANGED <<stored, out>>
     \/ /\ promise[Owner[r]] = None /\ stored = None
        /\ Redirect(Owner[r])
        /\ UNCHANGED <<call, spent>>
  /\ UNCHANGED <<rowVars, leaving, left, lost>>

\* A mistake the checks exclude: only the request that asked is sent again.
RetryOwn(r) == at' = [at EXCEPT ![r] = "over"]

\* The requests of the tab of r that wait go out again with the new tokens;
\* their second answer is the last, whatever it is.
Retry(r) ==
  at' = [q \in Request |->
           IF q \in Of(Owner[r]) /\ at[q] = "waiting" THEN "over" ELSE at[q]]

\* A mistake the checks exclude: the promise stays when it has settled.
SettleKeepsPromise(r) ==
  /\ r \in heard /\ call[r] = "answered"
  /\ stored' = r
  /\ Retry(r)
  /\ call' = [call EXCEPT ![r] = "over"]
  /\ heard' = heard \ {r}
  /\ UNCHANGED <<rowVars, tabVars, spent, left, lost>>

\* A mistake the checks exclude: the new tokens are used but not stored.
SettleWithoutStoring(r) ==
  /\ r \in heard /\ call[r] = "answered"
  /\ Retry(r)
  /\ call' = [call EXCEPT ![r] = "over"]
  /\ heard' = heard \ {r}
  /\ promise' = [promise EXCEPT ![Owner[r]] = None]
  /\ UNCHANGED <<rowVars, stored, out, leaving, spent, left, lost>>

\* The new tokens arrive.
Settle(r) ==
  /\ r \in heard /\ call[r] = "answered"
  /\ stored' = r
  /\ Retry(r)
  /\ call' = [call EXCEPT ![r] = "over"]
  /\ heard' = heard \ {r}
  /\ promise' = [promise EXCEPT ![Owner[r]] = None]
  /\ UNCHANGED <<rowVars, out, leaving, spent, left, lost>>

\* The refresh is rejected: every request waiting for it fails.
Rejected(r) ==
  /\ r \in heard /\ call[r] = "rejected"
  /\ Redirect(Owner[r])
  /\ call' = [call EXCEPT ![r] = "over"]
  /\ UNCHANGED <<rowVars, leaving, spent, left, lost>>

\* The connection fails before the answer arrives; the server goes on.
AnswerLost(r) ==
  /\ r \in heard
  /\ lost < MaxLost
  /\ lost' = lost + 1
  /\ Redirect(Owner[r])
  /\ UNCHANGED <<rowVars, leaving, call, spent, left>>

-----------------------------------------------------------------------------
(* logout() of the store.                                                  *)

\* Without tokens nothing is posted.
SignOut(t) ==
  /\ t \notin out /\ leaving[t] = None
  /\ IF stored # None
     THEN leaving' = [leaving EXCEPT ![t] = stored] /\ UNCHANGED out
     ELSE out' = out \cup {t} /\ UNCHANGED leaving
  /\ UNCHANGED <<rowVars, stored, promise, at, callVars, lost>>

Revoke(t) ==
  /\ leaving[t] # None
  /\ live' = live \ {leaving[t]}
  /\ ended' = ended \cup {leaving[t]}
  /\ UNCHANGED <<root, stored, tabVars, at, callVars, lost>>

\* The answer is awaited, an error ignored.
SignedOut(t) ==
  /\ leaving[t] # None
  /\ stored' = None
  /\ out' = out \cup {t}
  /\ leaving' = [leaving EXCEPT ![t] = None]
  /\ UNCHANGED <<rowVars, promise, at, callVars, lost>>

ServerStep(r) == Rotate(r) \/ Answer(r)
RequestStep(r) == Done(r) \/ Refused(r) \/ Settle(r) \/ Rejected(r)

Next ==
  \/ \E r \in Request : ServerStep(r) \/ RequestStep(r) \/ Send(r) \/ AnswerLost(r)
  \/ \E p \in Pair : RowExpires(p)
  \/ \E t \in Tab, l \in Login : SignIn(t, l)
  \/ \E t \in Tab :
       Resume(t) \/ ResumeFails(t) \/ SignOut(t) \/ Revoke(t) \/ SignedOut(t) \/ Leave(t)

Spec == Init /\ [][Next]_vars

-----------------------------------------------------------------------------
(* Properties.                                                             *)

\* The pairs worth a new one: those with a row, and those whose row a refresh
\* has deleted and whose successor it has not inserted yet.
Heir == live \cup {spent[r] : r \in {q \in Request : call[q] = "signing"}}

\* Of all pairs that descend from one login at most one can be refreshed, at
\* any moment, however many tabs and requests present an old one (refresh 86-112).
OneLivePerLogin == \A p, q \in Heir : root[p] = root[q] => p = q

\* The server hands each login on from pair to pair as LoginChains tells it: the
\* two halves of a refresh, deletion and insert, are one renewal, whatever other
\* refreshes, expiries and logouts come between them; no pair is worth anything
\* twice, and no login comes back once its last pair is gone (86-123).
Holder == [l \in Login |-> {p \in Heir : root[p] = l}]
Issued == {p \in Pair : root[p] # None}

Chains == INSTANCE LoginChains WITH holder <- Holder, issued <- Issued

ImplementsChains == Chains!Spec

\* The tabs never keep a pair the server has forgotten, unless it ran out, was
\* logged out of, its successor is on the way, or a page was reloaded or closed
\* while its refresh with the pair was under way (refresh 37-53, interceptor 74-82).
StoredIsKnown ==
  stored # None =>
    \/ stored \in live \cup ended
    \/ \E r \in heard : spent[r] = stored /\ call[r] \in {"signing", "answered"}
    \/ \E r \in left : spent[r] = stored

\* A refresh is rejected only when the pair ran out, was logged out of, another
\* tab has presented it, or a page of the same tab has and was then reloaded: the
\* requests of one page never compete (refreshPromise 35-53).
RejectedForCause ==
  \A r \in heard : call[r] = "rejected" =>
    \/ spent[r] \in ended
    \/ \E q \in Request : spent[q] = spent[r] /\ (Owner[q] # Owner[r] \/ q \in left)

\* A request that waits has a refresh of its tab to wake it: none is left
\* behind by an answer, a rejection or a reload (interceptor 63-89).
WaitersAreWoken ==
  \A r \in Request : at[r] = "waiting" =>
    /\ promise[Owner[r]] # None
    /\ call[promise[Owner[r]]] \in {"posted", "signing", "answered", "rejected"}
=============================================================================
