------------------------- MODULE DbInstancesProofs -------------------------
(***************************************************************************)
(* Rows and containers of DbInstances agree, for every number of calls,    *)
(* names and deaths.                                                       *)
(***************************************************************************)
EXTENDS DbInstances, TLAPS

\* Types: the steps of create().
LEMMA CreateStepTypes ==
  ASSUME TypeOK, NEW o \in Create, CreateStep(o)
  PROVE  TypeOK'
<1> USE ConstantsAssumption DEF TypeOK, Call, Recreate, Removal, Power, Kind, Ended, Busy,
       BoxState, RowStatus, Goto, callVars, rowVars, boxVars, dirVars, scanVars
<1>1. ASSUME NEW n \in Name, CreateBegin(o, n) PROVE TypeOK'
  BY <1>1 DEF CreateBegin
<1>2. CASE MakeDir(o)
  BY <1>2 DEF MakeDir
<1>3. CASE ImageFails(o)
  BY <1>3 DEF ImageFails
<1>4. CASE Insert(o)
  BY <1>4 DEF Insert
<1>5. CASE InsertFails(o)
  BY <1>5 DEF InsertFails
<1>6. CASE Undo(o)
  BY <1>6 DEF Undo, DropBox
<1>7. CASE UndoFails(o)
  BY <1>7 DEF UndoFails
<1> QED
  BY <1>1, <1>2, <1>3, <1>4, <1>5, <1>6, <1>7 DEF CreateStep

\* Types: the steps create() shares with patch() and rotatePassword(), and the wipe.
LEMMA BoxStepTypes ==
  ASSUME TypeOK, NEW o \in Call, BoxStep(o)
  PROVE  TypeOK'
<1> USE ConstantsAssumption DEF TypeOK, Call, Recreate, Removal, Power, Kind, Ended, Busy,
       BoxState, RowStatus, Goto, callVars, rowVars, boxVars, dirVars, scanVars
<1>1. CASE MakeBox(o)
  BY <1>1 DEF MakeBox, NewBox
<1>2. CASE MakeFails(o)
  BY <1>2 DEF MakeFails
<1>3. CASE StartBox(o)
  BY <1>3 DEF StartBox, RunBox
<1>4. CASE StartFails(o)
  BY <1>4 DEF StartFails
<1>5. CASE Wipe(o)
  BY <1>5 DEF Wipe
<1> QED
  BY <1>1, <1>2, <1>3, <1>4, <1>5 DEF BoxStep

\* Types: the calls on an existing instance, and reconcile().
LEMMA OpStepTypes ==
  ASSUME TypeOK, NEW o \in Op, OpStep(o)
  PROVE  TypeOK'
<1> USE ConstantsAssumption DEF TypeOK, Call, Recreate, Removal, Power, Kind, Ended, Busy,
       BoxState, RowStatus, Goto, callVars, rowVars, boxVars, dirVars, scanVars
<1>1. ASSUME NEW c \in Create, NEW k \in Recreate \cup Removal \cup Power,
             OpBegin(o, c, k)
      PROVE  TypeOK'
  BY <1>1 DEF OpBegin, FirstStop
<1>2. CASE Clear(o)
  BY <1>2 DEF Clear, DropBox
<1>3. CASE Save(o)
  BY <1>3, SMTT(60) DEF Save
<1>4. CASE Ask(o)
  BY <1>4, SMTT(60) DEF Ask, RunBox
<1>5. CASE Mark(o)
  BY <1>5 DEF Mark
<1>6. CASE Unbox(o)
  BY <1>6, SMTT(60) DEF Unbox, DropBox
<1>7. CASE Unrow(o)
  BY <1>7 DEF Unrow
<1>8. CASE ReconcileBegin(o)
  BY <1>8 DEF ReconcileBegin
<1>9. CASE ReconcileList(o)
  BY <1>9 DEF ReconcileList
<1>10. CASE ReconcileApply(o)
  BY <1>10 DEF ReconcileApply, StatusOf, NoBoxes
<1> QED
  BY <1>1, <1>2, <1>3, <1>4, <1>5, <1>6, <1>7, <1>8, <1>9, <1>10 DEF OpStep

\* A call that makes no container, and at most takes some away, leaves the others
\* their maker's.
LEMMA BoxFrame ==
  ASSUME TypeOK, BoxInv, NEW o \in Call, TypeOK',
         pc[o] \notin {"made", "started", "undo", "done", "cut", "leak"},
         \A m \in Call \ {o} : pc'[m] = pc[m],
         \A n \in Name : HasBox(n)' => maker'[n] = maker[n],
         UNCHANGED <<boxPw, name, secret, kind, row>>
  PROVE  BoxInv'
<1> SUFFICES ASSUME NEW n \in Name, HasBox(n)'
             PROVE  LET m == maker'[n] IN
                    /\ name'[m] = n
                    /\ boxPw'[n] = secret'[m]
                    /\ pc'[m] \in {"made", "started", "undo", "done", "cut", "leak"}
                    /\ kind'[m] \in Recreate \/ m \in Create
                    /\ m \in Create /\ pc'[m] = "done" => row'[m] = "live"
  BY DEF BoxInv
<1>1. maker'[n] = maker[n] /\ maker[n] \in Call \ {o}
  BY DEF HasBox, BoxInv, TypeOK
<1> QED
  BY <1>1 DEF BoxInv, HasBox

\* The steps of create().
LEMMA CreateStepInvariance ==
  ASSUME IInv, NEW o \in Create, CreateStep(o)
  PROVE  IInv'
<1> USE ConstantsAssumption DEF IInv, TypeOK, CallInv, BoxInv, RemovalInv, MakerInv,
       Call, Recreate, Removal, Power, Kind, Ended, Busy, BoxState, RowStatus,
       HasBox, Meddled, NameTaken, Goto, callVars, rowVars, boxVars, dirVars, scanVars
<1>0. TypeOK'
  BY CreateStepTypes
<1>1. ASSUME NEW n \in Name, CreateBegin(o, n) PROVE IInv'
  BY <1>0, <1>1 DEF CreateBegin
<1>2. CASE MakeDir(o)
  BY <1>0, <1>2 DEF MakeDir
<1>3. CASE ImageFails(o)
  <2>1. BoxInv'
    <3>1. /\ pc[o] \notin {"made", "started", "undo", "done", "cut", "leak"}
          /\ \A m \in Call \ {o} : pc'[m] = pc[m]
          /\ \A n \in Name : HasBox(n)' => maker'[n] = maker[n]
          /\ UNCHANGED <<boxPw, name, secret, kind, row>>
      BY <1>0, <1>3 DEF ImageFails
    <3> HIDE DEF TypeOK, BoxInv
    <3> QED
      BY <1>0, <3>1, BoxFrame DEF IInv
  <2>2. CallInv' /\ RemovalInv'
    BY <1>0, <1>3 DEF ImageFails
  <2>3. MakerInv'
    BY <1>0, <1>3 DEF ImageFails
  <2> QED
    BY <1>0, <2>1, <2>2, <2>3
<1>4. CASE Insert(o)
  BY <1>0, <1>4 DEF Insert
<1>5. CASE InsertFails(o)
  BY <1>0, <1>5 DEF InsertFails
<1>6. CASE Undo(o)
  BY <1>0, <1>6, SMTT(60) DEF Undo, DropBox
<1>7. CASE UndoFails(o)
  BY <1>0, <1>7 DEF UndoFails
<1> QED
  BY <1>1, <1>2, <1>3, <1>4, <1>5, <1>6, <1>7 DEF CreateStep

\* The steps create() shares with patch() and rotatePassword(), and the wipe.
LEMMA BoxStepInvariance ==
  ASSUME IInv, NEW o \in Call, BoxStep(o)
  PROVE  IInv'
<1> USE ConstantsAssumption DEF IInv, TypeOK, CallInv, BoxInv, RemovalInv, MakerInv,
       Call, Recreate, Removal, Power, Kind, Ended, Busy, BoxState, RowStatus,
       HasBox, Meddled, NameTaken, Goto, callVars, rowVars, boxVars, dirVars, scanVars
<1>0. TypeOK'
  BY BoxStepTypes
<1>1. CASE MakeBox(o)
  BY <1>0, <1>1 DEF MakeBox, NewBox
<1>2. CASE MakeFails(o)
  BY <1>0, <1>2 DEF MakeFails
<1>3. CASE StartBox(o)
  BY <1>0, <1>3 DEF StartBox, RunBox
<1>4. CASE StartFails(o)
  BY <1>0, <1>4 DEF StartFails
<1>5. CASE Wipe(o)
  BY <1>0, <1>5 DEF Wipe
<1> QED
  BY <1>1, <1>2, <1>3, <1>4, <1>5 DEF BoxStep

\* The calls on an existing instance, and reconcile().
LEMMA OpStepInvariance ==
  ASSUME IInv, NEW o \in Op, OpStep(o)
  PROVE  IInv'
<1> USE ConstantsAssumption DEF IInv, TypeOK, CallInv, BoxInv, RemovalInv, MakerInv,
       Call, Recreate, Removal, Power, Kind, Ended, Busy, BoxState, RowStatus,
       HasBox, Meddled, NameTaken, Goto, callVars, rowVars, boxVars, dirVars, scanVars
<1>0. TypeOK'
  BY OpStepTypes
<1>1. ASSUME NEW c \in Create, NEW k \in Recreate \cup Removal \cup Power,
             OpBegin(o, c, k)
      PROVE  IInv'
  <2>1. CallInv' /\ RemovalInv'
    BY <1>0, <1>1 DEF OpBegin, FirstStop
  <2>2. BoxInv'
    BY <1>0, <1>1, SMTT(60) DEF OpBegin, FirstStop
  <2>3. MakerInv'
    <3>1. \A n \in Name : Meddled(n) => Meddled(n)'
      BY <1>1 DEF OpBegin
    <3>2. /\ UNCHANGED <<maker, row, pw>>
          /\ \A d \in Create : pc'[d] = pc[d] /\ name'[d] = name[d]
      BY <1>1 DEF OpBegin
    <3>3. ASSUME NEW d \in Create
          PROVE  /\ pc'[d] \in {"made", "started"} /\ ~Meddled(name[d])' =>
                      maker'[name'[d]] = d
                 /\ row'[d] = "live" /\ ~Meddled(name[d])' =>
                      maker'[name'[d]] = d /\ pw'[d] = d
      <4> HIDE DEF Meddled
      <4> QED
        BY <3>1, <3>2
    <3> QED
      BY <3>3
  <2> QED
    BY <1>0, <2>1, <2>2, <2>3
<1>2. CASE Clear(o)
  <2>1. BoxInv'
    <3>1. /\ pc[o] \notin {"made", "started", "undo", "done", "cut", "leak"}
          /\ \A m \in Call \ {o} : pc'[m] = pc[m]
          /\ \A n \in Name : HasBox(n)' => maker'[n] = maker[n]
          /\ UNCHANGED <<boxPw, name, secret, kind, row>>
      BY <1>0, <1>2 DEF Clear, DropBox
    <3> HIDE DEF TypeOK, BoxInv
    <3> QED
      BY <1>0, <3>1, BoxFrame DEF IInv
  <2>2. CallInv' /\ RemovalInv'
    BY <1>0, <1>2 DEF Clear, DropBox
  <2>3. MakerInv'
    BY <1>0, <1>2 DEF Clear, DropBox
  <2> QED
    BY <1>0, <2>1, <2>2, <2>3
<1>3. CASE Save(o)
  BY <1>0, <1>3 DEF Save
<1>4. CASE Ask(o)
  <2>1. BoxInv'
    <3>1. /\ pc[o] \notin {"made", "started", "undo", "done", "cut", "leak"}
          /\ \A m \in Call \ {o} : pc'[m] = pc[m]
          /\ \A n \in Name : HasBox(n)' => maker'[n] = maker[n]
          /\ UNCHANGED <<boxPw, name, secret, kind, row>>
      BY <1>0, <1>4 DEF Ask, RunBox
    <3> HIDE DEF TypeOK, BoxInv
    <3> QED
      BY <1>0, <3>1, BoxFrame DEF IInv
  <2>2. CallInv' /\ RemovalInv'
    BY <1>0, <1>4 DEF Ask, RunBox
  <2>3. MakerInv'
    BY <1>0, <1>4 DEF Ask, RunBox
  <2> QED
    BY <1>0, <2>1, <2>2, <2>3
<1>5. CASE Mark(o)
  BY <1>0, <1>5 DEF Mark
<1>6. CASE Unbox(o)
  <2>1. BoxInv'
    <3>1. /\ pc[o] \notin {"made", "started", "undo", "done", "cut", "leak"}
          /\ \A m \in Call \ {o} : pc'[m] = pc[m]
          /\ \A n \in Name : HasBox(n)' => maker'[n] = maker[n]
          /\ UNCHANGED <<boxPw, name, secret, kind, row>>
      BY <1>0, <1>6 DEF Unbox, DropBox
    <3> HIDE DEF TypeOK, BoxInv
    <3> QED
      BY <1>0, <3>1, BoxFrame DEF IInv
  <2>2. CallInv' /\ RemovalInv'
    BY <1>0, <1>6, SMTT(60) DEF Unbox, DropBox
  <2>3. MakerInv'
    BY <1>0, <1>6 DEF Unbox, DropBox
  <2> QED
    BY <1>0, <2>1, <2>2, <2>3
<1>7. CASE Unrow(o)
  BY <1>0, <1>7 DEF Unrow
<1>8. CASE ReconcileBegin(o)
  BY <1>0, <1>8 DEF ReconcileBegin
<1>9. CASE ReconcileList(o)
  BY <1>0, <1>9 DEF ReconcileList
<1>10. CASE ReconcileApply(o)
  BY <1>0, <1>10 DEF ReconcileApply, StatusOf, NoBoxes
<1> QED
  BY <1>1, <1>2, <1>3, <1>4, <1>5, <1>6, <1>7, <1>8, <1>9, <1>10 DEF OpStep

\* IInv holds in every reachable state.
LEMMA InductiveInvariance == Spec => []IInv
<1> USE ConstantsAssumption DEF IInv, TypeOK, CallInv, BoxInv, RemovalInv, MakerInv,
       Call, Recreate, Removal, Power, Kind, Ended, Busy, BoxState, RowStatus,
       HasBox, Meddled, NameTaken, Goto, callVars, rowVars, boxVars, dirVars,
       scanVars
<1>1. Init => IInv
  <2>1. AnyCall \in Create /\ AnyName \in Name
    BY DEF AnyCall, AnyName
  <2> QED
    BY <2>1 DEF Init, NoBoxes
<1>2. IInv /\ [Next]_vars => IInv'
  <2> SUFFICES ASSUME IInv, [Next]_vars PROVE IInv'
    OBVIOUS
  <2>1. CASE \E o \in Create : CreateStep(o)
    BY <2>1, CreateStepInvariance
  <2>2. CASE \E o \in Op : OpStep(o)
    BY <2>2, OpStepInvariance
  <2>3. CASE \E o \in Call : BoxStep(o)
    BY <2>3, BoxStepInvariance
  <2>4. ASSUME NEW n \in Name, BoxExits(n) PROVE IInv'
    BY <2>4 DEF BoxExits
  <2>5. CASE Crash
    BY <2>5 DEF Crash, NoBoxes
  <2>6. CASE UNCHANGED vars
    BY <2>6 DEF vars
  <2> QED
    BY <2>1, <2>2, <2>3, <2>4, <2>5, <2>6 DEF Next
<1> QED
  BY <1>1, <1>2, PTL DEF Spec

\* A failing create never harms the container of another (create 161-171, 200-205).
THEOREM RowKeepsContainerHolds == Spec => []RowKeepsContainer
<1>1. IInv => RowKeepsContainer
  BY ConstantsAssumption DEF IInv, TypeOK, CallInv, BoxInv, MakerInv, RowKeepsContainer,
     HasBox, Call
<1> QED
  BY <1>1, InductiveInvariance, PTL

\* A container has a row or a call that answers for it, but for the orphans of
\* reconcile() (remove 283-298).
THEOREM NoStrayContainerHolds == Spec => []NoStrayContainer
<1>1. IInv => NoStrayContainer
  BY ConstantsAssumption DEF IInv, TypeOK, CallInv, BoxInv, NoStrayContainer, HasBox,
     NameTaken, Call, Busy, Ended, Recreate, Removal, Kind
<1> QED
  BY <1>1, InductiveInvariance, PTL

\* The state of the instances, their rows, containers and calls (db-instances.service.ts) keeps its
\* shape.
THEOREM TypeInvariance == Spec => []TypeOK
<1>1. IInv => TypeOK
  BY DEF IInv
<1> QED
  BY <1>1, InductiveInvariance, PTL
============================================================================
