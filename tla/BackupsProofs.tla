--------------------------- MODULE BackupsProofs ---------------------------
(***************************************************************************)
(* For every number of backups, requests, instances, failed unlinks and    *)
(* deaths: rows and files agree, and retention drops only what it may and  *)
(* trims its group.  Creates may compute one file name or not.             *)
(***************************************************************************)
EXTENDS Backups, FiniteSetTheorems, TLAPS

\* The variables keep their types.
LEMMA TypeStep == TypeOK /\ [Next]_vars => TypeOK'
<1> SUFFICES ASSUME TypeOK, [Next]_vars PROVE TypeOK'
  OBVIOUS
<1> USE ConstantsAssumption DEF TypeOK, Phase, Status, InRow, createVars, pruneVars,
       Unlink, UnlinkRow
<1>1. ASSUME NEW b \in Backup, NEW q \in Request, NEW f \in File, Create(b, q, f)
      PROVE  TypeOK'
  BY <1>1 DEF Create
<1>2. ASSUME NEW b \in Backup, Open(b) PROVE TypeOK'
  BY <1>2 DEF Open
<1>3. ASSUME NEW b \in Backup, Insert(b) PROVE TypeOK'
  BY <1>3 DEF Insert
<1>4. ASSUME NEW b \in Backup, Fail(b) PROVE TypeOK'
  BY <1>4 DEF Fail, RowAfterFail
<1>5. ASSUME NEW b \in Backup, NEW x \in Backup, PruneUnlink(b, x) PROVE TypeOK'
  BY <1>5 DEF PruneUnlink
<1>6. ASSUME NEW b \in Backup, NEW x \in Backup, PruneDelete(b, x) PROVE TypeOK'
  BY <1>6 DEF PruneDelete
<1>7. ASSUME NEW x \in Backup, DeleteUnlink(x) PROVE TypeOK'
  BY <1>7 DEF DeleteUnlink
<1>8. ASSUME NEW x \in Backup, DeleteRow(x) PROVE TypeOK'
  BY <1>8 DEF DeleteRow
<1>9. ASSUME NEW x \in Backup, Restore(x) \/ RestoreOpen(x) PROVE TypeOK'
  BY <1>9 DEF Restore, RestoreOpen
<1>10. ASSUME NEW i \in Instance, RemoveInstance(i) PROVE TypeOK'
  BY <1>10 DEF RemoveInstance
<1>11. CASE Die
  BY <1>11 DEF Die
<1>12. CASE UNCHANGED vars
  BY <1>12 DEF vars
<1> QED
  BY <1>1, <1>2, <1>3, <1>4, <1>5, <1>6, <1>7, <1>8, <1>9, <1>10, <1>11, <1>12
     DEF Next, CreateStep, RowStep, RestoreFault, Crash

-----------------------------------------------------------------------------
(* Rows and files.                                                           *)

\* What an insert leaves to its prune are rows that have been inserted.
LEMMA InsertSurplus ==
  ASSUME TypeOK, NEW b \in Backup, Insert(b), surplus' # surplus
  PROVE  surplus'[b] \subseteq {x \in Backup : row'[x] # "none"}
<1>1. PICK S \in SUBSET Backup :
        /\ Surplus(b, row', created', S)
        /\ surplus' = [surplus EXCEPT ![b] = S]
  BY DEF Insert
<1>2. S \subseteq GroupRows(b, row')
  BY <1>1 DEF Surplus
<1>3. GroupRows(b, row') \subseteq {x \in Backup : row'[x] # "none"}
  BY DEF GroupRows
<1> QED
  BY <1>1, <1>2, <1>3 DEF TypeOK

\* Every step keeps the invariant on rows and files.
LEMMA FileStep ==
  ASSUME IInv, [Next]_vars
  PROVE  IInv'
<1> USE ConstantsAssumption DEF IInv, TypeOK, PathInv, FileInv, DropInv, OwnFileInv,
       RowHasFile, Shared, Phase, Status, InRow, createVars, pruneVars
<1>t. TypeOK'
  BY TypeStep
<1>1. ASSUME NEW b \in Backup, NEW q \in Request, NEW f \in File, Create(b, q, f) PROVE IInv'
  <2>1. PathInv'
    BY <1>1 DEF Create
  <2>2. FileInv'
    BY <1>1 DEF Create
  <2>3. DropInv'
    BY <1>1 DEF Create
  <2>4. OwnFileInv'
    BY <1>1 DEF Create
  <2>5. RowHasFile'
    BY <1>1 DEF Create
  <2> QED
    BY <1>t, <2>1, <2>2, <2>3, <2>4, <2>5 DEF IInv
<1>2. ASSUME NEW b \in Backup, Open(b) PROVE IInv'
  <2>1. PathInv'
    BY <1>2 DEF Open
  <2>2. FileInv'
    BY <1>2 DEF Open
  <2>3. DropInv'
    BY <1>2 DEF Open
  <2>4. OwnFileInv'
    BY <1>2 DEF Open
  <2>5. RowHasFile'
    BY <1>2 DEF Open
  <2> QED
    BY <1>t, <2>1, <2>2, <2>3, <2>4, <2>5 DEF IInv
<1>3. ASSUME NEW b \in Backup, Fail(b) PROVE IInv'
  <2>1. PathInv'
    BY <1>3 DEF Fail, RowAfterFail, Unlink
  <2>2. FileInv'
    BY <1>3 DEF Fail, RowAfterFail, Unlink
  <2>3. DropInv'
    BY <1>3 DEF Fail, RowAfterFail, Unlink
  <2>4. OwnFileInv'
    BY <1>3 DEF Fail, RowAfterFail, Unlink
  <2>5. RowHasFile'
    BY <1>3 DEF Fail, RowAfterFail, Unlink
  <2> QED
    BY <1>t, <2>1, <2>2, <2>3, <2>4, <2>5 DEF IInv
<1>4. ASSUME NEW b \in Backup, NEW x \in Backup, PruneUnlink(b, x) PROVE IInv'
  <2>1. PathInv'
    BY <1>4 DEF PruneUnlink, UnlinkRow, Unlink
  <2>2. FileInv'
    BY <1>4 DEF PruneUnlink, UnlinkRow, Unlink
  <2>3. DropInv'
    BY <1>4 DEF PruneUnlink, UnlinkRow, Unlink
  <2>4. OwnFileInv'
    BY <1>4 DEF PruneUnlink, UnlinkRow, Unlink
  <2>5. RowHasFile'
    BY <1>4 DEF PruneUnlink, UnlinkRow, Unlink
  <2> QED
    BY <1>t, <2>1, <2>2, <2>3, <2>4, <2>5 DEF IInv
<1>5. ASSUME NEW b \in Backup, NEW x \in Backup, PruneDelete(b, x) PROVE IInv'
  <2>1. PathInv'
    BY <1>5 DEF PruneDelete
  <2>2. FileInv'
    BY <1>5 DEF PruneDelete
  <2>3. DropInv'
    BY <1>5 DEF PruneDelete
  <2>4. OwnFileInv'
    BY <1>5 DEF PruneDelete
  <2>5. RowHasFile'
    BY <1>5 DEF PruneDelete
  <2> QED
    BY <1>t, <2>1, <2>2, <2>3, <2>4, <2>5 DEF IInv
<1>6. ASSUME NEW x \in Backup, DeleteUnlink(x) PROVE IInv'
  <2>1. PathInv'
    BY <1>6 DEF DeleteUnlink, UnlinkRow, Unlink
  <2>2. FileInv'
    BY <1>6 DEF DeleteUnlink, UnlinkRow, Unlink
  <2>3. DropInv'
    BY <1>6 DEF DeleteUnlink, UnlinkRow, Unlink
  <2>4. OwnFileInv'
    BY <1>6 DEF DeleteUnlink, UnlinkRow, Unlink
  <2>5. RowHasFile'
    BY <1>6 DEF DeleteUnlink, UnlinkRow, Unlink
  <2> QED
    BY <1>t, <2>1, <2>2, <2>3, <2>4, <2>5 DEF IInv
<1>7. ASSUME NEW x \in Backup, DeleteRow(x) PROVE IInv'
  <2>1. PathInv'
    BY <1>7 DEF DeleteRow
  <2>2. FileInv'
    BY <1>7 DEF DeleteRow
  <2>3. DropInv'
    BY <1>7 DEF DeleteRow
  <2>4. OwnFileInv'
    BY <1>7 DEF DeleteRow
  <2>5. RowHasFile'
    BY <1>7 DEF DeleteRow
  <2> QED
    BY <1>t, <2>1, <2>2, <2>3, <2>4, <2>5 DEF IInv
<1>8. ASSUME NEW i \in Instance, RemoveInstance(i) PROVE IInv'
  <2>1. PathInv'
    BY <1>8 DEF RemoveInstance
  <2>2. FileInv'
    BY <1>8 DEF RemoveInstance
  <2>3. DropInv'
    BY <1>8 DEF RemoveInstance
  <2>4. OwnFileInv'
    BY <1>8 DEF RemoveInstance
  <2>5. RowHasFile'
    BY <1>8 DEF RemoveInstance
  <2> QED
    BY <1>t, <2>1, <2>2, <2>3, <2>4, <2>5 DEF IInv
<1>9. CASE Die
  <2>1. PathInv'
    BY <1>9 DEF Die
  <2>2. FileInv'
    BY <1>9 DEF Die
  <2>3. DropInv'
    BY <1>9 DEF Die
  <2>4. OwnFileInv'
    BY <1>9 DEF Die
  <2>5. RowHasFile'
    BY <1>9 DEF Die
  <2> QED
    BY <1>t, <2>1, <2>2, <2>3, <2>4, <2>5 DEF IInv
<1>10. ASSUME NEW b \in Backup, Insert(b) PROVE IInv'
  <2>1. PathInv'
    BY <1>10 DEF Insert
  <2>2. FileInv'
    BY <1>10 DEF Insert
  <2>3. DropInv'
    <3>1. \A a \in Backup : surplus'[a] \subseteq {x \in Backup : row'[x] # "none"}
      <4>1. CASE surplus' = surplus
        BY <1>10, <4>1 DEF Insert
      <4>2. CASE surplus' # surplus
        <5>1. surplus'[b] \subseteq {x \in Backup : row'[x] # "none"}
          BY <1>10, <4>2, InsertSurplus
        <5>2. \A a \in Backup \ {b} : surplus'[a] = surplus[a]
          BY <1>10, <4>2 DEF Insert
        <5> QED
          BY <1>10, <5>1, <5>2 DEF Insert
      <4> QED
        BY <4>1, <4>2
    <3>2. writers' = writers /\ victim' = victim /\ deleting' = deleting /\ stuck' = stuck
      BY <1>10 DEF Insert
    <3> QED
      BY <1>10, <3>1, <3>2 DEF Insert
  <2>4. OwnFileInv'
    BY <1>10 DEF Insert
  <2>5. RowHasFile'
    BY <1>10 DEF Insert
  <2> QED
    BY <1>t, <2>1, <2>2, <2>3, <2>4, <2>5 DEF IInv
<1>11. ASSUME NEW x \in Backup, Restore(x) \/ RestoreOpen(x) PROVE IInv'
  BY <1>11 DEF Restore, RestoreOpen
<1>12. CASE UNCHANGED vars
  BY <1>12 DEF vars
<1> QED
  BY <1>1, <1>2, <1>3, <1>4, <1>5, <1>6, <1>7, <1>8, <1>9, <1>10, <1>11, <1>12
     DEF Next, CreateStep, RowStep, RestoreFault, Crash

\* IInv holds in every reachable state, whether or not file names are shared.
LEMMA InductiveInvariance == Spec => []IInv
<1>1. Init => IInv
  BY ConstantsAssumption DEF Init, IInv, TypeOK, PathInv, FileInv, DropInv, OwnFileInv,
     RowHasFile, Phase, Status
<1> QED
  BY <1>1, FileStep, PTL DEF Spec

\* Nothing but a delete or a prune takes the file of a successful row away, and
\* no other backup's bytes get into it, unless the two computed one name
\* (create 91-185, pruneRetention 196-230).
THEOREM RowHasFileHolds == Spec => []RowHasFile
<1>1. IInv => RowHasFile
  BY DEF IInv
<1> QED
  BY <1>1, InductiveInvariance, PTL

\* Every file is named by a row or belongs to a create under way, but for the
\* files a death, the cascade of a removed instance or a failed unlink leaves
\* (create 155-180, prune 215, delete 270-278); shared names or not.
THEOREM NoOrphanFileHolds == Spec => []NoOrphanFile
<1>1. IInv => NoOrphanFile
  BY DEF IInv, FileInv, NoOrphanFile
<1> QED
  BY <1>1, InductiveInvariance, PTL

-----------------------------------------------------------------------------
(* Retention.                                                                *)

\* Actions that insert no row and give no row back keep the invariant when the
\* prunes they touch only shrink.
LEMMA RetentionFrame ==
  ASSUME TypeOK, RetentionInv, req' = req, created' = created, clock' = clock,
         \A b \in Backup :
           /\ row'[b] = "success" => row[b] = "success"
           /\ surplus'[b] \subseteq surplus[b]
           /\ phase[b] = "cut" => phase'[b] = "cut"
           /\ phase[b] = "prune" /\ surplus'[b] # {} => phase'[b] = "prune"
           /\ phase[b] \in {"prune", "done", "cut"} => phase'[b] \in {"prune", "done", "cut"}
           /\ victim'[b] # NoBackup => victim'[b] \in surplus'[b]
           /\ \A x \in surplus[b] : x \in surplus'[b] \/ row'[x] # "success" \/ phase'[b] = "cut"
  PROVE  RetentionInv'
<1> USE DEF RetentionInv
<1>1. Inserted' = Inserted
  BY DEF Inserted
<1>2. InsertedInv'
  BY <1>1 DEF InsertedInv
<1>3. ASSUME NEW x \in Backup PROVE NoOlder(x)' = NoOlder(x)
  BY DEF NoOlder
<1>4. SurplusInv'
  BY <1>1, <1>3 DEF SurplusInv, SameGroup, TypeOK
<1>5. ASSUME NEW R \in SUBSET Backup, Settled(R)' PROVE Settled(R)
  <2>1. ASSUME NEW x \in R, NEW a \in Backup, x \in surplus[a] PROVE FALSE
    <3>1. phase'[a] = "cut"
      BY <1>5, <2>1 DEF Settled
    <3>2. SameGroup(x, a)
      BY <2>1 DEF SurplusInv
    <3> QED
      BY <1>5, <3>1, <3>2 DEF Settled, SameGroup
  <2> QED
    BY <1>5, <2>1 DEF Settled, SameGroup
<1>6. TrimInv'
  BY <1>5 DEF TrimInv
<1> QED
  BY <1>2, <1>4, <1>6

\* A new create is in no group until its row is inserted.
LEMMA CreateRetention ==
  ASSUME TypeOK, RetentionInv, NEW b \in Backup, NEW q \in Request, NEW f \in File,
         Create(b, q, f)
  PROVE  RetentionInv'
<1> USE DEF RetentionInv, Create, pruneVars
<1>1. b \notin Inserted /\ surplus[b] = {} /\ row[b] # "success"
  BY DEF InsertedInv, SurplusInv
<1>2. Inserted' = Inserted
  BY DEF Inserted
<1>3. InsertedInv'
  BY <1>2 DEF InsertedInv, TypeOK
<1>4. ASSUME NEW x \in Inserted PROVE NoOlder(x)' = NoOlder(x)
  BY <1>1, <1>4 DEF NoOlder, TypeOK, Inserted
<1>5. SurplusInv'
  BY <1>1, <1>2, <1>4 DEF SurplusInv, SameGroup, TypeOK
<1>6. ASSUME NEW R \in SUBSET Backup, Settled(R)'
      PROVE  Settled(R) /\ \A a \in R : req'[a] = req[a]
  BY <1>1, <1>6 DEF Settled, SameGroup, TypeOK
<1>7. TrimInv'
  BY <1>6 DEF TrimInv
<1> QED
  BY <1>3, <1>5, <1>7

\* What is left of the group by the selection of a prune, and what is dropped.
LEMMA SurplusSpares ==
  ASSUME TypeOK, NEW status, NEW at, NEW b \in Backup, NEW S,
         IsFiniteSet(GroupRows(b, status)), Surplus(b, status, at, S)
  PROVE  /\ Cardinality(GroupRows(b, status) \ S) <= req[b].keep
         /\ S # {} => Cardinality(GroupRows(b, status) \ S) = req[b].keep
<1> DEFINE rows == GroupRows(b, status)
<1>1. req[b].keep \in Nat
  BY ConstantsAssumption DEF TypeOK
<1>2. Cardinality(rows) \in Nat
  BY FS_CardinalityType
<1>3. S \subseteq rows
  BY DEF Surplus
<1>4. Cardinality(rows \ S) = Cardinality(rows) => S = {}
  <2>1. Cardinality(rows \ S) = Cardinality(rows) => rows \ S = rows
    BY FS_Subset
  <2> QED
    BY <2>1, <1>3
<1>5. Cardinality(rows \ S) =
        IF Cardinality(rows) < req[b].keep THEN Cardinality(rows) ELSE req[b].keep
  BY DEF Surplus
<1> HIDE DEF rows
<1> QED
  BY <1>1, <1>2, <1>4, <1>5 DEF rows

\* The insert of a row, with the selection of what its prune is to drop.
LEMMA InsertRetention ==
  ASSUME TypeOK, RetentionInv, NEW b \in Backup, Insert(b), TypeOK'
  PROVE  RetentionInv'
<1> USE DEF RetentionInv
<1>1. b \notin Inserted /\ surplus[b] = {} /\ victim[b] = NoBackup
  BY DEF InsertedInv, SurplusInv, Insert
<1>2. clock' > 0
  BY DEF InsertedInv, Insert, TypeOK
<1>3. /\ created' = [created EXCEPT ![b] = clock']
      /\ row' = [row EXCEPT ![b] = "success"]
      /\ req' = req /\ victim' = victim
      /\ \A a \in Backup \ {b} : phase'[a] = phase[a] /\ surplus'[a] = surplus[a]
      /\ phase[b] = "write" /\ phase'[b] \in {"prune", "done"}
  BY DEF Insert, TypeOK
<1>4. Inserted' = Inserted \cup {b}
  BY <1>2, <1>3 DEF Inserted, TypeOK
<1>5. IsFiniteSet(Inserted')
  BY <1>4, FS_AddElement DEF InsertedInv
<1>6. InsertedInv'
  BY <1>2, <1>3, <1>4, <1>5 DEF InsertedInv, TypeOK
<1>7. ASSUME NEW x \in Inserted
      PROVE  NoOlder(x) \subseteq NoOlder(x)' /\ IsFiniteSet(NoOlder(x)')
  <2>1. NoOlder(x) \subseteq NoOlder(x)'
    BY <1>1, <1>3, <1>7 DEF NoOlder, Inserted, TypeOK
  <2>2. NoOlder(x)' \subseteq Inserted'
    BY DEF NoOlder, Inserted
  <2> QED
    BY <1>5, <2>1, <2>2, FS_Subset
<1>8. ASSUME NEW x \in Inserted PROVE Cardinality(NoOlder(x)) <= Cardinality(NoOlder(x)')
  BY <1>7, FS_Subset
<1>9. GroupRows(b, row') \subseteq Inserted' /\ IsFiniteSet(GroupRows(b, row'))
  <2>1. GroupRows(b, row') \subseteq Inserted'
    BY <1>6 DEF GroupRows, InsertedInv
  <2> QED
    BY <1>5, <2>1, FS_Subset
<1>10. \/ surplus' = surplus /\ req[b].group = NoGroup
       \/ /\ Surplus(b, row', created', surplus'[b])
          /\ surplus'[b] # {} => phase'[b] = "prune"
  <2>1. ASSUME NEW S \in SUBSET Backup, Surplus(b, row', created', S),
               surplus' = [surplus EXCEPT ![b] = S],
               phase' = [phase EXCEPT ![b] = IF S = {} THEN "done" ELSE "prune"]
        PROVE  /\ Surplus(b, row', created', surplus'[b])
               /\ surplus'[b] # {} => phase'[b] = "prune"
    <3>1. surplus'[b] = S /\ phase'[b] = IF S = {} THEN "done" ELSE "prune"
      BY <2>1 DEF TypeOK
    <3> QED
      BY <2>1, <3>1
  <2> QED
    BY <2>1 DEF Insert
<1>11. ASSUME NEW x \in surplus'[b]
       PROVE  /\ phase'[b] = "prune"
              /\ x \in Inserted' /\ SameGroup(x, b)
              /\ Cardinality(NoOlder(x)') >= req[b].keep
  <2> DEFINE spared == GroupRows(b, row') \ surplus'[b]
  <2>1. Surplus(b, row', created', surplus'[b])
    BY <1>1, <1>10, <1>11
  <2>2. x \in GroupRows(b, row')
    BY <1>11, <2>1 DEF Surplus
  <2>3. Cardinality(spared) = req[b].keep
    <3>1. surplus'[b] # {}
      BY <1>11
    <3> QED
      BY <1>9, <2>1, <3>1, SurplusSpares
  <2>4. spared \subseteq NoOlder(x)'
    <3> SUFFICES ASSUME NEW y \in spared PROVE y \in NoOlder(x)'
      OBVIOUS
    <3>1. y # x /\ y \in Inserted' /\ created'[x] <= created'[y]
      BY <1>9, <1>11, <2>1 DEF Surplus
    <3>2. y \in Backup /\ created'[y] > 0
      BY <3>1 DEF Inserted
    <3>3. req'[y].inst = req'[x].inst /\ req'[y].group = req'[x].group
      BY <1>3, <2>2 DEF GroupRows
    <3>4. created'[x] \in Nat /\ created'[y] \in Nat
      BY <2>2, <3>2 DEF GroupRows, TypeOK
    <3> QED
      BY <3>1, <3>2, <3>3, <3>4 DEF NoOlder
  <2>5. IsFiniteSet(NoOlder(x)')
    <3>1. NoOlder(x)' \subseteq Inserted'
      BY DEF NoOlder, Inserted
    <3> QED
      BY <1>5, <3>1, FS_Subset
  <2>6. Cardinality(spared) <= Cardinality(NoOlder(x)')
    BY <2>4, <2>5, FS_Subset
  <2>7. req[b].keep \in Nat /\ Cardinality(NoOlder(x)') \in Nat
    BY <2>5, FS_CardinalityType, ConstantsAssumption DEF TypeOK
  <2>8. phase'[b] = "prune"
    BY <1>1, <1>10, <1>11
  <2>9. x \in Inserted' /\ SameGroup(x, b)
    BY <1>9, <2>2 DEF GroupRows, SameGroup
  <2> QED
    BY <2>3, <2>6, <2>7, <2>8, <2>9
<1>12. SurplusInv'
  <2>1. ASSUME NEW a \in Backup \ {b}, NEW x \in surplus'[a]
        PROVE  /\ phase'[a] = "prune"
               /\ x \in Inserted' /\ SameGroup(x, a)'
               /\ Cardinality(NoOlder(x)') >= req'[a].keep
    <3>1. x \in surplus[a] /\ x \in Inserted
      BY <1>3, <2>1 DEF SurplusInv
    <3>2. Cardinality(NoOlder(x)) >= req[a].keep
      BY <3>1 DEF SurplusInv
    <3>3. req[a].keep \in Nat
      BY ConstantsAssumption DEF TypeOK
    <3>4. Cardinality(NoOlder(x)) \in Nat /\ Cardinality(NoOlder(x)') \in Nat
      BY <1>7, <3>1, FS_Subset, FS_CardinalityType
    <3> QED
      BY <1>3, <1>4, <1>8, <3>1, <3>2, <3>3, <3>4 DEF SurplusInv, SameGroup
  <2>2. ASSUME NEW a \in Backup, victim'[a] # NoBackup PROVE victim'[a] \in surplus'[a]
    BY <1>1, <1>3, <2>2 DEF SurplusInv
  <2> QED
    BY <1>3, <1>11, <2>1, <2>2 DEF SurplusInv, SameGroup
<1>13. ASSUME NEW R \in SUBSET Backup, R # {}, Settled(R)'
       PROVE  \E a \in R : Cardinality(R) <= req[a].keep
  <2>1. CASE b \notin R
    <3>1. Settled(R)
      BY <1>1, <1>3, <1>13, <2>1 DEF Settled, SameGroup, TypeOK
    <3> QED
      BY <1>13, <3>1 DEF TrimInv
  <2>2. CASE b \in R
    <3>1. Surplus(b, row', created', surplus'[b])
      BY <1>3, <1>10, <1>13, <2>2 DEF Settled
    <3>2. R \subseteq GroupRows(b, row') \ surplus'[b]
      BY <1>3, <1>13, <2>2 DEF Settled, SameGroup, GroupRows
    <3>3. IsFiniteSet(GroupRows(b, row') \ surplus'[b])
      BY <1>9, FS_Subset
    <3>4. Cardinality(R) <= Cardinality(GroupRows(b, row') \ surplus'[b])
      BY <3>2, <3>3, FS_Subset
    <3>5. Cardinality(R) \in Nat /\ Cardinality(GroupRows(b, row') \ surplus'[b]) \in Nat
      BY <3>2, <3>3, FS_Subset, FS_CardinalityType
    <3>6. Cardinality(GroupRows(b, row') \ surplus'[b]) <= req[b].keep
      BY <1>9, <3>1, SurplusSpares
    <3>7. req[b].keep \in Nat
      BY ConstantsAssumption DEF TypeOK
    <3> QED
      BY <2>2, <3>4, <3>5, <3>6, <3>7
  <2> QED
    BY <2>1, <2>2
<1>14. TrimInv'
  BY <1>3, <1>13 DEF TrimInv
<1> QED
  BY <1>6, <1>12, <1>14

\* Every step keeps it.
LEMMA RetentionStep ==
  ASSUME TypeOK, RetentionInv, [Next]_vars
  PROVE  RetentionInv'
<1> USE DEF createVars, pruneVars
<1>1. ASSUME NEW b \in Backup, NEW q \in Request, NEW f \in File, Create(b, q, f)
      PROVE  RetentionInv'
  BY <1>1, CreateRetention
<1>2. ASSUME NEW b \in Backup, Insert(b) PROVE RetentionInv'
  BY <1>2, InsertRetention, TypeStep
<1> USE DEF RetentionInv, InsertedInv, SurplusInv, TypeOK, Phase, InRow
<1>3. ASSUME NEW b \in Backup, Open(b) PROVE RetentionInv'
  BY <1>3, RetentionFrame DEF Open
<1>4. ASSUME NEW b \in Backup, Fail(b) PROVE RetentionInv'
  BY <1>4, RetentionFrame DEF Fail, RowAfterFail
<1>5. ASSUME NEW b \in Backup, NEW x \in Backup, PruneUnlink(b, x) PROVE RetentionInv'
  BY <1>5, RetentionFrame DEF PruneUnlink
<1>6. ASSUME NEW b \in Backup, NEW x \in Backup, PruneDelete(b, x) PROVE RetentionInv'
  BY <1>6, ConstantsAssumption, RetentionFrame DEF PruneDelete, Status
<1>7. ASSUME NEW x \in Backup, DeleteUnlink(x) PROVE RetentionInv'
  BY <1>7, RetentionFrame DEF DeleteUnlink
<1>8. ASSUME NEW x \in Backup, DeleteRow(x) PROVE RetentionInv'
  BY <1>8, RetentionFrame DEF DeleteRow
<1>9. ASSUME NEW x \in Backup, Restore(x) \/ RestoreOpen(x) PROVE RetentionInv'
  BY <1>9, RetentionFrame DEF Restore, RestoreOpen
<1>10. ASSUME NEW i \in Instance, RemoveInstance(i) PROVE RetentionInv'
  BY <1>10, RetentionFrame DEF RemoveInstance
<1>11. CASE Die
  BY <1>11, RetentionFrame DEF Die
<1>12. CASE UNCHANGED vars
  BY <1>12, RetentionFrame DEF vars
<1> QED
  BY <1>1, <1>2, <1>3, <1>4, <1>5, <1>6, <1>7, <1>8, <1>9, <1>10, <1>11, <1>12
     DEF Next, CreateStep, RowStep, RestoreFault, Crash

\* It holds at the start, where no row has been inserted.
LEMMA RetentionInit == Init => TypeOK /\ RetentionInv
<1> SUFFICES ASSUME Init PROVE TypeOK /\ RetentionInv
  OBVIOUS
<1>1. TypeOK
  BY ConstantsAssumption DEF Init, TypeOK, Phase, Status
<1>2. Inserted = {}
  BY DEF Init, Inserted
<1>3. InsertedInv
  BY <1>2, FS_EmptySet DEF Init, InsertedInv
<1>4. SurplusInv
  BY DEF Init, SurplusInv
<1>5. TrimInv
  <2> SUFFICES ASSUME NEW R \in SUBSET Backup, R # {}, Settled(R) PROVE FALSE
    BY DEF TrimInv
  <2>1. PICK x \in R : row[x] = "success"
    BY DEF Settled
  <2> QED
    BY <2>1 DEF Init
<1> QED
  BY <1>1, <1>3, <1>4, <1>5 DEF RetentionInv

\* It holds in every reachable state.
LEMMA RetentionInvariance == Spec => [](TypeOK /\ RetentionInv)
<1>1. TypeOK /\ RetentionInv /\ [Next]_vars => (TypeOK /\ RetentionInv)'
  BY TypeStep, RetentionStep
<1> QED
  BY <1>1, RetentionInit, PTL DEF Spec

\* The state of the backups, their rows, files and calls (backups.service.ts) keeps its
\* shape.
THEOREM TypeInvariance == Spec => []TypeOK
  BY RetentionInvariance, PTL

\* Once the prunes of a group have run, and none was cut short by a death, the group holds
\* no more rows than one of them asks to keep, whatever the requests of the group
\* ask and whichever of its rows are deleted meanwhile (pruneRetention 196-230).
THEOREM GroupTrimmedHolds == Spec => []GroupTrimmed
<1>1. TypeOK /\ RetentionInv => GroupTrimmed
  <2> SUFFICES ASSUME RetentionInv, NEW b \in Backup,
                      row[b] = "success", req[b].group # NoGroup,
                      \A a \in Backup : SameGroup(a, b) => phase[a] \notin {"prune", "cut"}
               PROVE  \E a \in GroupRows(b, row) : Cardinality(GroupRows(b, row)) <= req[a].keep
    BY DEF GroupTrimmed, SameGroup
  <2>1. b \in GroupRows(b, row) /\ GroupRows(b, row) \subseteq Backup
    BY DEF GroupRows
  <2>2. Settled(GroupRows(b, row))
    BY DEF Settled, GroupRows, RetentionInv, SurplusInv, SameGroup
  <2>3. GroupRows(b, row) \in SUBSET Backup /\ GroupRows(b, row) # {}
    BY <2>1
  <2> HIDE DEF GroupRows, Settled
  <2> QED
    BY <2>2, <2>3 DEF RetentionInv, TrimInv
<1> QED
  BY <1>1, RetentionInvariance, PTL

\* A prune drops a row only when as many rows of its group as it is to keep were
\* inserted no earlier, however many creates, prunes and deletes ran since it chose
\* (pruneRetention 202-217).
THEOREM RetentionKeepsNewestHolds == Spec => RetentionKeepsNewest
<1>1. TypeOK /\ RetentionInv /\ [Next]_vars => [PruneDropsOldest]_vars
  <2> SUFFICES ASSUME TypeOK, RetentionInv, [Next]_vars, NEW x \in Backup,
                      row[x] = "success", row'[x] = "deleted",
                      x \notin deleting, req[x].inst \in instances'
               PROVE  \E b \in Backup :
                        /\ victim[b] = x /\ req[b].group = req[x].group
                        /\ Cardinality(NoOlder(x)) >= req[b].keep
    BY DEF PruneDropsOldest
  <2> USE DEF TypeOK, createVars, pruneVars, InRow, Status
  <2>1. ASSUME NEW b \in Backup, victim[b] = x
        PROVE  req[b].group = req[x].group /\ Cardinality(NoOlder(x)) >= req[b].keep
    BY <2>1, ConstantsAssumption DEF RetentionInv, SurplusInv, SameGroup
  <2>2. ASSUME NEW b \in Backup, NEW y \in Backup, PruneDelete(b, y) PROVE victim[b] = x
    BY <2>2 DEF PruneDelete
  <2>3. ASSUME NEW i \in Instance, RemoveInstance(i) PROVE FALSE
    BY <2>3 DEF RemoveInstance
  <2>4. ASSUME NEW y \in Backup, DeleteRow(y) PROVE FALSE
    BY <2>4 DEF DeleteRow
  <2>5. ASSUME NEW b \in Backup, Insert(b) \/ Fail(b) PROVE FALSE
    BY <2>5 DEF Insert, Fail, RowAfterFail
  <2>6. CASE row' = row
    BY <2>6
  <2> QED
    BY <2>1, <2>2, <2>3, <2>4, <2>5, <2>6
       DEF Next, CreateStep, RowStep, vars, Create, Open, PruneUnlink, DeleteUnlink, Restore,
           RestoreOpen, RestoreFault, Crash, Die
<1> QED
  BY <1>1, RetentionInvariance, PTL DEF Spec, RetentionKeepsNewest
============================================================================
