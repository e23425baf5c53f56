--------------------------- MODULE Handling_proofs --------------------------
(***************************************************************************)
(* For any number of requests, permits and items: no permit is lost, no item *)
(* of a batch is accepted after the final export, and at most the mutations  *)
(* past the guard are.                                                       *)
(*                                                                         *)
(* The freeze rests on the lock: a request that works has it, so an export   *)
(* and a batch item past its guard exclude each other, and once there is a   *)
(* final export the guard stays closed.                                      *)
(***************************************************************************)
EXTENDS Handling, FiniteSetTheorems, TLAPS

\* What kinds of requests the stages are for; only a batch has items left.
Stages ==
    \A r \in Requests :
        /\ stage[r] \in {"asking", "sending"} => kind[r] = "export"
        /\ stage[r] = "holding" => kind[r] = "batch"
        /\ stage[r] = "refused" => kind[r] # "export"
        /\ kind[r] # "batch" => left[r] = 0

\* A request in its transaction has the lock.
LockHeld == \A r \in Requests : stage[r] \in {"holding", "passed"} => lock = r

\* The final export is under the freeze, and no batch item is past its guard then.
FinalIsFrozen ==
    final # None =>
        /\ Frozen
        /\ \A r \in Requests : ~(stage[r] = "passed" /\ kind[r] = "batch")

Base == TypeOK /\ Stages /\ LockHeld /\ FinalIsFrozen

\* The actions of one request.
Step(r) ==
    \/ \E k \in Kinds : Arrive(r, k)
    \/ Guard(r) \/ Acquire(r) \/ Refuse(r)
    \/ Begin(r) \/ InTransaction(r) \/ AuditReject(r)
    \/ Abort(r) \/ Finish(r)

-----------------------------------------------------------------------------
\* A relay that starts has no request under way.
LEMMA InitBase == Init => Base
<1> SUFFICES ASSUME Init PROVE Base
  OBVIOUS
<1>1. TypeOK
  <2>0. stop \in BOOLEAN /\ deleted \in BOOLEAN /\ lock = None /\ final = None
    BY Zenon DEF Init
  <2>1. clock \in 0..MaxTime /\ restarts \in 0..MaxRestarts /\ permits \in 0..Permits
    BY HandlingAssumption DEF Init
  <2>2. head \in [single : 0..MaxWrites, batch : 0..MaxWrites]
    BY HandlingAssumption DEF Init
  <2>3. kind \in [Requests -> Kinds] /\ left \in [Requests -> 0..Items]
    BY HandlingAssumption DEF Init, Kinds
  <2> QED
    BY <2>0, <2>1, <2>2, <2>3 DEF Init, TypeOK
<1>2. Stages
  BY DEF Init, Stages
<1>3. LockHeld
  BY DEF Init, LockHeld
<1>4. FinalIsFrozen
  BY DEF Init, FinalIsFrozen
<1> QED
  BY <1>1, <1>2, <1>3, <1>4 DEF Base

\* Every step of a request keeps the types.
LEMMA StepType ==
    ASSUME Base, NEW r \in Requests, Step(r), permits' \in 0..Permits
    PROVE  TypeOK'
<1> USE HandlingAssumption DEF Base, TypeOK, Kinds, Goto, process, chain
<1>1. ASSUME NEW k \in Kinds, Arrive(r, k) PROVE TypeOK'
  BY <1>1 DEF Arrive
<1>2. CASE Guard(r)
  BY <1>2 DEF Guard
<1>3. CASE Acquire(r)
  BY <1>3 DEF Acquire
<1>4. CASE Refuse(r)
  BY <1>4 DEF Refuse
<1>5. CASE Begin(r)
  BY <1>5 DEF Begin
<1>6. CASE Pass(r)
  BY <1>6 DEF Pass
<1>7. CASE Reject(r)
  BY <1>7 DEF Reject
<1>8. CASE CommitItem(r)
  BY <1>8 DEF CommitItem, NextItem
<1>9. CASE CommitMutation(r)
  BY <1>9 DEF CommitMutation
<1>10. CASE CommitDelete(r)
  BY <1>10 DEF CommitDelete
<1>11. CASE Export(r)
  BY <1>11 DEF Export
<1>12. CASE AuditReject(r)
  BY <1>12 DEF AuditReject, NextItem
<1>13. CASE Abort(r)
  BY <1>13 DEF Abort
<1>14. CASE Finish(r)
  BY <1>14 DEF Finish
<1> QED
  BY <1>1, <1>2, <1>3, <1>4, <1>5, <1>6, <1>7, <1>8, <1>9, <1>10, <1>11, <1>12, <1>13, <1>14
     DEF Step, InTransaction

\* A request has only the stages of its kind.
LEMMA StepStages ==
    ASSUME Base, NEW r \in Requests, Step(r)
    PROVE  Stages'
<1> USE DEF Base, TypeOK, Stages, Kinds, Goto, process, chain
<1>1. ASSUME NEW k \in Kinds, Arrive(r, k) PROVE Stages'
  BY <1>1 DEF Arrive
<1>2. CASE Guard(r) \/ Acquire(r) \/ Refuse(r)
  BY <1>2 DEF Guard, Acquire, Refuse
<1>3. CASE Begin(r) \/ Pass(r)
  BY <1>3 DEF Begin, Pass
<1>4. CASE Reject(r)
  BY <1>4 DEF Reject
<1>5. CASE CommitItem(r)
  BY <1>5 DEF CommitItem, NextItem
<1>6. CASE CommitMutation(r) \/ CommitDelete(r) \/ Export(r)
  BY <1>6 DEF CommitMutation, CommitDelete, Export
<1>7. CASE AuditReject(r)
  BY <1>7 DEF AuditReject, NextItem
<1>8. CASE Abort(r) \/ Finish(r)
  BY <1>8 DEF Abort, Finish
<1> QED
  BY <1>1, <1>2, <1>3, <1>4, <1>5, <1>6, <1>7, <1>8 DEF Step, InTransaction

\* Who begins finds the lock free, and who has it gives it back with its transaction.
LEMMA StepLock ==
    ASSUME Base, NEW r \in Requests, Step(r)
    PROVE  LockHeld'
<1> USE HandlingAssumption DEF Base, TypeOK, LockHeld, Kinds, Goto, process, chain
<1>1. ASSUME NEW k \in Kinds, Arrive(r, k) PROVE LockHeld'
  BY <1>1 DEF Arrive
<1>2. CASE Guard(r) \/ Acquire(r) \/ Refuse(r)
  BY <1>2 DEF Guard, Acquire, Refuse
<1>3. CASE Begin(r) \/ Pass(r)
  BY <1>3 DEF Begin, Pass
<1>4. CASE Reject(r)
  BY <1>4 DEF Reject
<1>5. CASE CommitItem(r)
  BY <1>5 DEF CommitItem, NextItem
<1>6. CASE CommitMutation(r) \/ CommitDelete(r) \/ Export(r)
  BY <1>6 DEF CommitMutation, CommitDelete, Export
<1>7. CASE AuditReject(r)
  BY <1>7 DEF AuditReject, NextItem
<1>8. CASE Abort(r) \/ Finish(r)
  BY <1>8 DEF Abort, Finish
<1> QED
  BY <1>1, <1>2, <1>3, <1>4, <1>5, <1>6, <1>7, <1>8 DEF Step, InTransaction

\* An export that makes the final capture has the lock, so no batch item is past its guard;
\* afterwards the guard of an item is closed.
LEMMA StepFinal ==
    ASSUME Base, NEW r \in Requests, Step(r)
    PROVE  FinalIsFrozen'
<1> USE HandlingAssumption DEF Base, TypeOK, FinalIsFrozen, Frozen, Kinds, Goto, process, chain
<1>1. ASSUME NEW k \in Kinds, Arrive(r, k) PROVE FinalIsFrozen'
  BY <1>1 DEF Arrive
<1>2. CASE Guard(r) \/ Acquire(r) \/ Refuse(r)
  BY <1>2 DEF Guard, Acquire, Refuse
<1>3. CASE Begin(r)
  BY <1>3 DEF Begin
<1>4. CASE Pass(r)
  BY <1>4 DEF Pass, ItemGuard, write_guard
<1>5. CASE Reject(r)
  BY <1>5 DEF Reject
<1>6. CASE CommitItem(r)
  BY <1>6 DEF CommitItem, NextItem
<1>7. CASE CommitMutation(r) \/ CommitDelete(r)
  BY <1>7 DEF CommitMutation, CommitDelete
<1>8. CASE Export(r)
  <2>1. \A q \in Requests : stage'[q] = "passed" => q # r /\ stage[q] = "passed"
    BY <1>8 DEF Export
  <2>2. \A q \in Requests : stage'[q] # "passed"
    BY <2>1, <1>8 DEF Export, LockHeld
  <2> QED
    BY <2>2, <1>8 DEF Export
<1>9. CASE AuditReject(r)
  BY <1>9 DEF AuditReject, NextItem
<1>10. CASE Abort(r) \/ Finish(r)
  BY <1>10 DEF Abort, Finish
<1> QED
  BY <1>1, <1>2, <1>3, <1>4, <1>5, <1>6, <1>7, <1>8, <1>9, <1>10 DEF Step, InTransaction

-----------------------------------------------------------------------------
\* One request more or less in a set of requests.
LEMMA Counting ==
    ASSUME NEW S \in SUBSET Requests, NEW r \in Requests
    PROVE  /\ Cardinality(S) \in Nat /\ Cardinality(S) <= Cardinality(Requests)
           /\ r \notin S => Cardinality(S \cup {r}) = Cardinality(S) + 1
           /\ r \in S => Cardinality(S \ {r}) = Cardinality(S) - 1
<1>1. IsFiniteSet(S) /\ Cardinality(S) <= Cardinality(Requests)
  BY HandlingAssumption, FS_Subset
<1> QED
  BY <1>1, FS_CardinalityType, FS_AddElement, FS_RemoveElement

\* A step takes a permit and makes its request a holder, or gives it back and makes it
\* none, or changes neither.
LEMMA StepPermits ==
    ASSUME Base, PermitsAccounted, NEW r \in Requests, Step(r)
    PROVE  PermitsAccounted' /\ permits' \in 0..Permits
<1> DEFINE H == Holders
<1>1. /\ H \in SUBSET Requests
      /\ \/ H' = H /\ permits' = permits
         \/ r \notin H /\ H' = H \cup {r} /\ permits' = permits - 1 /\ permits > 0
         \/ r \in H /\ H' = H \ {r} /\ permits' = permits + 1
  <2> USE DEF Base, TypeOK, Stages, Holders, Goto, process, chain
  <2>1. ASSUME NEW k \in Kinds, Arrive(r, k) PROVE H' = H /\ permits' = permits
    BY <2>1 DEF Arrive
  <2>2. CASE Guard(r)
    BY <2>2 DEF Guard
  <2>3. CASE Refuse(r)
    BY <2>3 DEF Refuse
  <2>4. CASE Acquire(r)
    BY <2>4 DEF Acquire
  <2>5. CASE Begin(r)
    BY <2>5 DEF Begin
  <2>6. CASE Pass(r)
    BY <2>6 DEF Pass
  <2>7. CASE Reject(r)
    BY <2>7 DEF Reject
  <2>8. CASE CommitItem(r)
    BY <2>8 DEF CommitItem, NextItem
  <2>9. CASE CommitMutation(r) \/ CommitDelete(r)
    BY <2>9 DEF CommitMutation, CommitDelete
  <2>10. CASE Export(r)
    BY <2>10 DEF Export
  <2>11. CASE AuditReject(r)
    BY <2>11 DEF AuditReject, NextItem
  <2>12. CASE Abort(r)
    BY <2>12 DEF Abort, Returned
  <2>13. CASE Finish(r)
    BY <2>13 DEF Finish, Returned
  <2> QED
    BY <2>1, <2>2, <2>3, <2>4, <2>5, <2>6, <2>7, <2>8, <2>9, <2>10, <2>11, <2>12, <2>13
       DEF Step, InTransaction
<1>2. /\ permits \in Nat /\ Permits \in Nat
      /\ permits + Cardinality(H) = Permits
  BY HandlingAssumption DEF Base, TypeOK, PermitsAccounted
<1>3. Cardinality(H) \in Nat
  BY <1>1, Counting
<1>4. PermitsAccounted' <=> permits' + Cardinality(H') = Permits
  BY DEF PermitsAccounted
<1> HIDE DEF H
<1>5. CASE H' = H /\ permits' = permits
  BY <1>2, <1>3, <1>4, <1>5
<1>6. CASE r \notin H /\ H' = H \cup {r} /\ permits' = permits - 1 /\ permits > 0
  <2>1. Cardinality(H') = Cardinality(H) + 1
    BY <1>1, <1>6, Counting
  <2> QED
    BY <1>2, <1>3, <1>4, <1>6, <2>1
<1>7. CASE r \in H /\ H' = H \ {r} /\ permits' = permits + 1
  <2>1. Cardinality(H') = Cardinality(H) - 1
    BY <1>1, <1>7, Counting
  <2>2. Cardinality(H \ {r}) \in Nat
    BY <1>1, Counting
  <2> QED
    BY <1>2, <1>3, <1>4, <1>7, <2>1, <2>2
<1> QED
  BY <1>1, <1>5, <1>6, <1>7

-----------------------------------------------------------------------------
\* The inductive invariant.
Inv == Base /\ PermitsAccounted

\* At the start all permits are free.
LEMMA InitInv == Init => Inv
<1> SUFFICES ASSUME Init PROVE PermitsAccounted
  BY InitBase DEF Inv
<1>1. Holders = {} /\ permits = Permits
  BY DEF Init, Holders
<1> QED
  BY <1>1, HandlingAssumption, FS_EmptySet DEF PermitsAccounted

\* The invariant is inductive: the steps of requests, the clock and a restart keep it.
LEMMA NextInv == Inv /\ [Next]_vars => Inv'
<1> SUFFICES ASSUME Inv, [Next]_vars PROVE Inv'
  OBVIOUS
<1>1. ASSUME NEW r \in Requests, Step(r) PROVE Inv'
  BY <1>1, StepType, StepStages, StepLock, StepFinal, StepPermits DEF Inv, Base
<1>2. CASE Tick
  <2>1. Base'
    BY <1>2, HandlingAssumption
       DEF Inv, Base, TypeOK, Stages, LockHeld, FinalIsFrozen, Frozen, Tick, chain
  <2> QED
    BY <1>2, <2>1 DEF Inv, PermitsAccounted, Holders, Tick
<1>3. ASSUME NEW s \in BOOLEAN, Restart(s) PROVE Inv'
  <2>1. Base'
    BY <1>3, HandlingAssumption
       DEF Inv, Base, TypeOK, Stages, LockHeld, FinalIsFrozen, Frozen, Restart
  <2>2. Holders' = {} /\ permits' = Permits
    BY <1>3 DEF Restart, Holders
  <2> QED
    BY <2>1, <2>2, HandlingAssumption, FS_EmptySet DEF Inv, PermitsAccounted
<1>4. CASE UNCHANGED vars
  <2>1. Base'
    BY <1>4 DEF Inv, Base, TypeOK, Stages, LockHeld, FinalIsFrozen, Frozen, vars, process, chain
  <2> QED
    BY <1>4, <2>1 DEF Inv, PermitsAccounted, Holders, vars
<1> QED
  BY <1>1, <1>2, <1>3, <1>4 DEF Next, Step

\* Requests, semaphore, lock and counters keep their types (handle, upload, LeasedBody).
THEOREM TypeCorrect == Spec => []TypeOK
<1>1. Inv => TypeOK
  BY DEF Inv, Base
<1> QED
  BY <1>1, InitInv, NextInv, PTL DEF Spec

\* No permit is lost or given twice, for any number of requests and permits
\* (try_acquire_owned, LeasedBody).
THEOREM PermitsAreKept == Spec => []PermitsAccounted
<1>1. Inv => PermitsAccounted
  BY DEF Inv
<1> QED
  BY <1>1, InitInv, NextInv, PTL DEF Spec

-----------------------------------------------------------------------------
\* The step that makes the final capture makes it of the present head; a later commit of an
\* item would need a batch past its guard.
LEMMA StepBatches ==
    ASSUME Base, BatchesEndAtShutdown, [Next]_vars
    PROVE  BatchesEndAtShutdown'
<1> USE DEF Base, TypeOK, FinalIsFrozen, BatchesEndAtShutdown, process, chain
<1>1. ASSUME NEW r \in Requests, CommitItem(r) PROVE BatchesEndAtShutdown'
  BY <1>1 DEF CommitItem
<1>2. ASSUME NEW r \in Requests, CommitMutation(r) PROVE BatchesEndAtShutdown'
  BY <1>2 DEF CommitMutation
<1>3. ASSUME NEW r \in Requests, Export(r) PROVE BatchesEndAtShutdown'
  BY <1>3 DEF Export
<1>4. ASSUME NEW s \in BOOLEAN, Restart(s) PROVE BatchesEndAtShutdown'
  BY <1>4 DEF Restart
<1>5. CASE UNCHANGED <<head, final>>
  BY <1>5
<1>6. ASSUME NEW r \in Requests, Step(r),
             ~CommitItem(r), ~CommitMutation(r), ~Export(r)
      PROVE  UNCHANGED <<head, final>>
  BY <1>6 DEF Step, InTransaction, Arrive, Guard, Acquire, Refuse, Begin, Pass, Reject,
              CommitDelete, AuditReject, Abort, Finish
<1>7. Tick \/ UNCHANGED vars => UNCHANGED <<head, final>>
  BY DEF Tick, vars
<1> QED
  BY <1>1, <1>2, <1>3, <1>4, <1>5, <1>6, <1>7 DEF Next, Step, InTransaction

\* No item of a batch is accepted after the final export, for any batches and restarts
\* (upload, export).
THEOREM BatchesEnd == Spec => []BatchesEndAtShutdown
<1>1. Init => BatchesEndAtShutdown
  BY DEF Init, BatchesEndAtShutdown
<1>2. Inv /\ BatchesEndAtShutdown /\ [Next]_vars => BatchesEndAtShutdown'
  BY StepBatches DEF Inv
<1> QED
  BY <1>1, <1>2, InitInv, NextInv, PTL DEF Spec

-----------------------------------------------------------------------------
\* Under the freeze no mutation passes the guard, and one that commits is no longer past it.
LEMMA StepLate ==
    ASSUME Base, LateWritesBounded, [Next]_vars
    PROVE  LateWritesBounded'
<1> DEFINE P == PastGuard
<1> USE DEF LateWritesBounded
<1>1. P \in SUBSET Requests /\ P' \in SUBSET Requests
  BY DEF PastGuard
<1>2. /\ Cardinality(Requests) \in Nat
      /\ \A S \in SUBSET Requests : Cardinality(S) \in Nat /\ Cardinality(S) <= Cardinality(Requests)
  BY HandlingAssumption, FS_Subset, FS_CardinalityType
<1>3. /\ head.single \in Nat
      /\ final # None => final.single \in Nat
  BY HandlingAssumption DEF Base, TypeOK
<1>4. CASE final' # None /\ final = None
  <2>1. final' = head /\ head' = head
    BY <1>4 DEF Next, vars, chain, process, InTransaction, Tick, Arrive, Guard, Acquire, Refuse, Begin,
       Pass, Reject, CommitItem, CommitMutation, CommitDelete, Export, AuditReject, Abort, Finish, Restart
  <2> QED
    BY <1>1, <1>2, <1>3, <2>1
<1>5. CASE final' = None
  BY <1>5
<1>6. CASE final' # None /\ final # None
  <2> USE DEF Base, TypeOK, Stages, FinalIsFrozen, Frozen, PastGuard, Goto, process, chain
  <2>1. final' = final
    BY <1>6 DEF Next, vars, InTransaction, Tick, Arrive, Guard, Acquire, Refuse, Begin,
       Pass, Reject, CommitItem, CommitMutation, CommitDelete, Export, AuditReject, Abort, Finish, Restart
  <2>2. \/ P' \subseteq P /\ head'.single = head.single
        \/ \E r \in P : P' = P \ {r} /\ head'.single <= head.single + 1 /\ head'.single \in Nat
    <3>1. ASSUME NEW r \in Requests, CommitMutation(r)
          PROVE  r \in P /\ P' = P \ {r} /\ head'.single <= head.single + 1 /\ head'.single \in Nat
      BY <3>1, <1>3 DEF CommitMutation
    <3>2. ASSUME NEW r \in Requests, CommitItem(r)
          PROVE  P' \subseteq P /\ head'.single = head.single
      BY <3>2 DEF CommitItem, NextItem
    <3>3. ASSUME NEW r \in Requests, NEW k \in Kinds, Arrive(r, k)
          PROVE  P' \subseteq P /\ head'.single = head.single
      BY <3>3 DEF Arrive
    <3>4. ASSUME NEW r \in Requests, Guard(r)
          PROVE  P' \subseteq P /\ head'.single = head.single
      <4>1. ~write_guard
        BY <1>6, HandlingAssumption DEF write_guard
      <4> QED
        BY <3>4, <4>1 DEF Guard
    <3>5. ASSUME NEW r \in Requests, Acquire(r) \/ Refuse(r)
          PROVE  P' \subseteq P /\ head'.single = head.single
      BY <3>5 DEF Acquire, Refuse
    <3>6. ASSUME NEW r \in Requests, Begin(r) \/ Pass(r) \/ Reject(r)
          PROVE  P' \subseteq P /\ head'.single = head.single
      BY <3>6 DEF Begin, Pass, Reject
    <3>7. ASSUME NEW r \in Requests, CommitDelete(r) \/ Export(r)
          PROVE  P' \subseteq P /\ head'.single = head.single
      BY <3>7 DEF CommitDelete, Export
    <3>8. ASSUME NEW r \in Requests, AuditReject(r)
          PROVE  P' \subseteq P /\ head'.single = head.single
      BY <3>8 DEF AuditReject, NextItem
    <3>9. ASSUME NEW r \in Requests, Abort(r) \/ Finish(r)
          PROVE  P' \subseteq P /\ head'.single = head.single
      BY <3>9 DEF Abort, Finish
    <3>10. CASE Tick \/ UNCHANGED vars \/ \E s \in BOOLEAN : Restart(s)
      BY <3>10 DEF Tick, vars, Restart
    <3> QED
      BY <3>1, <3>2, <3>3, <3>4, <3>5, <3>6, <3>7, <3>8, <3>9, <3>10 DEF Next, InTransaction
  <2> HIDE DEF P, Base
  <2>3. CASE P' \subseteq P /\ head'.single = head.single
    <3>1. Cardinality(P') <= Cardinality(P)
      BY <1>1, <2>3, HandlingAssumption, FS_Subset
    <3> QED
      BY <1>1, <1>2, <1>3, <1>6, <2>1, <2>3, <3>1 DEF P
  <2>4. ASSUME NEW r \in P, P' = P \ {r}, head'.single <= head.single + 1, head'.single \in Nat
        PROVE  LateWritesBounded'
    <3>1. Cardinality(P') = Cardinality(P) - 1
      BY <1>1, <2>4, Counting
    <3> QED
      BY <1>1, <1>2, <1>3, <1>6, <2>1, <2>4, <3>1 DEF P
  <2> QED
    BY <2>2, <2>3, <2>4
<1> QED
  BY <1>4, <1>5, <1>6

\* What is accepted after the final export are single mutations that were past the guard, at
\* most one per request (handle).
THEOREM LateWritesAreFew == Spec => []LateWritesBounded
<1>1. Init => LateWritesBounded
  BY DEF Init, LateWritesBounded
<1>2. Inv /\ LateWritesBounded /\ [Next]_vars => LateWritesBounded'
  BY StepLate DEF Inv
<1> QED
  BY <1>1, <1>2, InitInv, NextInv, PTL DEF Spec
=============================================================================
