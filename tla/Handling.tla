------------------------------ MODULE Handling ------------------------------
(***************************************************************************)
(* The way of a request of one chain through handle: the write guard, the     *)
(* transfer permit of an export, the one write transaction of the database    *)
(* and, for an export, the body that is sent; against a clock that reaches    *)
(* the announced end of the relay, restarts with other settings, and errors.  *)
(*                                                                         *)
(* A single mutation passes the guard before it waits for the database; a     *)
(* batch passes it before its first item and again, inside the transaction,   *)
(* for each item.  An export takes its permit before it waits, and its        *)
(* response body keeps it until the client has read it or is gone.            *)
(***************************************************************************)
EXTENDS Integers, FiniteSets

CONSTANTS
    Requests,
    Items,        \* items of a batch
    Permits,      \* permits of the semaphore, 2 in the code
    ShutdownAt,   \* shutdown_at_ms of the configuration
    None,
    MaxTime, MaxWrites, MaxRestarts   \* bounds

ASSUME HandlingAssumption ==
    /\ IsFiniteSet(Requests) /\ None \notin Requests
    /\ Items \in Nat \ {0} /\ Permits \in Nat \ {0} /\ ShutdownAt \in Nat
    /\ MaxTime \in Nat /\ MaxWrites \in Nat /\ MaxRestarts \in Nat

Kinds == {"mutation", "batch", "export", "delete"}

VARIABLES
    clock,
    stop,      \* stop_writes of the running process
    restarts,
    stage,     \* how far each request is
    kind,      \* of each request
    left,      \* items a batch has still to try
    permits,   \* what is left of the semaphore
    lock,      \* the request in its write transaction
    head,      \* objects accepted, by single mutations and by batches
    deleted,
    final      \* head as first exported under the freeze, or None

process == <<clock, stop, restarts>>
chain == <<head, deleted, final>>
vars == <<process, stage, kind, left, permits, lock, chain>>

Init ==
    /\ clock = 0 /\ stop \in BOOLEAN /\ restarts = 0
    /\ stage = [r \in Requests |-> "idle"] /\ kind = [r \in Requests |-> "export"]
    /\ left = [r \in Requests |-> 0]
    /\ permits = Permits /\ lock = None
    /\ head = [single |-> 0, batch |-> 0] /\ deleted = FALSE /\ final = None

Tick ==
    /\ clock < MaxTime
    /\ clock' = clock + 1
    /\ UNCHANGED <<stop, restarts, stage, kind, left, permits, lock, chain>>

\* What the operator announced or set, and write_guard.
Frozen == stop \/ clock >= ShutdownAt
TimeOnly == clock < ShutdownAt
Unguarded == TRUE
write_guard == ~stop /\ clock < ShutdownAt

Goto(r, s) == stage' = [stage EXCEPT ![r] = s]

\* An authenticated request.
Arrive(r, k) ==
    /\ stage[r] = "idle"
    /\ Goto(r, "arrived")
    /\ kind' = [kind EXCEPT ![r] = k]
    /\ left' = [left EXCEPT ![r] = IF k = "batch" THEN Items ELSE 0]
    /\ UNCHANGED <<process, permits, lock, chain>>

\* Reads and deletions are not guarded.
Guard(r) ==
    /\ stage[r] = "arrived"
    /\ \/ kind[r] = "export" /\ Goto(r, "asking")
       \/ kind[r] = "delete" /\ Goto(r, "waiting")
       \/ kind[r] \in {"mutation", "batch"}
            /\ Goto(r, IF write_guard THEN "waiting" ELSE "idle")
    /\ UNCHANGED <<process, kind, left, permits, lock, chain>>

\* try_acquire_owned, which does not wait.
Acquire(r) ==
    /\ stage[r] = "asking" /\ permits > 0
    /\ permits' = permits - 1
    /\ Goto(r, "waiting")
    /\ UNCHANGED <<process, kind, left, lock, chain>>
RefuseNever(r) == FALSE
Refuse(r) ==
    /\ stage[r] = "asking" /\ permits = 0
    /\ Goto(r, "idle")
    /\ UNCHANGED <<process, kind, left, permits, lock, chain>>

\* BEGIN IMMEDIATE.
Begin(r) ==
    /\ stage[r] = "waiting" /\ lock = None
    /\ lock' = r
    /\ Goto(r, IF kind[r] = "batch" THEN "holding" ELSE "passed")
    /\ UNCHANGED <<process, kind, left, permits, chain>>

\* upload: the guard of one item, in its transaction.
ItemGuard == write_guard
Pass(r) ==
    /\ stage[r] = "holding" /\ ItemGuard
    /\ Goto(r, "passed")
    /\ UNCHANGED <<process, kind, left, permits, lock, chain>>

\* The next item of a batch begins a transaction of its own.
NextItem(r) ==
    /\ left' = [left EXCEPT ![r] = IF @ > 0 THEN @ - 1 ELSE 0]
    /\ Goto(r, IF left[r] > 1 THEN "waiting" ELSE "idle")

\* A refused item, or a mutation that fails: its transaction is rolled back.
Reject(r) ==
    /\ \/ stage[r] = "holding" /\ ~ItemGuard
       \/ stage[r] = "passed" /\ kind[r] \in {"mutation", "delete"}
    /\ Goto(r, "refused")
    /\ lock' = None
    /\ UNCHANGED <<process, kind, left, permits, chain>>

\* audit_reject: a transaction of its own writes the transparency entry of the refusal,
\* which is not kept here.
AuditReject(r) ==
    /\ stage[r] = "refused" /\ lock = None
    /\ NextItem(r)
    /\ UNCHANGED <<process, kind, permits, lock, chain>>

\* The transactions commit.  A chain deleted meanwhile takes nothing.
CommitItem(r) ==
    /\ stage[r] = "passed" /\ kind[r] = "batch"
    /\ ~deleted => head.batch < MaxWrites
    /\ head' = IF deleted THEN head ELSE [head EXCEPT !.batch = @ + 1]
    /\ lock' = None
    /\ NextItem(r)
    /\ UNCHANGED <<process, kind, permits, deleted, final>>

CommitMutation(r) ==
    /\ stage[r] = "passed" /\ kind[r] = "mutation"
    /\ ~deleted => head.single < MaxWrites
    /\ head' = IF deleted THEN head ELSE [head EXCEPT !.single = @ + 1]
    /\ lock' = None /\ Goto(r, "idle")
    /\ UNCHANGED <<process, kind, left, permits, deleted, final>>

CommitDelete(r) ==
    /\ stage[r] = "passed" /\ kind[r] = "delete"
    /\ deleted' = TRUE
    /\ lock' = None /\ Goto(r, "idle")
    /\ UNCHANGED <<process, kind, left, permits, head, final>>

\* An export answers with a body that has its permit.  The first one whose transaction
\* sees the freeze is the final capture.
Export(r) ==
    /\ stage[r] = "passed" /\ kind[r] = "export"
    /\ final' = IF Frozen /\ ~deleted /\ final = None THEN head ELSE final
    /\ lock' = None /\ Goto(r, "sending")
    /\ UNCHANGED <<process, kind, left, permits, head, deleted>>

\* The permit of an export is dropped with its handler or with the body.
NotReturned(r) == permits
Returned(r) ==
    IF kind[r] = "export" /\ stage[r] \in {"waiting", "passed", "sending"}
      THEN permits + 1 ELSE permits

\* An error of another kind, a busy database, or a client that goes away while its request
\* is handled.
Abort(r) ==
    /\ stage[r] \notin {"idle", "sending"}
    /\ Goto(r, "idle")
    /\ permits' = Returned(r)
    /\ lock' = IF lock = r THEN None ELSE lock
    /\ UNCHANGED <<process, kind, left, chain>>

\* The body was sent, or the connection is gone.
Finish(r) ==
    /\ stage[r] = "sending"
    /\ Goto(r, "idle")
    /\ permits' = Returned(r)
    /\ UNCHANGED <<process, kind, left, lock, chain>>

\* The process is started again, with or without stop_writes; semaphores are in memory.
\* Ending a freeze ends what was captured under it.
Restart(s) ==
    /\ restarts < MaxRestarts
    /\ restarts' = restarts + 1 /\ stop' = s
    /\ stage' = [r \in Requests |-> "idle"]
    /\ permits' = Permits /\ lock' = None
    /\ final' = IF s \/ clock >= ShutdownAt THEN final ELSE None
    /\ UNCHANGED <<clock, kind, left, head, deleted>>

InTransaction(r) ==
    \/ Pass(r) \/ Reject(r)
    \/ CommitItem(r) \/ CommitMutation(r) \/ CommitDelete(r) \/ Export(r)

Next ==
    \/ Tick
    \/ \E r \in Requests :
        \/ \E k \in Kinds : Arrive(r, k)
        \/ Guard(r) \/ Acquire(r) \/ Refuse(r)
        \/ Begin(r) \/ InTransaction(r) \/ AuditReject(r)
        \/ Abort(r) \/ Finish(r)
    \/ \E s \in BOOLEAN : Restart(s)

\* The runtime polls handlers that can go on, a transaction ends, and waiting for the
\* database ends with it or with its busy timeout.  Nothing makes a client read its
\* response: Finish has no fairness.
Waits(r) == stage[r] \in {"waiting", "refused"}
Works(r) == stage[r] \in {"holding", "passed"}
Fairness ==
    \A r \in Requests :
        /\ WF_vars(Guard(r) \/ Acquire(r) \/ Refuse(r))
        /\ WF_vars(Begin(r) \/ AuditReject(r) \/ (Waits(r) /\ Abort(r)))
        /\ WF_vars(InTransaction(r) \/ (Works(r) /\ Abort(r)))

Spec == Init /\ [][Next]_vars /\ Fairness

-----------------------------------------------------------------------------
\* The requests, the semaphore, the lock and the counters have their types.
TypeOK ==
    /\ clock \in 0..MaxTime /\ stop \in BOOLEAN /\ restarts \in 0..MaxRestarts
    /\ stage \in [Requests -> {"idle", "arrived", "asking", "waiting", "holding", "refused",
                               "passed", "sending"}]
    /\ kind \in [Requests -> Kinds] /\ left \in [Requests -> 0..Items]
    /\ permits \in 0..Permits /\ lock \in Requests \cup {None}
    /\ head \in [single : 0..MaxWrites, batch : 0..MaxWrites] /\ deleted \in BOOLEAN
    /\ final \in [single : 0..MaxWrites, batch : 0..MaxWrites] \cup {None}

\* No permit is lost and none is given twice, through errors, clients that go away and
\* restarts: the permits are the free ones and those of the exports that are handled or
\* sent (try_acquire_owned, LeasedBody).
Holders ==
    {r \in Requests : kind[r] = "export" /\ stage[r] \in {"waiting", "passed", "sending"}}
PermitsAccounted == permits + Cardinality(Holders) = Permits

\* A handler comes to an end, also while every permit is with clients that do not read:
\* nobody waits for a permit, and who has one does not wait for the database for ever
\* (handle, LeasedBody).
HandlersEnd ==
    \A r \in Requests : stage[r] \notin {"idle", "sending"} ~> stage[r] \in {"idle", "sending"}

\* After the export that follows the announced time no item of a batch is accepted, also
\* of batches that began before it: the guard of an item and the export exclude each
\* other (upload, export).
BatchesEndAtShutdown == final # None => head.batch = final.batch

\* A single mutation may pass the guard, wait for the database, and be accepted after that
\* export; those are the ones under way when the freeze began and no others, so what a
\* capture misses is at most one object per request then waiting (handle).
PastGuard == {r \in Requests : kind[r] = "mutation" /\ stage[r] \in {"waiting", "passed"}}
LateWritesBounded ==
    final # None => head.single + Cardinality(PastGuard) <= final.single + Cardinality(Requests)
=============================================================================
