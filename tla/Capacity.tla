------------------------------ MODULE Capacity ------------------------------
(***************************************************************************)
(* The storage quota of a relay with several chains: what is counted, which  *)
(* requests it refuses, the maintenance that serves all chains in one        *)
(* transaction, and the start of the relay, which checks every chain.        *)
(* Requests are transactions that are rolled back when quota() fails.        *)
(*                                                                         *)
(* Sizes are in units: an object, the evidence of an operation, a cursor.    *)
(***************************************************************************)
EXTENDS Integers, FiniteSets

CONSTANTS
    Chains,
    Limits,        \* the values of max_bytes an operator may configure
    Notices,       \* the shutdown notices an operator may configure
    NoNotice,
    EnvelopeSize,  \* what the envelopes of a handed-off epoch occupy
    MaxRestarts    \* bound on the number of stops of the relay

ASSUME CapacityAssumption ==
    /\ Limits \subseteq Nat /\ Limits # {}
    /\ NoNotice \in Notices
    /\ EnvelopeSize \in Nat \ {0}
    /\ MaxRestarts \in Nat

VARIABLES
    up,        \* the relay runs
    max,       \* max_bytes of the configuration it runs with, or ran with last
    configured,\* shutdown_at_ms and migration_origin of that configuration
    notice,    \* v3_notices: the notice that was published last, per chain
    state,     \* per chain: "absent", "live", "deleting", "erased"
    records,   \* bodies that pruning frees
    kept,      \* evidence, outcomes, offers and cursors: never freed before deletion
    envelopes, \* bodies that expiry frees
    covered,   \* the chain has a compaction to prune by
    handoff,   \* v3_handoffs: "none", "recorded", "due", "expired"
    restarts

sizes == <<records, kept, envelopes>>
config == <<max, configured>>
vars == <<up, config, notice, state, sizes, covered, handoff, restarts>>

Init ==
    /\ up = FALSE /\ max \in Limits /\ configured = NoNotice /\ restarts = 0
    /\ notice = [c \in Chains |-> NoNotice]
    /\ state = [c \in Chains |-> "absent"]
    /\ records = [c \in Chains |-> 0] /\ kept = [c \in Chains |-> 0]
    /\ envelopes = [c \in Chains |-> 0]
    /\ covered = [c \in Chains |-> FALSE]
    /\ handoff = [c \in Chains |-> "none"]

Live(c) == state[c] = "live"

\* used and quota, after the changes of a transaction.
used(c) == records[c] + kept[c] + envelopes[c]
quota(c) == records'[c] + kept'[c] + envelopes'[c] <= max

\* A cursor is a row of v3_cursors; nothing removes it before the chain is erased.
CursorQuotaSkipped(c) == TRUE
CursorQuota(c) == quota(c)

\* publish_notice with the notice n: one more transparency entry, unless n is published.
Published(c, n) == IF notice[c] = n THEN kept[c] ELSE kept[c] + 1

\* genesis: the evidence of the chain, the envelopes of its epoch and the notice.
CreateSilently(c) ==
    /\ up /\ state[c] = "absent"
    /\ state' = [state EXCEPT ![c] = "live"]
    /\ kept' = [kept EXCEPT ![c] = @ + 1]
    /\ envelopes' = [envelopes EXCEPT ![c] = EnvelopeSize]
    /\ UNCHANGED <<up, config, notice, records, covered, handoff, restarts>>
    /\ quota(c)
Create(c) ==
    /\ up /\ state[c] = "absent"
    /\ state' = [state EXCEPT ![c] = "live"]
    /\ kept' = [kept EXCEPT ![c] = Published(c, configured) + 1]
    /\ envelopes' = [envelopes EXCEPT ![c] = EnvelopeSize]
    /\ notice' = [notice EXCEPT ![c] = configured]
    /\ UNCHANGED <<up, config, records, covered, handoff, restarts>>
    /\ quota(c)

\* A mutation that stores an object and its evidence.
Upload(c) ==
    /\ up /\ Live(c)
    /\ records' = [records EXCEPT ![c] = @ + 1]
    /\ kept' = [kept EXCEPT ![c] = @ + 1]
    /\ UNCHANGED <<up, config, notice, state, envelopes, covered, handoff, restarts>>
    /\ quota(c)

\* audit_reject: a refused object leaves a transparency entry, in a transaction of its
\* own that a deletion may precede.
AuditReject(c) ==
    /\ up /\ state[c] # "absent"
    /\ kept' = [kept EXCEPT ![c] = @ + 1]
    /\ UNCHANGED <<up, config, notice, state, records, envelopes, covered, handoff, restarts>>
    /\ quota(c)

\* A page that has a next one: cursor() stores it.
ReadPage(c) ==
    /\ up /\ Live(c)
    /\ kept' = [kept EXCEPT ![c] = @ + 1]
    /\ UNCHANGED <<up, config, notice, state, records, envelopes, covered, handoff, restarts>>
    /\ CursorQuota(c)

\* The parts and the compaction of a snapshot.
Snapshot(c) ==
    /\ up /\ Live(c) /\ ~covered[c]
    /\ kept' = [kept EXCEPT ![c] = @ + 1]
    /\ covered' = [covered EXCEPT ![c] = TRUE]
    /\ UNCHANGED <<up, config, notice, state, records, envelopes, handoff, restarts>>
    /\ quota(c)

\* prune: the records go, the operation stays, the old epoch is handed off.
Prune(c) ==
    /\ up /\ Live(c) /\ covered[c]
    /\ records' = [records EXCEPT ![c] = 0]
    /\ kept' = [kept EXCEPT ![c] = @ + 1]
    /\ covered' = [covered EXCEPT ![c] = FALSE]
    /\ handoff' = [handoff EXCEPT ![c] = IF @ = "none" THEN "recorded" ELSE @]
    /\ UNCHANGED <<up, config, notice, state, envelopes, restarts>>
    /\ quota(c)

\* The clock reaches due_at_ms.
BecomesDue(c) ==
    /\ handoff[c] = "recorded"
    /\ handoff' = [handoff EXCEPT ![c] = "due"]
    /\ UNCHANGED <<up, config, notice, state, sizes, covered, restarts>>

\* maintenance: the due handoffs of all chains expire in one transaction, which the
\* quota of any of them rolls back.
Due == {c \in Chains : handoff[c] = "due"}
Maintenance ==
    /\ up /\ Due # {}
    /\ envelopes' = [c \in Chains |-> IF c \in Due THEN 0 ELSE envelopes[c]]
    /\ handoff' = [c \in Chains |-> IF c \in Due THEN "expired" ELSE handoff[c]]
    /\ UNCHANGED <<up, config, notice, state, records, kept, covered, restarts>>
    /\ \A c \in Due : quota(c)

\* delete, which leaves a transparency entry, and complete, from the timer.
Delete(c) ==
    /\ up /\ Live(c)
    /\ state' = [state EXCEPT ![c] = "deleting"]
    /\ kept' = [kept EXCEPT ![c] = @ + 1]
    /\ UNCHANGED <<up, config, notice, records, envelopes, covered, handoff, restarts>>
    /\ quota(c)

Deleting == {c \in Chains : state[c] = "deleting"}
Erased ==
    /\ state' = [c \in Chains |-> IF c \in Deleting THEN "erased" ELSE state[c]]
    /\ records' = [c \in Chains |-> IF c \in Deleting THEN 0 ELSE records[c]]
    /\ envelopes' = [c \in Chains |-> IF c \in Deleting THEN 0 ELSE envelopes[c]]
    /\ handoff' = [c \in Chains |-> IF c \in Deleting THEN "none" ELSE handoff[c]]
    /\ UNCHANGED covered
Complete ==
    /\ up /\ Deleting # {}
    /\ Erased
    /\ UNCHANGED <<up, config, notice, kept, restarts>>

Stop ==
    /\ up /\ restarts < MaxRestarts
    /\ up' = FALSE /\ restarts' = restarts + 1
    /\ UNCHANGED <<config, notice, state, sizes, covered, handoff>>

\* AppState::new with max_bytes m and the notice n: pending deletions are completed,
\* then the notice is published and every live chain is saved, in one transaction.
NotChecked(m, n) == TRUE
AllWithin(m, n) ==
    \A c \in Chains : Live(c) => records[c] + Published(c, n) + envelopes[c] <= m
Start(m, n) ==
    /\ ~up /\ AllWithin(m, n)
    /\ Erased
    /\ kept' = [c \in Chains |-> IF Live(c) THEN Published(c, n) ELSE kept[c]]
    /\ notice' = [c \in Chains |-> IF Live(c) THEN n ELSE notice[c]]
    /\ up' = TRUE /\ max' = m /\ configured' = n
    /\ UNCHANGED restarts

StartFails(m, n) ==
    /\ ~up /\ ~AllWithin(m, n)
    /\ Erased
    /\ UNCHANGED <<up, config, notice, kept, restarts>>

Next ==
    \/ \E c \in Chains : \/ Create(c) \/ Upload(c) \/ AuditReject(c) \/ ReadPage(c)
                         \/ Snapshot(c) \/ Prune(c) \/ BecomesDue(c) \/ Delete(c)
    \/ Maintenance \/ Complete \/ Stop
    \/ \E m \in Limits, n \in Notices : Start(m, n) \/ StartFails(m, n)

\* The timer fires every second, and a stopped relay is started again as it was.
Fairness ==
    /\ WF_vars(Maintenance)
    /\ WF_vars(Start(max, configured))
Spec == Init /\ [][Next]_vars /\ Fairness

-----------------------------------------------------------------------------
\* Types of the counters and rows (v3_chains, v3_handoffs, v3_notices).
TypeOK ==
    /\ up \in BOOLEAN /\ max \in Limits /\ configured \in Notices
    /\ restarts \in 0..MaxRestarts
    /\ notice \in [Chains -> Notices]
    /\ state \in [Chains -> {"absent", "live", "deleting", "erased"}]
    /\ records \in [Chains -> Nat] /\ kept \in [Chains -> Nat] /\ envelopes \in [Chains -> Nat]
    /\ covered \in [Chains -> BOOLEAN]
    /\ handoff \in [Chains -> {"none", "recorded", "due", "expired"}]

\* No chain that is not erased is ever above the quota in force, whatever was
\* uploaded, refused, paged or published: none can make the maintenance of the others
\* roll back (quota, cursor, save, maintenance).
WithinQuota ==
    \A c \in Chains : state[c] \in {"live", "deleting"} => used(c) <= max

\* A relay that ran starts again with the configuration it ran with: neither the quota
\* of a chain nor the notice a start would still have to publish is in the way
\* (genesis, publish_notice, AppState::new).
StartsAgain == AllWithin(max, configured)

\* A handoff that is due expires, on a relay with other full chains and across its
\* restarts (maintenance, AppState::new).
DueIsExpired == \A c \in Chains : handoff[c] = "due" ~> handoff[c] # "due"

(***************************************************************************)
(* What documents and comments say and the code does not do: as an INVARIANT *)
(* of the run TLC refutes each.                                              *)
(***************************************************************************)
\* Exhaustion "blocks new mutations" (docs/v3.0.md:843) and no reads: the next page of
\* a listing is served (cursor).
ReadsAreServed == \A c \in Chains : up /\ Live(c) => used(c) + 1 <= max

\* The relay starts with every quota an operator may set ("The operator may lower
\* advertised request/rate/storage quotas", docs/v3.0.md:1268; AppState::new).
LoweredQuotaStarts == \A m \in Limits : ~up => AllWithin(m, configured)

\* The relay starts when a shutdown notice is configured ("A planned shutdown MUST
\* advertise relay-notice", docs/v3.0.md:1600; publish_notice).
NoticeStarts == \A n \in Notices : ~up => AllWithin(max, n)
=============================================================================
