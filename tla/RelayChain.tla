----------------------------- MODULE RelayChain -----------------------------
(***************************************************************************)
(* One chain of the relay, as the SQLite rows of that chain and the        *)
(* requests that work on them.  Every operation of the code runs in one    *)
(* BEGIN IMMEDIATE transaction, so a committed operation is one action;    *)
(* authentication, the operation and the audit entry of a rejected         *)
(* operation are three transactions, so other requests run between them.   *)
(*                                                                         *)
(* Hashes are abstracted by what they bind: an object hash by the object,  *)
(* a log head hash by the length of the log, an epoch hash by the epoch    *)
(* number (two epochs with one number never both commit).  A body that a   *)
(* client signs is chosen when its operation runs; nothing reads it before.*)
(***************************************************************************)
EXTENDS Integers, Sequences, FiniteSets, Functions

CONSTANTS
    Devices,              \* device ids
    Creator,              \* the device of the genesis request
    Admin,                \* the holder of the chain's admin key
    Recovery,             \* the recipient of recovery envelopes
    RecordIds, PartIds,   \* ids that clients choose for records and snapshot parts
    Nonces,               \* payload nonces that clients choose
    Marks,                \* log positions that clients cover and prune through
    EnvelopeCopies,       \* envelopes uploaded for one epoch and recipient, besides copy 0
    SortedIds,            \* the ascending enumeration of each set of device ids
    NoObject,             \* the object of an entry that names none; no compaction
    Retention,            \* policy.epoch_retention
    AllowDeviceRotation, AllowDeviceDelete,   \* policy flags
    MaxInteger,           \* MAX_INTEGER: last log position and transparency index
    MaxEpoch,             \* last epoch number (u32 on the wire)
    MaxDevices,           \* limits.max_devices
    MaxEnvelopes,         \* envelopes of one enrollment (128 in the code)
    MaxCandidates,        \* candidate objects of one rejected request
    MaxRequests           \* bound of the model: requests in flight at once

Principals == Devices \cup {Admin}

(***************************************************************************)
(* Signed objects.  Object equality is object_hash equality.               *)
(***************************************************************************)
Parameters == [kind |-> "parameters"]
Device(d) == [kind |-> "device", id |-> d]
\* Copy 0 is the envelope of the enrollment or epoch bundle; the other copies are
\* uploaded for the same epoch and recipient later.
Envelope(e, to, copy) == [kind |-> "envelope", epoch |-> e, to |-> to, copy |-> copy]
Epoch(n, M, R) == [kind |-> "epoch", number |-> n, members |-> M, revoked |-> R]
\* The fresh operation_id of an admin operation is the position it is signed for.
AdminOperation(a, id) == [kind |-> "admin", action |-> a, id |-> id]

RecordObjects(kind) ==
    [kind: {kind}, id: IF kind = "record" THEN RecordIds ELSE PartIds, by: Devices,
     epoch: 0..MaxEpoch, nonce: Nonces]
Envelopes ==
    [kind: {"envelope"}, epoch: Nat, to: Devices \cup {Recovery},
     copy: EnvelopeCopies \cup {0}]
EpochObjects ==
    [kind: {"epoch"}, number: Nat, members: SUBSET Devices, revoked: SUBSET Devices]
Compactions ==
    [kind: {"compaction"}, by: Devices, epoch: Nat, covered: Nat,
     parts: SUBSET RecordObjects("snapshot_part")]
Actions == {"approve_enrollment", "revoke_device", "prune_log", "delete_chain"}

LogObjects ==
    {Parameters} \cup {Device(d) : d \in Devices} \cup Envelopes \cup EpochObjects
      \cup RecordObjects("record") \cup Compactions
      \cup [kind: {"admin"}, action: Actions, id: Nat]

ASSUME ConstantsAssumption ==
    /\ Creator \in Devices
    /\ Admin \notin Devices /\ Recovery \notin Devices
    /\ NoObject \notin LogObjects \cup RecordObjects("snapshot_part")
    /\ Retention \in {"retain", "windowed", "immediate"}
    /\ AllowDeviceRotation \in BOOLEAN
    /\ AllowDeviceDelete \in BOOLEAN
    /\ Marks \subseteq Nat
    /\ EnvelopeCopies \subseteq Nat \ {0}
    /\ MaxInteger \in Nat /\ MaxInteger >= 5
    /\ MaxEpoch \in Nat
    /\ MaxDevices \in Nat
    /\ MaxEnvelopes \in Nat
    /\ MaxCandidates \in Nat
    /\ MaxRequests \in Nat

\* Every set of devices is listed by SortedIds, each member exactly once.
ASSUME SortedIdsAssumption ==
    \A S \in SUBSET Devices :
        /\ SortedIds[S] \in Seq(S)
        /\ \A d \in S : \E i \in DOMAIN SortedIds[S] : SortedIds[S][i] = d
        /\ \A i, j \in DOMAIN SortedIds[S] : SortedIds[S][i] = SortedIds[S][j] => i = j

VARIABLES
    \* the chain row (v3_chains): head_seq is Len(log), transparency_index is
    \* Len(transparency)
    epoch,          \* c.epoch, the current epoch object
    minAvailable,   \* c.min_available_seq
    boundary,       \* the compaction c.boundary_compaction_id names
    \* evidence
    log,            \* v3_log: the object of each entry, in relay_seq order
    cleared,        \* positions of v3_log whose entry is NULL
    parts,          \* snapshot_part rows of v3_objects
    nulled,         \* objects of v3_objects whose body is NULL
    receipts,       \* v3_receipts
    transparency,   \* v3_transparency, in idx order
    heads,          \* v3_heads: signed heads by transparency index
    \* registry and indexes
    status,         \* v3_registry.status; "absent" is no row
    revokedSeq,     \* v3_registry.revoked_seq; 0 is NULL
    payloadNonces,  \* v3_payload_nonces
    handoffs,       \* epochs with a row in v3_handoffs
    expired,        \* those with expired=1
    deleted,        \* a row in v3_deletions
    \* requests
    pc              \* per principal: where its request is (see Authenticate)

chainVars == <<epoch, minAvailable, boundary, deleted>>
registryVars == <<status, revokedSeq>>
retentionVars == <<handoffs, expired>>
vars == <<chainVars, log, cleared, parts, nulled, receipts, transparency, heads,
          registryVars, payloadNonces, retentionVars, pc>>

(***************************************************************************)
(* store.rs                                                                *)
(***************************************************************************)
\* The fields of a signed head that the chain row determines.
Cut == [head_seq |-> Len(log), epoch |-> epoch.number, min_available |-> minAvailable]

\* save: one signed head per transparency index, the first one written stays.
SaveSkipped == heads' = heads
Save ==
    heads' = IF \E h \in heads : h.index = Len(transparency')
               THEN heads
               ELSE heads \cup {[index |-> Len(transparency'), cut |-> Cut']}

Entry(op, object, seq) == [op |-> op, object |-> object, seq |-> seq]
Note(op) == Entry(op, NoObject, 0)

\* append, for the objects os that one transaction appends in order: each gets the
\* next relay_seq, one "accept" transparency entry and one receipt that names both.
Accepted(os) == [i \in 1..Len(os) |-> Entry("accept", os[i], Len(log) + i)]
ReceiptsSwapped(os) ==
    {[object |-> os[i], seq |-> Len(log) + i, index |-> Len(log) + i] : i \in 1..Len(os)}
Receipts(os) ==
    {[object |-> os[i], seq |-> Len(log) + i, index |-> Len(transparency) + i]
        : i \in 1..Len(os)}

\* notes are the transparency entries the transaction writes after the appends. A
\* limit that is reached by one of several appends rolls all of them back.
AppendAll(os, notes) ==
    /\ Len(log) + Len(os) <= MaxInteger
    /\ Len(transparency) + Len(os) + Len(notes) <= MaxInteger
    /\ log' = log \o os
    /\ transparency' = transparency \o Accepted(os) \o notes
    /\ receipts' = receipts \cup Receipts(os)

\* append of an object that may be a retry: a receipted object is answered with
\* its original receipt and nothing is written.
RetryAppends(o) == <<o>>
NewObjects(o) == IF \E r \in receipts : r.object = o THEN <<>> ELSE <<o>>

InLog(o) == \E i \in 1..Len(log) : log[i] = o

\* put_object: records and snapshot parts share one id space.
IdTaken(r) ==
    \/ \E i \in 1..Len(log) : log[i].kind = "record" /\ log[i].id = r.id /\ log[i] # r
    \/ \E q \in parts : q.id = r.id /\ q # r

(***************************************************************************)
(* auth.rs                                                                 *)
(***************************************************************************)
active_device(d) == status[d] = "active"

\* An operation transaction of an authenticated request: there is no deletion
\* ledger row, and the registry is looked at again.
TrustsAuthentication(p, mode) == pc[p] = mode /\ ~deleted
Authorized(p, mode) ==
    /\ pc[p] = mode
    /\ ~deleted
    /\ p # Admin => active_device(p)

Goto(p, where) == pc' = [pc EXCEPT ![p] = where]

(***************************************************************************)
(* domain.rs                                                               *)
(***************************************************************************)
EverRegistered == {d \in Devices : status[d] # "absent"}
Registered == {d \in Devices : status[d] \in {"active", "pending_keys"}}
Absent == {d \in Devices : status[d] = "absent"}

\* bundle: exactly the members a new epoch must name.
MembersUnchecked(M, R, S) == M # {} /\ M \subseteq Registered \cup S
MembersMatch(M, R, S) ==
    /\ M # {}
    /\ M = (Registered \ R) \cup S

\* commit_epoch: the order in which an epoch bundle is appended.
DeviceRecords(S) == [i \in 1..Len(SortedIds[S]) |-> Device(SortedIds[S][i])]
MemberEnvelopes(n, M) == [i \in 1..Len(SortedIds[M]) |-> Envelope(n, SortedIds[M][i], 0)]
EpochBundle(n, M, R, S, op) ==
    DeviceRecords(S) \o MemberEnvelopes(n, M) \o <<Envelope(n, Recovery, 0)>>
      \o op \o <<Epoch(n, M, R)>>

\* record, reserve_payload_nonce: a payload nonce belongs to one record id per epoch.
NonceUnchecked(r) == TRUE
NonceFree(r) ==
    \A n \in payloadNonces : n.epoch = r.epoch /\ n.nonce = r.nonce => n.id = r.id

Reserve(r) ==
    payloadNonces' =
        IF \E n \in payloadNonces : n.epoch = r.epoch /\ n.nonce = r.nonce
          THEN payloadNonces
          ELSE payloadNonces \cup {[epoch |-> r.epoch, nonce |-> r.nonce, id |-> r.id]}

\* compaction: the checks made when a compaction is stored, and again when a prune
\* relies on it.
CompactionValid(c) ==
    /\ c.epoch = epoch.number
    /\ active_device(c.by)
    /\ c.covered <= Len(log)
    /\ c.parts # {}
    /\ \A q \in c.parts : q \in parts /\ q.epoch = epoch.number /\ active_device(q.by)

(***************************************************************************)
(* retention.rs                                                            *)
(***************************************************************************)
\* handoff: an old epoch is handed off when the readable envelopes of it are all
\* at or below the pruned position.
EnvelopeIsLate(i, e, through) ==
    log[i].kind = "envelope" /\ log[i].epoch = e /\ log[i] \notin nulled /\ i > through
HandedOffEarly(through) == 0..epoch.number
HandedOff(through) ==
    {e \in 0..(epoch.number - 1) : \A i \in 1..Len(log) : ~EnvelopeIsLate(i, e, through)}

\* expire, of the epochs D, when the log is available from position min on.
ClearedEverywhere(D, min) ==
    {i \in 1..Len(log) : log[i].kind = "envelope" /\ log[i].epoch \in D}
ClearedBy(D, min) ==
    {i \in 1..Len(log) : log[i].kind = "envelope" /\ log[i].epoch \in D /\ i < min}
EnvelopesOf(D) == {o \in Range(log) : o.kind = "envelope" /\ o.epoch \in D}

\* Which of the pending handoffs are due is up to the clock, except that an
\* immediate handoff is due at once.
Due(D, pending) == D \subseteq pending /\ (Retention = "immediate" => D = pending)

-----------------------------------------------------------------------------
(***************************************************************************)
(* Genesis and the requests.                                               *)
(***************************************************************************)
GenesisLog ==
    <<Parameters, Device(Creator), Envelope(0, Creator, 0), Envelope(0, Recovery, 0),
      Epoch(0, {Creator}, {})>>

\* genesis: the chain exists from this request on.
Init ==
    /\ epoch = Epoch(0, {Creator}, {})
    /\ minAvailable = 1 /\ boundary = NoObject
    /\ log = GenesisLog
    /\ cleared = {} /\ parts = {} /\ nulled = {}
    /\ transparency = [i \in 1..Len(GenesisLog) |-> Entry("accept", GenesisLog[i], i)]
    /\ receipts = {[object |-> GenesisLog[i], seq |-> i, index |-> i] : i \in 1..Len(GenesisLog)}
    /\ heads = {[index |-> Len(GenesisLog), cut |-> Cut]}
    /\ status = [d \in Devices |-> IF d = Creator THEN "active" ELSE "absent"]
    /\ revokedSeq = [d \in Devices |-> 0]
    /\ payloadNonces = {} /\ handoffs = {} /\ expired = {} /\ deleted = FALSE
    /\ pc = [p \in Principals |-> "idle"]

\* authenticate, in a transaction of its own.  The route decides whether the
\* request is one operation ("single") or a batch with a transaction per item.
\* A device waiting for its keys may only acknowledge them.
Authenticate(p, mode) ==
    /\ pc[p] = "idle"
    /\ Cardinality({q \in Principals : pc[q] # "idle"}) < MaxRequests
    /\ ~deleted
    /\ p # Admin => \/ active_device(p)
                    \/ status[p] = "pending_keys" /\ mode = "single"
    /\ Goto(p, mode)
    /\ UNCHANGED <<chainVars, log, cleared, parts, nulled, receipts, transparency, heads,
                   registryVars, payloadNonces, retentionVars>>

\* ack of the current epoch's key.
Ack(d) ==
    /\ pc[d] = "single" /\ ~deleted
    /\ status[d] \in {"active", "pending_keys"}
    /\ \E i \in 1..Len(log) :
         /\ log[i].kind = "envelope" /\ log[i].to = d /\ log[i].epoch = epoch.number
         /\ log[i] \notin nulled
    /\ status' = [status EXCEPT ![d] = "active"]
    /\ Goto(d, "idle")
    /\ UNCHANGED <<chainVars, log, cleared, parts, nulled, receipts, transparency,
                   revokedSeq, payloadNonces, retentionVars>>
    /\ Save

\* enroll, by the admin: es lists the epochs of the new device's envelopes.
EnrollEnvelopes(d, es) == [i \in 1..Len(es) |-> Envelope(es[i], d, 0)]
RecoverableOrRetained(e) ==
    \/ e = epoch.number \/ Retention = "retain"
    \/ \E i \in 1..Len(log) :
         log[i].kind = "envelope" /\ log[i].to = Recovery /\ log[i].epoch = e /\ log[i] \notin nulled
Enroll(d, es) ==
    /\ Authorized(Admin, "single")
    /\ Retention = "immediate" /\ epoch.number > 0 => epoch.number - 1 \in handoffs
    /\ status[d] = "absent"
    /\ Cardinality(Registered) < MaxDevices
    /\ epoch.number \in Range(es)
    /\ \A i \in 1..Len(es) : RecoverableOrRetained(es[i])
    /\ AppendAll(<<Device(d)>> \o EnrollEnvelopes(d, es)
                   \o <<AdminOperation("approve_enrollment", Len(log))>>, <<>>)
    /\ status' = [status EXCEPT ![d] = "pending_keys"]
    /\ Goto(Admin, "idle")
    /\ UNCHANGED <<chainVars, cleared, parts, nulled, revokedSeq, payloadNonces, retentionVars>>
    /\ Save

\* epoch (and revoke): the next epoch with members M, revoking R, with the new
\* devices S of an admin's emergency bundle.
Rotate(p, M, R, S) ==
    /\ Authorized(p, "single")
    /\ p # Admin => AllowDeviceRotation /\ S = {}
    /\ R \subseteq Registered /\ S \subseteq Absent
    /\ MembersMatch(M, R, S)
    /\ Cardinality(M) <= MaxDevices
    /\ epoch.number < MaxEpoch
    /\ LET n == epoch.number + 1
           op == IF p = Admin /\ R # {} THEN <<AdminOperation("revoke_device", Len(log))>> ELSE <<>>
       IN /\ epoch' = Epoch(n, M, R)
          /\ AppendAll(EpochBundle(n, M, R, S, op), <<>>)
    /\ status' = [d \in Devices |-> IF d \in R THEN "revoked"
                                    ELSE IF d \in S THEN "pending_keys" ELSE status[d]]
    /\ revokedSeq' = [d \in Devices |-> IF d \in R THEN Len(log') ELSE revokedSeq[d]]
    /\ Goto(p, "idle")
    /\ UNCHANGED <<minAvailable, boundary, deleted, cleared, parts, nulled, payloadNonces,
                   retentionVars>>
    /\ Save

\* upload, route envelopes_post: one more envelope for an epoch that is not expired.
UploadEnvelope(p, e, to, copy) ==
    /\ Authorized(p, "batch")
    /\ e \in 0..epoch.number /\ e \notin expired
    /\ to \in Registered
    /\ AppendAll(NewObjects(Envelope(e, to, copy)), <<>>)
    /\ UNCHANGED <<chainVars, cleared, parts, nulled, registryVars, payloadNonces,
                   retentionVars, pc>>
    /\ Save

\* upload, route records_post.
EpochNotAhead(e) == e <= epoch.number
EpochIsCurrent(e) == e = epoch.number
UploadRecord(d, r) ==
    /\ Authorized(d, "batch")
    /\ r.by = d
    /\ ~IdTaken(r)
    /\ InLog(r) \/ (EpochIsCurrent(r.epoch) /\ NonceFree(r))
    /\ Reserve(r)
    /\ AppendAll(NewObjects(r), <<>>)
    /\ UNCHANGED <<chainVars, cleared, parts, nulled, registryVars, retentionVars, pc>>
    /\ Save

\* upload, route parts_post: a snapshot part gets a receipt and no log position.
\* The admin may add parts signed by any device of the chain in any epoch.
UploadPart(p, q) ==
    /\ Authorized(p, "batch")
    /\ IF p = Admin THEN status[q.by] # "absent" /\ q.epoch \in 0..epoch.number
                    ELSE q.by = p /\ EpochIsCurrent(q.epoch)
    /\ ~IdTaken(q) /\ q \notin parts /\ NonceFree(q)
    /\ Reserve(q)
    /\ Len(transparency) < MaxInteger
    /\ parts' = parts \cup {q}
    /\ transparency' = Append(transparency, Entry("accept", q, 0))
    /\ receipts' = receipts \cup {[object |-> q, seq |-> 0, index |-> Len(transparency) + 1]}
    /\ UNCHANGED <<chainVars, log, cleared, nulled, registryVars, retentionVars, pc>>
    /\ Save

\* upload, route repair: the proof is a stored log entry.
Repair(i) ==
    /\ Authorized(Admin, "batch")
    /\ i \in 1..Len(log) /\ i \notin cleared /\ log[i].kind = "record"
    /\ AppendAll(NewObjects(log[i]), <<>>)
    /\ UNCHANGED <<chainVars, cleared, parts, nulled, registryVars, payloadNonces,
                   retentionVars, pc>>
    /\ Save

\* snapshot: a compaction over the first "covered" positions.
Compaction(d, covered, Q) ==
    [kind |-> "compaction", by |-> d, epoch |-> epoch.number, covered |-> covered, parts |-> Q]
Snapshot(p, c) ==
    /\ Authorized(p, "single")
    /\ CompactionValid(c) /\ ~InLog(c)
    /\ AppendAll(<<c>>, <<>>)
    /\ Goto(p, "idle")
    /\ UNCHANGED <<chainVars, cleared, parts, nulled, registryVars, payloadNonces, retentionVars>>
    /\ Save

\* prune the records through a position that a stored compaction covers, hand old
\* epochs off and expire those that are due.
Prune(c, through, D) ==
    /\ Authorized(Admin, "single")
    /\ InLog(c) /\ c.kind = "compaction"
    /\ through \in (minAvailable - 1)..c.covered
    /\ CompactionValid(c)
    /\ handoffs' = IF Retention = "retain" THEN handoffs ELSE handoffs \cup HandedOff(through)
    /\ IF Retention = "retain" THEN D = {} ELSE Due(D, handoffs' \ expired)
    /\ expired' = expired \cup D
    /\ AppendAll(<<AdminOperation("prune_log", Len(log))>>, <<Note("prune")>>)
    /\ cleared' = cleared \cup {i \in 1..through : log[i].kind = "record"}
                    \cup ClearedBy(D, through + 1)
    /\ nulled' = nulled \cup {log[i] : i \in {j \in 1..through : log[j].kind = "record"}}
                   \cup EnvelopesOf(D)
    /\ minAvailable' = through + 1
    /\ boundary' = c
    /\ Goto(Admin, "idle")
    /\ UNCHANGED <<epoch, deleted, parts, registryVars, payloadNonces>>
    /\ Save

\* maintenance, from the timer: expire the handoffs that have become due.
Maintenance(D) ==
    /\ D # {} /\ Due(D, handoffs \ expired)
    /\ expired' = expired \cup D
    /\ cleared' = cleared \cup ClearedBy(D, minAvailable)
    /\ nulled' = nulled \cup EnvelopesOf(D)
    /\ UNCHANGED <<chainVars, log, parts, receipts, transparency, heads, registryVars,
                   payloadNonces, handoffs, pc>>

\* delete: the ledger row is written with the chain's last entries.
Delete(p) ==
    /\ Authorized(p, "single")
    /\ p # Admin => AllowDeviceDelete
    /\ AppendAll(IF p = Admin THEN <<AdminOperation("delete_chain", Len(log))>> ELSE <<>>,
                 <<Note("delete")>>)
    /\ deleted' = TRUE
    /\ Goto(p, "idle")
    /\ UNCHANGED <<epoch, minAvailable, boundary, cleared, parts, nulled, registryVars,
                   payloadNonces, retentionVars>>
    /\ Save

\* An operation fails its checks and its transaction is rolled back.
Reject(p) ==
    /\ pc[p] \in {"single", "batch"} /\ ~deleted
    /\ Goto(p, IF pc[p] = "single" THEN "single_rejected" ELSE "batch_rejected")
    /\ UNCHANGED <<chainVars, log, cleared, parts, nulled, receipts, transparency, heads,
                   registryVars, payloadNonces, retentionVars>>

\* audit_reject, in a later transaction: one entry per candidate object of the
\* request, or for the item of the batch, which then goes on.
AuditReject(p, n) ==
    /\ \/ pc[p] = "single_rejected" /\ Goto(p, "idle")
       \/ pc[p] = "batch_rejected" /\ n = 1 /\ Goto(p, "batch")
    /\ Len(transparency) + n <= MaxInteger
    /\ transparency' = transparency \o [i \in 1..n |-> Note("reject")]
    /\ UNCHANGED <<chainVars, log, cleared, parts, nulled, receipts, registryVars,
                   payloadNonces, retentionVars>>
    /\ Save

\* The request ends: its batch is done, it has no candidates to audit, it meets
\* the ledger row, or it fails without an audit entry.
Respond(p) ==
    /\ pc[p] # "idle"
    /\ Goto(p, "idle")
    /\ UNCHANGED <<chainVars, log, cleared, parts, nulled, receipts, transparency, heads,
                   registryVars, payloadNonces, retentionVars>>

\* The process stops and starts again: the rows stay, the requests are gone.
Restart ==
    /\ \E p \in Principals : pc[p] # "idle"
    /\ pc' = [p \in Principals |-> "idle"]
    /\ UNCHANGED <<chainVars, log, cleared, parts, nulled, receipts, transparency, heads,
                   registryVars, payloadNonces, retentionVars>>

EnrollmentEpochs == UNION {Injection(1..n, 0..epoch.number) : n \in 1..MaxEnvelopes}

Next ==
    \/ \E p \in Principals, mode \in {"single", "batch"} : Authenticate(p, mode)
    \/ \E d \in Devices : Ack(d)
    \/ \E d \in Devices : \E es \in EnrollmentEpochs : Enroll(d, es)
    \/ \E p \in Principals, M, R, S \in SUBSET Devices : Rotate(p, M, R, S)
    \/ \E p \in Principals, e \in 0..MaxEpoch, to \in Devices, copy \in EnvelopeCopies :
         UploadEnvelope(p, e, to, copy)
    \/ \E d \in Devices, r \in RecordObjects("record") : UploadRecord(d, r)
    \/ \E p \in Principals, q \in RecordObjects("snapshot_part") : UploadPart(p, q)
    \/ \E i \in 1..MaxInteger : Repair(i)
    \/ \E p \in Principals, d \in Devices, k \in Marks, Q \in SUBSET parts :
         Snapshot(p, Compaction(d, k, Q))
    \/ \E i \in 1..Len(log), through \in Marks, D \in SUBSET (0..MaxEpoch) :
         Prune(log[i], through, D)
    \/ \E D \in SUBSET (0..MaxEpoch) : Maintenance(D)
    \/ \E p \in Principals : Delete(p) \/ Reject(p) \/ Respond(p)
    \/ \E p \in Principals, n \in 1..MaxCandidates : AuditReject(p, n)
    \/ Restart

Spec == Init /\ [][Next]_vars

-----------------------------------------------------------------------------
(***************************************************************************)
(* Properties                                                              *)
(***************************************************************************)
Cuts == [head_seq: Nat, epoch: Nat, min_available: Nat]
Accepts == LogObjects \cup RecordObjects("snapshot_part")
Entries ==
    [op: {"accept", "reject", "prune", "delete"}, object: Accepts \cup {NoObject}, seq: Nat]

\* Types: every row holds a value of its column (schema.sql, store.rs Chain).
TypeOK ==
    /\ epoch \in EpochObjects
    /\ minAvailable \in Nat
    /\ boundary \in Compactions \cup {NoObject}
    /\ log \in Seq(LogObjects)
    /\ cleared \subseteq 1..Len(log)
    /\ parts \subseteq RecordObjects("snapshot_part")
    /\ nulled \subseteq LogObjects
    /\ receipts \subseteq [object: Accepts, seq: Nat, index: Nat]
    /\ transparency \in Seq(Entries)
    /\ heads \subseteq [index: Nat, cut: Cuts]
    /\ status \in [Devices -> {"absent", "pending_keys", "active", "revoked"}]
    /\ revokedSeq \in [Devices -> Nat]
    /\ payloadNonces \subseteq [epoch: Nat, nonce: Nonces, id: RecordIds \cup PartIds]
    /\ handoffs \subseteq Nat /\ expired \subseteq handoffs
    /\ deleted \in BOOLEAN
    /\ pc \in [Principals -> {"idle", "single", "batch", "single_rejected", "batch_rejected"}]

\* A record is in the log between the commit of its epoch and the commit of the
\* next one, whatever rotations ran between its upload's authentication and its
\* commit (record's EPOCH_STALE check, commit_epoch).
RecordsInTheirEpoch ==
    \A i, j \in 1..Len(log) :
        log[i].kind = "epoch" /\ log[j].kind = "record" =>
            (log[j].epoch < log[i].number <=> j < i)

\* From the entry that revokes a device on, the log has no record and no
\* compaction signed by it and no envelope for it, even if the device was
\* authenticated before the revocation (check_state and active_device).
RevokedDevicesAreSilent ==
    \A d \in Devices : status[d] = "revoked" =>
        \A i \in revokedSeq[d]..Len(log) :
            /\ log[i].kind \in {"record", "compaction"} => log[i].by # d
            /\ log[i].kind = "envelope" => log[i].to # d

\* Every device that is not revoked, and the recovery key, can still fetch the
\* current epoch's key: nobody is locked out by a rotation, an enrollment or an
\* expiry (bundle, enroll, expire).
Readable(o) == InLog(o) /\ o \notin nulled
MembersHoldCurrentKey ==
    \A to \in Registered \cup {Recovery} : Readable(Envelope(epoch.number, to, 0))

\* A receipt names the transparency entry and the log position of its object, and
\* every accepted object has exactly one receipt (append, snapshot_part, IT-33).
ReceiptsMatchEvidence ==
    /\ \A r \in receipts :
         /\ r.index \in 1..Len(transparency)
         /\ transparency[r.index] = Entry("accept", r.object, r.seq)
         /\ r.seq # 0 => r.seq \in 1..Len(log) /\ log[r.seq] = r.object
    /\ \A i \in 1..Len(log) : \E r \in receipts : r.seq = i
    /\ \A q \in parts : \E r \in receipts : r.object = q
    /\ \A r1, r2 \in receipts : r1.object = r2.object => r1 = r2

\* The relay has published exactly one signed head for the current transparency
\* index, and it describes the chain row of the same moment (save).
HeadDescribesChain ==
    /\ [index |-> Len(transparency), cut |-> Cut] \in heads
    /\ \A h1, h2 \in heads : h1.index = h2.index => h1 = h2

\* No object is in the log twice, whatever is retried or repaired (append, IT-04).
AcceptedOnce == \A i, j \in 1..Len(log) : log[i] = log[j] => i = j

\* Positions from min_available_seq on are complete: neither a prune nor an expiry
\* has emptied an entry or removed the body of a record there (prune, expire).
SuffixAvailable ==
    /\ \A i \in cleared : i < minAvailable
    /\ \A i \in minAvailable..Len(log) : log[i].kind = "record" => log[i] \notin nulled

\* The snapshot that stands in for the pruned prefix can be decrypted: it is in
\* the log, its parts are stored, and the recovery envelope of the epoch they are
\* encrypted under has not been removed (prune, handoff, expire).
BoundaryReadable ==
    boundary # NoObject =>
        /\ InLog(boundary) /\ boundary.covered + 1 >= minAvailable
        /\ \A q \in boundary.parts : q \in parts /\ Readable(Envelope(q.epoch, Recovery, 0))

\* No two stored ciphertexts of an epoch use one payload nonce, across the record
\* and the snapshot part route (record, reserve_payload_nonce).
Ciphertexts == {log[i] : i \in {j \in 1..Len(log) : log[j].kind = "record"}} \cup parts
PayloadNonceUnique ==
    \A x, y \in Ciphertexts : x.epoch = y.epoch /\ x.nonce = y.nonce => x = y

\* A revocation is final: no enrollment, emergency bundle or acknowledgement
\* brings a revoked device back or moves its revocation (register, ack).
RevocationIsFinal ==
    [][\A d \in Devices : status[d] = "revoked" =>
          status'[d] = "revoked" /\ revokedSeq'[d] = revokedSeq[d]]_vars

\* The chain's evidence keeps what an evidence log promises: every operation that
\* writes, batches, retries, prunes, expiries and deletions included, accepts new
\* objects in one step with their entries and receipts or only publishes notes, and
\* leaves all earlier evidence as it was (append, snapshot_part, audit_reject).
Evidence == INSTANCE EvidenceLog WITH published <- transparency
ImplementsEvidenceLog == Evidence!Spec

(***************************************************************************)
(* What documents and comments say and the code does not do: as an INVARIANT *)
(* of the run TLC refutes each.                                              *)
(***************************************************************************)
\* docs/v3.0.md 17.7: the relay "rejects subsequent chain writes" once the
\* deletion ledger entry is persisted: the delete entry stays the last one.
NothingAfterDelete ==
    deleted => transparency[Len(transparency)] = Note("delete")

\* docs/v3.0.md 13.5: ciphertexts may outlive their keys, but "their application
\* state MUST remain accessible through a complete newly encrypted snapshot before
\* expiry": a snapshot under a newer epoch covers every record of an expired epoch.
ExpiredEpochIsCovered ==
    \A i \in 1..Len(log) :
        log[i].kind = "record" /\ log[i].epoch \in expired =>
            \E j \in 1..Len(log) :
                /\ log[j].kind = "compaction"
                /\ log[j].covered >= i /\ log[j].epoch > log[i].epoch

\* docs/v3.0.md 13.5: the relay "removes old recovery/device envelopes"; an
\* expired epoch has no envelope left to read.
ExpiredKeysRemoved ==
    \A i \in 1..Len(log) :
        log[i].kind = "envelope" /\ log[i].epoch \in expired => i \in cleared
=============================================================================
