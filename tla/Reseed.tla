------------------------------- MODULE Reseed -------------------------------
(***************************************************************************)
(* Generations of one chain: POST /chains/import stages signed history, the  *)
(* admin stages snapshot parts of the next generation, and PUT parameters    *)
(* commits that generation with a new log id, on the relay that holds the    *)
(* chain or on a replacement relay that does not.  Every handler is one      *)
(* transaction; a refused or repeated request changes nothing.               *)
(*                                                                         *)
(* A stored control object without a receipt is staged: its log_id is NULL.  *)
(* Envelopes and admin operations go with their epoch and are left out.      *)
(***************************************************************************)
EXTENDS Integers, Sequences, FiniteSets, SequencesExt

CONSTANTS
    Devices, Creator,     \* device ids; the device of the genesis
    Admin,
    RecordIds, Nonces,    \* ids and payload nonces of records and snapshot parts
    SourceEpoch,          \* epoch of the history a replacement relay is given
    None,
    MaxEpoch, MaxGeneration, MaxIndex   \* bounds of the model

ASSUME ReseedAssumption ==
    IsFiniteSet(Devices) /\ Creator \in Devices /\ SourceEpoch \in Nat

\* The rows of v3_registry; None stands for no row.
RegistryRows == [gen : Nat, status : {"pending_keys", "active", "revoked"}]
ASSUME AbsentRowAssumption == None \notin RegistryRows

Parameters(g) == [kind |-> "parameters", id |-> g, gen |-> g]
Epoch(e, g) == [kind |-> "epoch", id |-> e, gen |-> g]
Device(d, g) == [kind |-> "device", id |-> d, gen |-> g]
Record(i, d, e, g, n) == [kind |-> "record", id |-> i, by |-> d, epoch |-> e, gen |-> g, nonce |-> n]
Compaction(g, Q) == [kind |-> "compaction", id |-> g, gen |-> g, parts |-> Q]

VARIABLES
    mode,           \* "none", or the chain row: "staged" (not writable) or "live"
    gen, epoch,     \* generation of the parameters and number of the epoch
    logId, head,    \* log_id and head_seq
    index,          \* transparency_index
    objects,        \* v3_objects
    receipts,       \* v3_receipts: object, log id, position (0 for parts), index
    registry,       \* v3_registry: generation and status
    imports,        \* v3_imports
    payloadNonces,  \* v3_payload_nonces
    nextLog         \* the next fresh log id

chainRow == <<mode, gen, epoch, logId, head, index>>
vars == <<mode, gen, epoch, logId, head, index, objects, receipts, registry, imports,
          payloadNonces, nextLog>>

Receipted(o) == \E r \in receipts : r.object = o
StagedAgain == {o \in objects : o.kind \in {"parameters", "epoch", "device"}}
Staged == {o \in objects : o.kind \in {"parameters", "epoch", "device"} /\ ~Receipted(o)}

\* put_object: an id keeps its first content; records and parts share their ids.
IdSpace(kind) == IF kind = "part" THEN "record" ELSE kind
NoConflict(o) ==
    \A q \in objects : IdSpace(q.kind) = IdSpace(o.kind) /\ q.id = o.id => q = o

\* append of the objects os, in order, to the log l after position n and
\* transparency index i.
ReceiptsOf(os, l, n, i) ==
    {[object |-> os[k], log |-> l, seq |-> n + k, index |-> i + k] : k \in 1..Len(os)}
AppendAll(os) ==
    /\ index + Len(os) <= MaxIndex
    /\ objects' = objects \cup {os[k] : k \in 1..Len(os)}
    /\ receipts' = receipts \cup ReceiptsOf(os, logId, head, index)
    /\ head' = head + Len(os)
    /\ index' = index + Len(os)

Genesis == <<Parameters(0), Device(Creator, 0), Epoch(0, 0)>>
Init ==
    /\ gen = 0 /\ imports = None /\ payloadNonces = {} /\ nextLog = 1
    /\ \/ /\ mode = "live" /\ epoch = 0 /\ logId = 0
          /\ head = Len(Genesis) /\ index = Len(Genesis)
          /\ objects = {Genesis[k] : k \in 1..Len(Genesis)}
          /\ receipts = ReceiptsOf(Genesis, 0, 0, 0)
          /\ registry = [d \in Devices |-> IF d = Creator THEN [gen |-> 0, status |-> "active"]
                                                          ELSE None]
       \/ /\ mode = "none" /\ epoch = 0 /\ logId = 0 /\ head = 0 /\ index = 0
          /\ objects = {} /\ receipts = {}
          /\ registry = [d \in Devices |-> None]

Members == {d \in Devices : registry[d] # None /\ registry[d].status # "revoked"}

\* active_device
IsActive(d, g) == registry[d] = [gen |-> g, status |-> "active"]

(***************************************************************************)
(* The operations of a live chain.                                         *)
(***************************************************************************)
Enroll(d) ==
    /\ mode = "live"
    /\ \A o \in objects : ~(o.kind = "device" /\ o.id = d)
    /\ AppendAll(<<Device(d, gen)>>)
    /\ registry' = [registry EXCEPT ![d] = [gen |-> gen, status |-> "pending_keys"]]
    /\ UNCHANGED <<mode, gen, epoch, logId, imports, payloadNonces, nextLog>>

Ack(d) ==
    /\ mode = "live"
    /\ registry[d] = [gen |-> gen, status |-> "pending_keys"]
    /\ registry' = [registry EXCEPT ![d].status = "active"]
    /\ UNCHANGED <<chainRow, objects, receipts, imports, payloadNonces, nextLog>>

\* A rotation revokes R; in an emergency the admin brings the records of devices D.
DeviceRecords(D, g) == SetToSeq({Device(d, g) : d \in D})
Rotate(R, D) ==
    /\ mode = "live" /\ epoch < MaxEpoch
    /\ R \subseteq Members /\ (Members \ R) \cup D # {}
    /\ \A o \in objects : ~(o.kind = "device" /\ o.id \in D)
    /\ NoConflict(Epoch(epoch + 1, gen))
    /\ AppendAll(DeviceRecords(D, gen) \o <<Epoch(epoch + 1, gen)>>)
    /\ epoch' = epoch + 1
    /\ registry' = [d \in Devices |->
                      IF d \in R THEN [registry[d] EXCEPT !.status = "revoked"]
                      ELSE IF d \in D THEN [gen |-> gen, status |-> "pending_keys"]
                      ELSE registry[d]]
    /\ UNCHANGED <<mode, gen, logId, imports, payloadNonces, nextLog>>

\* domain.rs record, for an object of the current generation, and for a part of an
\* older generation that the admin restores.
NonceFree(r) ==
    \A n \in payloadNonces : n.epoch = r.epoch /\ n.nonce = r.nonce => n.id = r.id
OfCurrentMember(r) ==
    /\ r.gen = gen
    /\ IsActive(r.by, gen)
    /\ r.epoch = epoch
    /\ NonceFree(r)
OfHistory(r) ==
    /\ r.gen <= gen
    /\ {Parameters(r.gen), Epoch(r.epoch, r.gen), Device(r.by, r.gen)} \subseteq objects
    /\ NonceFree(r)

\* reserve_payload_nonce is INSERT OR IGNORE.
Reserve(r) ==
    payloadNonces' = IF \E n \in payloadNonces : n.epoch = r.epoch /\ n.nonce = r.nonce
                       THEN payloadNonces
                       ELSE payloadNonces \cup {[epoch |-> r.epoch, nonce |-> r.nonce, id |-> r.id]}

UploadRecord(r) ==
    /\ mode = "live"
    /\ r \notin objects /\ NoConflict(r)
    /\ registry[r.by] # None
    /\ OfCurrentMember(r)
    /\ Reserve(r)
    /\ AppendAll(<<r>>)
    /\ UNCHANGED <<mode, gen, epoch, logId, registry, imports, nextLog>>

\* snapshot_part: a receipt without a log position.  While an import is staged, the
\* admin's parts of the next generation are held unchecked.
PartAccepted(p, r) ==
    \/ p # Admin /\ r.by = p /\ OfCurrentMember(r)
    \/ p = Admin /\ imports # None /\ r.gen = gen + 1
    \/ p = Admin /\ OfHistory(r)
UploadPart(p, r) ==
    /\ mode # "none" /\ index < MaxIndex
    /\ r \notin objects /\ NoConflict(r)
    /\ PartAccepted(p, r)
    /\ Reserve(r)
    /\ objects' = objects \cup {r}
    /\ receipts' = receipts \cup {[object |-> r, log |-> logId, seq |-> 0, index |-> index + 1]}
    /\ index' = index + 1
    /\ UNCHANGED <<mode, gen, epoch, logId, head, registry, imports, nextLog>>

(***************************************************************************)
(* stage: the history H, whose last parameters and epoch are those of         *)
(* generation g and epoch e.                                               *)
(***************************************************************************)
HeadMatches(g, e) == mode # "none" => g = gen /\ e = epoch
StagedHeadMatches(g, e) == imports # None => imports.gen = g /\ imports.epoch = e
ImportRow(g, e) ==
    IF imports = None THEN [log |-> nextLog, gen |-> g, epoch |-> e] ELSE imports

\* The history ends with the head, and an id has one content in it and in the table;
\* signatures and hash links hold for the objects that clients have.
HistoryValid(H, g, e) ==
    /\ {Parameters(g), Epoch(e, g)} \subseteq H
    /\ \A o \in H : NoConflict(o) /\ \A q \in H : q.kind = o.kind /\ q.id = o.id => q = o
Stage(H, g, e) ==
    /\ HeadMatches(g, e)
    /\ StagedHeadMatches(g, e)
    /\ HistoryValid(H, g, e)
    /\ imports = None \/ ~(H \subseteq objects)
    /\ objects' = objects \cup H
    /\ imports' = ImportRow(g, e)
    /\ nextLog' = IF imports = None THEN nextLog + 1 ELSE nextLog
    /\ IF mode = "none"
         THEN /\ mode' = "staged" /\ gen' = g /\ epoch' = e /\ logId' = imports'.log
              /\ UNCHANGED <<head, index>>
         ELSE UNCHANGED chainRow
    /\ UNCHANGED <<receipts, registry, payloadNonces>>

(***************************************************************************)
(* reseed: the devices D of the next generation and the parts Q of its       *)
(* snapshot.                                                               *)
(***************************************************************************)
\* The staged objects, kind by kind, in the order in which they are appended.
InOrder(kind) == SetToSeq({o \in Staged : o.kind = kind})
StagedInOrder == InOrder("parameters") \o InOrder("device") \o InOrder("epoch")

\* compaction: every part is of the new generation and epoch and by a new device.
SnapshotUnsigned(Q, D) ==
    Q # {} /\ \A q \in Q : q \in objects /\ q.gen = gen + 1 /\ q.epoch = epoch + 1
SnapshotOf(Q, D) ==
    Q # {} /\ \A q \in Q : q \in objects /\ q.gen = gen + 1 /\ q.epoch = epoch + 1 /\ q.by \in D

\* The registry after the commit: staged history becomes revoked rows, every
\* member of an older generation is retired, D wait for their keys.
MembersKept(D) ==
    [d \in Devices |-> IF d \in D THEN [gen |-> gen + 1, status |-> "pending_keys"]
                                  ELSE registry[d]]
MembersRetired(D) ==
    [d \in Devices |->
        IF d \in D THEN [gen |-> gen + 1, status |-> "pending_keys"]
        ELSE IF registry[d] # None THEN [registry[d] EXCEPT !.status = "revoked"]
        ELSE IF \E o \in Staged : o.kind = "device" /\ o.id = d
               THEN [gen |-> (CHOOSE o \in Staged : o.kind = "device" /\ o.id = d).gen,
                     status |-> "revoked"]
        ELSE None]

\* The incarnation that was announced when the import was staged.
LogKept == logId
LogStaged == imports.log

CompareAndSwap == imports # None /\ imports.gen = gen /\ imports.epoch = epoch
Reseed(D, Q) ==
    /\ mode # "none" /\ gen < MaxGeneration
    /\ CompareAndSwap
    /\ D # {}
    /\ \A o \in objects : ~(o.kind = "device" /\ o.id \in D)
    /\ SnapshotOf(Q, D)
    /\ LET os == StagedInOrder \o <<Parameters(gen + 1)>> \o DeviceRecords(D, gen + 1)
                   \o <<Epoch(epoch + 1, gen + 1), Compaction(gen + 1, Q)>>
       IN /\ \A k \in 1..Len(os) : NoConflict(os[k])
          /\ index + Len(os) <= MaxIndex
          /\ objects' = objects \cup {os[k] : k \in 1..Len(os)}
          /\ receipts' = receipts \cup ReceiptsOf(os, LogStaged, 0, index)
          /\ head' = Len(os)
          /\ index' = index + Len(os)
    /\ registry' = MembersRetired(D)
    /\ mode' = "live" /\ gen' = gen + 1 /\ epoch' = epoch + 1 /\ logId' = LogStaged
    /\ imports' = None
    /\ UNCHANGED <<payloadNonces, nextLog>>

\* The signed history that clients hold: on a replacement relay all of the source
\* chain's generation 0, on a live relay the head's objects, and device records
\* that were signed for the current generation (D) or, by the admin, for the next (A).
History(g, e, D, A) ==
    {Parameters(g), Epoch(e, g)}
      \cup (IF mode = "live" THEN {} ELSE {Epoch(i, g) : i \in 0..e})
      \cup {Device(d, g) : d \in D} \cup {Device(d, g + 1) : d \in A}

Records ==
    {Record(i, d, e, g, n) : i \in RecordIds, d \in Devices, e \in {epoch, epoch + 1},
                             g \in {gen, gen + 1}, n \in Nonces}
Parts == {[r EXCEPT !.kind = "part"] : r \in Records}

Next ==
    \/ \E d \in Devices : Enroll(d) \/ Ack(d)
    \/ \E R, D \in SUBSET Devices : Rotate(R, D)
    \/ \E r \in Records : UploadRecord(r)
    \/ \E r \in Parts, p \in Devices \cup {Admin} : UploadPart(p, r)
    \/ \E D, A \in SUBSET Devices :
         \/ mode = "none" /\ Stage(History(0, SourceEpoch, D, A), 0, SourceEpoch)
         \/ mode # "none" /\ Stage(History(gen, epoch, D, A), gen, epoch)
    \/ \E D \in SUBSET Devices, Q \in SUBSET {o \in objects : o.kind = "part"} : Reseed(D, Q)

Spec == Init /\ [][Next]_vars

-----------------------------------------------------------------------------
\* Whoever may act on a chain belongs to its current generation: imported and
\* retired devices are never members of a later one (reseed, bundle, commit_epoch).
MembersOfCurrentGeneration == \A d \in Members : registry[d].gen = gen

\* The evidence of all generations is one sequence: no two objects share a
\* transparency index, and none a position of a log (reseed keeps the transparency
\* sequence and takes the staged log id; stage, append).
EvidenceIsOneSequence ==
    \A r, q \in receipts : r # q =>
        /\ r.index # q.index
        /\ r.log = q.log /\ r.seq # 0 => r.seq # q.seq

\* An object has one receipt in all generations, and the log of the current one
\* is gapless (append, reseed).
OneReceipt ==
    /\ \A r, q \in receipts : r.object = q.object => r = q
    /\ {r.seq : r \in {q \in receipts : q.log = logId /\ q.seq # 0}} = 1..head

\* Every record of the log was written by a device of the record's generation (record,
\* active_device).  So was every part of a committed snapshot, though it was staged
\* unchecked: it is stored, and its device and its epoch are of the snapshot's
\* generation (record, compaction, reseed).
Authored(o) ==
    /\ o.kind = "record" => Device(o.by, o.gen) \in objects
    /\ o.kind = "compaction" => \A q \in o.parts :
         q \in objects /\ {Epoch(q.epoch, o.gen), Device(q.by, o.gen)} \subseteq objects
AuthorOfGeneration == \A o \in objects : Authored(o)

(***************************************************************************)
(* What documents and comments say and the code does not do: as an INVARIANT *)
(* of the run TLC refutes each.                                              *)
(***************************************************************************)
\* A live chain can be staged again whenever an import is staged ("Failed staging
\* can be retried idempotently", docs/v3.0.md 17.5; stage).
StagingCanBeRetried == mode = "live" => StagedHeadMatches(gen, epoch)

\* No payload nonce repeats under the key of one epoch (docs/v3.0.md 7.7; record,
\* reserve_payload_nonce).
NonceNotRepeated ==
    \A o, q \in objects : o.kind \in {"record", "part"} /\ q.kind \in {"record", "part"} /\ o # q
        => ~(o.gen = q.gen /\ o.epoch = q.epoch /\ o.nonce = q.nonce)
=============================================================================
