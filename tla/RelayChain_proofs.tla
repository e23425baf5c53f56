------------------------- MODULE RelayChain_proofs --------------------------
(* Type correctness of RelayChain and its safety properties, for every value of the
   constants.  Three inductive invariants: LogInv (epochs, records, revocations),
   EvidenceInv (log, transparency log and receipts) and RowInv (keys, pruned rows,
   payload nonces); the later ones use the earlier ones. *)
EXTENDS RelayChain, TLAPS, SequenceTheorems

(***************************************************************************)
(* The log objects, and what an append does to the types.                  *)
(***************************************************************************)
LEMMA Kinds ==
    ASSUME NEW o \in LogObjects
    PROVE  /\ o.kind = "record" => o \in RecordObjects("record")
           /\ o.kind = "compaction" => o \in Compactions
           /\ o.kind = "envelope" => o \in Envelopes
           /\ o.kind = "epoch" => o \in EpochObjects
  BY DEF LogObjects, Parameters, Device, Envelopes, EpochObjects, RecordObjects, Compactions

LEMMA ObjectTypes ==
    /\ \A d \in Devices : Device(d) \in LogObjects
    /\ \A e \in Nat, to \in Devices \cup {Recovery}, k \in EnvelopeCopies \cup {0} :
         Envelope(e, to, k) \in Envelopes
    /\ \A n \in Nat, M \in SUBSET Devices, R \in SUBSET Devices : Epoch(n, M, R) \in EpochObjects
    /\ \A a \in Actions, id \in Nat : AdminOperation(a, id) \in LogObjects
    /\ Envelopes \subseteq LogObjects /\ EpochObjects \subseteq LogObjects
    /\ RecordObjects("record") \subseteq LogObjects /\ Compactions \subseteq LogObjects
    /\ Parameters \in LogObjects
<1>1. \A d \in Devices : Device(d) \in LogObjects
  BY DEF LogObjects
<1>2. \A e \in Nat, to \in Devices \cup {Recovery}, k \in EnvelopeCopies \cup {0} :
         Envelope(e, to, k) \in Envelopes
  BY DEF Envelope, Envelopes
<1>3. \A n \in Nat, M \in SUBSET Devices, R \in SUBSET Devices : Epoch(n, M, R) \in EpochObjects
  BY DEF Epoch, EpochObjects
<1>4. \A a \in Actions, id \in Nat : AdminOperation(a, id) \in LogObjects
  BY DEF AdminOperation, LogObjects
<1>5. /\ Envelopes \subseteq LogObjects /\ EpochObjects \subseteq LogObjects
      /\ RecordObjects("record") \subseteq LogObjects /\ Compactions \subseteq LogObjects
      /\ Parameters \in LogObjects
  BY DEF LogObjects
<1> QED BY <1>1, <1>2, <1>3, <1>4, <1>5

ReceiptRows == [object: Accepts, seq: Nat, index: Nat]

LEMMA AcceptedType ==
    ASSUME log \in Seq(LogObjects), NEW os \in Seq(LogObjects)
    PROVE  Accepted(os) \in Seq(Entries) /\ Len(Accepted(os)) = Len(os)
<1>1. \A i \in 1..Len(os) : Entry("accept", os[i], Len(log) + i) \in Entries
  <2> TAKE i \in 1..Len(os)
  <2>1. os[i] \in Accepts \cup {NoObject} /\ Len(log) + i \in Nat
    BY DEF Accepts
  <2> QED BY <2>1 DEF Entry, Entries
<1> QED BY <1>1 DEF Accepted

LEMMA AppendTypes ==
    ASSUME TypeOK, NEW os \in Seq(LogObjects), NEW notes \in Seq(Entries), AppendAll(os, notes)
    PROVE  /\ log' \in Seq(LogObjects) /\ log' = log \o os
           /\ Len(log') = Len(log) + Len(os)
           /\ transparency' \in Seq(Entries)
           /\ Len(transparency') = Len(transparency) + Len(os) + Len(notes)
           /\ receipts' \subseteq ReceiptRows
<1>1. log' \in Seq(LogObjects) /\ log' = log \o os /\ Len(log') = Len(log) + Len(os)
  BY DEF TypeOK, AppendAll
<1>2. Accepted(os) \in Seq(Entries) /\ Len(Accepted(os)) = Len(os)
  BY AcceptedType DEF TypeOK
<1>3. /\ transparency' \in Seq(Entries)
      /\ Len(transparency') = Len(transparency) + Len(os) + Len(notes)
  <2> DEFINE front == transparency \o Accepted(os)
  <2>1. transparency \in Seq(Entries) /\ transparency' = front \o notes
    BY DEF TypeOK, AppendAll
  <2>2. front \in Seq(Entries) /\ Len(front) = Len(transparency) + Len(os)
    BY <1>2, <2>1, ConcatProperties
  <2> HIDE DEF front
  <2>3. /\ front \o notes \in Seq(Entries)
        /\ Len(front \o notes) = Len(front) + Len(notes)
    BY <2>2, ConcatProperties
  <2> QED BY <2>1, <2>2, <2>3
<1>4. Receipts(os) \subseteq ReceiptRows
  <2>1. \A i \in 1..Len(os) :
          [object |-> os[i], seq |-> Len(log) + i, index |-> Len(transparency) + i] \in ReceiptRows
    <3> TAKE i \in 1..Len(os)
    <3>1. os[i] \in Accepts /\ Len(log) + i \in Nat /\ Len(transparency) + i \in Nat
      BY DEF Accepts, TypeOK
    <3> QED BY <3>1 DEF ReceiptRows
  <2> QED BY <2>1 DEF Receipts
<1>5. receipts' \subseteq ReceiptRows
  BY <1>4 DEF TypeOK, AppendAll, ReceiptRows
<1> QED BY <1>1, <1>3, <1>5

LEMMA SaveTypes ==
    ASSUME TypeOK, Save, log' \in Seq(LogObjects), transparency' \in Seq(Entries),
           epoch' \in EpochObjects, minAvailable' \in Nat
    PROVE  heads' \subseteq [index: Nat, cut: Cuts]
<1>1. Cut' \in Cuts
  BY DEF Cut, Cuts, EpochObjects
<1>2. [index |-> Len(transparency'), cut |-> Cut'] \in [index: Nat, cut: Cuts]
  BY <1>1
<1> QED BY <1>2 DEF Save, TypeOK

(***************************************************************************)
(* The objects each operation appends.                                     *)
(***************************************************************************)
\* What an operation may append while the current epoch stays.
Ordinary ==
    {o \in LogObjects :
        /\ o.kind # "epoch"
        /\ o.kind = "record" => o.epoch = epoch.number /\ active_device(o.by)
        /\ o.kind = "compaction" => active_device(o.by)
        /\ o.kind = "envelope" /\ o.to # Recovery => status[o.to] # "revoked"}

\* What an epoch bundle holds besides the epoch object.
Bundled(M) ==
    {o \in LogObjects :
        /\ o.kind \notin {"epoch", "record", "compaction"}
        /\ o.kind = "envelope" => o.to \in M \cup {Recovery}}

LEMMA NewObjectsType ==
    ASSUME NEW T, NEW o \in T
    PROVE  NewObjects(o) \in Seq(T)
  BY DEF NewObjects

LEMMA EnrollObjects ==
    ASSUME TypeOK, NEW d \in Devices, NEW es \in EnrollmentEpochs, status[d] = "absent"
    PROVE  <<Device(d)>> \o EnrollEnvelopes(d, es)
             \o <<AdminOperation("approve_enrollment", Len(log))>> \in Seq(Ordinary)
<1>1. Device(d) \in Ordinary
  BY ObjectTypes DEF Ordinary, Device
<1>2. AdminOperation("approve_enrollment", Len(log)) \in Ordinary
  BY ObjectTypes DEF Ordinary, AdminOperation, Actions, TypeOK
<1>3. es \in Seq(Nat)
  <2>1. PICK n \in 1..MaxEnvelopes : es \in Injection(1..n, 0..epoch.number)
    BY DEF EnrollmentEpochs
  <2>2. es \in [1..n -> 0..epoch.number]
    BY <2>1 DEF Injection
  <2>3. n \in Nat
    BY ConstantsAssumption
  <2> QED BY <2>2, <2>3
<1>4. \A i \in 1..Len(es) : Envelope(es[i], d, 0) \in Ordinary
  <2> TAKE i \in 1..Len(es)
  <2>1. es[i] \in Nat
    BY <1>3
  <2>2. Envelope(es[i], d, 0) \in LogObjects
    BY <2>1, ObjectTypes
  <2> QED BY <2>2 DEF Envelope, Ordinary
<1>5. EnrollEnvelopes(d, es) \in Seq(Ordinary)
  BY <1>3, <1>4 DEF EnrollEnvelopes
<1>6. <<Device(d)>> \in Seq(Ordinary) /\ <<AdminOperation("approve_enrollment", Len(log))>> \in Seq(Ordinary)
  BY <1>1, <1>2
<1> HIDE DEF EnrollEnvelopes, Ordinary, Device, AdminOperation
<1> QED BY <1>5, <1>6, ConcatProperties

\* An epoch bundle is bundled objects followed by the epoch.
BundleFront(n, M, S, op) ==
    DeviceRecords(S) \o MemberEnvelopes(n, M) \o <<Envelope(n, Recovery, 0)>> \o op

LEMMA BundleObjects ==
    ASSUME NEW n \in Nat, NEW M \in SUBSET Devices, NEW R, NEW S \in SUBSET Devices,
           NEW op \in Seq(Bundled(M))
    PROVE  /\ BundleFront(n, M, S, op) \in Seq(Bundled(M))
           /\ EpochBundle(n, M, R, S, op) = BundleFront(n, M, S, op) \o <<Epoch(n, M, R)>>
<1>1. DeviceRecords(S) \in Seq(Bundled(M))
  <2>1. SortedIds[S] \in Seq(S)
    BY SortedIdsAssumption
  <2>2. \A i \in 1..Len(SortedIds[S]) : Device(SortedIds[S][i]) \in Bundled(M)
    <3> TAKE i \in 1..Len(SortedIds[S])
    <3>1. SortedIds[S][i] \in Devices
      BY <2>1
    <3> QED BY <3>1, ObjectTypes DEF Bundled, Device
  <2> QED BY <2>1, <2>2 DEF DeviceRecords
<1>2. MemberEnvelopes(n, M) \in Seq(Bundled(M))
  <2>1. SortedIds[M] \in Seq(M)
    BY SortedIdsAssumption
  <2>2. \A i \in 1..Len(SortedIds[M]) : Envelope(n, SortedIds[M][i], 0) \in Bundled(M)
    <3> TAKE i \in 1..Len(SortedIds[M])
    <3>1. SortedIds[M][i] \in M
      BY <2>1
    <3>2. Envelope(n, SortedIds[M][i], 0) \in LogObjects
      BY <3>1, ObjectTypes
    <3> QED BY <3>1, <3>2 DEF Bundled, Envelope
  <2> QED BY <2>1, <2>2 DEF MemberEnvelopes
<1>3. <<Envelope(n, Recovery, 0)>> \in Seq(Bundled(M))
  <2>1. Envelope(n, Recovery, 0) \in LogObjects
    BY ObjectTypes
  <2> QED BY <2>1 DEF Bundled, Envelope
<1>5. DeviceRecords(S) \o MemberEnvelopes(n, M) \in Seq(Bundled(M))
  BY <1>1, <1>2, ConcatProperties
<1>6. DeviceRecords(S) \o MemberEnvelopes(n, M) \o <<Envelope(n, Recovery, 0)>> \in Seq(Bundled(M))
  BY <1>3, <1>5, ConcatProperties
<1>7. BundleFront(n, M, S, op) \in Seq(Bundled(M))
  BY <1>6, ConcatProperties DEF BundleFront
<1> QED BY <1>7 DEF BundleFront, EpochBundle

\* How a rotation changes the log.
LEMMA RotateStep ==
    ASSUME TypeOK, NEW p \in Principals, NEW M \in SUBSET Devices, NEW R \in SUBSET Devices,
           NEW S \in SUBSET Devices, Rotate(p, M, R, S)
    PROVE  \E front \in Seq(Bundled(M)) :
             /\ front \o <<epoch'>> \in Seq(LogObjects)
             /\ AppendAll(front \o <<epoch'>>, <<>>)
             /\ log' = log \o (front \o <<epoch'>>)
             /\ epoch' = Epoch(epoch.number + 1, M, R)
             /\ epoch' \in EpochObjects
<1>1. PICK n \in Nat, k \in Nat : n = epoch.number + 1 /\ k = Len(log)
  BY DEF TypeOK, EpochObjects
<1>2. PICK op : op = IF p = Admin /\ R # {} THEN <<AdminOperation("revoke_device", k)>> ELSE <<>>
  OBVIOUS
<1> DEFINE front == BundleFront(n, M, S, op)
<1>4. epoch' = Epoch(n, M, R) /\ AppendAll(EpochBundle(n, M, R, S, op), <<>>)
  BY <1>1, <1>2 DEF Rotate
<1>3. front \in Seq(Bundled(M)) /\ EpochBundle(n, M, R, S, op) = front \o <<epoch'>>
  <2>1. <<AdminOperation("revoke_device", k)>> \in Seq(Bundled(M))
    BY ObjectTypes DEF Bundled, AdminOperation, Actions
  <2>2. op \in Seq(Bundled(M))
    BY <1>2, <2>1
  <2> QED BY <1>4, <2>2, BundleObjects
<1>6. epoch' \in EpochObjects /\ epoch' \in LogObjects
  BY <1>4, ObjectTypes
<1> HIDE DEF front
<1>5. front \in Seq(LogObjects)
  BY <1>3 DEF Bundled
<1>7. front \o <<epoch'>> \in Seq(LogObjects)
  BY <1>5, <1>6, ConcatProperties
<1>8. AppendAll(front \o <<epoch'>>, <<>>)
  BY <1>3, <1>4
<1>9. log' = log \o (front \o <<epoch'>>)
  BY <1>8 DEF AppendAll
<1>10. epoch' = Epoch(epoch.number + 1, M, R)
  BY <1>1, <1>4
<1> QED BY <1>3, <1>6, <1>7, <1>8, <1>9, <1>10

(***************************************************************************)
(* Type correctness.                                                       *)
(***************************************************************************)
EvidenceTypes ==
    /\ log \in Seq(LogObjects)
    /\ receipts \subseteq ReceiptRows
    /\ transparency \in Seq(Entries)
    /\ heads \subseteq [index: Nat, cut: Cuts]

\* The evidence after a transaction that appends and saves.
LEMMA AppendStep ==
    ASSUME TypeOK, NEW os \in Seq(LogObjects), NEW notes \in Seq(Entries),
           AppendAll(os, notes), Save, epoch' \in EpochObjects, minAvailable' \in Nat
    PROVE  EvidenceTypes' /\ 1..Len(log) \subseteq 1..Len(log')
<1>1. /\ log' \in Seq(LogObjects) /\ Len(log') = Len(log) + Len(os)
      /\ transparency' \in Seq(Entries) /\ receipts' \subseteq ReceiptRows
  BY AppendTypes
<1>2. heads' \subseteq [index: Nat, cut: Cuts]
  BY <1>1, SaveTypes
<1>3. 1..Len(log) \subseteq 1..Len(log')
  BY <1>1 DEF TypeOK
<1> QED BY <1>1, <1>2, <1>3 DEF EvidenceTypes, ReceiptRows

LEMMA OrdinaryAreObjects == Seq(Ordinary) \subseteq Seq(LogObjects)
  BY DEF Ordinary

Notes == {e \in Entries : e.op # "accept"}

LEMMA NoNotes == <<>> \in Seq(Entries) /\ <<>> \in Seq(Notes)
  OBVIOUS

LEMMA NotesType ==
    \A op \in {"reject", "prune", "delete"} : Note(op) \in Entries /\ Note(op) \in Notes
  BY DEF Note, Entry, Entries, Notes

LEMMA NotesAreEntries == Seq(Notes) \subseteq Seq(Entries)
  BY DEF Notes

\* The objects that each append of an operation is about.
LEMMA UploadedObjects ==
    ASSUME TypeOK
    PROVE  /\ \A e \in 0..epoch.number, to \in Registered, copy \in EnvelopeCopies :
                NewObjects(Envelope(e, to, copy)) \in Seq(Ordinary)
           /\ \A a \in Actions : <<AdminOperation(a, Len(log))>> \in Seq(Ordinary)
           /\ \A c \in Compactions : CompactionValid(c) => <<c>> \in Seq(Ordinary)
<1>1. ASSUME NEW e \in 0..epoch.number, NEW to \in Registered, NEW copy \in EnvelopeCopies
      PROVE  NewObjects(Envelope(e, to, copy)) \in Seq(Ordinary)
  <2>1. e \in Nat /\ to \in Devices /\ status[to] # "revoked"
    BY DEF Registered, TypeOK, EpochObjects
  <2>2. Envelope(e, to, copy) \in LogObjects
    BY <2>1, ObjectTypes
  <2>3. Envelope(e, to, copy) \in Ordinary
    BY <2>1, <2>2 DEF Ordinary, Envelope
  <2> QED BY <2>3, NewObjectsType
<1>2. ASSUME NEW a \in Actions
      PROVE  <<AdminOperation(a, Len(log))>> \in Seq(Ordinary)
  <2>1. Len(log) \in Nat
    BY DEF TypeOK
  <2>2. AdminOperation(a, Len(log)) \in LogObjects
    BY <2>1, ObjectTypes
  <2>3. AdminOperation(a, Len(log)) \in Ordinary
    BY <2>2 DEF Ordinary, AdminOperation
  <2> QED BY <2>3
<1>3. ASSUME NEW c \in Compactions, CompactionValid(c)
      PROVE  <<c>> \in Seq(Ordinary)
  <2>1. c \in LogObjects /\ c.kind = "compaction"
    BY ObjectTypes DEF Compactions
  <2>2. c \in Ordinary
    BY <1>3, <2>1 DEF Ordinary, CompactionValid
  <2> QED BY <2>2
<1> QED BY <1>1, <1>2, <1>3

\* Every log entry has a receipt; it is why a retry appends nothing.
Receipted == \A i \in 1..Len(log) : \E r \in receipts : r.object = log[i]

LEMMA RetryAppendsNothing ==
    ASSUME TypeOK, Receipted, NEW o, InLog(o)
    PROVE  NewObjects(o) = <<>>
  BY DEF Receipted, InLog, NewObjects

LEMMA RecordObjectsType ==
    ASSUME TypeOK, Receipted, NEW d \in Devices, NEW r \in RecordObjects("record"),
           UploadRecord(d, r)
    PROVE  NewObjects(r) \in Seq(Ordinary)
<1>1. CASE InLog(r)
  <2>1. NewObjects(r) = <<>>
    BY <1>1, RetryAppendsNothing
  <2> QED BY <2>1
<1>2. CASE ~InLog(r)
  <2>1. r.kind = "record" /\ r \in LogObjects
    BY ObjectTypes DEF RecordObjects
  <2>2. r.epoch = epoch.number /\ r.by = d
    BY <1>2 DEF UploadRecord, EpochIsCurrent
  <2>3. active_device(d)
    BY ConstantsAssumption DEF UploadRecord, Authorized
  <2>4. r \in Ordinary
    BY <2>1, <2>2, <2>3 DEF Ordinary
  <2> QED BY <2>4, NewObjectsType
<1> QED BY <1>1, <1>2

\* What a step that keeps the epoch does to the log.
Extends == \E os \in Seq(Ordinary), notes \in Seq(Entries) : AppendAll(os, notes)

LEMMA ExtendingActions ==
    ASSUME TypeOK, Receipted
    PROVE  /\ \A d \in Devices, es \in EnrollmentEpochs : Enroll(d, es) => Extends
           /\ \A p \in Principals, e \in 0..MaxEpoch, to \in Devices, copy \in EnvelopeCopies :
                UploadEnvelope(p, e, to, copy) => Extends
           /\ \A d \in Devices, r \in RecordObjects("record") : UploadRecord(d, r) => Extends
           /\ \A i \in 1..MaxInteger : Repair(i) => Extends
           /\ \A p \in Principals, c \in Compactions : Snapshot(p, c) => Extends
           /\ \A c, through, D : Prune(c, through, D) => Extends
           /\ \A p \in Principals : Delete(p) => Extends
<1>1. ASSUME NEW d \in Devices, NEW es \in EnrollmentEpochs, Enroll(d, es) PROVE Extends
  <2>1. AppendAll(<<Device(d)>> \o EnrollEnvelopes(d, es)
                    \o <<AdminOperation("approve_enrollment", Len(log))>>, <<>>)
        /\ status[d] = "absent"
    BY <1>1 DEF Enroll
  <2> QED BY <2>1, EnrollObjects, NoNotes DEF Extends
<1>2. ASSUME NEW p \in Principals, NEW e \in 0..MaxEpoch, NEW to \in Devices,
             NEW copy \in EnvelopeCopies, UploadEnvelope(p, e, to, copy)
      PROVE  Extends
  <2>1. /\ e \in 0..epoch.number /\ to \in Registered
        /\ AppendAll(NewObjects(Envelope(e, to, copy)), <<>>)
    BY <1>2 DEF UploadEnvelope
  <2> QED BY <2>1, UploadedObjects, NoNotes DEF Extends
<1>3. ASSUME NEW d \in Devices, NEW r \in RecordObjects("record"), UploadRecord(d, r)
      PROVE  Extends
  <2>1. AppendAll(NewObjects(r), <<>>)
    BY <1>3 DEF UploadRecord
  <2> QED BY <1>3, <2>1, RecordObjectsType, NoNotes DEF Extends
<1>4. ASSUME NEW i \in 1..MaxInteger, Repair(i) PROVE Extends
  <2>1. InLog(log[i]) /\ AppendAll(NewObjects(log[i]), <<>>)
    BY <1>4 DEF Repair, InLog
  <2>2. AppendAll(<<>>, <<>>)
    BY <2>1, RetryAppendsNothing
  <2>3. <<>> \in Seq(Ordinary)
    OBVIOUS
  <2> QED BY <2>2, <2>3, NoNotes DEF Extends
<1>5. ASSUME NEW p \in Principals, NEW c \in Compactions, Snapshot(p, c) PROVE Extends
  <2>1. CompactionValid(c) /\ AppendAll(<<c>>, <<>>)
    BY <1>5 DEF Snapshot
  <2> QED BY <2>1, UploadedObjects, NoNotes DEF Extends
<1>6. ASSUME NEW c, NEW through, NEW D, Prune(c, through, D) PROVE Extends
  <2>1. AppendAll(<<AdminOperation("prune_log", Len(log))>>, <<Note("prune")>>)
    BY <1>6 DEF Prune
  <2>2. <<AdminOperation("prune_log", Len(log))>> \in Seq(Ordinary)
    BY UploadedObjects DEF Actions
  <2>3. <<Note("prune")>> \in Seq(Entries)
    BY NotesType
  <2> QED BY <2>1, <2>2, <2>3 DEF Extends
<1>7. ASSUME NEW p \in Principals, Delete(p) PROVE Extends
  <2> DEFINE os == IF p = Admin THEN <<AdminOperation("delete_chain", Len(log))>> ELSE <<>>
  <2>1. AppendAll(os, <<Note("delete")>>)
    BY <1>7 DEF Delete
  <2>2. <<AdminOperation("delete_chain", Len(log))>> \in Seq(Ordinary)
    BY UploadedObjects DEF Actions
  <2>3. os \in Seq(Ordinary)
    BY <2>2
  <2>4. <<Note("delete")>> \in Seq(Entries)
    BY NotesType
  <2> HIDE DEF os
  <2> QED BY <2>1, <2>3, <2>4 DEF Extends
<1> QED BY <1>1, <1>2, <1>3, <1>4, <1>5, <1>6, <1>7, Zenon

LEMMA ExtendsEvidence ==
    ASSUME TypeOK, Extends, Save, epoch' \in EpochObjects, minAvailable' \in Nat
    PROVE  EvidenceTypes' /\ 1..Len(log) \subseteq 1..Len(log')
  BY AppendStep, OrdinaryAreObjects DEF Extends

\* The rows besides the evidence.
StateTypes ==
    /\ epoch \in EpochObjects /\ minAvailable \in Nat /\ boundary \in Compactions \cup {NoObject}
    /\ deleted \in BOOLEAN
RegistryTypes ==
    /\ status \in [Devices -> {"absent", "pending_keys", "active", "revoked"}]
    /\ revokedSeq \in [Devices -> Nat]
ContentTypes ==
    /\ cleared \subseteq 1..Len(log) /\ nulled \subseteq LogObjects
    /\ parts \subseteq RecordObjects("snapshot_part")
    /\ payloadNonces \subseteq [epoch: Nat, nonce: Nonces, id: RecordIds \cup PartIds]
    /\ handoffs \subseteq Nat /\ expired \subseteq handoffs
PcTypes ==
    pc \in [Principals -> {"idle", "single", "batch", "single_rejected", "batch_rejected"}]

LEMMA TypeParts ==
    /\ TypeOK <=> EvidenceTypes /\ StateTypes /\ RegistryTypes /\ ContentTypes /\ PcTypes
    /\ EvidenceTypes' /\ StateTypes' /\ RegistryTypes' /\ ContentTypes' /\ PcTypes' => TypeOK'
  BY DEF TypeOK, EvidenceTypes, ReceiptRows, StateTypes, RegistryTypes, ContentTypes, PcTypes

LEMMA GotoType ==
    ASSUME PcTypes, NEW p \in Principals,
           NEW where \in {"idle", "single", "batch", "single_rejected", "batch_rejected"},
           Goto(p, where)
    PROVE  PcTypes'
  BY DEF PcTypes, Goto

LEMMA ReserveType ==
    ASSUME TypeOK, NEW kind \in {"record", "snapshot_part"}, NEW r \in RecordObjects(kind), Reserve(r)
    PROVE  payloadNonces' \subseteq [epoch: Nat, nonce: Nonces, id: RecordIds \cup PartIds]
<1>1. r.id \in RecordIds \cup PartIds /\ r.nonce \in Nonces /\ r.epoch \in Nat
  BY ConstantsAssumption DEF RecordObjects
<1>2. [epoch |-> r.epoch, nonce |-> r.nonce, id |-> r.id]
        \in [epoch: Nat, nonce: Nonces, id: RecordIds \cup PartIds]
  BY <1>1
<1> QED BY <1>2 DEF TypeOK, Reserve

\* Rows whose values an action keeps, or keeps but for the log's length.
LEMMA Unmoved ==
    ASSUME TypeOK
    PROVE  /\ UNCHANGED chainVars => StateTypes'
           /\ UNCHANGED registryVars => RegistryTypes'
           /\ UNCHANGED pc => PcTypes'
           /\ 1..Len(log) \subseteq 1..Len(log')
                /\ UNCHANGED <<cleared, nulled, parts, payloadNonces, retentionVars>> => ContentTypes'
           /\ UNCHANGED <<log, receipts, transparency, heads>> => EvidenceTypes'
<1>1. UNCHANGED chainVars => StateTypes'
  BY DEF chainVars, StateTypes, TypeOK
<1>2. UNCHANGED registryVars => RegistryTypes'
  BY DEF registryVars, RegistryTypes, TypeOK
<1>3. UNCHANGED pc => PcTypes'
  BY DEF PcTypes, TypeOK
<1>4. 1..Len(log) \subseteq 1..Len(log')
        /\ UNCHANGED <<cleared, nulled, parts, payloadNonces, retentionVars>> => ContentTypes'
  BY DEF ContentTypes, TypeOK, retentionVars
<1>5. UNCHANGED <<log, receipts, transparency, heads>> => EvidenceTypes'
  BY DEF EvidenceTypes, TypeOK, ReceiptRows
<1> QED BY <1>1, <1>2, <1>3, <1>4, <1>5

LEMMA CompactionType ==
    ASSUME TypeOK, NEW d \in Devices, NEW k \in Marks, NEW Q \in SUBSET parts
    PROVE  Compaction(d, k, Q) \in Compactions
<1>1. epoch.number \in Nat /\ k \in Nat /\ Q \in SUBSET RecordObjects("snapshot_part")
  BY ConstantsAssumption DEF TypeOK, EpochObjects
<1> QED BY <1>1 DEF Compaction, Compactions

LEMMA HandedOffType ==
    ASSUME TypeOK, NEW through
    PROVE  HandedOff(through) \subseteq Nat
  BY DEF HandedOff, TypeOK, EpochObjects

LEMMA EnvelopesOfType ==
    ASSUME TypeOK, NEW D
    PROVE  EnvelopesOf(D) \subseteq LogObjects
  BY DEF EnvelopesOf, TypeOK, Range

\* The type invariant is preserved by every step.
LEMMA TypeStep ==
    ASSUME TypeOK, Receipted, [Next]_vars
    PROVE  TypeOK'
<1> USE TypeParts
<1>1. ASSUME NEW p \in Principals, NEW mode \in {"single", "batch"}, Authenticate(p, mode)
      PROVE  TypeOK'
  <2>1. PcTypes'
    BY <1>1, GotoType DEF Authenticate
  <2> QED BY <1>1, <2>1, Unmoved DEF Authenticate
<1>2. ASSUME NEW d \in Devices, Ack(d) PROVE TypeOK'
  <2>1. PcTypes'
    BY <1>2, GotoType DEF Ack, Principals
  <2>2. RegistryTypes'
    BY <1>2 DEF Ack, RegistryTypes
  <2>3. EvidenceTypes'
    <3>1. heads' \subseteq [index: Nat, cut: Cuts]
      BY <1>2, SaveTypes DEF Ack, TypeOK, chainVars
    <3> QED BY <1>2, <3>1 DEF Ack, EvidenceTypes
  <2> QED BY <1>2, <2>1, <2>2, <2>3, Unmoved DEF Ack
<1>3. ASSUME NEW d \in Devices, NEW es \in EnrollmentEpochs, Enroll(d, es) PROVE TypeOK'
  <2>1. PcTypes'
    BY <1>3, GotoType DEF Enroll, Principals
  <2>2. RegistryTypes'
    BY <1>3 DEF Enroll, RegistryTypes
  <2>3. StateTypes'
    BY <1>3, Unmoved DEF Enroll
  <2>4. EvidenceTypes' /\ 1..Len(log) \subseteq 1..Len(log')
    BY <1>3, <2>3, ExtendingActions, ExtendsEvidence DEF Enroll, StateTypes
  <2> QED BY <1>3, <2>1, <2>2, <2>3, <2>4, Unmoved DEF Enroll
<1>4. ASSUME NEW p \in Principals, NEW M \in SUBSET Devices, NEW R \in SUBSET Devices,
             NEW S \in SUBSET Devices, Rotate(p, M, R, S)
      PROVE  TypeOK'
  <2>1. PICK front \in Seq(Bundled(M)) :
          /\ front \o <<epoch'>> \in Seq(LogObjects) /\ AppendAll(front \o <<epoch'>>, <<>>)
          /\ epoch' \in EpochObjects
    BY <1>4, RotateStep
  <2>2. StateTypes'
    BY <1>4, <2>1 DEF Rotate, StateTypes
  <2>3. EvidenceTypes' /\ 1..Len(log) \subseteq 1..Len(log')
    BY <1>4, <2>1, <2>2, AppendStep, NoNotes DEF Rotate, StateTypes
  <2>4. RegistryTypes'
    <3>1. Len(log') \in Nat
      BY <2>3 DEF EvidenceTypes
    <3> QED BY <1>4, <3>1 DEF Rotate, RegistryTypes
  <2>5. PcTypes'
    BY <1>4, GotoType DEF Rotate
  <2> QED BY <1>4, <2>2, <2>3, <2>4, <2>5, Unmoved DEF Rotate
<1>5. ASSUME NEW p \in Principals, NEW e \in 0..MaxEpoch, NEW to \in Devices,
             NEW copy \in EnvelopeCopies, UploadEnvelope(p, e, to, copy)
      PROVE  TypeOK'
  <2>1. StateTypes'
    BY <1>5, Unmoved DEF UploadEnvelope
  <2>2. EvidenceTypes' /\ 1..Len(log) \subseteq 1..Len(log')
    BY <1>5, <2>1, ExtendingActions, ExtendsEvidence DEF UploadEnvelope, StateTypes
  <2> QED BY <1>5, <2>1, <2>2, Unmoved DEF UploadEnvelope
<1>6. ASSUME NEW d \in Devices, NEW r \in RecordObjects("record"), UploadRecord(d, r)
      PROVE  TypeOK'
  <2>1. StateTypes'
    BY <1>6, Unmoved DEF UploadRecord
  <2>2. EvidenceTypes' /\ 1..Len(log) \subseteq 1..Len(log')
    BY <1>6, <2>1, ExtendingActions, ExtendsEvidence DEF UploadRecord, StateTypes
  <2>3. payloadNonces' \subseteq [epoch: Nat, nonce: Nonces, id: RecordIds \cup PartIds]
    BY <1>6, ReserveType DEF UploadRecord
  <2>4. ContentTypes'
    BY <1>6, <2>2, <2>3 DEF UploadRecord, ContentTypes, retentionVars
  <2> QED BY <1>6, <2>1, <2>2, <2>4, Unmoved DEF UploadRecord
<1>7. ASSUME NEW p \in Principals, NEW q \in RecordObjects("snapshot_part"), UploadPart(p, q)
      PROVE  TypeOK'
  <2>1. StateTypes' /\ log' = log
    BY <1>7, Unmoved DEF UploadPart
  <2>2. payloadNonces' \subseteq [epoch: Nat, nonce: Nonces, id: RecordIds \cup PartIds]
    BY <1>7, ReserveType DEF UploadPart
  <2>3. ContentTypes'
    BY <1>7, <2>1, <2>2 DEF UploadPart, ContentTypes, retentionVars
  <2>4. q \in Accepts
    BY DEF Accepts
  <2>5. Entry("accept", q, 0) \in Entries
    BY <2>4 DEF Entry, Entries
  <2>6. transparency' \in Seq(Entries)
    BY <1>7, <2>5 DEF UploadPart, EvidenceTypes
  <2>7. [object |-> q, seq |-> 0, index |-> Len(transparency) + 1] \in ReceiptRows
    BY <2>4 DEF ReceiptRows, EvidenceTypes
  <2>8. receipts' \subseteq ReceiptRows
    BY <1>7, <2>7 DEF UploadPart, EvidenceTypes
  <2>9. heads' \subseteq [index: Nat, cut: Cuts]
    BY <1>7, <2>1, <2>6, SaveTypes DEF UploadPart, StateTypes, EvidenceTypes
  <2>10. EvidenceTypes'
    BY <2>1, <2>6, <2>8, <2>9 DEF EvidenceTypes, ReceiptRows
  <2> QED BY <1>7, <2>1, <2>3, <2>10, Unmoved DEF UploadPart
<1>8. ASSUME NEW i \in 1..MaxInteger, Repair(i) PROVE TypeOK'
  <2>1. StateTypes'
    BY <1>8, Unmoved DEF Repair
  <2>2. EvidenceTypes' /\ 1..Len(log) \subseteq 1..Len(log')
    BY <1>8, <2>1, ExtendingActions, ExtendsEvidence DEF Repair, StateTypes
  <2> QED BY <1>8, <2>1, <2>2, Unmoved DEF Repair
<1>9. ASSUME NEW p \in Principals, NEW d \in Devices, NEW k \in Marks, NEW Q \in SUBSET parts,
             Snapshot(p, Compaction(d, k, Q))
      PROVE  TypeOK'
  <2>1. PICK c \in Compactions : Snapshot(p, c)
    BY <1>9, CompactionType
  <2>2. StateTypes'
    BY <2>1, Unmoved DEF Snapshot
  <2>3. EvidenceTypes' /\ 1..Len(log) \subseteq 1..Len(log')
    BY <2>1, <2>2, ExtendingActions, ExtendsEvidence DEF Snapshot, StateTypes
  <2>4. PcTypes'
    BY <2>1, GotoType DEF Snapshot
  <2> QED BY <2>1, <2>2, <2>3, <2>4, Unmoved DEF Snapshot
<1>10. ASSUME NEW i \in 1..Len(log), NEW through \in Marks, NEW D \in SUBSET (0..MaxEpoch),
              Prune(log[i], through, D)
       PROVE  TypeOK'
  <2>1. log[i] \in Compactions
    BY <1>10, Kinds DEF Prune, EvidenceTypes
  <2>2. through + 1 \in Nat /\ through \in Nat
    BY ConstantsAssumption
  <2>3. StateTypes'
    BY <1>10, <2>1, <2>2 DEF Prune, StateTypes
  <2>4. EvidenceTypes' /\ 1..Len(log) \subseteq 1..Len(log')
    BY <1>10, <2>3, ExtendingActions, ExtendsEvidence DEF Prune, StateTypes
  <2>5. handoffs' \subseteq Nat /\ expired' \subseteq handoffs'
    <3>1. handoffs' \subseteq Nat /\ handoffs \subseteq handoffs'
      BY <1>10, HandedOffType DEF Prune, ContentTypes
    <3>2. D \subseteq handoffs'
      BY <1>10 DEF Prune, Due
    <3> QED BY <1>10, <3>1, <3>2 DEF Prune, ContentTypes
  <2>6. cleared' \subseteq 1..Len(log')
    <3>1. ClearedBy(D, through + 1) \subseteq 1..Len(log)
      BY DEF ClearedBy
    <3>2. {j \in 1..through : log[j].kind = "record"} \subseteq 1..Len(log)
      <4>1. log[i].covered <= Len(log) /\ through <= log[i].covered
        BY <1>10 DEF Prune, CompactionValid
      <4>2. log[i].covered \in Nat /\ Len(log) \in Nat
        BY <2>1 DEF Compactions, EvidenceTypes
      <4> QED BY <2>2, <4>1, <4>2
    <3>3. cleared' = cleared \cup {j \in 1..through : log[j].kind = "record"}
                       \cup ClearedBy(D, through + 1)
      BY <1>10 DEF Prune
    <3>4. cleared \subseteq 1..Len(log)
      BY DEF ContentTypes
    <3> QED BY <2>4, <3>1, <3>2, <3>3, <3>4, Zenon
  <2>7. nulled' \subseteq LogObjects
    <3>1. \A j \in 1..through : log[j].kind = "record" => log[j] \in LogObjects
      <4>1. log[i].covered <= Len(log) /\ through <= log[i].covered
        BY <1>10 DEF Prune, CompactionValid
      <4>2. log[i].covered \in Nat /\ Len(log) \in Nat
        BY <2>1 DEF Compactions, EvidenceTypes
      <4> QED BY <2>2, <4>1, <4>2 DEF EvidenceTypes
    <3> QED BY <1>10, <3>1, EnvelopesOfType DEF Prune, ContentTypes
  <2>8. ContentTypes'
    BY <1>10, <2>5, <2>6, <2>7 DEF Prune, ContentTypes
  <2>9. PcTypes'
    BY <1>10, GotoType DEF Prune, Principals
  <2> QED BY <1>10, <2>3, <2>4, <2>8, <2>9, Unmoved DEF Prune
<1>11. ASSUME NEW D \in SUBSET (0..MaxEpoch), Maintenance(D) PROVE TypeOK'
  <2>1. ContentTypes'
    <3>1. D \subseteq handoffs /\ ClearedBy(D, minAvailable) \subseteq 1..Len(log)
      BY <1>11 DEF Maintenance, Due, ClearedBy
    <3> QED BY <1>11, <3>1, EnvelopesOfType DEF Maintenance, ContentTypes
  <2> QED BY <1>11, <2>1, Unmoved DEF Maintenance
<1>12. ASSUME NEW p \in Principals, Delete(p) PROVE TypeOK'
  <2>1. StateTypes'
    BY <1>12 DEF Delete, StateTypes
  <2>2. EvidenceTypes' /\ 1..Len(log) \subseteq 1..Len(log')
    BY <1>12, <2>1, ExtendingActions, ExtendsEvidence DEF Delete, StateTypes
  <2>3. PcTypes'
    BY <1>12, GotoType DEF Delete
  <2> QED BY <1>12, <2>1, <2>2, <2>3, Unmoved DEF Delete
<1>13. ASSUME NEW p \in Principals, Reject(p) PROVE TypeOK'
  <2>1. PcTypes'
    BY <1>13, GotoType DEF Reject
  <2> QED BY <1>13, <2>1, Unmoved DEF Reject
<1>14. ASSUME NEW p \in Principals, Respond(p) PROVE TypeOK'
  <2>1. PcTypes'
    BY <1>14, GotoType DEF Respond
  <2> QED BY <1>14, <2>1, Unmoved DEF Respond
<1>15. ASSUME NEW p \in Principals, NEW n \in 1..MaxCandidates, AuditReject(p, n) PROVE TypeOK'
  <2>1. PcTypes'
    BY <1>15, GotoType DEF AuditReject
  <2>2. StateTypes' /\ log' = log
    BY <1>15, Unmoved DEF AuditReject
  <2>3. [i \in 1..n |-> Note("reject")] \in Seq(Entries)
    <3>1. n \in Nat /\ Note("reject") \in Entries
      BY ConstantsAssumption, NotesType
    <3> QED BY <3>1
  <2>4. transparency' \in Seq(Entries)
    BY <1>15, <2>3, ConcatProperties DEF AuditReject, EvidenceTypes
  <2>5. heads' \subseteq [index: Nat, cut: Cuts]
    BY <1>15, <2>2, <2>4, SaveTypes DEF AuditReject, StateTypes, EvidenceTypes
  <2>6. EvidenceTypes'
    BY <1>15, <2>2, <2>4, <2>5 DEF AuditReject, EvidenceTypes, ReceiptRows
  <2> QED BY <1>15, <2>1, <2>2, <2>6, Unmoved DEF AuditReject
<1>16. CASE Restart
  <2>1. PcTypes'
    BY <1>16 DEF Restart, PcTypes
  <2> QED BY <1>16, <2>1, Unmoved DEF Restart
<1>17. CASE UNCHANGED vars
  BY <1>17, Unmoved DEF vars
<1> QED
  BY <1>1, <1>2, <1>3, <1>4, <1>5, <1>6, <1>7, <1>8, <1>9, <1>10, <1>11, <1>12, <1>13, <1>14,
     <1>15, <1>16, <1>17, Zenon DEF Next

(***************************************************************************)
(* The two ways the log grows: a step that keeps the epoch, and a rotation.*)
(***************************************************************************)
\* The objects os are appended, with receipts.
AppendsReceipted(os) ==
    /\ log' = log \o os
    /\ receipts \subseteq receipts'
    /\ \A i \in 1..Len(os) : \E r \in receipts' : r.object = os[i]

OrdinaryStep ==
    /\ epoch' = epoch /\ revokedSeq' = revokedSeq
    /\ \A d \in Devices : status'[d] = "revoked" <=> status[d] = "revoked"
    /\ \E os \in Seq(Ordinary) : AppendsReceipted(os)

RotationStep(M, R) ==
    /\ epoch' = Epoch(epoch.number + 1, M, R)
    /\ \A d \in M : status[d] # "revoked" /\ d \notin R
    /\ \A d \in R : status[d] # "revoked"
    /\ \A d \in Devices : status'[d] = "revoked" <=> status[d] = "revoked" \/ d \in R
    /\ \A d \in Devices : revokedSeq'[d] = IF d \in R THEN Len(log') ELSE revokedSeq[d]
    /\ \E front \in Seq(Bundled(M)) : AppendsReceipted(front \o <<epoch'>>)

LEMMA AppendReceipts ==
    ASSUME NEW os \in Seq(LogObjects), NEW notes, AppendAll(os, notes)
    PROVE  AppendsReceipted(os)
<1>1. \A i \in 1..Len(os) : \E r \in Receipts(os) : r.object = os[i]
  <2> TAKE i \in 1..Len(os)
  <2> DEFINE row == [object |-> os[i], seq |-> Len(log) + i, index |-> Len(transparency) + i]
  <2>1. row \in Receipts(os)
    BY DEF Receipts
  <2>2. row.object = os[i]
    OBVIOUS
  <2> QED BY <2>1, <2>2
<1> QED BY <1>1 DEF AppendAll, AppendsReceipted

LEMMA ExtendsReceipted ==
    ASSUME Extends
    PROVE  \E os \in Seq(Ordinary) : AppendsReceipted(os)
  BY AppendReceipts, OrdinaryAreObjects DEF Extends

LEMMA NothingAppended ==
    ASSUME TypeOK, log' = log, receipts \subseteq receipts'
    PROVE  \E os \in Seq(Ordinary) : AppendsReceipted(os)
<1>1. <<>> \in Seq(Ordinary) /\ log \o <<>> = log
  BY DEF TypeOK
<1>2. \A i \in 1..Len(<<>>) : \E r \in receipts' : r.object = <<>>[i]
  OBVIOUS
<1>3. AppendsReceipted(<<>>)
  BY <1>1, <1>2 DEF AppendsReceipted
<1> QED BY <1>1, <1>3

LEMMA LogSteps ==
    ASSUME TypeOK, Receipted, [Next]_vars
    PROVE  OrdinaryStep \/ \E M, R \in SUBSET Devices : RotationStep(M, R)
<1>1. CASE \E p \in Principals, mode \in {"single", "batch"} : Authenticate(p, mode)
  BY <1>1, NothingAppended DEF Authenticate, chainVars, registryVars, OrdinaryStep
<1>2. ASSUME NEW d \in Devices, Ack(d) PROVE OrdinaryStep
  <2>1. status[d] # "revoked" /\ \A x \in Devices : status'[x] = "revoked" <=> status[x] = "revoked"
    BY <1>2 DEF Ack, TypeOK
  <2> QED BY <1>2, <2>1, NothingAppended DEF Ack, chainVars, OrdinaryStep
<1>3. ASSUME NEW d \in Devices, NEW es \in EnrollmentEpochs, Enroll(d, es) PROVE OrdinaryStep
  <2>1. \A x \in Devices : status'[x] = "revoked" <=> status[x] = "revoked"
    BY <1>3 DEF Enroll, TypeOK
  <2>2. \E os \in Seq(Ordinary) : AppendsReceipted(os)
    BY <1>3, ExtendingActions, ExtendsReceipted
  <2> QED BY <1>3, <2>1, <2>2 DEF Enroll, chainVars, OrdinaryStep
<1>4. ASSUME NEW p \in Principals, NEW M \in SUBSET Devices, NEW R \in SUBSET Devices,
             NEW S \in SUBSET Devices, Rotate(p, M, R, S)
      PROVE  RotationStep(M, R)
  <2>1. PICK front \in Seq(Bundled(M)) :
          /\ front \o <<epoch'>> \in Seq(LogObjects) /\ AppendAll(front \o <<epoch'>>, <<>>)
          /\ epoch' = Epoch(epoch.number + 1, M, R)
    BY <1>4, RotateStep
  <2>2. AppendsReceipted(front \o <<epoch'>>)
    BY <2>1, AppendReceipts
  <2>3. R \subseteq Registered /\ S \subseteq Absent /\ M = (Registered \ R) \cup S
    BY <1>4 DEF Rotate, MembersMatch
  <2>4. /\ \A d \in M : status[d] # "revoked" /\ d \notin R
        /\ \A d \in R : status[d] # "revoked"
    BY <2>3 DEF Registered, Absent
  <2>5. \A d \in Devices : status'[d] = "revoked" <=> status[d] = "revoked" \/ d \in R
    BY <1>4, <2>3 DEF Rotate, Absent
  <2>6. \A d \in Devices : revokedSeq'[d] = IF d \in R THEN Len(log') ELSE revokedSeq[d]
    BY <1>4 DEF Rotate
  <2> QED BY <2>1, <2>2, <2>4, <2>5, <2>6 DEF RotationStep
<1>5. ASSUME NEW p \in Principals, NEW e \in 0..MaxEpoch, NEW to \in Devices,
             NEW copy \in EnvelopeCopies, UploadEnvelope(p, e, to, copy)
      PROVE  OrdinaryStep
  <2>1. \E os \in Seq(Ordinary) : AppendsReceipted(os)
    BY <1>5, ExtendingActions, ExtendsReceipted
  <2> QED BY <1>5, <2>1 DEF UploadEnvelope, chainVars, registryVars, OrdinaryStep
<1>6. ASSUME NEW d \in Devices, NEW r \in RecordObjects("record"), UploadRecord(d, r)
      PROVE  OrdinaryStep
  <2>1. \E os \in Seq(Ordinary) : AppendsReceipted(os)
    BY <1>6, ExtendingActions, ExtendsReceipted
  <2> QED BY <1>6, <2>1 DEF UploadRecord, chainVars, registryVars, OrdinaryStep
<1>7. ASSUME NEW p \in Principals, NEW q \in RecordObjects("snapshot_part"), UploadPart(p, q)
      PROVE  OrdinaryStep
  <2>1. log' = log /\ receipts \subseteq receipts'
    BY <1>7 DEF UploadPart
  <2> QED BY <1>7, <2>1, NothingAppended DEF UploadPart, chainVars, registryVars, OrdinaryStep
<1>8. ASSUME NEW i \in 1..MaxInteger, Repair(i) PROVE OrdinaryStep
  <2>1. \E os \in Seq(Ordinary) : AppendsReceipted(os)
    BY <1>8, ExtendingActions, ExtendsReceipted
  <2> QED BY <1>8, <2>1 DEF Repair, chainVars, registryVars, OrdinaryStep
<1>9. ASSUME NEW p \in Principals, NEW d \in Devices, NEW k \in Marks, NEW Q \in SUBSET parts,
             Snapshot(p, Compaction(d, k, Q))
      PROVE  OrdinaryStep
  <2>1. PICK c \in Compactions : Snapshot(p, c)
    BY <1>9, CompactionType
  <2>2. \E os \in Seq(Ordinary) : AppendsReceipted(os)
    BY <2>1, ExtendingActions, ExtendsReceipted
  <2> QED BY <2>1, <2>2 DEF Snapshot, chainVars, registryVars, OrdinaryStep
<1>10. ASSUME NEW i \in 1..Len(log), NEW through \in Marks, NEW D \in SUBSET (0..MaxEpoch),
              Prune(log[i], through, D)
       PROVE  OrdinaryStep
  <2>1. \E os \in Seq(Ordinary) : AppendsReceipted(os)
    BY <1>10, ExtendingActions, ExtendsReceipted
  <2> QED BY <1>10, <2>1 DEF Prune, registryVars, OrdinaryStep
<1>11. ASSUME NEW D \in SUBSET (0..MaxEpoch), Maintenance(D) PROVE OrdinaryStep
  BY <1>11, NothingAppended DEF Maintenance, chainVars, registryVars, OrdinaryStep
<1>12. ASSUME NEW p \in Principals, Delete(p) PROVE OrdinaryStep
  <2>1. \E os \in Seq(Ordinary) : AppendsReceipted(os)
    BY <1>12, ExtendingActions, ExtendsReceipted
  <2> QED BY <1>12, <2>1 DEF Delete, registryVars, OrdinaryStep
<1>13. ASSUME NEW p \in Principals, Reject(p) \/ Respond(p) PROVE OrdinaryStep
  BY <1>13, NothingAppended DEF Reject, Respond, chainVars, registryVars, OrdinaryStep
<1>14. ASSUME NEW p \in Principals, NEW n \in 1..MaxCandidates, AuditReject(p, n)
       PROVE  OrdinaryStep
  BY <1>14, NothingAppended DEF AuditReject, chainVars, registryVars, OrdinaryStep
<1>15. CASE Restart
  BY <1>15, NothingAppended DEF Restart, chainVars, registryVars, OrdinaryStep
<1>16. CASE UNCHANGED vars
  BY <1>16, NothingAppended DEF vars, chainVars, registryVars, OrdinaryStep
<1> QED
  BY <1>1, <1>2, <1>3, <1>4, <1>5, <1>6, <1>7, <1>8, <1>9, <1>10, <1>11, <1>12, <1>13, <1>14,
     <1>15, <1>16, Zenon DEF Next

(***************************************************************************)
(* The inductive invariant about log, epochs and revocations.              *)
(***************************************************************************)
EpochBounds ==
    \A i \in 1..Len(log) :
        /\ log[i].kind = "epoch" => log[i].number <= epoch.number
        /\ log[i].kind = "record" => log[i].epoch <= epoch.number

RevokedBounds ==
    \A d \in Devices : status[d] = "revoked" => revokedSeq[d] \in 1..Len(log)

LogInv ==
    /\ TypeOK /\ Receipted /\ EpochBounds /\ RecordsInTheirEpoch
    /\ RevokedBounds /\ RevokedDevicesAreSilent

\* The entries of a log that os was appended to.
LEMMA AppendedEntries ==
    ASSUME log \in Seq(LogObjects), NEW os \in Seq(LogObjects), log' = log \o os
    PROVE  /\ log' \in Seq(LogObjects) /\ Len(log') = Len(log) + Len(os)
           /\ \A i \in 1..Len(log) : i \in 1..Len(log') /\ log'[i] = log[i]
           /\ \A i \in 1..Len(log') : i \notin 1..Len(log) =>
                /\ i > Len(log) /\ i - Len(log) \in 1..Len(os)
                /\ log'[i] = os[i - Len(log)]
  BY ConcatProperties

LEMMA ReceiptedStep ==
    ASSUME TypeOK, Receipted, NEW os \in Seq(LogObjects), AppendsReceipted(os)
    PROVE  Receipted'
<1> SUFFICES ASSUME NEW i \in 1..Len(log') PROVE \E r \in receipts' : r.object = log'[i]
  BY DEF Receipted
<1>1. CASE i \in 1..Len(log)
  <2>1. log'[i] = log[i]
    BY <1>1, AppendedEntries DEF AppendsReceipted, TypeOK
  <2> QED BY <1>1, <2>1 DEF Receipted, AppendsReceipted
<1>2. CASE i \notin 1..Len(log)
  <2>1. i - Len(log) \in 1..Len(os) /\ log'[i] = os[i - Len(log)]
    BY <1>2, AppendedEntries DEF AppendsReceipted, TypeOK
  <2> QED BY <2>1 DEF AppendsReceipted
<1> QED BY <1>1, <1>2

\* Numbers of the epochs and records of the log are numbers.
LEMMA EntryNumbers ==
    ASSUME TypeOK
    PROVE  /\ epoch.number \in Nat /\ Len(log) \in Nat
           /\ \A i \in 1..Len(log) :
                /\ log[i] \in LogObjects
                /\ log[i].kind = "epoch" => log[i].number \in Nat
                /\ log[i].kind = "record" => log[i].epoch \in Nat
<1>1. epoch.number \in Nat /\ Len(log) \in Nat /\ \A i \in 1..Len(log) : log[i] \in LogObjects
  BY DEF TypeOK, EpochObjects
<1>2. \A i \in 1..Len(log) : log[i].kind = "epoch" => log[i].number \in Nat
  BY <1>1, Kinds DEF EpochObjects
<1>3. \A i \in 1..Len(log) : log[i].kind = "record" => log[i].epoch \in Nat
  BY <1>1, Kinds, ConstantsAssumption DEF RecordObjects
<1> QED BY <1>1, <1>2, <1>3

LEMMA OrdinaryInv ==
    ASSUME LogInv, TypeOK', OrdinaryStep
    PROVE  LogInv'
<1>1. PICK os \in Seq(Ordinary) : AppendsReceipted(os)
  BY DEF OrdinaryStep
<1>2. os \in Seq(LogObjects)
  BY OrdinaryAreObjects
<1>3. Receipted'
  BY <1>1, <1>2, ReceiptedStep DEF LogInv
<1>4. /\ Len(log') = Len(log) + Len(os)
      /\ \A i \in 1..Len(log) : i \in 1..Len(log') /\ log'[i] = log[i]
  BY <1>1, <1>2, AppendedEntries DEF LogInv, TypeOK, AppendsReceipted
<1>5. \A i \in 1..Len(log') : i \notin 1..Len(log) => i > Len(log) /\ log'[i] \in Ordinary
  <2> TAKE i \in 1..Len(log')
  <2> HAVE i \notin 1..Len(log)
  <2>1. i > Len(log) /\ i - Len(log) \in 1..Len(os) /\ log'[i] = os[i - Len(log)]
    BY <1>1, <1>2, AppendedEntries DEF LogInv, TypeOK, AppendsReceipted
  <2> QED BY <2>1
<1>6. EpochBounds'
  <2> SUFFICES ASSUME NEW i \in 1..Len(log')
               PROVE  /\ log'[i].kind = "epoch" => log'[i].number <= epoch.number
                      /\ log'[i].kind = "record" => log'[i].epoch <= epoch.number
    BY DEF EpochBounds, OrdinaryStep
  <2>1. CASE i \in 1..Len(log)
    BY <1>4, <2>1 DEF LogInv, EpochBounds
  <2>2. CASE i \notin 1..Len(log)
    <3>1. log'[i] \in Ordinary /\ epoch.number \in Nat
      BY <1>5, <2>2, EntryNumbers DEF LogInv
    <3> QED BY <3>1 DEF Ordinary
  <2> QED BY <2>1, <2>2
<1>7. RecordsInTheirEpoch'
  <2> SUFFICES ASSUME NEW i \in 1..Len(log'), NEW j \in 1..Len(log'),
                      log'[i].kind = "epoch", log'[j].kind = "record"
               PROVE  log'[j].epoch < log'[i].number <=> j < i
    BY DEF RecordsInTheirEpoch
  <2>1. i \in 1..Len(log) /\ log'[i] = log[i]
    BY <1>4, <1>5 DEF Ordinary
  <2>2. CASE j \in 1..Len(log)
    BY <1>4, <2>1, <2>2 DEF LogInv, RecordsInTheirEpoch
  <2>3. CASE j \notin 1..Len(log)
    <3>1. log'[j].epoch = epoch.number /\ j > Len(log)
      BY <1>5, <2>3 DEF Ordinary
    <3>2. log[i].number <= epoch.number
      BY <2>1 DEF LogInv, EpochBounds
    <3>3. epoch.number \in Nat /\ log[i].number \in Nat /\ Len(log) \in Nat
      BY <2>1, EntryNumbers DEF LogInv
    <3> QED BY <2>1, <3>1, <3>2, <3>3
  <2> QED BY <2>2, <2>3
<1>8. RevokedBounds'
  BY <1>4 DEF OrdinaryStep, LogInv, RevokedBounds, TypeOK
<1>9. RevokedDevicesAreSilent'
  <2> SUFFICES ASSUME NEW d \in Devices, status'[d] = "revoked", NEW i \in revokedSeq'[d]..Len(log')
               PROVE  /\ log'[i].kind \in {"record", "compaction"} => log'[i].by # d
                      /\ log'[i].kind = "envelope" => log'[i].to # d
    BY DEF RevokedDevicesAreSilent
  <2>1. status[d] = "revoked" /\ i \in revokedSeq[d]..Len(log') /\ revokedSeq[d] \in 1..Len(log)
    BY DEF OrdinaryStep, LogInv, RevokedBounds
  <2>2. CASE i \in 1..Len(log)
    <3>1. i \in revokedSeq[d]..Len(log)
      BY <2>1, <2>2
    <3> QED BY <1>4, <2>1, <2>2, <3>1 DEF LogInv, RevokedDevicesAreSilent
  <2>3. CASE i \notin 1..Len(log)
    <3>1. i \in 1..Len(log')
      BY <1>4, <2>1 DEF LogInv, TypeOK
    <3>2. log'[i] \in Ordinary
      BY <1>5, <2>3, <3>1
    <3> QED BY <2>1, <3>2, ConstantsAssumption DEF Ordinary, active_device
  <2> QED BY <2>2, <2>3
<1> QED BY <1>3, <1>6, <1>7, <1>8, <1>9 DEF LogInv

LEMMA RotationInv ==
    ASSUME LogInv, TypeOK', NEW M \in SUBSET Devices, NEW R \in SUBSET Devices, RotationStep(M, R)
    PROVE  LogInv'
<1>1. PICK front \in Seq(Bundled(M)) : AppendsReceipted(front \o <<epoch'>>)
  BY DEF RotationStep
<1> DEFINE os == front \o <<epoch'>>
<1>2. epoch' \in LogObjects /\ epoch'.kind = "epoch" /\ epoch'.number = epoch.number + 1
  BY ObjectTypes DEF TypeOK, RotationStep, Epoch
<1>3. front \in Seq(LogObjects)
  BY DEF Bundled
<1>4. os \in Seq(LogObjects) /\ Len(os) = Len(front) + 1
  BY <1>2, <1>3
<1>5. \A k \in 1..Len(os) : IF k = Len(os) THEN os[k] = epoch' ELSE os[k] \in Bundled(M)
  BY <1>4
<1> HIDE DEF os
<1>6. AppendsReceipted(os)
  BY <1>1 DEF os
<1>7. Receipted'
  BY <1>4, <1>6, ReceiptedStep DEF LogInv
<1>8. /\ Len(log') = Len(log) + Len(os)
      /\ \A i \in 1..Len(log) : i \in 1..Len(log') /\ log'[i] = log[i]
  BY <1>4, <1>6, AppendedEntries DEF LogInv, TypeOK, AppendsReceipted
<1>9. Len(log') \in Nat /\ Len(log) \in Nat /\ Len(log') > Len(log) /\ epoch.number \in Nat
  <2>1. Len(front) \in Nat /\ Len(log) \in Nat /\ epoch.number \in Nat
    BY <1>3, EntryNumbers DEF LogInv
  <2> QED BY <1>4, <1>8, <2>1
<1>10. \A i \in 1..Len(log') : i \notin 1..Len(log) =>
         /\ i > Len(log)
         /\ IF i = Len(log') THEN log'[i] = epoch' ELSE log'[i] \in Bundled(M)
  <2> TAKE i \in 1..Len(log')
  <2> HAVE i \notin 1..Len(log)
  <2>1. i > Len(log) /\ i - Len(log) \in 1..Len(os) /\ log'[i] = os[i - Len(log)]
    BY <1>4, <1>6, AppendedEntries DEF LogInv, TypeOK, AppendsReceipted
  <2>2. i = Len(log') <=> i - Len(log) = Len(os)
    BY <1>4, <1>8, <1>9, <2>1
  <2> QED BY <1>5, <2>1, <2>2
<1>11. EpochBounds'
  <2> SUFFICES ASSUME NEW i \in 1..Len(log')
               PROVE  /\ log'[i].kind = "epoch" => log'[i].number <= epoch'.number
                      /\ log'[i].kind = "record" => log'[i].epoch <= epoch'.number
    BY DEF EpochBounds
  <2>1. CASE i \in 1..Len(log)
    <3>1. /\ log[i].kind = "epoch" => log[i].number <= epoch.number /\ log[i].number \in Nat
          /\ log[i].kind = "record" => log[i].epoch <= epoch.number /\ log[i].epoch \in Nat
      BY <2>1, EntryNumbers DEF LogInv, EpochBounds
    <3> QED BY <1>2, <1>8, <1>9, <2>1, <3>1
  <2>2. CASE i \notin 1..Len(log)
    <3>1. CASE i = Len(log')
      BY <1>2, <1>9, <1>10, <2>2, <3>1
    <3>2. CASE i # Len(log')
      <4>1. log'[i] \in Bundled(M)
        BY <1>10, <2>2, <3>2
      <4> QED BY <4>1 DEF Bundled
    <3> QED BY <3>1, <3>2
  <2> QED BY <2>1, <2>2
<1>12. RecordsInTheirEpoch'
  <2> SUFFICES ASSUME NEW i \in 1..Len(log'), NEW j \in 1..Len(log'),
                      log'[i].kind = "epoch", log'[j].kind = "record"
               PROVE  log'[j].epoch < log'[i].number <=> j < i
    BY DEF RecordsInTheirEpoch
  <2>1. j \in 1..Len(log) /\ log'[j] = log[j]
    <3>1. j \notin 1..Len(log) => FALSE
      BY <1>2, <1>10 DEF Bundled
    <3> QED BY <1>8, <3>1
  <2>2. CASE i \in 1..Len(log)
    BY <1>8, <2>1, <2>2 DEF LogInv, RecordsInTheirEpoch
  <2>3. CASE i \notin 1..Len(log)
    <3>1. log'[i] = epoch' /\ i > Len(log)
      BY <1>10, <2>3 DEF Bundled
    <3>2. log[j].epoch <= epoch.number /\ log[j].epoch \in Nat
      BY <2>1, EntryNumbers DEF LogInv, EpochBounds
    <3> QED BY <1>2, <1>9, <2>1, <3>1, <3>2
  <2> QED BY <2>2, <2>3
<1>13. RevokedBounds'
  <2> SUFFICES ASSUME NEW d \in Devices, status'[d] = "revoked" PROVE revokedSeq'[d] \in 1..Len(log')
    BY DEF RevokedBounds
  <2>1. CASE d \in R
    BY <1>9, <2>1 DEF RotationStep
  <2>2. CASE d \notin R
    BY <1>8, <2>2 DEF RotationStep, LogInv, RevokedBounds
  <2> QED BY <2>1, <2>2
<1>14. RevokedDevicesAreSilent'
  <2> SUFFICES ASSUME NEW d \in Devices, status'[d] = "revoked", NEW i \in revokedSeq'[d]..Len(log')
               PROVE  /\ log'[i].kind \in {"record", "compaction"} => log'[i].by # d
                      /\ log'[i].kind = "envelope" => log'[i].to # d
    BY DEF RevokedDevicesAreSilent
  <2>1. CASE d \in R
    <3>1. i = Len(log') /\ i \in 1..Len(log') /\ i \notin 1..Len(log)
      BY <1>9, <2>1 DEF RotationStep
    <3> QED BY <1>2, <1>10, <3>1
  <2>2. CASE d \notin R
    <3>1. status[d] = "revoked" /\ revokedSeq'[d] = revokedSeq[d] /\ revokedSeq[d] \in 1..Len(log)
      BY <2>2 DEF RotationStep, LogInv, RevokedBounds
    <3>2. CASE i \in 1..Len(log)
      <4>1. i \in revokedSeq[d]..Len(log)
        BY <3>1, <3>2
      <4> QED BY <1>8, <3>1, <3>2, <4>1 DEF LogInv, RevokedDevicesAreSilent
    <3>3. CASE i \notin 1..Len(log)
      <4>1. i \in 1..Len(log') /\ d \notin M /\ d # Recovery
        BY <1>9, <3>1, ConstantsAssumption DEF RotationStep
      <4>2. CASE i = Len(log')
        BY <1>2, <1>10, <3>3, <4>1, <4>2
      <4>3. CASE i # Len(log')
        <5>1. log'[i] \in Bundled(M)
          BY <1>10, <3>3, <4>1, <4>3
        <5> QED BY <4>1, <5>1 DEF Bundled
      <4> QED BY <4>2, <4>3
    <3> QED BY <3>2, <3>3
  <2> QED BY <2>1, <2>2
<1> QED BY <1>7, <1>11, <1>12, <1>13, <1>14 DEF LogInv

LEMMA InitInv == Init => LogInv
<1> SUFFICES ASSUME Init PROVE LogInv
  OBVIOUS
<1>1. /\ Parameters \in LogObjects /\ Device(Creator) \in LogObjects
      /\ Envelope(0, Creator, 0) \in LogObjects /\ Envelope(0, Recovery, 0) \in LogObjects
      /\ Epoch(0, {Creator}, {}) \in EpochObjects /\ EpochObjects \subseteq LogObjects
  BY ObjectTypes, ConstantsAssumption
<1>2. log \in Seq(LogObjects) /\ Len(log) = 5
  BY <1>1 DEF Init, GenesisLog
<1>3. /\ log[1] = Parameters /\ log[2] = Device(Creator) /\ log[3] = Envelope(0, Creator, 0)
      /\ log[4] = Envelope(0, Recovery, 0) /\ log[5] = Epoch(0, {Creator}, {})
  BY DEF Init, GenesisLog
<1>4. GenesisLog = log /\ \A i \in 1..5 : log[i] \in LogObjects
  BY <1>2 DEF Init
<1>5. transparency \in Seq(Entries)
  <2>1. \A i \in 1..5 : Entry("accept", log[i], i) \in Entries
    BY <1>4 DEF Entry, Entries, Accepts
  <2>2. transparency = [i \in 1..5 |-> Entry("accept", log[i], i)]
    BY <1>2, <1>4 DEF Init
  <2> QED BY <2>1, <2>2
<1>6. receipts = {[object |-> log[i], seq |-> i, index |-> i] : i \in 1..5}
  BY <1>2, <1>4 DEF Init
<1>7. receipts \subseteq ReceiptRows
  BY <1>4, <1>6 DEF ReceiptRows, Accepts
<1>8. heads \subseteq [index: Nat, cut: Cuts]
  <2>1. Cut \in Cuts
    BY <1>1, <1>2 DEF Init, Cut, Cuts, EpochObjects
  <2>2. Len(GenesisLog) \in Nat
    BY <1>2, <1>4
  <2> QED BY <2>1, <2>2 DEF Init
<1>9. TypeOK
  <2>1. EvidenceTypes
    BY <1>2, <1>5, <1>7, <1>8 DEF EvidenceTypes
  <2>2. StateTypes /\ RegistryTypes /\ PcTypes
    BY <1>1 DEF Init, StateTypes, RegistryTypes, PcTypes
  <2>3. ContentTypes
    BY DEF Init, ContentTypes
  <2> QED BY <2>1, <2>2, <2>3, TypeParts
<1>10. Receipted
  <2> SUFFICES ASSUME NEW i \in 1..5 PROVE \E r \in receipts : r.object = log[i]
    BY <1>2 DEF Receipted
  <2>1. [object |-> log[i], seq |-> i, index |-> i] \in receipts
    BY <1>6
  <2> QED BY <2>1
<1>11. \A i \in 1..5 : log[i].kind # "record" /\ (log[i].kind = "epoch" => log[i].number = 0)
  BY <1>3 DEF Parameters, Device, Envelope, Epoch
<1>12. EpochBounds /\ RecordsInTheirEpoch
  BY <1>1, <1>2, <1>11 DEF EpochBounds, RecordsInTheirEpoch, Init, EpochObjects
<1>13. RevokedBounds /\ RevokedDevicesAreSilent
  BY DEF Init, RevokedBounds, RevokedDevicesAreSilent
<1> QED BY <1>9, <1>10, <1>12, <1>13 DEF LogInv

LEMMA StepInv == LogInv /\ [Next]_vars => LogInv'
<1> SUFFICES ASSUME LogInv, [Next]_vars PROVE LogInv'
  OBVIOUS
<1>1. TypeOK' /\ (OrdinaryStep \/ \E M, R \in SUBSET Devices : RotationStep(M, R))
  BY TypeStep, LogSteps DEF LogInv
<1> QED BY <1>1, OrdinaryInv, RotationInv

LEMMA Invariance == Spec => []LogInv
  BY InitInv, StepInv, PTL DEF Spec

\* Every reachable state of the chain's rows and requests is well typed.
THEOREM TypeCorrect == Spec => []TypeOK
<1>1. LogInv => TypeOK
  BY DEF LogInv
<1> QED BY <1>1, Invariance, PTL

\* Records stay between the commit of their epoch and the commit of the next one
\* (record, commit_epoch), for any number of devices, requests and epochs.
THEOREM RecordsStayInTheirEpoch == Spec => []RecordsInTheirEpoch
<1>1. LogInv => RecordsInTheirEpoch
  BY DEF LogInv
<1> QED BY <1>1, Invariance, PTL

\* Nothing of a revoked device, and no key for it, enters the log after the entry
\* that revokes it (check_state, active_device, bundle).
THEOREM RevokedAreSilent == Spec => []RevokedDevicesAreSilent
<1>1. LogInv => RevokedDevicesAreSilent
  BY DEF LogInv
<1> QED BY <1>1, Invariance, PTL

\* No step brings a revoked device back or moves its revocation (register, ack).
THEOREM RevocationStays == Spec => RevocationIsFinal
<1> DEFINE Final ==
      \A d \in Devices : status[d] = "revoked" =>
          status'[d] = "revoked" /\ revokedSeq'[d] = revokedSeq[d]
<1>1. LogInv /\ [Next]_vars => [Final]_vars
  <2> SUFFICES ASSUME LogInv, [Next]_vars PROVE Final
    OBVIOUS
  <2>1. OrdinaryStep \/ \E M, R \in SUBSET Devices : RotationStep(M, R)
    BY LogSteps DEF LogInv
  <2>2. OrdinaryStep => Final
    BY DEF OrdinaryStep
  <2>3. ASSUME NEW M \in SUBSET Devices, NEW R \in SUBSET Devices, RotationStep(M, R) PROVE Final
    BY <2>3 DEF RotationStep
  <2> QED BY <2>1, <2>2, <2>3
<1>2. Spec => [][Final]_vars
  BY <1>1, Invariance, PTL DEF Spec
<1> QED BY <1>2 DEF RevocationIsFinal

(***************************************************************************)
(* Signed heads: a step either moves on to a new transparency index and    *)
(* saves, or leaves everything a head describes as it was.                 *)
(***************************************************************************)
Advances == Save /\ Len(transparency') > Len(transparency)
Stands ==
    /\ Save \/ heads' = heads
    /\ Len(transparency') = Len(transparency) /\ Cut' = Cut

HeadInv == HeadDescribesChain /\ \A h \in heads : h.index <= Len(transparency)

LEMMA AppendingAdvances ==
    ASSUME TypeOK, NEW os \in Seq(LogObjects), NEW notes \in Seq(Entries),
           AppendAll(os, notes), Save, Len(os) + Len(notes) > 0
    PROVE  Advances
<1>1. Len(transparency') = Len(transparency) + Len(os) + Len(notes)
  BY AppendTypes
<1>2. Len(transparency) \in Nat /\ Len(os) \in Nat /\ Len(notes) \in Nat
  BY DEF TypeOK
<1> QED BY <1>1, <1>2 DEF Advances

LEMMA ExtendingHead ==
    ASSUME TypeOK, Extends, Save, epoch' = epoch, minAvailable' = minAvailable
    PROVE  Advances \/ Stands
<1>1. PICK os \in Seq(LogObjects), notes \in Seq(Entries) : AppendAll(os, notes)
  BY OrdinaryAreObjects DEF Extends
<1>2. Len(transparency) \in Nat /\ Len(os) \in Nat /\ Len(notes) \in Nat /\ Len(log) \in Nat
  BY DEF TypeOK
<1>3. CASE Len(os) + Len(notes) > 0
  BY <1>1, <1>3, AppendingAdvances
<1>4. CASE ~ (Len(os) + Len(notes) > 0)
  <2>1. Len(os) = 0 /\ Len(notes) = 0
    BY <1>2, <1>4
  <2>2. Len(log') = Len(log) /\ Len(transparency') = Len(transparency)
    <3>1. /\ Len(log') = Len(log) + Len(os)
          /\ Len(transparency') = Len(transparency) + Len(os) + Len(notes)
      BY <1>1, AppendTypes
    <3> QED BY <1>2, <2>1, <3>1
  <2> QED BY <2>2 DEF Stands, Cut
<1> QED BY <1>3, <1>4

LEMMA HeadSteps ==
    ASSUME TypeOK, Receipted, [Next]_vars
    PROVE  Advances \/ Stands
<1>1. CASE \E p \in Principals, mode \in {"single", "batch"} : Authenticate(p, mode)
  BY <1>1 DEF Authenticate, chainVars, Stands, Cut
<1>2. ASSUME NEW d \in Devices, Ack(d) PROVE Stands
  BY <1>2 DEF Ack, chainVars, Stands, Cut
<1>3. ASSUME NEW d \in Devices, NEW es \in EnrollmentEpochs, Enroll(d, es) PROVE Advances \/ Stands
  BY <1>3, ExtendingActions, ExtendingHead DEF Enroll, chainVars
<1>4. ASSUME NEW p \in Principals, NEW M \in SUBSET Devices, NEW R \in SUBSET Devices,
             NEW S \in SUBSET Devices, Rotate(p, M, R, S)
      PROVE  Advances
  <2>1. PICK front \in Seq(Bundled(M)) :
          /\ front \o <<epoch'>> \in Seq(LogObjects) /\ AppendAll(front \o <<epoch'>>, <<>>)
    BY <1>4, RotateStep
  <2>2. Len(front \o <<epoch'>>) > 0
    BY DEF Bundled
  <2>3. Len(<<>>) = 0 /\ Len(front \o <<epoch'>>) \in Nat /\ <<>> \in Seq(Entries)
    BY <2>1
  <2>4. Save
    BY <1>4 DEF Rotate
  <2>5. Len(front \o <<epoch'>>) + Len(<<>>) > 0
    BY <2>2, <2>3
  <2> QED BY <2>1, <2>3, <2>4, <2>5, AppendingAdvances
<1>5. ASSUME NEW p \in Principals, NEW e \in 0..MaxEpoch, NEW to \in Devices,
             NEW copy \in EnvelopeCopies, UploadEnvelope(p, e, to, copy)
      PROVE  Advances \/ Stands
  BY <1>5, ExtendingActions, ExtendingHead DEF UploadEnvelope, chainVars
<1>6. ASSUME NEW d \in Devices, NEW r \in RecordObjects("record"), UploadRecord(d, r)
      PROVE  Advances \/ Stands
  BY <1>6, ExtendingActions, ExtendingHead DEF UploadRecord, chainVars
<1>7. ASSUME NEW p \in Principals, NEW q \in RecordObjects("snapshot_part"), UploadPart(p, q)
      PROVE  Advances
  <2>1. Save /\ transparency' = Append(transparency, Entry("accept", q, 0))
    BY <1>7 DEF UploadPart
  <2>2. Len(transparency') = Len(transparency) + 1 /\ Len(transparency) \in Nat
    BY <2>1 DEF TypeOK
  <2> QED BY <2>1, <2>2 DEF Advances
<1>8. ASSUME NEW i \in 1..MaxInteger, Repair(i) PROVE Advances \/ Stands
  BY <1>8, ExtendingActions, ExtendingHead DEF Repair, chainVars
<1>9. ASSUME NEW p \in Principals, NEW d \in Devices, NEW k \in Marks, NEW Q \in SUBSET parts,
             Snapshot(p, Compaction(d, k, Q))
      PROVE  Advances \/ Stands
  <2>1. PICK c \in Compactions : Snapshot(p, c)
    BY <1>9, CompactionType
  <2> QED BY <2>1, ExtendingActions, ExtendingHead DEF Snapshot, chainVars
<1>10. ASSUME NEW i \in 1..Len(log), NEW through \in Marks, NEW D \in SUBSET (0..MaxEpoch),
              Prune(log[i], through, D)
       PROVE  Advances
  <2>1. /\ AppendAll(<<AdminOperation("prune_log", Len(log))>>, <<Note("prune")>>) /\ Save
    BY <1>10 DEF Prune
  <2>2. <<AdminOperation("prune_log", Len(log))>> \in Seq(LogObjects)
    BY UploadedObjects, OrdinaryAreObjects DEF Actions
  <2>3. <<Note("prune")>> \in Seq(Entries)
    BY NotesType
  <2>4. Len(<<AdminOperation("prune_log", Len(log))>>) + Len(<<Note("prune")>>) > 0
    OBVIOUS
  <2> QED BY <2>1, <2>2, <2>3, <2>4, AppendingAdvances
<1>11. ASSUME NEW D \in SUBSET (0..MaxEpoch), Maintenance(D) PROVE Stands
  BY <1>11 DEF Maintenance, chainVars, Stands, Cut
<1>12. ASSUME NEW p \in Principals, Delete(p) PROVE Advances \/ Stands
  BY <1>12, ExtendingActions, ExtendingHead DEF Delete
<1>13. ASSUME NEW p \in Principals, Reject(p) \/ Respond(p) PROVE Stands
  BY <1>13 DEF Reject, Respond, chainVars, Stands, Cut
<1>14. ASSUME NEW p \in Principals, NEW n \in 1..MaxCandidates, AuditReject(p, n) PROVE Advances
  <2>1. Save /\ transparency' = transparency \o [i \in 1..n |-> Note("reject")]
    BY <1>14 DEF AuditReject
  <2>2. n \in Nat /\ n > 0 /\ Note("reject") \in Entries
    BY ConstantsAssumption, NotesType
  <2>3. [i \in 1..n |-> Note("reject")] \in Seq(Entries) /\ Len([i \in 1..n |-> Note("reject")]) = n
    BY <2>2
  <2>4. Len(transparency') = Len(transparency) + n /\ Len(transparency) \in Nat
    BY <2>1, <2>3, ConcatProperties DEF TypeOK
  <2> QED BY <2>1, <2>2, <2>4 DEF Advances
<1>15. CASE Restart
  BY <1>15 DEF Restart, chainVars, Stands, Cut
<1>16. CASE UNCHANGED vars
  BY <1>16 DEF vars, chainVars, Stands, Cut
<1> QED
  BY <1>1, <1>2, <1>3, <1>4, <1>5, <1>6, <1>7, <1>8, <1>9, <1>10, <1>11, <1>12, <1>13, <1>14,
     <1>15, <1>16, Zenon DEF Next

LEMMA HeadInvStep ==
    ASSUME TypeOK, TypeOK', HeadInv, Advances \/ Stands
    PROVE  HeadInv'
<1> DEFINE new == [index |-> Len(transparency'), cut |-> Cut']
<1>1. Len(transparency) \in Nat /\ Len(transparency') \in Nat /\ \A h \in heads : h.index \in Nat
  BY DEF TypeOK
<1>2. CASE Advances
  <2>1. \A h \in heads : h.index < Len(transparency')
    BY <1>1, <1>2 DEF HeadInv, Advances
  <2>2. heads' = heads \cup {new}
    BY <1>1, <1>2, <2>1 DEF Advances, Save
  <2>3. new \in heads' /\ new.index = Len(transparency')
    BY <2>2
  <2>4. \A h \in heads' : h.index <= Len(transparency')
    BY <1>1, <2>1, <2>2
  <2>5. \A h1, h2 \in heads' : h1.index = h2.index => h1 = h2
    BY <1>1, <2>1, <2>2 DEF HeadInv, HeadDescribesChain
  <2> QED BY <2>3, <2>4, <2>5 DEF HeadInv, HeadDescribesChain
<1>3. CASE Stands
  <2>1. [index |-> Len(transparency), cut |-> Cut] \in heads
    BY DEF HeadInv, HeadDescribesChain
  <2>2. Len(transparency') = Len(transparency) /\ Cut' = Cut
    BY <1>3 DEF Stands
  <2>3. heads' = heads
    BY <1>3, <2>1, <2>2 DEF Stands, Save
  <2> QED BY <2>1, <2>2, <2>3 DEF HeadInv, HeadDescribesChain
<1> QED BY <1>2, <1>3

\* The relay's signed head of the current transparency index describes the chain
\* row, and no index ever has two heads (save), for every value of the constants.
THEOREM HeadsDescribeTheChain == Spec => []HeadDescribesChain
<1>1. Init => HeadInv
  <2> SUFFICES ASSUME Init PROVE HeadInv
    OBVIOUS
  <2>1. Len(transparency) = Len(GenesisLog) /\ Len(transparency) \in Nat
    <3>1. Len(GenesisLog) \in Nat
      BY DEF GenesisLog
    <3> QED BY <3>1 DEF Init
  <2>2. heads = {[index |-> Len(transparency), cut |-> Cut]}
    BY <2>1 DEF Init
  <2> QED BY <2>1, <2>2 DEF HeadInv, HeadDescribesChain
<1>2. LogInv /\ LogInv' /\ HeadInv /\ [Next]_vars => HeadInv'
  BY HeadSteps, HeadInvStep DEF LogInv
<1>3. HeadInv => HeadDescribesChain
  BY DEF HeadInv
<1> QED BY <1>1, <1>2, <1>3, Invariance, PTL DEF Spec

(***************************************************************************)
(* Freshness: no operation appends an object that the log already holds.   *)
(***************************************************************************)
Fresh(os) ==
    /\ \A i \in 1..Len(os) : ~InLog(os[i])
    /\ \A i, j \in 1..Len(os) : os[i] = os[j] => i = j

\* What the objects of the log tell about the registry, the epoch and the log.
Provenance ==
    \A i \in 1..Len(log) :
        /\ log[i].kind = "device" => status[log[i].id] # "absent"
        /\ log[i].kind = "envelope" =>
             /\ log[i].epoch <= epoch.number
             /\ log[i].to # Recovery => status[log[i].to] # "absent"
        /\ log[i].kind = "admin" => log[i].id < i

\* The objects that keep Provenance when a step appends them.
Traceable ==
    {o \in LogObjects :
        /\ o.kind = "device" => status'[o.id] # "absent"
        /\ o.kind = "envelope" =>
             /\ o.epoch <= epoch'.number
             /\ o.to # Recovery => status'[o.to] # "absent"
        /\ o.kind = "admin" => o.id <= Len(log)}

Plain == {o \in Traceable : o.kind # "record"}

\* An append of new objects of T only.
FreshAppend(T) ==
    \E os \in Seq(T), notes \in Seq(Notes) : Fresh(os) /\ AppendAll(os, notes)

LEMMA TraceableAreObjects ==
    Seq(Traceable) \subseteq Seq(LogObjects) /\ Seq(Plain) \subseteq Seq(Traceable)
  BY DEF Traceable, Plain

LEMMA PlainAppend == FreshAppend(Plain) => FreshAppend(Traceable)
  BY TraceableAreObjects DEF FreshAppend

LEMMA FreshConcat ==
    ASSUME NEW T, NEW U, T \cap U = {}, NEW s \in Seq(T), NEW t \in Seq(U), Fresh(s), Fresh(t)
    PROVE  s \o t \in Seq(T \cup U) /\ Fresh(s \o t)
<1>1. /\ s \o t \in Seq(T \cup U) /\ Len(s \o t) = Len(s) + Len(t)
      /\ \A i \in 1..Len(s \o t) :
           (s \o t)[i] = IF i <= Len(s) THEN s[i] ELSE t[i - Len(s)]
  <2>1. s \in Seq(T \cup U) /\ t \in Seq(T \cup U)
    OBVIOUS
  <2> QED BY <2>1, ConcatProperties
<1> DEFINE c == s \o t
<1>2. Len(s) \in Nat /\ Len(t) \in Nat
  OBVIOUS
<1>3. \A i \in 1..Len(c) :
        \/ i \in 1..Len(s) /\ c[i] = s[i] /\ c[i] \in T
        \/ i \notin 1..Len(s) /\ i - Len(s) \in 1..Len(t) /\ c[i] = t[i - Len(s)] /\ c[i] \in U
  BY <1>1, <1>2
<1> HIDE DEF c
<1>4. \A i \in 1..Len(c) : ~InLog(c[i])
  BY <1>3 DEF Fresh
<1>5. ASSUME NEW i \in 1..Len(c), NEW j \in 1..Len(c), c[i] = c[j] PROVE i = j
  <2>1. CASE i \in 1..Len(s) /\ j \in 1..Len(s)
    BY <1>3, <1>5, <2>1 DEF Fresh
  <2>2. CASE i \notin 1..Len(s) /\ j \notin 1..Len(s)
    <3>1. i - Len(s) = j - Len(s)
      BY <1>3, <1>5, <2>2 DEF Fresh
    <3> QED BY <1>2, <3>1
  <2> QED BY <1>3, <1>5, <2>1, <2>2
<1> QED BY <1>1, <1>4, <1>5 DEF c, Fresh

LEMMA FreshOne ==
    ASSUME NEW T, NEW o \in T, ~InLog(o)
    PROVE  <<o>> \in Seq(T) /\ Fresh(<<o>>)
  BY DEF Fresh

LEMMA FreshNone ==
    ASSUME NEW T
    PROVE  <<>> \in Seq(T) /\ Fresh(<<>>)
  BY DEF Fresh

LEMMA FreshNew ==
    ASSUME Receipted, NEW T, NEW o \in T
    PROVE  NewObjects(o) \in Seq(T) /\ Fresh(NewObjects(o))
<1>1. CASE \E r \in receipts : r.object = o
  BY <1>1, FreshNone DEF NewObjects
<1>2. CASE ~ \E r \in receipts : r.object = o
  <2>1. ~InLog(o)
    BY <1>2 DEF InLog, Receipted
  <2> QED BY <1>2, <2>1, FreshOne DEF NewObjects
<1> QED BY <1>1, <1>2

\* An admin operation signed for the current length of the log is new.
LEMMA FreshAdmin ==
    ASSUME TypeOK, Provenance, NEW a \in Actions
    PROVE  /\ AdminOperation(a, Len(log)) \in Plain
           /\ ~InLog(AdminOperation(a, Len(log)))
<1>1. Len(log) \in Nat /\ AdminOperation(a, Len(log)) \in LogObjects
  BY ObjectTypes DEF TypeOK
<1>2. AdminOperation(a, Len(log)) \in Plain
  BY <1>1 DEF Plain, Traceable, AdminOperation
<1>3. ASSUME NEW i \in 1..Len(log), log[i] = AdminOperation(a, Len(log)) PROVE FALSE
  BY <1>1, <1>3 DEF Provenance, AdminOperation
<1> QED BY <1>2, <1>3 DEF InLog

OfKind(k) == {o \in Traceable : o.kind = k}

LEMMA EnrollFresh ==
    ASSUME TypeOK, Provenance, NEW d \in Devices, NEW es \in EnrollmentEpochs, Enroll(d, es)
    PROVE  FreshAppend(Plain)
<1>1. /\ status[d] = "absent" /\ status'[d] = "pending_keys" /\ epoch' = epoch
      /\ AppendAll(<<Device(d)>> \o EnrollEnvelopes(d, es)
                     \o <<AdminOperation("approve_enrollment", Len(log))>>, <<>>)
  BY DEF Enroll, chainVars, TypeOK
<1>2. <<Device(d)>> \in Seq(OfKind("device")) /\ Fresh(<<Device(d)>>)
  <2>1. Device(d) \in OfKind("device")
    BY <1>1, ObjectTypes DEF OfKind, Traceable, Device
  <2>2. ~InLog(Device(d))
    BY <1>1 DEF InLog, Provenance, Device
  <2> QED BY <2>1, <2>2, FreshOne
<1>3. EnrollEnvelopes(d, es) \in Seq(OfKind("envelope")) /\ Fresh(EnrollEnvelopes(d, es))
  <2>1. PICK n \in 1..MaxEnvelopes : es \in Injection(1..n, 0..epoch.number)
    BY DEF EnrollmentEpochs
  <2>2. es \in [1..n -> 0..epoch.number] /\ n \in Nat /\ epoch.number \in Nat
    BY <2>1, ConstantsAssumption DEF Injection, TypeOK, EpochObjects
  <2>3. \A i, j \in 1..n : es[i] = es[j] => i = j
    BY <2>1, <2>2 DEF Injection, IsInjective
  <2>4. Len(es) = n
    BY <2>2
  <2>5. EnrollEnvelopes(d, es) = [i \in 1..n |-> Envelope(es[i], d, 0)]
    BY <2>4 DEF EnrollEnvelopes
  <2>6. \A i \in 1..n : Envelope(es[i], d, 0) \in OfKind("envelope")
    <3> TAKE i \in 1..n
    <3>1. es[i] \in Nat /\ es[i] <= epoch.number
      BY <2>2
    <3>2. Envelope(es[i], d, 0) \in LogObjects
      BY <3>1, ObjectTypes
    <3> QED BY <1>1, <3>1, <3>2 DEF OfKind, Traceable, Envelope
  <2>7. \A i \in 1..n : ~InLog(Envelope(es[i], d, 0))
    BY <1>1, ConstantsAssumption DEF InLog, Provenance, Envelope
  <2>8. \A i, j \in 1..n : Envelope(es[i], d, 0) = Envelope(es[j], d, 0) => i = j
    BY <2>3 DEF Envelope
  <2> QED BY <2>2, <2>5, <2>6, <2>7, <2>8 DEF Fresh
<1>4. LET o == AdminOperation("approve_enrollment", Len(log))
      IN  <<o>> \in Seq(OfKind("admin")) /\ Fresh(<<o>>)
  <2>1. "approve_enrollment" \in Actions /\ AdminOperation("approve_enrollment", Len(log)).kind = "admin"
    BY DEF Actions, AdminOperation
  <2> QED BY <2>1, FreshAdmin, FreshOne DEF OfKind, Plain
<1> DEFINE front == <<Device(d)>> \o EnrollEnvelopes(d, es)
<1>5. front \in Seq(OfKind("device") \cup OfKind("envelope")) /\ Fresh(front)
  BY <1>2, <1>3, FreshConcat DEF OfKind
<1> HIDE DEF front
<1> DEFINE all == front \o <<AdminOperation("approve_enrollment", Len(log))>>
<1>6. /\ all \in Seq((OfKind("device") \cup OfKind("envelope")) \cup OfKind("admin"))
      /\ Fresh(all)
  <2>1. (OfKind("device") \cup OfKind("envelope")) \cap OfKind("admin") = {}
    BY DEF OfKind
  <2> QED BY <1>4, <1>5, <2>1, FreshConcat
<1>7. all \in Seq(Plain)
  BY <1>6 DEF OfKind, Plain
<1>8. AppendAll(all, <<>>)
  BY <1>1 DEF front
<1> QED BY <1>6, <1>7, <1>8, NoNotes DEF FreshAppend

LEMMA RotateFresh ==
    ASSUME TypeOK, Provenance, EpochBounds, NEW p \in Principals, NEW M \in SUBSET Devices,
           NEW R \in SUBSET Devices, NEW S \in SUBSET Devices, Rotate(p, M, R, S)
    PROVE  FreshAppend(Plain)
<1>1. PICK n \in Nat, k \in Nat : n = epoch.number + 1 /\ k = Len(log) /\ epoch.number \in Nat
  BY DEF TypeOK, EpochObjects
<1>2. PICK op : op = IF p = Admin /\ R # {} THEN <<AdminOperation("revoke_device", k)>> ELSE <<>>
  OBVIOUS
<1>3. epoch' = Epoch(n, M, R) /\ AppendAll(EpochBundle(n, M, R, S, op), <<>>) /\ epoch'.number = n
  BY <1>1, <1>2 DEF Rotate, Epoch
<1>4. S \subseteq Absent /\ \A d \in M \cup S : d \in Devices /\ status'[d] # "absent"
  BY DEF Rotate, MembersMatch, Registered, Absent
<1>5. SortedIds[S] \in Seq(S) /\ SortedIds[M] \in Seq(M)
  BY SortedIdsAssumption
<1>6. /\ \A i, j \in 1..Len(SortedIds[S]) : SortedIds[S][i] = SortedIds[S][j] => i = j
      /\ \A i, j \in 1..Len(SortedIds[M]) : SortedIds[M][i] = SortedIds[M][j] => i = j
  <2>1. /\ \A i, j \in DOMAIN SortedIds[S] : SortedIds[S][i] = SortedIds[S][j] => i = j
        /\ \A i, j \in DOMAIN SortedIds[M] : SortedIds[M][i] = SortedIds[M][j] => i = j
    BY SortedIdsAssumption, Zenon
  <2>2. DOMAIN SortedIds[S] = 1..Len(SortedIds[S]) /\ DOMAIN SortedIds[M] = 1..Len(SortedIds[M])
    BY <1>5
  <2> QED BY <2>1, <2>2
<1> DEFINE Sealed == {o \in OfKind("envelope") : o.to \in Devices}
           Recoverable == {o \in OfKind("envelope") : o.to = Recovery}
           a == DeviceRecords(S)
           b == MemberEnvelopes(n, M)
           c == <<Envelope(n, Recovery, 0)>>
           e == <<Epoch(n, M, R)>>
<1>7. a \in Seq(OfKind("device")) /\ Fresh(a)
  <2>1. \A i \in 1..Len(SortedIds[S]) : SortedIds[S][i] \in S /\ SortedIds[S][i] \in Devices
    BY <1>5
  <2>2. \A i \in 1..Len(SortedIds[S]) : Device(SortedIds[S][i]) \in OfKind("device")
    BY <1>4, <2>1, ObjectTypes DEF OfKind, Traceable, Device
  <2>3. \A i \in 1..Len(SortedIds[S]) : ~InLog(Device(SortedIds[S][i]))
    BY <1>4, <2>1 DEF Absent, InLog, Provenance, Device
  <2>4. \A i, j \in 1..Len(SortedIds[S]) :
          Device(SortedIds[S][i]) = Device(SortedIds[S][j]) => i = j
    BY <1>6 DEF Device
  <2>5. Len(SortedIds[S]) \in Nat
    BY <1>5
  <2> QED BY <2>2, <2>3, <2>4, <2>5 DEF DeviceRecords, Fresh
<1>8. \A to : ~InLog(Envelope(n, to, 0))
  BY <1>1 DEF InLog, Provenance, Envelope
<1>9. b \in Seq(Sealed) /\ Fresh(b)
  <2>1. \A i \in 1..Len(SortedIds[M]) : SortedIds[M][i] \in M /\ SortedIds[M][i] \in Devices
    BY <1>5
  <2>2. \A i \in 1..Len(SortedIds[M]) : Envelope(n, SortedIds[M][i], 0) \in Sealed
    <3> TAKE i \in 1..Len(SortedIds[M])
    <3>1. Envelope(n, SortedIds[M][i], 0) \in LogObjects
      BY <2>1, ObjectTypes
    <3> QED BY <1>3, <1>4, <2>1, <3>1 DEF OfKind, Traceable, Envelope
  <2>3. \A i, j \in 1..Len(SortedIds[M]) :
          Envelope(n, SortedIds[M][i], 0) = Envelope(n, SortedIds[M][j], 0) => i = j
    BY <1>6 DEF Envelope
  <2>4. Len(SortedIds[M]) \in Nat
    BY <1>5
  <2> HIDE DEF Sealed
  <2> QED BY <1>8, <2>2, <2>3, <2>4 DEF MemberEnvelopes, Fresh
<1>10. c \in Seq(Recoverable) /\ Fresh(c)
  <2>1. Envelope(n, Recovery, 0) \in LogObjects
    BY ObjectTypes
  <2>2. Envelope(n, Recovery, 0) \in Recoverable
    BY <1>3, <2>1 DEF OfKind, Traceable, Envelope
  <2> HIDE DEF Recoverable
  <2> QED BY <1>8, <2>2, FreshOne
<1>11. op \in Seq(OfKind("admin")) /\ Fresh(op)
  <2>1. "revoke_device" \in Actions /\ AdminOperation("revoke_device", k).kind = "admin"
    BY DEF Actions, AdminOperation
  <2>2. <<AdminOperation("revoke_device", k)>> \in Seq(OfKind("admin"))
        /\ Fresh(<<AdminOperation("revoke_device", k)>>)
    BY <1>1, <2>1, FreshAdmin, FreshOne DEF OfKind, Plain
  <2> QED BY <1>2, <2>2, FreshNone
<1>12. e \in Seq(OfKind("epoch")) /\ Fresh(e)
  <2>1. Epoch(n, M, R) \in OfKind("epoch")
    <3>1. Epoch(n, M, R) \in LogObjects
      BY ObjectTypes
    <3> QED BY <3>1 DEF OfKind, Traceable, Epoch
  <2>2. ~InLog(Epoch(n, M, R))
    BY <1>1 DEF InLog, EpochBounds, Epoch
  <2> QED BY <2>1, <2>2, FreshOne
<1>13. /\ OfKind("device") \cap Sealed = {}
       /\ (OfKind("device") \cup Sealed) \cap Recoverable = {}
       /\ ((OfKind("device") \cup Sealed) \cup Recoverable) \cap OfKind("admin") = {}
       /\ (((OfKind("device") \cup Sealed) \cup Recoverable) \cup OfKind("admin"))
            \cap OfKind("epoch") = {}
  BY ConstantsAssumption DEF OfKind
<1>14. EpochBundle(n, M, R, S, op) = (((a \o b) \o c) \o op) \o e
  BY DEF EpochBundle
<1> HIDE DEF a, b, c, e, Sealed, Recoverable
<1>15. a \o b \in Seq(OfKind("device") \cup Sealed) /\ Fresh(a \o b)
  BY <1>7, <1>9, <1>13, FreshConcat
<1>16. /\ (a \o b) \o c \in Seq((OfKind("device") \cup Sealed) \cup Recoverable)
       /\ Fresh((a \o b) \o c)
  BY <1>10, <1>13, <1>15, FreshConcat
<1>17. /\ ((a \o b) \o c) \o op
            \in Seq(((OfKind("device") \cup Sealed) \cup Recoverable) \cup OfKind("admin"))
       /\ Fresh(((a \o b) \o c) \o op)
  BY <1>11, <1>13, <1>16, FreshConcat
<1> DEFINE all == (((a \o b) \o c) \o op) \o e
<1>18. /\ all \in Seq((((OfKind("device") \cup Sealed) \cup Recoverable) \cup OfKind("admin"))
                        \cup OfKind("epoch"))
       /\ Fresh(all)
  BY <1>12, <1>13, <1>17, FreshConcat
<1> HIDE DEF all
<1>19. all \in Seq(Plain)
  BY <1>18 DEF OfKind, Sealed, Recoverable, Plain
<1>20. AppendAll(all, <<>>)
  BY <1>3, <1>14 DEF all
<1> QED BY <1>18, <1>19, <1>20, NoNotes DEF FreshAppend

LEMMA UploadFresh ==
    ASSUME TypeOK, Receipted, Provenance
    PROVE  /\ \A p \in Principals, e \in 0..MaxEpoch, to \in Devices, copy \in EnvelopeCopies :
                UploadEnvelope(p, e, to, copy) => FreshAppend(Plain)
           /\ \A d \in Devices, r \in RecordObjects("record") : UploadRecord(d, r) => FreshAppend(Traceable)
           /\ \A i \in 1..MaxInteger : Repair(i) => FreshAppend(Plain)
           /\ \A p \in Principals, c \in Compactions : Snapshot(p, c) => FreshAppend(Plain)
           /\ \A c, through, D : Prune(c, through, D) => FreshAppend(Plain)
           /\ \A p \in Principals : Delete(p) => FreshAppend(Plain)
<1>1. ASSUME NEW p \in Principals, NEW e \in 0..MaxEpoch, NEW to \in Devices,
             NEW copy \in EnvelopeCopies, UploadEnvelope(p, e, to, copy)
      PROVE  FreshAppend(Plain)
  <2>1. /\ e \in 0..epoch.number /\ to \in Registered /\ epoch' = epoch /\ status' = status
        /\ AppendAll(NewObjects(Envelope(e, to, copy)), <<>>)
    BY <1>1 DEF UploadEnvelope, chainVars, registryVars
  <2>2. e \in Nat /\ Envelope(e, to, copy) \in LogObjects
    BY <2>1, ObjectTypes DEF TypeOK, EpochObjects
  <2>3. Envelope(e, to, copy) \in Plain
    BY <2>1, <2>2 DEF Plain, Traceable, Envelope, Registered, TypeOK, EpochObjects
  <2> QED BY <2>1, <2>3, FreshNew, NoNotes DEF FreshAppend
<1>2. ASSUME NEW d \in Devices, NEW r \in RecordObjects("record"), UploadRecord(d, r)
      PROVE  FreshAppend(Traceable)
  <2>1. AppendAll(NewObjects(r), <<>>)
    BY <1>2 DEF UploadRecord
  <2>2. r \in Traceable
    BY ObjectTypes DEF Traceable, RecordObjects
  <2> QED BY <2>1, <2>2, FreshNew, NoNotes DEF FreshAppend
<1>3. ASSUME NEW i \in 1..MaxInteger, Repair(i) PROVE FreshAppend(Plain)
  <2>1. InLog(log[i]) /\ AppendAll(NewObjects(log[i]), <<>>)
    BY <1>3 DEF Repair, InLog
  <2>2. AppendAll(<<>>, <<>>)
    BY <2>1, RetryAppendsNothing
  <2> QED BY <2>2, FreshNone, NoNotes DEF FreshAppend
<1>4. ASSUME NEW p \in Principals, NEW c \in Compactions, Snapshot(p, c) PROVE FreshAppend(Plain)
  <2>1. ~InLog(c) /\ AppendAll(<<c>>, <<>>)
    BY <1>4 DEF Snapshot
  <2>2. c \in Plain
    BY ObjectTypes DEF Plain, Traceable, Compactions
  <2> QED BY <2>1, <2>2, FreshOne, NoNotes DEF FreshAppend
<1>5. ASSUME NEW c, NEW through, NEW D, Prune(c, through, D) PROVE FreshAppend(Plain)
  <2>1. AppendAll(<<AdminOperation("prune_log", Len(log))>>, <<Note("prune")>>)
    BY <1>5 DEF Prune
  <2>2. <<Note("prune")>> \in Seq(Notes)
    BY NotesType
  <2> QED BY <2>1, <2>2, FreshAdmin, FreshOne DEF FreshAppend, Actions
<1>6. ASSUME NEW p \in Principals, Delete(p) PROVE FreshAppend(Plain)
  <2> DEFINE os == IF p = Admin THEN <<AdminOperation("delete_chain", Len(log))>> ELSE <<>>
  <2>1. AppendAll(os, <<Note("delete")>>)
    BY <1>6 DEF Delete
  <2>2. "delete_chain" \in Actions
    BY DEF Actions
  <2>3. <<AdminOperation("delete_chain", Len(log))>> \in Seq(Plain)
        /\ Fresh(<<AdminOperation("delete_chain", Len(log))>>)
    BY <2>2, FreshAdmin, FreshOne
  <2>4. os \in Seq(Plain) /\ Fresh(os)
    BY <2>3, FreshNone
  <2>5. <<Note("delete")>> \in Seq(Notes)
    BY NotesType
  <2> HIDE DEF os
  <2> QED BY <2>1, <2>4, <2>5 DEF FreshAppend
<1> QED BY <1>1, <1>2, <1>3, <1>4, <1>5, <1>6, Zenon

(***************************************************************************)
(* How a step changes the evidence: it appends new objects, stores a new   *)
(* snapshot part, or writes notes only.                                    *)
(***************************************************************************)
PartAccepted(q) ==
    /\ q \notin parts
    /\ log' = log /\ parts' = parts \cup {q}
    /\ transparency' = Append(transparency, Entry("accept", q, 0))
    /\ receipts' = receipts \cup {[object |-> q, seq |-> 0, index |-> Len(transparency) + 1]}

OnlyNotes ==
    /\ UNCHANGED <<log, parts, receipts>>
    /\ \E notes \in Seq(Notes) : transparency' = transparency \o notes

EvidenceStep ==
    \/ FreshAppend(Traceable) /\ parts' = parts
    \/ \E q \in RecordObjects("snapshot_part") : PartAccepted(q)
    \/ OnlyNotes

\* Epochs and registrations are never taken back.
Monotone ==
    /\ epoch.number <= epoch'.number
    /\ \A d \in Devices : status[d] # "absent" => status'[d] # "absent"

LEMMA KeptEvidence ==
    ASSUME TypeOK, UNCHANGED <<log, parts, receipts, transparency>>
    PROVE  EvidenceStep
<1>1. transparency \o <<>> = transparency
  BY DEF TypeOK
<1> QED BY <1>1, NoNotes DEF EvidenceStep, OnlyNotes

LEMMA KeptRegistry ==
    ASSUME TypeOK, epoch' = epoch, status' = status
    PROVE  Monotone
  BY DEF Monotone, TypeOK, EpochObjects

LEMMA EvidenceSteps ==
    ASSUME TypeOK, Receipted, EpochBounds, Provenance, [Next]_vars
    PROVE  EvidenceStep /\ Monotone
<1>1. CASE \E p \in Principals, mode \in {"single", "batch"} : Authenticate(p, mode)
  BY <1>1, KeptEvidence, KeptRegistry DEF Authenticate, chainVars, registryVars
<1>2. ASSUME NEW d \in Devices, Ack(d) PROVE EvidenceStep /\ Monotone
  <2>1. Monotone
    BY <1>2 DEF Ack, chainVars, Monotone, TypeOK, EpochObjects
  <2> QED BY <1>2, <2>1, KeptEvidence DEF Ack
<1>3. ASSUME NEW d \in Devices, NEW es \in EnrollmentEpochs, Enroll(d, es)
      PROVE  EvidenceStep /\ Monotone
  <2>1. Monotone
    BY <1>3 DEF Enroll, chainVars, Monotone, TypeOK, EpochObjects
  <2> QED BY <1>3, <2>1, EnrollFresh, PlainAppend DEF Enroll, EvidenceStep
<1>4. ASSUME NEW p \in Principals, NEW M \in SUBSET Devices, NEW R \in SUBSET Devices,
             NEW S \in SUBSET Devices, Rotate(p, M, R, S)
      PROVE  EvidenceStep /\ Monotone
  <2>1. Monotone
    <3>1. epoch'.number = epoch.number + 1 /\ epoch.number \in Nat
      BY <1>4 DEF Rotate, Epoch, TypeOK, EpochObjects
    <3>2. \A d \in Devices : status[d] # "absent" => status'[d] # "absent"
      BY <1>4 DEF Rotate
    <3> QED BY <3>1, <3>2 DEF Monotone
  <2> QED BY <1>4, <2>1, RotateFresh, PlainAppend DEF Rotate, EvidenceStep
<1>5. ASSUME NEW p \in Principals, NEW e \in 0..MaxEpoch, NEW to \in Devices,
             NEW copy \in EnvelopeCopies, UploadEnvelope(p, e, to, copy)
      PROVE  EvidenceStep /\ Monotone
  BY <1>5, UploadFresh, PlainAppend, KeptRegistry DEF UploadEnvelope, chainVars, registryVars, EvidenceStep
<1>6. ASSUME NEW d \in Devices, NEW r \in RecordObjects("record"), UploadRecord(d, r)
      PROVE  EvidenceStep /\ Monotone
  BY <1>6, UploadFresh, PlainAppend, KeptRegistry DEF UploadRecord, chainVars, registryVars, EvidenceStep
<1>7. ASSUME NEW p \in Principals, NEW q \in RecordObjects("snapshot_part"), UploadPart(p, q)
      PROVE  EvidenceStep /\ Monotone
  <2>1. PartAccepted(q)
    BY <1>7 DEF UploadPart, PartAccepted
  <2> QED BY <1>7, <2>1, KeptRegistry DEF UploadPart, chainVars, registryVars, EvidenceStep
<1>8. ASSUME NEW i \in 1..MaxInteger, Repair(i) PROVE EvidenceStep /\ Monotone
  BY <1>8, UploadFresh, PlainAppend, KeptRegistry DEF Repair, chainVars, registryVars, EvidenceStep
<1>9. ASSUME NEW p \in Principals, NEW d \in Devices, NEW k \in Marks, NEW Q \in SUBSET parts,
             Snapshot(p, Compaction(d, k, Q))
      PROVE  EvidenceStep /\ Monotone
  <2>1. PICK c \in Compactions : Snapshot(p, c)
    BY <1>9, CompactionType
  <2> QED BY <2>1, UploadFresh, PlainAppend, KeptRegistry DEF Snapshot, chainVars, registryVars, EvidenceStep
<1>10. ASSUME NEW i \in 1..Len(log), NEW through \in Marks, NEW D \in SUBSET (0..MaxEpoch),
              Prune(log[i], through, D)
       PROVE  EvidenceStep /\ Monotone
  BY <1>10, UploadFresh, PlainAppend, KeptRegistry DEF Prune, registryVars, EvidenceStep
<1>11. ASSUME NEW D \in SUBSET (0..MaxEpoch), Maintenance(D) PROVE EvidenceStep /\ Monotone
  BY <1>11, KeptEvidence, KeptRegistry DEF Maintenance, chainVars, registryVars
<1>12. ASSUME NEW p \in Principals, Delete(p) PROVE EvidenceStep /\ Monotone
  BY <1>12, UploadFresh, PlainAppend, KeptRegistry DEF Delete, registryVars, EvidenceStep
<1>13. ASSUME NEW p \in Principals, Reject(p) \/ Respond(p) PROVE EvidenceStep /\ Monotone
  BY <1>13, KeptEvidence, KeptRegistry DEF Reject, Respond, chainVars, registryVars
<1>14. ASSUME NEW p \in Principals, NEW n \in 1..MaxCandidates, AuditReject(p, n)
       PROVE  EvidenceStep /\ Monotone
  <2>1. n \in Nat /\ Note("reject") \in Notes
    BY ConstantsAssumption, NotesType
  <2>2. [i \in 1..n |-> Note("reject")] \in Seq(Notes)
    BY <2>1
  <2>3. OnlyNotes
    BY <1>14, <2>2 DEF AuditReject, OnlyNotes
  <2> QED BY <1>14, <2>3, KeptRegistry DEF AuditReject, chainVars, registryVars, EvidenceStep
<1>15. CASE Restart
  BY <1>15, KeptEvidence, KeptRegistry DEF Restart, chainVars, registryVars
<1>16. CASE UNCHANGED vars
  BY <1>16, KeptEvidence, KeptRegistry DEF vars, chainVars, registryVars
<1> QED
  BY <1>1, <1>2, <1>3, <1>4, <1>5, <1>6, <1>7, <1>8, <1>9, <1>10, <1>11, <1>12, <1>13, <1>14,
     <1>15, <1>16, Zenon DEF Next

(***************************************************************************)
(* The inductive invariant about the evidence.                             *)
(***************************************************************************)
\* A receipt without a log position is the receipt of a stored snapshot part.
PartReceipts == \A r \in receipts : r.seq = 0 => r.object \in parts

EvidenceInv == Provenance /\ AcceptedOnce /\ ReceiptsMatchEvidence /\ PartReceipts

LEMMA ProvenanceStep ==
    ASSUME TypeOK, TypeOK', Provenance, EvidenceStep, Monotone
    PROVE  Provenance'
<1> DEFINE P(o, i) ==
        /\ o.kind = "device" => status'[o.id] # "absent"
        /\ o.kind = "envelope" =>
             /\ o.epoch <= epoch'.number
             /\ o.to # Recovery => status'[o.to] # "absent"
        /\ o.kind = "admin" => o.id < i
<1>1. \A i \in 1..Len(log) : P(log[i], i)
  <2> SUFFICES ASSUME NEW i \in 1..Len(log) PROVE P(log[i], i)
    OBVIOUS
  <2>1. log[i] \in LogObjects /\ epoch.number \in Nat /\ epoch'.number \in Nat
    BY DEF TypeOK, EpochObjects
  <2>2. log[i].kind = "device" => log[i].id \in Devices
    BY <2>1 DEF LogObjects, Parameters, Device, Envelopes, EpochObjects, RecordObjects, Compactions
  <2>3. log[i].kind = "envelope" => log[i].epoch \in Nat /\ log[i].to \in Devices \cup {Recovery}
    BY <2>1, Kinds DEF Envelopes
  <2>4. /\ log[i].kind = "device" => status[log[i].id] # "absent"
        /\ log[i].kind = "envelope" =>
             /\ log[i].epoch <= epoch.number
             /\ log[i].to # Recovery => status[log[i].to] # "absent"
        /\ log[i].kind = "admin" => log[i].id < i
    BY DEF Provenance
  <2> QED BY <2>1, <2>2, <2>3, <2>4 DEF Monotone
<1>2. CASE log' = log
  BY <1>1, <1>2 DEF Provenance
<1>3. CASE FreshAppend(Traceable)
  <2>1. PICK os \in Seq(Traceable) : log' = log \o os
    BY <1>3 DEF FreshAppend, AppendAll
  <2>2. os \in Seq(LogObjects)
    BY TraceableAreObjects
  <2> SUFFICES ASSUME NEW i \in 1..Len(log') PROVE P(log'[i], i)
    BY DEF Provenance
  <2>3. CASE i \in 1..Len(log)
    <3>1. log'[i] = log[i]
      BY <2>1, <2>2, <2>3, AppendedEntries DEF TypeOK
    <3> HIDE DEF P
    <3> QED BY <1>1, <2>3, <3>1
  <2>4. CASE i \notin 1..Len(log)
    <3>1. i > Len(log) /\ i - Len(log) \in 1..Len(os) /\ log'[i] = os[i - Len(log)]
      BY <2>1, <2>2, <2>4, AppendedEntries DEF TypeOK
    <3>2. log'[i] \in Traceable /\ Len(log) \in Nat
      BY <3>1 DEF TypeOK
    <3>3. log'[i].kind = "admin" => log'[i].id \in Nat
      <4>1. log'[i] \in LogObjects
        BY <3>2 DEF Traceable
      <4> QED BY <4>1 DEF LogObjects, Parameters, Device, Envelopes, EpochObjects, RecordObjects,
                          Compactions
    <3> QED BY <3>1, <3>2, <3>3 DEF Traceable
  <2> QED BY <2>3, <2>4
<1> QED BY <1>2, <1>3 DEF EvidenceStep, PartAccepted, OnlyNotes

\* Neither a log object nor a receipted object is a snapshot part by accident.
LEMMA PartsAreNotLogged == \A q \in RecordObjects("snapshot_part") : q \notin LogObjects
  BY DEF LogObjects, Parameters, Device, Envelopes, EpochObjects, RecordObjects, Compactions

\* The transparency entries after an append.
LEMMA AppendedTransparency ==
    ASSUME TypeOK, NEW os \in Seq(LogObjects), NEW notes \in Seq(Entries), AppendAll(os, notes)
    PROVE  /\ Len(transparency') = Len(transparency) + Len(os) + Len(notes)
           /\ \A k \in 1..Len(transparency) :
                k \in 1..Len(transparency') /\ transparency'[k] = transparency[k]
           /\ \A i \in 1..Len(os) :
                /\ Len(transparency) + i \in 1..Len(transparency')
                /\ transparency'[Len(transparency) + i] = Entry("accept", os[i], Len(log) + i)
<1>1. Accepted(os) \in Seq(Entries) /\ Len(Accepted(os)) = Len(os)
  BY AcceptedType DEF TypeOK
<1>2. \A i \in 1..Len(os) : Accepted(os)[i] = Entry("accept", os[i], Len(log) + i)
  BY DEF Accepted
<1>3. PICK acc \in Seq(Entries) : acc = Accepted(os)
  BY <1>1
<1>4. PICK front \in Seq(Entries) : front = transparency \o acc
  <2>1. transparency \in Seq(Entries)
    BY DEF TypeOK
  <2>2. transparency \o acc \in Seq(Entries)
    BY <2>1, ConcatProperties
  <2> QED BY <2>2
<1>5. transparency \in Seq(Entries) /\ transparency' = front \o notes
  BY <1>3, <1>4 DEF TypeOK, AppendAll
<1>6. /\ Len(front) = Len(transparency) + Len(acc)
      /\ \A k \in 1..Len(transparency) : k \in 1..Len(front) /\ front[k] = transparency[k]
      /\ \A i \in 1..Len(acc) :
           Len(transparency) + i \in 1..Len(front) /\ front[Len(transparency) + i] = acc[i]
  BY <1>4, <1>5
<1>7. /\ Len(transparency') = Len(front) + Len(notes)
      /\ \A k \in 1..Len(front) : k \in 1..Len(transparency') /\ transparency'[k] = front[k]
  BY <1>5
<1> QED BY <1>1, <1>2, <1>3, <1>6, <1>7

\* An object that is new to the log, or to the parts, has no receipt.
LEMMA NewHasNoReceipt ==
    ASSUME TypeOK, ReceiptsMatchEvidence, PartReceipts, NEW r \in receipts
    PROVE  /\ \A o \in LogObjects : ~InLog(o) => r.object # o
           /\ \A q \in RecordObjects("snapshot_part") : q \notin parts => r.object # q
<1>1. CASE r.seq = 0
  <2>1. r.object \in parts /\ r.object \in RecordObjects("snapshot_part")
    BY <1>1 DEF PartReceipts, TypeOK
  <2> QED BY <2>1, PartsAreNotLogged
<1>2. CASE r.seq # 0
  <2>1. r.seq \in 1..Len(log) /\ log[r.seq] = r.object
    BY <1>2 DEF ReceiptsMatchEvidence
  <2>2. InLog(r.object) /\ r.object \in LogObjects
    BY <2>1 DEF InLog, TypeOK
  <2> QED BY <2>2, PartsAreNotLogged
<1> QED BY <1>1, <1>2

LEMMA AppendEvidence ==
    ASSUME TypeOK, AcceptedOnce, ReceiptsMatchEvidence, PartReceipts, FreshAppend(Traceable), parts' = parts
    PROVE  AcceptedOnce' /\ ReceiptsMatchEvidence' /\ PartReceipts'
<1>1. PICK os \in Seq(LogObjects), notes \in Seq(Entries) : Fresh(os) /\ AppendAll(os, notes)
  BY TraceableAreObjects, NotesAreEntries DEF FreshAppend
<1>2. /\ log' \in Seq(LogObjects) /\ Len(log') = Len(log) + Len(os)
      /\ \A i \in 1..Len(log) : i \in 1..Len(log') /\ log'[i] = log[i]
      /\ \A i \in 1..Len(log') : i \notin 1..Len(log) =>
           /\ i > Len(log) /\ i - Len(log) \in 1..Len(os)
           /\ log'[i] = os[i - Len(log)]
  BY <1>1, AppendedEntries DEF AppendAll, TypeOK
<1>3. Len(log) \in Nat /\ Len(os) \in Nat /\ Len(transparency) \in Nat
  BY DEF TypeOK
<1>4. \A i \in 1..Len(os) : Len(log) + i \in 1..Len(log') /\ log'[Len(log) + i] = os[i]
  <2> TAKE i \in 1..Len(os)
  <2>1. Len(log) + i \in 1..Len(log') /\ Len(log) + i \notin 1..Len(log)
    BY <1>2, <1>3
  <2>2. (Len(log) + i) - Len(log) = i
    BY <1>3
  <2> QED BY <1>2, <2>1, <2>2
<1>5. AcceptedOnce'
  <2>0. \A i \in 1..Len(log), k \in 1..Len(os) : log[i] # os[k]
    BY <1>1 DEF Fresh, InLog
  <2> SUFFICES ASSUME NEW i \in 1..Len(log'), NEW j \in 1..Len(log'), log'[i] = log'[j]
               PROVE  i = j
    BY DEF AcceptedOnce
  <2>1. CASE i \in 1..Len(log) /\ j \in 1..Len(log)
    BY <1>2, <2>1 DEF AcceptedOnce
  <2>2. CASE i \in 1..Len(log) /\ j \notin 1..Len(log)
    BY <1>2, <2>0, <2>2
  <2>3. CASE i \notin 1..Len(log) /\ j \in 1..Len(log)
    BY <1>2, <2>0, <2>3
  <2>4. CASE i \notin 1..Len(log) /\ j \notin 1..Len(log)
    <3>1. i - Len(log) = j - Len(log)
      BY <1>1, <1>2, <2>4 DEF Fresh
    <3> QED BY <1>3, <3>1
  <2> QED BY <2>1, <2>2, <2>3, <2>4
<1>6. /\ \A k \in 1..Len(transparency) :
           k \in 1..Len(transparency') /\ transparency'[k] = transparency[k]
      /\ \A i \in 1..Len(os) :
           /\ Len(transparency) + i \in 1..Len(transparency')
           /\ transparency'[Len(transparency) + i] = Entry("accept", os[i], Len(log) + i)
  BY <1>1, AppendedTransparency
<1> DEFINE row(i) == [object |-> os[i], seq |-> Len(log) + i, index |-> Len(transparency) + i]
<1>7. receipts' = receipts \cup {row(i) : i \in 1..Len(os)}
  BY <1>1 DEF AppendAll, Receipts
<1>8. /\ \A r \in receipts :
           /\ r.index \in 1..Len(transparency)
           /\ transparency[r.index] = Entry("accept", r.object, r.seq)
           /\ r.seq # 0 => r.seq \in 1..Len(log) /\ log[r.seq] = r.object
      /\ \A i \in 1..Len(log) : \E r \in receipts : r.seq = i
      /\ \A q \in parts : \E r \in receipts : r.object = q
      /\ \A r1, r2 \in receipts : r1.object = r2.object => r1 = r2
  BY DEF ReceiptsMatchEvidence
<1>9. \A i \in 1..Len(os) :
        row(i).object = os[i] /\ row(i).seq = Len(log) + i /\ row(i).index = Len(transparency) + i
  OBVIOUS
<1> HIDE DEF row
<1>10. \A r \in receipts' :
         /\ r.index \in 1..Len(transparency')
         /\ transparency'[r.index] = Entry("accept", r.object, r.seq)
         /\ r.seq # 0 => r.seq \in 1..Len(log') /\ log'[r.seq] = r.object
  <2> TAKE r \in receipts'
  <2>1. CASE r \in receipts
    BY <1>2, <1>6, <1>8, <2>1
  <2>2. CASE \E i \in 1..Len(os) : r = row(i)
    BY <1>4, <1>6, <1>9, <2>2
  <2> QED BY <1>7, <2>1, <2>2
<1>11. \A i \in 1..Len(log') : \E r \in receipts' : r.seq = i
  <2> TAKE i \in 1..Len(log')
  <2>1. CASE i \in 1..Len(log)
    BY <1>7, <1>8, <2>1
  <2>2. CASE i \notin 1..Len(log)
    <3>1. i - Len(log) \in 1..Len(os) /\ row(i - Len(log)) \in receipts'
      BY <1>2, <1>7, <2>2
    <3>2. row(i - Len(log)).seq = i
      BY <1>3, <1>9, <3>1
    <3> QED BY <3>1, <3>2
  <2> QED BY <2>1, <2>2
<1>12. \A q \in parts' : \E r \in receipts' : r.object = q
  BY <1>7, <1>8
<1>13. ASSUME NEW r \in receipts, NEW i \in 1..Len(os) PROVE r.object # os[i]
  BY <1>1, NewHasNoReceipt DEF Fresh
<1>14. \A r1, r2 \in receipts' : r1.object = r2.object => r1 = r2
  <2> TAKE r1, r2 \in receipts'
  <2> HAVE r1.object = r2.object
  <2>1. \A i, j \in 1..Len(os) : row(i).object = row(j).object => row(i) = row(j)
    BY <1>1, <1>9 DEF Fresh
  <2> QED BY <1>7, <1>8, <1>9, <1>13, <2>1
<1>15. ReceiptsMatchEvidence'
  BY <1>10, <1>11, <1>12, <1>14 DEF ReceiptsMatchEvidence
<1>16. PartReceipts'
  <2> SUFFICES ASSUME NEW r \in receipts', r.seq = 0 PROVE r.object \in parts'
    BY DEF PartReceipts
  <2>1. r \in receipts
    BY <1>3, <1>7, <1>9
  <2> QED BY <2>1 DEF PartReceipts
<1> QED BY <1>5, <1>15, <1>16

LEMMA PartEvidence ==
    ASSUME TypeOK, AcceptedOnce, ReceiptsMatchEvidence, PartReceipts,
           NEW q \in RecordObjects("snapshot_part"), PartAccepted(q)
    PROVE  AcceptedOnce' /\ ReceiptsMatchEvidence' /\ PartReceipts'
<1> DEFINE new == [object |-> q, seq |-> 0, index |-> Len(transparency) + 1]
<1>1. /\ log' = log /\ parts' = parts \cup {q} /\ q \notin parts
      /\ receipts' = receipts \cup {new}
  BY DEF PartAccepted
<1>2. new.object = q /\ new.seq = 0 /\ new.index = Len(transparency) + 1
  OBVIOUS
<1> HIDE DEF new
<1>3. q \in Accepts
  BY DEF Accepts
<1>4. Entry("accept", q, 0) \in Entries
  BY <1>3 DEF Entry, Entries
<1>5. /\ Len(transparency) \in Nat
      /\ Len(transparency') = Len(transparency) + 1
      /\ transparency'[Len(transparency) + 1] = Entry("accept", q, 0)
      /\ \A k \in 1..Len(transparency) : transparency'[k] = transparency[k]
  BY <1>4 DEF PartAccepted, TypeOK
<1>6. \A r \in receipts' :
        /\ r.index \in 1..Len(transparency')
        /\ transparency'[r.index] = Entry("accept", r.object, r.seq)
        /\ r.seq # 0 => r.seq \in 1..Len(log') /\ log'[r.seq] = r.object
  <2> TAKE r \in receipts'
  <2>1. CASE r \in receipts
    BY <1>1, <1>5, <2>1 DEF ReceiptsMatchEvidence
  <2>2. CASE r = new
    BY <1>2, <1>5, <2>2
  <2> QED BY <1>1, <2>1, <2>2
<1>7. /\ \A i \in 1..Len(log') : \E r \in receipts' : r.seq = i
      /\ \A x \in parts' : \E r \in receipts' : r.object = x
  BY <1>1, <1>2 DEF ReceiptsMatchEvidence
<1>8. \A r \in receipts : r.object # q
  BY <1>1, NewHasNoReceipt
<1>9. \A r1, r2 \in receipts' : r1.object = r2.object => r1 = r2
  BY <1>1, <1>2, <1>8 DEF ReceiptsMatchEvidence
<1>10. ReceiptsMatchEvidence'
  BY <1>6, <1>7, <1>9 DEF ReceiptsMatchEvidence
<1>11. PartReceipts'
  BY <1>1, <1>2 DEF PartReceipts
<1>12. AcceptedOnce'
  BY <1>1 DEF AcceptedOnce
<1> QED BY <1>10, <1>11, <1>12

LEMMA NotesEvidence ==
    ASSUME TypeOK, AcceptedOnce, ReceiptsMatchEvidence, PartReceipts, OnlyNotes
    PROVE  AcceptedOnce' /\ ReceiptsMatchEvidence' /\ PartReceipts'
<1>1. PICK notes \in Seq(Entries) : transparency' = transparency \o notes
  BY NotesAreEntries DEF OnlyNotes
<1>2. \A k \in 1..Len(transparency) :
        k \in 1..Len(transparency') /\ transparency'[k] = transparency[k]
  BY <1>1, ConcatProperties DEF TypeOK
<1>3. log' = log /\ parts' = parts /\ receipts' = receipts
  BY DEF OnlyNotes
<1>4. ReceiptsMatchEvidence'
  BY <1>2, <1>3 DEF ReceiptsMatchEvidence
<1> QED BY <1>3, <1>4 DEF AcceptedOnce, PartReceipts

LEMMA EvidenceInvStep == LogInv /\ LogInv' /\ EvidenceInv /\ [Next]_vars => EvidenceInv'
<1> SUFFICES ASSUME LogInv, LogInv', EvidenceInv, [Next]_vars PROVE EvidenceInv'
  OBVIOUS
<1>1. EvidenceStep /\ Monotone
  BY EvidenceSteps DEF LogInv, EvidenceInv
<1>2. Provenance'
  BY <1>1, ProvenanceStep DEF LogInv, EvidenceInv
<1>3. AcceptedOnce' /\ ReceiptsMatchEvidence' /\ PartReceipts'
  BY <1>1, AppendEvidence, PartEvidence, NotesEvidence DEF EvidenceStep, LogInv, EvidenceInv
<1> QED BY <1>2, <1>3 DEF EvidenceInv

LEMMA GenesisEntries ==
    ASSUME Init
    PROVE  /\ Len(log) = 5 /\ log = GenesisLog
           /\ log[1] = Parameters /\ log[2] = Device(Creator) /\ log[3] = Envelope(0, Creator, 0)
           /\ log[4] = Envelope(0, Recovery, 0) /\ log[5] = Epoch(0, {Creator}, {})
  BY DEF Init, GenesisLog

LEMMA EvidenceInit == Init => EvidenceInv
<1> SUFFICES ASSUME Init PROVE EvidenceInv
  OBVIOUS
<1>1. /\ Len(log) = 5 /\ log = GenesisLog
      /\ log[1] = Parameters /\ log[2] = Device(Creator) /\ log[3] = Envelope(0, Creator, 0)
      /\ log[4] = Envelope(0, Recovery, 0) /\ log[5] = Epoch(0, {Creator}, {})
  BY GenesisEntries
<1>2. \A i \in 1..5 : i = 1 \/ i = 2 \/ i = 3 \/ i = 4 \/ i = 5
  OBVIOUS
<1>3. AcceptedOnce
  <2>1. Creator # Recovery
    BY ConstantsAssumption
  <2> QED BY <1>1, <1>2, <2>1 DEF AcceptedOnce, Parameters, Device, Envelope, Epoch
<1>4. Provenance
  <2>1. epoch.number = 0 /\ status[Creator] # "absent"
    BY ConstantsAssumption DEF Init, Epoch
  <2> QED BY <1>1, <1>2, <2>1 DEF Provenance, Parameters, Device, Envelope, Epoch
<1> DEFINE row(i) == [object |-> log[i], seq |-> i, index |-> i]
<1>5. receipts = {row(i) : i \in 1..5} /\ parts = {}
  BY <1>1 DEF Init
<1>6. Len(transparency) = 5 /\ \A i \in 1..5 : transparency[i] = Entry("accept", log[i], i)
  BY <1>1 DEF Init
<1>7. \A i \in 1..5 : row(i).object = log[i] /\ row(i).seq = i /\ row(i).index = i
  OBVIOUS
<1> HIDE DEF row
<1>8. \A r1, r2 \in receipts : r1.object = r2.object => r1 = r2
  BY <1>1, <1>3, <1>5, <1>7 DEF AcceptedOnce
<1>9. ReceiptsMatchEvidence
  BY <1>1, <1>5, <1>6, <1>7, <1>8 DEF ReceiptsMatchEvidence
<1>10. PartReceipts
  BY <1>5, <1>7 DEF PartReceipts
<1> QED BY <1>3, <1>4, <1>9, <1>10 DEF EvidenceInv

LEMMA EvidenceInvariance == Spec => []EvidenceInv
  BY EvidenceInit, EvidenceInvStep, Invariance, PTL DEF Spec

(***************************************************************************)
(* Keys: who finds an envelope of the current epoch in the log.            *)
(***************************************************************************)
Holds(s, o) == \E i \in 1..Len(s) : s[i] = o

LEMMA HoldsConcat ==
    ASSUME NEW T, NEW s \in Seq(T), NEW t \in Seq(T), NEW o, Holds(s, o) \/ Holds(t, o)
    PROVE  Holds(s \o t, o)
<1>1. PICK c : c = s \o t
  OBVIOUS
<1>2. /\ \A i \in 1..Len(s) : i \in 1..Len(c) /\ c[i] = s[i]
      /\ \A i \in 1..Len(t) : Len(s) + i \in 1..Len(c) /\ c[Len(s) + i] = t[i]
  BY <1>1
<1> QED BY <1>1, <1>2 DEF Holds

LEMMA HeldIsLogged ==
    ASSUME TypeOK, NEW os \in Seq(LogObjects), NEW notes, AppendAll(os, notes), NEW o, Holds(os, o)
    PROVE  InLog(o)'
<1>1. log \in Seq(LogObjects) /\ log' = log \o os
  BY DEF TypeOK, AppendAll
<1>2. Holds(log', o)
  BY <1>1, HoldsConcat
<1> QED BY <1>2 DEF Holds, InLog

LEMMA LogGrows ==
    ASSUME TypeOK, EvidenceStep
    PROVE  /\ \A i \in 1..Len(log) : i \in 1..Len(log') /\ log'[i] = log[i]
           /\ \A o : InLog(o) => InLog(o)'
           /\ parts \subseteq parts'
<1>1. parts \subseteq parts'
  BY DEF EvidenceStep, PartAccepted, OnlyNotes
<1>2. \A i \in 1..Len(log) : i \in 1..Len(log') /\ log'[i] = log[i]
  <2>1. CASE FreshAppend(Traceable)
    <3>1. PICK os \in Seq(LogObjects) : log' = log \o os
      BY <2>1, TraceableAreObjects DEF FreshAppend, AppendAll
    <3> QED BY <3>1, AppendedEntries DEF TypeOK
  <2>2. CASE log' = log
    BY <2>2
  <2> QED BY <2>1, <2>2 DEF EvidenceStep, PartAccepted, OnlyNotes
<1> QED BY <1>1, <1>2 DEF InLog

LEMMA EnrollKeys ==
    ASSUME TypeOK, NEW d \in Devices, NEW es \in EnrollmentEpochs, Enroll(d, es)
    PROVE  InLog(Envelope(epoch.number, d, 0))'
<1>1. /\ epoch' = epoch /\ epoch.number \in Range(es) /\ status[d] = "absent"
      /\ AppendAll(<<Device(d)>> \o EnrollEnvelopes(d, es)
                     \o <<AdminOperation("approve_enrollment", Len(log))>>, <<>>)
  BY DEF Enroll, chainVars
<1>2. PICK o : o = Envelope(epoch.number, d, 0)
  OBVIOUS
<1>3. es \in Seq(Nat)
  <2>1. PICK n \in 1..MaxEnvelopes : es \in [1..n -> 0..epoch.number]
    BY DEF EnrollmentEpochs, Injection
  <2>2. n \in Nat
    BY ConstantsAssumption
  <2> QED BY <2>1, <2>2
<1>4. Holds(EnrollEnvelopes(d, es), o)
  <2>1. PICK k \in 1..Len(es) : es[k] = epoch.number
    BY <1>1, <1>3 DEF Range
  <2>2. Len(EnrollEnvelopes(d, es)) = Len(es) /\ EnrollEnvelopes(d, es)[k] = o
    BY <1>2, <1>3, <2>1 DEF EnrollEnvelopes
  <2> QED BY <2>1, <2>2 DEF Holds
<1>5. PICK a \in Seq(LogObjects), b \in Seq(LogObjects), c \in Seq(LogObjects) :
        /\ a = <<Device(d)>> /\ b = EnrollEnvelopes(d, es)
        /\ c = <<AdminOperation("approve_enrollment", Len(log))>>
  <2>1. \A i \in 1..Len(es) : Envelope(es[i], d, 0) \in LogObjects
    BY <1>3, ObjectTypes
  <2>2. EnrollEnvelopes(d, es) \in Seq(LogObjects)
    BY <1>3, <2>1 DEF EnrollEnvelopes
  <2>3. Device(d) \in LogObjects /\ AdminOperation("approve_enrollment", Len(log)) \in LogObjects
    BY ObjectTypes DEF Actions, TypeOK
  <2>4. /\ <<Device(d)>> \in Seq(LogObjects)
        /\ <<AdminOperation("approve_enrollment", Len(log))>> \in Seq(LogObjects)
    BY <2>3
  <2> QED BY <2>2, <2>4, Zenon
<1>6. Holds(a \o b, o) /\ a \o b \in Seq(LogObjects)
  BY <1>4, <1>5, HoldsConcat, ConcatProperties
<1>7. Holds((a \o b) \o c, o) /\ (a \o b) \o c \in Seq(LogObjects)
  BY <1>6, HoldsConcat, ConcatProperties
<1>8. AppendAll((a \o b) \o c, <<>>)
  BY <1>1, <1>5
<1>9. InLog(o)'
  BY <1>7, <1>8, HeldIsLogged
<1> QED BY <1>1, <1>2, <1>9 DEF InLog

LEMMA RotateKeys ==
    ASSUME TypeOK, NEW p \in Principals, NEW M \in SUBSET Devices, NEW R \in SUBSET Devices,
           NEW S \in SUBSET Devices, Rotate(p, M, R, S)
    PROVE  \A to \in M \cup {Recovery} : InLog(Envelope(epoch.number, to, 0))'
<1>1. PICK n \in Nat, k \in Nat : n = epoch.number + 1 /\ k = Len(log)
  BY DEF TypeOK, EpochObjects
<1>2. PICK op : op = IF p = Admin /\ R # {} THEN <<AdminOperation("revoke_device", k)>> ELSE <<>>
  OBVIOUS
<1>3. epoch' = Epoch(n, M, R) /\ AppendAll(EpochBundle(n, M, R, S, op), <<>>) /\ epoch'.number = n
  BY <1>1, <1>2 DEF Rotate, Epoch
<1>4. /\ DeviceRecords(S) \in Seq(LogObjects) /\ MemberEnvelopes(n, M) \in Seq(LogObjects)
      /\ Len(MemberEnvelopes(n, M)) = Len(SortedIds[M])
  <2>1. SortedIds[S] \in Seq(Devices) /\ SortedIds[M] \in Seq(Devices)
    BY SortedIdsAssumption
  <2>2. /\ \A i \in 1..Len(SortedIds[S]) : Device(SortedIds[S][i]) \in LogObjects
        /\ \A i \in 1..Len(SortedIds[M]) : Envelope(n, SortedIds[M][i], 0) \in LogObjects
    BY <2>1, ObjectTypes
  <2> QED BY <2>1, <2>2 DEF DeviceRecords, MemberEnvelopes
<1>5. PICK a \in Seq(LogObjects), b \in Seq(LogObjects), c \in Seq(LogObjects), e \in Seq(LogObjects) :
        /\ a = DeviceRecords(S) /\ b = MemberEnvelopes(n, M)
        /\ c = <<Envelope(n, Recovery, 0)>> /\ e = <<Epoch(n, M, R)>>
  <2>1. Envelope(n, Recovery, 0) \in LogObjects /\ Epoch(n, M, R) \in LogObjects
    BY ObjectTypes
  <2>2. <<Envelope(n, Recovery, 0)>> \in Seq(LogObjects) /\ <<Epoch(n, M, R)>> \in Seq(LogObjects)
    BY <2>1
  <2> QED BY <1>4, <2>2, Zenon
<1>6. op \in Seq(LogObjects)
  <2>1. AdminOperation("revoke_device", k) \in LogObjects
    BY ObjectTypes DEF Actions
  <2> QED BY <1>2, <2>1
<1>7. /\ a \o b \in Seq(LogObjects) /\ (a \o b) \o c \in Seq(LogObjects)
      /\ ((a \o b) \o c) \o op \in Seq(LogObjects)
      /\ (((a \o b) \o c) \o op) \o e \in Seq(LogObjects)
  BY <1>6, ConcatProperties
<1>8. AppendAll((((a \o b) \o c) \o op) \o e, <<>>)
  BY <1>3, <1>5 DEF EpochBundle
<1>9. ASSUME NEW to \in M \cup {Recovery} PROVE Holds((a \o b) \o c, Envelope(n, to, 0))
  <2>1. CASE to = Recovery
    <3>1. Holds(c, Envelope(n, to, 0))
      BY <1>5, <2>1 DEF Holds
    <3> QED BY <1>7, <3>1, HoldsConcat
  <2>2. CASE to \in M
    <3>1. PICK i \in 1..Len(SortedIds[M]) : SortedIds[M][i] = to
      BY <2>2, SortedIdsAssumption
    <3>2. b[i] = Envelope(n, to, 0) /\ i \in 1..Len(b)
      BY <1>4, <1>5, <3>1 DEF MemberEnvelopes
    <3>3. Holds(b, Envelope(n, to, 0))
      BY <3>2 DEF Holds
    <3>4. Holds(a \o b, Envelope(n, to, 0))
      BY <3>3, HoldsConcat
    <3> QED BY <1>7, <3>4, HoldsConcat
  <2> QED BY <2>1, <2>2
<1>10. ASSUME NEW to \in M \cup {Recovery} PROVE InLog(Envelope(epoch.number, to, 0))'
  <2>1. PICK o : o = Envelope(n, to, 0)
    OBVIOUS
  <2>2. Holds(((a \o b) \o c) \o op, o)
    BY <1>6, <1>7, <1>9, <2>1, HoldsConcat
  <2>3. Holds((((a \o b) \o c) \o op) \o e, o)
    BY <1>7, <2>2, HoldsConcat
  <2>4. InLog(o)'
    BY <1>7, <1>8, <2>3, HeldIsLogged
  <2> QED BY <1>3, <2>1, <2>4 DEF InLog
<1> QED BY <1>10

(***************************************************************************)
(* What a step does to the keys, the ciphertexts and the retained rows.    *)
(***************************************************************************)
\* Whoever is registered after the step had its key before, or gets one.
KeysGranted ==
    /\ epoch'.number <= epoch.number + 1
    /\ \A to \in Registered' \cup {Recovery} :
         \/ epoch'.number = epoch.number /\ to \in Registered \cup {Recovery}
         \/ InLog(Envelope(epoch.number, to, 0))'

\* At most one ciphertext is added, and its nonce is reserved for it.
NonceStep ==
    \/ Ciphertexts' = Ciphertexts /\ payloadNonces' = payloadNonces
    \/ \E kind \in {"record", "snapshot_part"} : \E r \in RecordObjects(kind) :
         /\ ~IdTaken(r) /\ Reserve(r)
         /\ r \in Ciphertexts \/ NonceFree(r)
         /\ Ciphertexts' \subseteq Ciphertexts \cup {r}

Retained ==
    /\ minAvailable' = minAvailable /\ boundary' = boundary
    /\ cleared' = cleared /\ nulled' = nulled /\ handoffs' = handoffs /\ expired' = expired

RetentionStep ==
    \/ Retained
    \/ \E i \in 1..Len(log), through \in Marks, D \in SUBSET (0..MaxEpoch) :
         Prune(log[i], through, D)
    \/ \E D \in SUBSET (0..MaxEpoch) : Maintenance(D)

LEMMA SameRegistry ==
    ASSUME TypeOK, epoch' = epoch, status' = status
    PROVE  KeysGranted
  BY DEF KeysGranted, Registered, TypeOK, EpochObjects

LEMMA SameContent ==
    ASSUME log' = log, parts' = parts, payloadNonces' = payloadNonces
    PROVE  NonceStep
  BY DEF NonceStep, Ciphertexts

LEMMA PlainContent ==
    ASSUME TypeOK, FreshAppend(Plain), parts' = parts, payloadNonces' = payloadNonces
    PROVE  NonceStep
<1>1. PICK os \in Seq(Plain) : log' = log \o os
  BY DEF FreshAppend, AppendAll
<1>2. os \in Seq(LogObjects)
  BY TraceableAreObjects
<1>3. /\ \A i \in 1..Len(log) : i \in 1..Len(log') /\ log'[i] = log[i]
      /\ \A i \in 1..Len(log') : i \notin 1..Len(log) => log'[i].kind # "record"
  <2>1. \A k \in 1..Len(os) : os[k].kind # "record"
    BY DEF Plain
  <2> QED BY <1>1, <1>2, <2>1, AppendedEntries DEF TypeOK
<1>4. Ciphertexts' = Ciphertexts
  BY <1>3 DEF Ciphertexts
<1> QED BY <1>4 DEF NonceStep

LEMMA RecordContent ==
    ASSUME TypeOK, Receipted, NEW d \in Devices, NEW r \in RecordObjects("record"), UploadRecord(d, r)
    PROVE  NonceStep
<1>1. ~IdTaken(r) /\ Reserve(r) /\ (InLog(r) \/ NonceFree(r)) /\ parts' = parts
  BY DEF UploadRecord
<1>2. log' = log \o NewObjects(r) /\ r.kind = "record" /\ r \in LogObjects
  BY ObjectTypes DEF UploadRecord, AppendAll, RecordObjects
<1>3. r \in Ciphertexts \/ NonceFree(r)
  BY <1>1, <1>2 DEF Ciphertexts, InLog
<1>4. Ciphertexts' \subseteq Ciphertexts \cup {r}
  <2>1. NewObjects(r) \in Seq({r}) /\ NewObjects(r) \in Seq(LogObjects)
    BY <1>2, NewObjectsType
  <2>2. \A i \in 1..Len(log') : log'[i] = r \/ (i \in 1..Len(log) /\ log'[i] = log[i])
    BY <1>2, <2>1, AppendedEntries DEF TypeOK
  <2> QED BY <1>1, <2>2 DEF Ciphertexts
<1> QED BY <1>1, <1>3, <1>4 DEF NonceStep

LEMMA PartContent ==
    ASSUME TypeOK, NEW p \in Principals, NEW q \in RecordObjects("snapshot_part"), UploadPart(p, q)
    PROVE  NonceStep
<1>1. ~IdTaken(q) /\ Reserve(q) /\ NonceFree(q) /\ log' = log /\ parts' = parts \cup {q}
  BY DEF UploadPart
<1>2. Ciphertexts' \subseteq Ciphertexts \cup {q}
  BY <1>1 DEF Ciphertexts
<1> QED BY <1>1, <1>2 DEF NonceStep

LEMMA RowSteps ==
    ASSUME TypeOK, Receipted, EpochBounds, Provenance, [Next]_vars
    PROVE  KeysGranted /\ NonceStep /\ RetentionStep
<1> USE DEF RetentionStep, Retained
<1> DEFINE RowStep == KeysGranted /\ NonceStep /\ RetentionStep
<1>1. CASE \E p \in Principals, mode \in {"single", "batch"} : Authenticate(p, mode)
  BY <1>1, SameRegistry, SameContent DEF Authenticate, chainVars, registryVars, retentionVars
<1>2. ASSUME NEW d \in Devices, Ack(d) PROVE RowStep
  <2>1. epoch' = epoch /\ Registered' = Registered
    BY <1>2 DEF Ack, chainVars, Registered, TypeOK
  <2>2. KeysGranted
    BY <2>1 DEF KeysGranted, TypeOK, EpochObjects
  <2> QED BY <1>2, <2>2, SameContent DEF Ack, chainVars, retentionVars
<1>3. ASSUME NEW d \in Devices, NEW es \in EnrollmentEpochs, Enroll(d, es) PROVE RowStep
  <2>1. epoch' = epoch /\ Registered' \subseteq Registered \cup {d}
    BY <1>3 DEF Enroll, chainVars, Registered, TypeOK
  <2>2. KeysGranted
    BY <1>3, <2>1, EnrollKeys DEF KeysGranted, TypeOK, EpochObjects
  <2> QED BY <1>3, <2>2, EnrollFresh, PlainContent DEF Enroll, chainVars, retentionVars
<1>4. ASSUME NEW p \in Principals, NEW M \in SUBSET Devices, NEW R \in SUBSET Devices,
             NEW S \in SUBSET Devices, Rotate(p, M, R, S)
      PROVE  RowStep
  <2>1. epoch'.number = epoch.number + 1 /\ epoch.number \in Nat
    BY <1>4 DEF Rotate, Epoch, TypeOK, EpochObjects
  <2>2. Registered' \subseteq M
    <3>1. M = (Registered \ R) \cup S
      BY <1>4 DEF Rotate, MembersMatch
    <3>2. \A d \in Devices :
            status'[d] = IF d \in R THEN "revoked" ELSE IF d \in S THEN "pending_keys" ELSE status[d]
      BY <1>4 DEF Rotate
    <3> QED BY <3>1, <3>2 DEF Registered
  <2>3. KeysGranted
    <3>1. \A to \in M \cup {Recovery} : InLog(Envelope(epoch.number, to, 0))'
      BY <1>4, RotateKeys, Zenon
    <3>2. epoch'.number <= epoch.number + 1
      BY <2>1
    <3> QED BY <2>2, <3>1, <3>2 DEF KeysGranted
  <2> QED BY <1>4, <2>3, RotateFresh, PlainContent DEF Rotate, retentionVars
<1>5. ASSUME NEW p \in Principals, NEW e \in 0..MaxEpoch, NEW to \in Devices,
             NEW copy \in EnvelopeCopies, UploadEnvelope(p, e, to, copy)
      PROVE  RowStep
  BY <1>5, UploadFresh, PlainContent, SameRegistry
     DEF UploadEnvelope, chainVars, registryVars, retentionVars
<1>6. ASSUME NEW d \in Devices, NEW r \in RecordObjects("record"), UploadRecord(d, r)
      PROVE  RowStep
  BY <1>6, RecordContent, SameRegistry DEF UploadRecord, chainVars, registryVars, retentionVars
<1>7. ASSUME NEW p \in Principals, NEW q \in RecordObjects("snapshot_part"), UploadPart(p, q)
      PROVE  RowStep
  BY <1>7, PartContent, SameRegistry DEF UploadPart, chainVars, registryVars, retentionVars
<1>8. ASSUME NEW i \in 1..MaxInteger, Repair(i) PROVE RowStep
  BY <1>8, UploadFresh, PlainContent, SameRegistry DEF Repair, chainVars, registryVars, retentionVars
<1>9. ASSUME NEW p \in Principals, NEW d \in Devices, NEW k \in Marks, NEW Q \in SUBSET parts,
             Snapshot(p, Compaction(d, k, Q))
      PROVE  RowStep
  <2>1. PICK c \in Compactions : Snapshot(p, c)
    BY <1>9, CompactionType
  <2> QED BY <2>1, UploadFresh, PlainContent, SameRegistry
          DEF Snapshot, chainVars, registryVars, retentionVars
<1>10. ASSUME NEW i \in 1..Len(log), NEW through \in Marks, NEW D \in SUBSET (0..MaxEpoch),
              Prune(log[i], through, D)
       PROVE  RowStep
  <2>1. KeysGranted /\ NonceStep
    BY <1>10, UploadFresh, PlainContent, SameRegistry DEF Prune, registryVars
  <2> QED BY <1>10, <2>1
<1>11. ASSUME NEW D \in SUBSET (0..MaxEpoch), Maintenance(D) PROVE RowStep
  <2>1. KeysGranted /\ NonceStep
    BY <1>11, SameContent, SameRegistry DEF Maintenance, chainVars, registryVars
  <2> QED BY <1>11, <2>1
<1>12. ASSUME NEW p \in Principals, Delete(p) PROVE RowStep
  BY <1>12, UploadFresh, PlainContent, SameRegistry DEF Delete, registryVars, retentionVars
<1>13. ASSUME NEW p \in Principals, Reject(p) \/ Respond(p) PROVE RowStep
  BY <1>13, SameRegistry, SameContent DEF Reject, Respond, chainVars, registryVars, retentionVars
<1>14. ASSUME NEW p \in Principals, NEW n \in 1..MaxCandidates, AuditReject(p, n) PROVE RowStep
  BY <1>14, SameRegistry, SameContent DEF AuditReject, chainVars, registryVars, retentionVars
<1>15. CASE Restart
  BY <1>15, SameRegistry, SameContent DEF Restart, chainVars, registryVars, retentionVars
<1>16. CASE UNCHANGED vars
  BY <1>16, SameRegistry, SameContent DEF vars, chainVars, registryVars, retentionVars
<1> QED
  BY <1>1, <1>2, <1>3, <1>4, <1>5, <1>6, <1>7, <1>8, <1>9, <1>10, <1>11, <1>12, <1>13, <1>14,
     <1>15, <1>16, Zenon DEF Next

(***************************************************************************)
(* The inductive invariants about keys, retained rows and nonces.          *)
(***************************************************************************)
KeyInv ==
    /\ \A d \in Registered : InLog(Envelope(epoch.number, d, 0))
    /\ \A n \in 0..epoch.number : InLog(Envelope(n, Recovery, 0))

\* Only pruned records and envelopes of expired epochs have lost their bodies.
NulledInv ==
    \A o \in nulled :
        \/ o.kind = "record" /\ \E i \in 1..Len(log) : i < minAvailable /\ log[i] = o
        \/ o.kind = "envelope" /\ o.epoch \in expired

\* Handed off epochs are older than the epoch of the boundary compaction.
BoundaryInv ==
    /\ \A e \in handoffs : boundary # NoObject /\ e < boundary.epoch
    /\ boundary # NoObject =>
         /\ InLog(boundary) /\ boundary.covered + 1 >= minAvailable
         /\ boundary.epoch <= epoch.number
         /\ \A q \in boundary.parts : q \in parts /\ q.epoch = boundary.epoch

ClearedInv == \A i \in cleared : i < minAvailable

Row(x) == [epoch |-> x.epoch, nonce |-> x.nonce, id |-> x.id]
NonceInv ==
    /\ \A x \in Ciphertexts : Row(x) \in payloadNonces
    /\ \A m, n \in payloadNonces : m.epoch = n.epoch /\ m.nonce = n.nonce => m = n
    /\ \A x, y \in Ciphertexts : x.id = y.id => x = y

RowInv == KeyInv /\ NulledInv /\ BoundaryInv /\ ClearedInv /\ NonceInv

LEMMA KeyInvStep ==
    ASSUME TypeOK, TypeOK', KeyInv, EvidenceStep, Monotone, KeysGranted
    PROVE  KeyInv'
<1>1. epoch.number \in Nat /\ epoch'.number \in Nat
  BY DEF TypeOK, EpochObjects
<1>2. \A o : InLog(o) => InLog(o)'
  BY LogGrows
<1>3. ASSUME NEW d \in Registered' PROVE InLog(Envelope(epoch.number, d, 0))'
  <2>1. CASE epoch'.number = epoch.number /\ d \in Registered \cup {Recovery}
    <3>1. d # Recovery
      BY ConstantsAssumption DEF Registered
    <3>2. PICK o : o = Envelope(epoch.number, d, 0)
      OBVIOUS
    <3>3. InLog(o)'
      BY <1>2, <2>1, <3>1, <3>2 DEF KeyInv
    <3> QED BY <2>1, <3>2, <3>3 DEF InLog
  <2> QED BY <2>1 DEF KeysGranted
<1>4. ASSUME NEW n \in 0..epoch'.number PROVE InLog(Envelope(n, Recovery, 0))'
  <2>1. CASE n <= epoch.number
    <3>1. InLog(Envelope(n, Recovery, 0))
      BY <1>1, <2>1 DEF KeyInv
    <3> QED BY <1>2, <3>1
  <2>2. CASE ~(n <= epoch.number)
    <3>1. n = epoch'.number /\ epoch'.number # epoch.number
      BY <1>1, <2>2 DEF KeysGranted
    <3>2. InLog(Envelope(epoch.number, Recovery, 0))'
      BY <3>1 DEF KeysGranted
    <3> QED BY <3>1, <3>2
  <2> QED BY <2>1, <2>2
<1> QED BY <1>3, <1>4 DEF KeyInv

LEMMA PruneBounds ==
    ASSUME TypeOK, NEW i \in 1..Len(log), NEW through \in Marks, NEW D, Prune(log[i], through, D)
    PROVE  /\ log[i] \in Compactions /\ log[i] # NoObject
           /\ through \in Nat /\ minAvailable' = through + 1 /\ minAvailable <= minAvailable'
           /\ 1..through \subseteq 1..Len(log)
           /\ log[i].covered + 1 >= minAvailable'
<1>1. log[i] \in LogObjects /\ log[i].kind = "compaction"
  BY DEF Prune, TypeOK
<1>2. log[i] \in Compactions /\ log[i] # NoObject
  BY <1>1, Kinds, ConstantsAssumption
<1>3. log[i].covered \in Nat /\ Len(log) \in Nat /\ minAvailable \in Nat /\ through \in Nat
  BY <1>2, ConstantsAssumption DEF Compactions, TypeOK
<1>4. /\ minAvailable - 1 <= through /\ through <= log[i].covered
      /\ log[i].covered <= Len(log) /\ minAvailable' = through + 1
  BY <1>3 DEF Prune, CompactionValid
<1> QED BY <1>2, <1>3, <1>4

LEMMA NulledInvStep ==
    ASSUME TypeOK, NulledInv, EvidenceStep, RetentionStep
    PROVE  NulledInv'
<1>1. \A j \in 1..Len(log) : j \in 1..Len(log') /\ log'[j] = log[j]
  BY LogGrows
<1>2. CASE Retained
  BY <1>1, <1>2 DEF Retained, NulledInv
<1>3. ASSUME NEW i \in 1..Len(log), NEW through \in Marks, NEW D \in SUBSET (0..MaxEpoch),
             Prune(log[i], through, D)
      PROVE  NulledInv'
  <2>1. /\ nulled' = nulled \cup {log[j] : j \in {k \in 1..through : log[k].kind = "record"}}
                       \cup EnvelopesOf(D)
        /\ expired' = expired \cup D
    BY <1>3 DEF Prune
  <2>2. /\ minAvailable' = through + 1 /\ minAvailable <= minAvailable'
        /\ 1..through \subseteq 1..Len(log) /\ through \in Nat /\ minAvailable \in Nat
    BY <1>3, PruneBounds DEF TypeOK
  <2> SUFFICES ASSUME NEW o \in nulled'
               PROVE  \/ /\ o.kind = "record"
                         /\ \E j \in 1..Len(log') : j < minAvailable' /\ log'[j] = o
                      \/ o.kind = "envelope" /\ o.epoch \in expired'
    BY DEF NulledInv
  <2>3. CASE o \in nulled
    <3>1. CASE o.kind = "record"
      <4>1. PICK j \in 1..Len(log) : j < minAvailable /\ log[j] = o
        BY <2>3, <3>1 DEF NulledInv
      <4>2. j < minAvailable'
        BY <2>2, <4>1
      <4> QED BY <1>1, <3>1, <4>1, <4>2
    <3> QED BY <2>1, <2>3, <3>1 DEF NulledInv
  <2>4. CASE \E j \in 1..through : log[j].kind = "record" /\ log[j] = o
    BY <1>1, <2>2, <2>4
  <2>5. CASE o \in EnvelopesOf(D)
    BY <2>1, <2>5 DEF EnvelopesOf
  <2> QED BY <2>1, <2>3, <2>4, <2>5
<1>4. ASSUME NEW D \in SUBSET (0..MaxEpoch), Maintenance(D) PROVE NulledInv'
  <2>1. /\ nulled' = nulled \cup EnvelopesOf(D) /\ expired' = expired \cup D
        /\ minAvailable' = minAvailable /\ log' = log
    BY <1>4 DEF Maintenance, chainVars
  <2> QED BY <2>1 DEF NulledInv, EnvelopesOf
<1> QED BY <1>2, <1>3, <1>4 DEF RetentionStep

LEMMA ClearedInvStep ==
    ASSUME TypeOK, ClearedInv, RetentionStep
    PROVE  ClearedInv'
<1>0. minAvailable \in Nat /\ cleared \subseteq Nat
  BY DEF TypeOK
<1>1. CASE Retained
  BY <1>1 DEF Retained, ClearedInv
<1>2. ASSUME NEW i \in 1..Len(log), NEW through \in Marks, NEW D \in SUBSET (0..MaxEpoch),
             Prune(log[i], through, D)
      PROVE  ClearedInv'
  <2>1. cleared' = cleared \cup {k \in 1..through : log[k].kind = "record"}
                     \cup ClearedBy(D, through + 1)
    BY <1>2 DEF Prune
  <2>2. minAvailable' = through + 1 /\ minAvailable <= minAvailable' /\ through \in Nat
    BY <1>2, PruneBounds
  <2> QED BY <1>0, <2>1, <2>2 DEF ClearedInv, ClearedBy
<1>3. ASSUME NEW D \in SUBSET (0..MaxEpoch), Maintenance(D) PROVE ClearedInv'
  BY <1>3 DEF Maintenance, chainVars, ClearedInv, ClearedBy
<1> QED BY <1>1, <1>2, <1>3 DEF RetentionStep

LEMMA BoundaryInvStep ==
    ASSUME TypeOK, TypeOK', BoundaryInv, EvidenceStep, Monotone, RetentionStep
    PROVE  BoundaryInv'
<1>1. (\A o : InLog(o) => InLog(o)') /\ parts \subseteq parts'
  BY LogGrows
<1>2. epoch.number \in Nat /\ epoch'.number \in Nat /\ epoch.number <= epoch'.number
  BY DEF TypeOK, EpochObjects, Monotone
<1>3. boundary # NoObject => boundary.epoch \in Nat
  BY DEF TypeOK, Compactions
<1>4. CASE boundary' = boundary /\ handoffs' = handoffs /\ minAvailable' = minAvailable
  <2>1. \A e \in handoffs' : boundary' # NoObject /\ e < boundary'.epoch
    BY <1>4 DEF BoundaryInv
  <2>2. ASSUME boundary' # NoObject
        PROVE  /\ InLog(boundary)' /\ boundary'.covered + 1 >= minAvailable'
               /\ boundary'.epoch <= epoch'.number
               /\ \A q \in boundary'.parts : q \in parts' /\ q.epoch = boundary'.epoch
    <3>1. PICK b : b = boundary /\ b = boundary'
      BY <1>4
    <3>2. /\ InLog(b) /\ b.covered + 1 >= minAvailable /\ b.epoch <= epoch.number
          /\ \A q \in b.parts : q \in parts /\ q.epoch = b.epoch
      BY <1>4, <2>2, <3>1 DEF BoundaryInv
    <3>3. InLog(b)' /\ b.epoch \in Nat
      BY <1>1, <1>3, <1>4, <2>2, <3>1, <3>2
    <3> QED BY <1>1, <1>2, <1>4, <3>1, <3>2, <3>3 DEF InLog
  <2> QED BY <2>1, <2>2 DEF BoundaryInv
<1>5. ASSUME NEW i \in 1..Len(log), NEW through \in Marks, NEW D \in SUBSET (0..MaxEpoch),
             Prune(log[i], through, D)
      PROVE  BoundaryInv'
  <2>1. PICK c : c = log[i]
    OBVIOUS
  <2>2. /\ c \in Compactions /\ c # NoObject /\ boundary' = c
        /\ c.covered + 1 >= minAvailable'
    BY <1>5, <2>1, PruneBounds DEF Prune
  <2>3. /\ c.epoch = epoch.number
        /\ \A q \in c.parts : q \in parts /\ q.epoch = epoch.number
    BY <1>5, <2>1 DEF Prune, CompactionValid
  <2>4. InLog(c)'
    <3>1. InLog(c)
      BY <2>1 DEF InLog
    <3> QED BY <1>1, <3>1
  <2>5. ASSUME NEW e \in handoffs' PROVE e < epoch.number
    <3>1. CASE e \in handoffs
      <4>1. boundary # NoObject /\ e < boundary.epoch /\ boundary.epoch <= epoch.number
        BY <3>1 DEF BoundaryInv
      <4>2. e \in Nat
        BY <3>1 DEF TypeOK
      <4> QED BY <1>2, <1>3, <4>1, <4>2
    <3>2. CASE e \in HandedOff(through)
      BY <1>2, <3>2 DEF HandedOff
    <3> QED BY <1>5, <3>1, <3>2 DEF Prune
  <2>6. \A e \in handoffs' : boundary' # NoObject /\ e < boundary'.epoch
    BY <2>2, <2>3, <2>5
  <2>7. /\ InLog(boundary)' /\ boundary'.covered + 1 >= minAvailable'
        /\ boundary'.epoch <= epoch'.number
        /\ \A q \in boundary'.parts : q \in parts' /\ q.epoch = boundary'.epoch
    BY <1>1, <1>2, <2>2, <2>3, <2>4 DEF InLog
  <2> QED BY <2>6, <2>7 DEF BoundaryInv
<1>6. ASSUME NEW D \in SUBSET (0..MaxEpoch), Maintenance(D)
      PROVE  boundary' = boundary /\ handoffs' = handoffs /\ minAvailable' = minAvailable
  BY <1>6 DEF Maintenance, chainVars
<1> QED BY <1>4, <1>5, <1>6 DEF RetentionStep, Retained

LEMMA NonceInvStep ==
    ASSUME TypeOK, NonceInv, NonceStep
    PROVE  NonceInv'
<1>1. CASE Ciphertexts' = Ciphertexts /\ payloadNonces' = payloadNonces
  BY <1>1 DEF NonceInv, Row
<1>2. ASSUME NEW kind \in {"record", "snapshot_part"}, NEW r \in RecordObjects(kind),
             ~IdTaken(r), Reserve(r), r \in Ciphertexts \/ NonceFree(r),
             Ciphertexts' \subseteq Ciphertexts \cup {r}
      PROVE  NonceInv'
  <2>1. \A x \in Ciphertexts : x.id = r.id => x = r
    BY <1>2 DEF IdTaken, Ciphertexts
  <2>2. \A n \in payloadNonces : n = [epoch |-> n.epoch, nonce |-> n.nonce, id |-> n.id]
    BY DEF TypeOK
  <2>3. \A n \in payloadNonces : n.epoch = r.epoch /\ n.nonce = r.nonce => n = Row(r)
    <3>1. CASE NonceFree(r)
      BY <2>2, <3>1 DEF NonceFree, Row
    <3>2. CASE r \in Ciphertexts
      BY <3>2 DEF NonceInv, Row
    <3> QED BY <1>2, <3>1, <3>2
  <2>4. payloadNonces' = payloadNonces \cup {Row(r)}
    BY <1>2, <2>3 DEF Reserve, Row
  <2>5. \A x \in Ciphertexts' : Row(x) \in payloadNonces'
    BY <1>2, <2>4 DEF NonceInv
  <2>6. \A m, n \in payloadNonces' : m.epoch = n.epoch /\ m.nonce = n.nonce => m = n
    BY <2>3, <2>4 DEF NonceInv, Row
  <2>7. \A x, y \in Ciphertexts' : x.id = y.id => x = y
    BY <1>2, <2>1 DEF NonceInv
  <2> QED BY <2>5, <2>6, <2>7 DEF NonceInv, Row
<1> QED BY <1>1, <1>2 DEF NonceStep

LEMMA RowInit == Init => RowInv
<1> SUFFICES ASSUME Init PROVE RowInv
  OBVIOUS
<1>1. Len(log) = 5 /\ log[3] = Envelope(0, Creator, 0) /\ log[4] = Envelope(0, Recovery, 0)
  BY GenesisEntries
<1>2. InLog(Envelope(0, Creator, 0)) /\ InLog(Envelope(0, Recovery, 0))
  BY <1>1 DEF InLog
<1>3. epoch.number = 0 /\ Registered = {Creator}
  BY ConstantsAssumption DEF Init, Epoch, Registered
<1>4. KeyInv
  BY <1>2, <1>3 DEF KeyInv
<1>5. Ciphertexts = {}
  <2>1. \A i \in 1..Len(log) : log[i].kind # "record"
    <3>1. /\ Len(log) = 5
          /\ log[1] = Parameters /\ log[2] = Device(Creator) /\ log[3] = Envelope(0, Creator, 0)
          /\ log[4] = Envelope(0, Recovery, 0) /\ log[5] = Epoch(0, {Creator}, {})
      BY GenesisEntries
    <3>2. \A i \in 1..5 : i = 1 \/ i = 2 \/ i = 3 \/ i = 4 \/ i = 5
      OBVIOUS
    <3> QED BY <3>1, <3>2 DEF Parameters, Device, Envelope, Epoch
  <2>2. parts = {}
    BY DEF Init
  <2> QED BY <2>1, <2>2 DEF Ciphertexts
<1>6. NonceInv
  BY <1>5 DEF NonceInv, Init
<1> QED BY <1>4, <1>6 DEF RowInv, NulledInv, BoundaryInv, ClearedInv, Init

LEMMA RowInvStep ==
    LogInv /\ LogInv' /\ EvidenceInv /\ RowInv /\ [Next]_vars => RowInv'
<1> SUFFICES ASSUME LogInv, LogInv', EvidenceInv, RowInv, [Next]_vars PROVE RowInv'
  OBVIOUS
<1>1. TypeOK /\ TypeOK' /\ Receipted /\ EpochBounds /\ Provenance
  BY DEF LogInv, EvidenceInv
<1>2. EvidenceStep /\ Monotone
  BY <1>1, EvidenceSteps
<1>3. KeysGranted /\ NonceStep /\ RetentionStep
  BY <1>1, RowSteps
<1> QED BY <1>1, <1>2, <1>3, KeyInvStep, NulledInvStep, BoundaryInvStep, ClearedInvStep,
           NonceInvStep DEF RowInv

LEMMA RowInvariance == Spec => []RowInv
  BY RowInit, RowInvStep, Invariance, EvidenceInvariance, PTL DEF Spec

\* No retry, repair or race puts an object into the log a second time (append), for
\* any number of devices, requests, epochs and records.
THEOREM NothingIsAcceptedTwice == Spec => []AcceptedOnce
<1>1. EvidenceInv => AcceptedOnce
  BY DEF EvidenceInv
<1> QED BY <1>1, EvidenceInvariance, PTL

\* Every accepted object has exactly one receipt, and it names the object's own
\* transparency entry and log position (append, snapshot_part).
THEOREM ReceiptsAreEvidence == Spec => []ReceiptsMatchEvidence
<1>1. EvidenceInv => ReceiptsMatchEvidence
  BY DEF EvidenceInv
<1> QED BY <1>1, EvidenceInvariance, PTL

(***************************************************************************)
(* RelayChain implements EvidenceLog.                                      *)
(***************************************************************************)
LEMMA CommitRefines ==
    ASSUME TypeOK, ReceiptsMatchEvidence, PartReceipts, NEW os \in Seq(LogObjects),
           NEW notes \in Seq(Notes), Fresh(os), AppendAll(os, notes)
    PROVE  Evidence!Commit(Evidence!Appended)
<1>1. /\ Len(log') = Len(log) + Len(os) /\ Len(log) \in Nat /\ Len(os) \in Nat
      /\ \A i \in 1..Len(os) : log'[Len(log) + i] = os[i]
  BY ConcatProperties DEF AppendAll, TypeOK
<1>2. Evidence!Appended = os
  <2>1. Len(log') - Len(log) = Len(os)
    BY <1>1
  <2>2. os = [i \in 1..Len(os) |-> os[i]]
    OBVIOUS
  <2> QED BY <1>1, <2>1, <2>2 DEF Evidence!Appended
<1>3. Evidence!Distinct(os) /\ \A i \in 1..Len(os) : Evidence!New(os[i])
  BY NewHasNoReceipt DEF Fresh, Evidence!Distinct, Evidence!New
<1>4. notes \in Seq(Entries) /\ Len(notes) \in Nat /\ Len(transparency) \in Nat
  BY NotesAreEntries DEF TypeOK
<1>5. /\ Len(transparency') = Len(transparency) + Len(os) + Len(notes)
      /\ \A k \in 1..Len(transparency) : transparency'[k] = transparency[k]
      /\ \A i \in 1..Len(os) :
           transparency'[Len(transparency) + i] = Entry("accept", os[i], Len(log) + i)
  BY <1>4, AppendedTransparency
<1>6. ASSUME NEW k \in (Len(transparency) + Len(os) + 1)..Len(transparency')
      PROVE  transparency'[k].op # "accept"
  <2>1. PICK front \in Seq(Entries) :
          /\ Len(front) = Len(transparency) + Len(os)
          /\ transparency' = front \o notes
    <3>1. PICK acc \in Seq(Entries) : acc = Accepted(os) /\ Len(acc) = Len(os)
      BY AcceptedType DEF TypeOK
    <3>2. /\ transparency \o acc \in Seq(Entries)
          /\ Len(transparency \o acc) = Len(transparency) + Len(os)
      <4>1. transparency \in Seq(Entries)
        BY DEF TypeOK
      <4>2. transparency \o acc \in Seq(Entries)
        BY <4>1, ConcatProperties
      <4>3. Len(transparency \o acc) = Len(transparency) + Len(acc)
        BY <4>1
      <4> QED BY <3>1, <4>2, <4>3
    <3> QED BY <3>1, <3>2 DEF AppendAll
  <2>2. k - Len(front) \in 1..Len(notes) /\ k > Len(front)
    BY <1>1, <1>4, <1>5, <2>1
  <2>3. transparency'[k] = notes[k - Len(front)]
    BY <1>4, <2>1, <2>2, ConcatProperties
  <2> QED BY <2>2, <2>3 DEF Notes
<1>7. log' = log \o os
  BY DEF AppendAll
<1>8. Len(transparency') >= Len(transparency) + Len(os)
  BY <1>1, <1>4, <1>5
<1>9. \A i \in 1..Len(os) :
        transparency'[Len(transparency) + i] = Evidence!Acceptance(os[i], Len(log) + i)
  BY <1>5 DEF Entry, Evidence!Acceptance
<1>10. receipts' = receipts \cup
         {Evidence!Receipt(os[i], Len(log) + i, Len(transparency) + i) : i \in 1..Len(os)}
  BY DEF AppendAll, Receipts, Evidence!Receipt
<1>11. \A k \in (Len(transparency) + Len(os) + 1)..Len(transparency') : Evidence!IsNote(transparency'[k])
  BY <1>6 DEF Evidence!IsNote
<1>12. Evidence!Commit(os)
  BY <1>3, <1>5, <1>7, <1>8, <1>9, <1>10, <1>11 DEF Evidence!Commit
<1> QED BY <1>2, <1>12

LEMMA KeepRefines ==
    ASSUME TypeOK, ReceiptsMatchEvidence, PartReceipts,
           NEW q \in RecordObjects("snapshot_part"), PartAccepted(q)
    PROVE  \E r \in receipts' : Evidence!Keep(r.object)
<1>1. Evidence!New(q)
  BY NewHasNoReceipt DEF PartAccepted, Evidence!New
<1>2. Evidence!Keep(q)
  BY <1>1 DEF PartAccepted, Entry, Evidence!Keep, Evidence!Acceptance, Evidence!Receipt
<1> DEFINE new == [object |-> q, seq |-> 0, index |-> Len(transparency) + 1]
<1>3. new \in receipts'
  BY DEF PartAccepted
<1>4. new.object = q
  OBVIOUS
<1> HIDE DEF new
<1> QED BY <1>2, <1>3, <1>4

\* A step that accepts nothing publishes notes, or nothing.
LEMMA NotesRefine ==
    ASSUME TypeOK, OnlyNotes
    PROVE  Evidence!Commit(Evidence!Appended)
<1>1. PICK notes \in Seq(Notes) : transparency' = transparency \o notes
  BY DEF OnlyNotes
<1>2. /\ log \in Seq(LogObjects) /\ transparency \in Seq(Entries) /\ notes \in Seq(Entries)
      /\ log' = log /\ receipts' = receipts
      /\ Len(transparency) \in Nat /\ Len(notes) \in Nat /\ Len(log) \in Nat
  BY NotesAreEntries DEF TypeOK, OnlyNotes
<1>3. Evidence!Appended = <<>>
  <2>1. Len(log') - Len(log) = 0
    BY <1>2
  <2> QED BY <2>1 DEF Evidence!Appended
<1>4. /\ Len(transparency') = Len(transparency) + Len(notes)
      /\ \A k \in 1..Len(transparency) : transparency'[k] = transparency[k]
      /\ \A k \in 1..Len(transparency') : k \notin 1..Len(transparency) =>
           k - Len(transparency) \in 1..Len(notes) /\ transparency'[k] = notes[k - Len(transparency)]
  BY <1>1, <1>2, ConcatProperties
<1>5. ASSUME NEW k \in (Len(transparency) + 1)..Len(transparency')
      PROVE  transparency'[k].op # "accept"
  <2>1. k \in 1..Len(transparency') /\ k \notin 1..Len(transparency)
    BY <1>2, <1>4
  <2> QED BY <1>4, <2>1 DEF Notes
<1>6. log' = log \o <<>>
  BY <1>2
<1> QED
  BY <1>2, <1>3, <1>4, <1>5, <1>6
  DEF Evidence!Commit, Evidence!Distinct, Evidence!New, Evidence!IsNote

\* The evidence of a chain is an evidence log, for every value of the constants: each
\* transaction accepts objects that have no receipt yet, in one step with their
\* acceptances and receipts, or publishes notes, and leaves the rest of the log, the
\* transparency log and the receipts alone (append, snapshot_part, audit_reject).
THEOREM EvidenceIsKept == Spec => ImplementsEvidenceLog
<1>1. Init => Evidence!Init
  <2> SUFFICES ASSUME Init PROVE Evidence!Init
    OBVIOUS
  <2>1. log = GenesisLog /\ Evidence!Distinct(log)
    BY EvidenceInit DEF Init, EvidenceInv, AcceptedOnce, Evidence!Distinct
  <2> QED BY <2>1 DEF Init, Entry, Evidence!Init, Evidence!Acceptance, Evidence!Receipt
<1>2. LogInv /\ EvidenceInv /\ [Next]_vars => [Evidence!Next]_(Evidence!evars)
  <2> SUFFICES ASSUME LogInv, EvidenceInv, [Next]_vars PROVE Evidence!Next
    OBVIOUS
  <2>1. EvidenceStep
    BY EvidenceSteps DEF LogInv, EvidenceInv
  <2>2. CASE FreshAppend(Traceable)
    <3>1. PICK os \in Seq(LogObjects), notes \in Seq(Notes) : Fresh(os) /\ AppendAll(os, notes)
      BY <2>2, TraceableAreObjects DEF FreshAppend
    <3> QED BY <3>1, CommitRefines DEF LogInv, EvidenceInv, Evidence!Next
  <2>3. CASE \E q \in RecordObjects("snapshot_part") : PartAccepted(q)
    BY <2>3, KeepRefines DEF LogInv, EvidenceInv, Evidence!Next
  <2>4. CASE OnlyNotes
    BY <2>4, NotesRefine DEF LogInv, Evidence!Next
  <2> QED BY <2>1, <2>2, <2>3, <2>4 DEF EvidenceStep
<1> QED
  BY <1>1, <1>2, Invariance, EvidenceInvariance, PTL DEF Spec, ImplementsEvidenceLog, Evidence!Spec

\* A payload nonce is never used by two ciphertexts of one epoch, on whichever
\* route they came (record, snapshot_part, reserve_payload_nonce).
THEOREM NoncesAreUnique == Spec => []PayloadNonceUnique
<1>1. NonceInv => PayloadNonceUnique
  BY DEF NonceInv, PayloadNonceUnique, Row
<1> QED BY <1>1, RowInvariance, PTL DEF RowInv

\* Envelopes that have lost their bodies are of epochs before the current one.
LEMMA ReadableEnvelopes ==
    ASSUME TypeOK, NulledInv, BoundaryInv, NEW n \in Nat, NEW to, InLog(Envelope(n, to, 0)),
           n \notin handoffs
    PROVE  Readable(Envelope(n, to, 0))
<1>1. expired \subseteq handoffs
  BY DEF TypeOK
<1> QED BY <1>1 DEF NulledInv, Readable, Envelope

\* Neither a rotation nor an enrollment, a prune or an expiry locks a registered
\* device or the recovery key out of the current epoch (bundle, enroll, expire).
THEOREM NobodyIsLockedOut == Spec => []MembersHoldCurrentKey
<1>1. LogInv /\ RowInv => MembersHoldCurrentKey
  <2> SUFFICES ASSUME LogInv, RowInv, NEW to \in Registered \cup {Recovery}
               PROVE  Readable(Envelope(epoch.number, to, 0))
    BY DEF MembersHoldCurrentKey
  <2>1. TypeOK /\ epoch.number \in Nat /\ NulledInv /\ BoundaryInv /\ KeyInv
    BY DEF LogInv, TypeOK, EpochObjects, RowInv
  <2>2. InLog(Envelope(epoch.number, to, 0))
    BY <2>1 DEF KeyInv
  <2>3. epoch.number \notin handoffs
    <3> SUFFICES ASSUME epoch.number \in handoffs PROVE FALSE
      OBVIOUS
    <3>1. boundary # NoObject /\ epoch.number < boundary.epoch /\ boundary.epoch <= epoch.number
      BY <2>1 DEF BoundaryInv
    <3>2. boundary.epoch \in Nat
      BY <2>1, <3>1 DEF TypeOK, Compactions
    <3> QED BY <2>1, <3>1, <3>2
  <2> QED BY <2>1, <2>2, <2>3, ReadableEnvelopes
<1> QED BY <1>1, Invariance, RowInvariance, PTL

\* The snapshot that stands in for the pruned prefix stays decryptable: its parts
\* are stored and the recovery envelope of their epoch is readable (prune, expire).
THEOREM BoundaryStaysReadable == Spec => []BoundaryReadable
<1>1. LogInv /\ RowInv => BoundaryReadable
  <2> SUFFICES ASSUME LogInv, RowInv, boundary # NoObject
               PROVE  /\ InLog(boundary) /\ boundary.covered + 1 >= minAvailable
                      /\ \A q \in boundary.parts :
                           q \in parts /\ Readable(Envelope(q.epoch, Recovery, 0))
    BY DEF BoundaryReadable
  <2>1. TypeOK /\ epoch.number \in Nat /\ NulledInv /\ BoundaryInv /\ KeyInv
    BY DEF LogInv, TypeOK, EpochObjects, RowInv
  <2>2. /\ InLog(boundary) /\ boundary.covered + 1 >= minAvailable
        /\ boundary.epoch <= epoch.number /\ boundary.epoch \in Nat
        /\ \A q \in boundary.parts : q \in parts /\ q.epoch = boundary.epoch
    BY <2>1 DEF BoundaryInv, TypeOK, Compactions
  <2>3. boundary.epoch \notin handoffs
    BY <2>1, <2>2 DEF BoundaryInv
  <2>4. InLog(Envelope(boundary.epoch, Recovery, 0))
    BY <2>1, <2>2 DEF KeyInv
  <2>5. Readable(Envelope(boundary.epoch, Recovery, 0))
    BY <2>1, <2>2, <2>3, <2>4, ReadableEnvelopes
  <2> QED BY <2>2, <2>5
<1> QED BY <1>1, Invariance, RowInvariance, PTL

\* From min_available_seq on the log is complete (prune, expire).
THEOREM SuffixStaysAvailable == Spec => []SuffixAvailable
<1>1. LogInv /\ EvidenceInv /\ RowInv => SuffixAvailable
  <2> SUFFICES ASSUME LogInv, EvidenceInv, RowInv PROVE SuffixAvailable
    OBVIOUS
  <2>1. AcceptedOnce /\ NulledInv /\ ClearedInv /\ minAvailable \in Nat
    BY DEF EvidenceInv, RowInv, LogInv, TypeOK
  <2>2. ASSUME NEW i \in minAvailable..Len(log), log[i].kind = "record", log[i] \in nulled
        PROVE  FALSE
    <3>1. PICK j \in 1..Len(log) : j < minAvailable /\ log[j] = log[i]
      BY <2>1, <2>2 DEF NulledInv
    <3>2. i \in 1..Len(log)
      BY <2>1, <3>1
    <3> QED BY <2>1, <3>1, <3>2 DEF AcceptedOnce
  <2> QED BY <2>1, <2>2 DEF SuffixAvailable, ClearedInv
<1> QED BY <1>1, Invariance, EvidenceInvariance, RowInvariance, PTL
=============================================================================
