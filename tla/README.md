# A TLA+ verification of the PallaSync v3 relay

PallaSync is a blind synchronisation relay: devices of one user exchange signed
and encrypted records through a server that orders them, issues receipts and
signed evidence, distributes epoch key envelopes it cannot open, and erases what
it is told to erase. All state is in one SQLite database; the server is a Rust
program (`src/src`). This directory models its core logic, checks it with TLC on
small instances, and proves the most important properties with TLAPS for every
value of the constants.

## 1. Inventory

### Components

| Component | Source (`src/src/...`) | State | Operations | What makes it correct |
|---|---|---|---|---|
| Evidence store | `api/store.rs`, `db/schema.sql` | `v3_chains`, `v3_log`, `v3_objects`, `v3_receipts`, `v3_transparency`, `v3_heads` | `append`, `put_object`, `snapshot_part`, `transparency`, `save` | each object one position and one receipt; receipts, log, transparency and heads agree |
| Object rules | `api/domain.rs` | - | `device`, `envelope`, `bundle`, `commit_epoch`, `record`, `compaction` | records stay in their epoch; members are exactly the registered devices; nonces unique |
| Mutations | `api/mutation.rs` | `v3_registry`, chain row, `v3_offers` | `genesis`, `enroll`, `epoch`/revoke, `ack`, `snapshot`, `prune`, `offer`, `enrollment_request`, `approve` | revocation is final; nobody registered is locked out |
| Batch uploads | `api/batch.rs` | as above, `v3_payload_nonces` | one transaction per item; audit of rejected items | partial failure leaves consistent evidence |
| Request handling | `api/sync.rs`, `main.rs` | transfer semaphore | authentication, operation and audit transactions; write guard; start; one-second timer | re-checks what may have changed between transactions; no permit is lost; a freeze freezes |
| Authentication | `api/auth.rs` | `v3_nonces`, `v3_restart_barrier`, `v3_rates` | `authenticate`, `check_state`, `active_device`, `rate` | a token is used at most once |
| Retention | `api/retention.rs` | `v3_handoffs` | `handoff`, `expire`, `maintenance` | keys go only when nothing readable needs them |
| Deletion | `api/deletion.rs` | `v3_deletions`, `v3_delete_versions` | `delete`, `erase`, `complete` | completion implies erasure; no resurrection; completion happens |
| Import and reseed | `api/import.rs` | `v3_imports` | `stage`, `reseed` | continuity of generations; the live chain is untouched until commit |
| Reads and export | `api/read.rs`, `api/export.rs` | `v3_cursors` | pages over a fixed cut | a page sequence is one consistent cut |
| Peer enrollment | `api/mutation.rs` | `v3_offers`, `v3_outcomes`, `v3_registry` | `offer`, `enrollment_request`, `approve`, reject, `enroll` | only the approved answer to a live offer brings a device in |
| Configuration | `config.rs`, `sync.rs` `AppState::new` | `v3_operator`, `v3_notices` | validation at start, pin, `write_guard`, notices, quotas | clients see revisions only go forward; a relay that ran starts again |
| Legacy v2 | `api/legacy.rs` | v2 tables | read pages, delete, restore parameters | a read to the end is complete; tokens are single use |
| Wire, crypto, errors | `api/wire.rs`, `crypto/`, `api/error.rs` | - | schemas, JCS, Ed25519 | pure functions |
| Operator tool, scripts, reference clients | `bin/`, `scripts/`, `tests/reference/` | - | offline tools | - |

### Interaction

A request is handled in up to three transactions (`sync.rs` `handle`):
authentication (which commits even when the request fails later, so that the
token's nonce is consumed), the operation, and after a rejected operation's
rollback the audit entries (`audit_reject`). A batch upload runs one operation
transaction per item, each with its own audit. Every transaction is
`BEGIN IMMEDIATE`, so transactions are serialised: the hard behaviour is what
happens *between* the transactions of one request. Beside requests there are a
timer (`main.rs`: `deletion::complete`, then `retention::maintenance`, every
second) and the start of the process (`AppState::new`: restart barrier and
disclosure pin in one transaction, then `deletion::complete`, then the notice and
the quota of every chain in another, before anything is served).

### What is hard

Revocation, rotation or deletion between a request's authentication and its
operation; retries after a lost response; failure in the middle of a batch; two
code paths that share ids and nonces; the order of envelopes, snapshots, prunes
and expiry; offers that expire, are answered, approved and rejected by racing
callers; an import that stays staged while the chain moves on; pages of a listing
between which everything may change; quotas and permits at their limit; a guard
read before a wait; a start that fails half-way; completion of a deletion in three
steps that run concurrently in several callers and across crashes; purge boundaries and restarts in replay
protection. `PROJECT.json` lists each as a hazard with its line.

## 2. Modules

| Module | Models | Used by |
|---|---|---|
| `RelayChain` | one chain: log, objects, receipts, transparency, heads, registry, nonces, handoffs, and the requests that work on it; implements `EvidenceLog` | `MCRelayChain`, `RelayChain_proofs` |
| `EvidenceLog` | abstract: objects are accepted once, each in one step with its published acceptance and its receipt, and nothing of it is taken back | `RelayChain` |
| `Deletion` | deletion of several chains: ledger, rows, files, and the concurrent callers of `complete()` | `MCDeletion`, `Restart_proofs` |
| `TokenReplay` | single use of capability tokens: clock, nonce table, purge, restart barrier | `MCTokenReplay`, `Restart_proofs` |
| `Invitations` | abstract: an invitation is open, answered, and then approved or rejected | `PeerEnrollment` |
| `PeerEnrollment` | offers, requests, approvals, stored outcomes and the registry; implements `Invitations` | `MCPeerEnrollment`, `PeerEnrollment_proofs` |
| `Reseed` | import staging and the commit of a next generation, on a live and on a replacement relay | `MCReseed`, `Reseed_proofs` |
| `Paging` | the paged listings and the export, over tables that change between pages | `Paging_proofs` |
| `Capacity` | quota, cursors, notices, maintenance and start over several chains | `Service_proofs` |
| `Legacy` | a frozen v2 chain and its tokens | `MCLegacy`, `Legacy_proofs` |
| `Handling` | the way of a request: write guard, transfer permit, database lock, response body, against the announced time and restarts | `Handling_proofs` |
| `Operator` | the disclosure pin over starts and crashes, the public documents and the clients that fetch them | `MCOperator`, `Service_proofs` |

Each module has the state its questions need and shares no variable with another,
except that `PeerEnrollment` is shown to implement `Invitations` and `RelayChain` to
implement `EvidenceLog`. `Restart_proofs` holds the theorems of the two modules about
what survives a restart, `Service_proofs` those of the two about the configuration. Where two modules
model the same table they cut it differently: `RelayChain` takes from
authentication only whether the principal was admitted, and stops at the ledger
row of a deletion; `Deletion` takes from a chain only whether rows and files hold
something of it; `Capacity` takes from the operations only what they add and free.

### RelayChain

*State.* `log` is `v3_log` in `relay_seq` order (the object of each entry);
`cleared` are the positions whose `entry` is NULL, `nulled` the objects whose
`body` is NULL; `parts` are snapshot parts, which have a receipt and no position;
`receipts`, `transparency` and `heads` are the tables of those names; `epoch`,
`minAvailable` and `boundary` are fields of the chain row (`head_seq` is
`Len(log)`, `transparency_index` is `Len(transparency)`); `status` and
`revokedSeq` are the registry; `payloadNonces`, `handoffs`, `expired` and
`deleted` are the rows of `v3_payload_nonces`, `v3_handoffs` (with `expired=1`)
and `v3_deletions`. `pc[p]` says where the request of principal `p` is.

*Actions.* `Authenticate` is the first transaction of a request; `Ack`, `Enroll`,
`Rotate` (routes `epochs` and `revoke`), `Snapshot`, `Prune` and `Delete` are the
operations of single requests; `UploadRecord`, `UploadPart`, `UploadEnvelope` and
`Repair` are items of batches; `Reject` rolls an operation back and `AuditReject`
is the later audit transaction; `Respond` ends a request; `Maintenance` is the
timer; `Restart` loses the requests in flight. `Init` is the state after genesis.

*Abstract specification.* `EvidenceLog` is what an auditor relies on: its `log` and
`receipts` are those of the chain and `published` is `transparency`. A `Commit`
accepts any number of new, distinct objects together, with their acceptances first
and notes (handoffs, expiries, rejections, deletion) after them; a `Keep` accepts an
object outside the log, a snapshot part. Epochs, keys, members, requests and
retention do not occur in it.

*Abstractions.*
- A hash is replaced by what it binds: object equality is hash equality, a log
  head hash is the length of the log, an epoch hash is the epoch number (only one
  epoch of a number is ever committed). Signatures are assumed unforgeable, so an
  object is characterised by its signer. A compare-and-swap against the current
  parameters or epoch hash always succeeds for the bodies the model chooses,
  because it chooses them when the operation runs; the failing case is `Reject`.
- The exact retry of a single operation, answered from `v3_outcomes`, changes
  nothing and is a stuttering step. Retries of uploads are modelled, because
  `append` decides about them from receipts.
- An enrollment carries one envelope per epoch (the code accepts several).
- Which windowed handoffs are due is a free choice that stands for the clock.
- The generation is fixed, the chain is writable, no relay notice is announced,
  and quotas, rate limits and `write_guard` refuse nothing: a refusal by them is
  covered by `Respond`.

### Deletion

Worker `c` is the request that deletes chain `c`; `Timer` and `Startup` are the
other callers of `complete()`. `Erase`, `CheckpointDone`/`CheckpointBusy` and
`Complete` are its three steps. `rows` and `files` say whether tables, and
database file or WAL, hold ciphertext of a chain; a successful truncating
checkpoint with `secure_delete` leaves in the files only what is in rows. `seen`
keeps what the worker's own erase transaction found. `BeginWrite` and `Write` are
the two transactions of an ordinary write. `Crash` stops everything, and `Start`
runs `complete()` before requests are served again.

### TokenReplay

One nonce namespace (chain, signer). `Consume` and `Replayed` are the two
outcomes of the reservation in `authenticate`, both with the purge; `ClockTick` is the
clock; `ProcessStops(kept)` keeps all nonces in durable mode and any subset in restart_barrier mode;
`Restart` moves the barrier as `AppState::new` does. Assumed: the clock does not
run backwards, and stopping and starting takes at least one tick. A token issued
exactly one skew ahead, consumed in the same millisecond in which the process
also dies, restarts and records its barrier, would pass `issued < barrier`.

### PeerEnrollment and Invitations

`status` and `record` are `v3_registry` with the body that registered a device;
`offers` and `outcomes` are the tables of those names; a request and a body are
records of the fields the rules compare. `Offer`, `EnrollmentRequest`, `Approve`,
`Reject` and the direct `Enroll` are the handlers, each with its lookup of a
stored outcome at the place where the code has it; `Rotate`, revocations and the
clock run beside them. `Invitations` has of each offer a phase and a subject, and
the members it brought in; the mapping (`offerPhase`, `offerSubject`, `admitted`)
reads them off the rows.

### Reseed

`Stage` is one call of `import::stage` (history in chunks), `UploadPart` also takes a part of
the next generation that `record` accepts while an import is staged, `Reseed` the
commit. Between them the live chain is rotated and written. The chain is either
live, or a replacement relay that has nothing but what is staged. Certificates and
hash links of a history are abstracted to the head they lead to. `Rotate` may bring
device records, as an emergency rotation does. A staged history has the head's objects
and device records, among them some that the admin signed ahead for the next
generation: `stage` does not compare an object's generation with the head's. A
committed compaction keeps the parts it lists.

### Paging

`reader` is one client that follows cursors: what its first page would have listed
in full, what it has, and the copy of the chain row (`cut`) its cursor carries.
Every listing is a selection over `rows`, `history` and `offers` as its SQL is,
against the cut where the SQL is and against the present tables where it is not.
The other actions are what changes those tables. Device ids are 1 to 9 and 0 stands
for the recovery key, so that an envelope's id is `10 * epoch + to`; an object that the
relay's own operations create anew (compaction, admin approval) is numbered by its
position in the evidence. The lines of an export are ordered by phase, then by key, and
a chunk is the first of those that are left; the key of a control object gives its kind
and id in the order of the SQL for ids below 100, and no proof depends on it. Byte limits of pages are not
modelled, and `GET snapshots`, which pages like the own envelopes, is left out.
`Rotate` appends what `commit_epoch` does: device records of an emergency, envelopes,
the operation of an admin who revokes, the epoch. An offer keeps its generation and the
device that made it, which the listing of requests is filtered by; it is read by the
admin and by the creator.

### Capacity

Per chain the bytes that pruning frees, that expiry frees, and that nothing frees
before deletion. A request is a transaction that `quota` rolls back; `Maintenance`
is the timer's transaction over all chains; `Start` is `AppState::new`, for any
quota and notice the operator may configure.

### Handling

A request arrives, passes `write_guard`, waits for the database, and commits; a
batch passes the guard again inside the transaction of each item, and a refused
item is audited in a transaction of its own. An export takes a permit with
`try_acquire_owned` before it waits, and the response body keeps it until the client
has read it or is gone. `final` is what the first export under the freeze saw. Reads
and deletions are not guarded. `part_get`, the other transfer, takes its permit like
an export.

### Legacy

A request is one transaction (nonce and operation together), split where the code
reads the clock a second time.

### Operator

`phase` is where the process is: a configuration is checked (`New`), pinned in the
first transaction of the start (`PinDisclosure`), and served once the rest of the
start succeeds (`Started`, `FailedStart`). `Valid` has the checks that relate the
disclosure to the text and the clock; those of its own values are the flag `sound`.
Clients, which are not part of the relay, fetch text and disclosure in two requests
and hold the highest revision they have verified, as `docs/v3.0.md` section 7.13
asks of them. Assumed: one process at a time, and a clock that is not set back.

## 3. Runs

| Run | Configuration | Shows |
|---|---|---|
| `members` | `RelayChainMembers.cfg` | `RecordsInTheirEpoch`, `RevokedDevicesAreSilent`, `MembersHoldCurrentKey`, `ReceiptsMatchEvidence`, `HeadDescribesChain`, `RevocationIsFinal` |
| `retention` | `RelayChainRetention.cfg` | `ImplementsEvidenceLog`, `AcceptedOnce`, `SuffixAvailable`, `BoundaryReadable`, `PayloadNonceUnique` |
| `deletion` | `Deletion.cfg` | `CheckedChainsAreErased`, `NoResurrection`, `DeletionCompletes` |
| `token_replay` | `TokenReplay.cfg` | `SingleUse` |
| `peer_enrollment` | `PeerEnrollment.cfg` | `TypeOK`, `PeerMembersWereInvited`, `VouchedByOffering`, `EnrolledInTime`, `ImplementsInvitations` |
| `reseed` | `Reseed.cfg` | `MembersOfCurrentGeneration`, `EvidenceIsOneSequence`, `OneReceipt`, `AuthorOfGeneration` |
| `paging` | `Paging.cfg` | `PagesArePinned`, `TornOnlyByExpiryAndStaging`, `RecoveryForAdmins`, `MovesOn` |
| `capacity` | `Capacity.cfg` | `WithinQuota`, `StartsAgain`, `DueIsExpired` |
| `handling` | `Handling.cfg` | `PermitsAccounted`, `BatchesEndAtShutdown`, `LateWritesBounded`, `HandlersEnd` |
| `legacy` | `Legacy.cfg` | `ReadIsComplete`, `ReplayOnlyAtExpiry`, `RestoredOnce` |
| `operator` | `Operator.cfg` | `NoAlarm`, `ClientsSettle` |
| `deletion_completed` | `DeletionCompleted.cfg` | `CompletedMeansErased` is violated, section 4 |

The type invariant of `PeerEnrollment` is checked by its run and proved. Those of the
other modules are proved, as theorems or as part of the inductive invariants: they
hold in every instance, and a run has the more interesting properties.

*Bounds.* `members` has two devices and the admin, two requests in flight, epochs
0 to 2 and logs of at most 14 entries: enough for an enrollment, a rotation that
revokes, an emergency bundle, and a second request that was authenticated before
each of them; the log's limit is reached, so that operations fail at it.
`retention` has one device and one request at a time (its properties are about
sequences of operations, not about races), two rotations, snapshots and prunes at
positions 4 (all genesis envelopes), 6 and 9 (after the first rotation), and one
id shared by the record and part routes. `deletion` has two chains, so that one is
deleted while the completion of the other is under way, and one crash.
`token_replay` has skew 1, lifetime 2 and clock values 0 to 6, so that every
boundary case of the two limits occurs with two nonces.

`peer_enrollment` has two offers, two subjects, a request that outlives its offer,
and bodies of the offering device, of another member and of the admin, so that a
body can be reused across offers; the clock passes the end of an offer and the
skew. `reseed` allows two generations, one rotation and 14 entries: a commit, and a
second one over it, with operations of the live chain in between. `paging`
reads one item a page (nine entries of the transparency log, nine lines of an
export) from listings of two to four, and `ScanLimit` 3 makes the bounded SQL pages
end inside a group; between any two pages the chain may be written, pruned, expired,
staged and reseeded. Index 12 is a genesis and one whole reseed; without a reseed a
chain goes to index 11 (`MaxFirstIndex`), an emergency rotation by an admin or a
rotation, a snapshot and a prune that hands its epoch off. Within a generation
offers and the log do not depend on each other, so a chain has offers or a long log
(`Bounded`); after a reseed it may have both, with at most `MaxLaterOffers` versions of
offers, enough for offers of the old generation and a request of the new one.
`capacity`
has quotas of 4 and 6 units, so that both fit a chain and one does not fit the
other's, and two stops. `legacy` has pages ended by the
limit, by the bytes and by the last row. `handling` has two requests for one permit,
so that one waits or is refused while the other exports, batches of two items, the
announced time at tick 1 and one restart; two requests but three writes, so that
`LateWritesBounded` can be violated. `operator` has two
disclosures of one revision, one of another key, one unsound and one that is not
yet in effect. Deadlock is not checked
where a run may legitimately stop: a full or deleted chain, the end of the clock.

*Fairness.* `Deletion!FairSpec`: weak fairness of `Tick` (a Tokio interval that
ignores errors), of `Start` (`compose.yaml` restarts the container unless it was
stopped), of `Erase` and `Complete` (a transaction that has begun ends: the busy
timeout is ten seconds and writers hold the lock for one transaction), and strong
fairness of `CheckpointDone`: a checkpoint that is attempted again and again is
not always blocked by another connection. Without the last, a relay with a
permanent reader would never complete a deletion. `Capacity`: weak fairness of
`Maintenance` (the same interval) and of a start as last configured. `Handling`:
weak fairness of the steps of a handler, for the same reasons; none of `Finish`,
because nothing makes a client read its response. `Operator!OperatorFairSpec`: weak
fairness of the clients' requests to a running relay (a client fetches before each
of its requests). No fairness is used elsewhere.

## 4. Where the code and its documents disagree

One disagreement has a run of its own, `deletion_completed`. `CompletedMeansErased`
(`deletion.rs`): `complete()` selects the uncompleted deletions again after
`erase()`. A deletion requested between the two gets a completion receipt without
having been erased, and is then never selected for erasure again. The comment on
`erase` says that a completion receipt is never fabricated before the storage
checks succeed. `CheckedChainsAreErased` is what does hold, and is proved.

The modules state further claims of documents and comments that the code does not
meet. They are at the end of each module, with the text they come from; named as an
INVARIANT in the configuration of the run given here, TLC finds a counterexample.

| Claim | Run | What happens |
|---|---|---|
| `NothingAfterDelete` | `members` | `audit_reject` (`sync.rs`, `batch.rs`) does not look at the ledger: the audit entry of a request rejected before a deletion is written after it |
| `ExpiredEpochIsCovered` | `retention` | `handoff` looks at envelopes only: an epoch expires while a record of it above the pruned position is in no snapshot |
| `ExpiredKeysRemoved` | `retention` | `expire` visits an epoch once: an envelope uploaded between handoff and expiry keeps its log entry for good |
| `ApprovedIsEnrolled` | `peer_enrollment` | `approve` accepts a body that was accepted before, for another offer or directly: the stored outcome is looked up before the certificate is compared with the offer |
| `RetriesAnswered` | `peer_enrollment` | under immediate retention `enroll` refuses an exact retry after a rotation, before the stored outcome is looked up |
| `StagingCanBeRetried` | `reseed` | after a rotation of the live chain a staged import can be neither committed nor replaced (`stage`) |
| `NonceNotRepeated` | `reseed` | `record` accepts staged parts of the next generation before their nonce is looked up |
| `ExportIsPinned` | `paging` | an export interrupted by staging or expiry is not the export of its cut; `TornOnlyByExpiryAndStaging` does hold |
| `DevicesStayReadable` | `paging` | staging a device on a live chain makes its device list unreadable (`objects`) |
| `ReadsAreServed` | `capacity` | cursors are counted and never removed: a full chain refuses second pages (`cursor`) |
| `LoweredQuotaStarts`, `NoticeStarts` | `capacity` | one chain above a lowered quota, or one full chain and a new notice, keep the relay from starting (`AppState::new`); `StartsAgain`, with the configuration it ran with, does hold and is proved |
| `LegacySingleUse` | `legacy` | a v2 token is accepted twice when the second request straddles its expiry (`authenticate`); `ReplayOnlyAtExpiry` does hold |

Not a disagreement, but worth knowing: a single mutation reads `write_guard` before
it waits for the database (`sync.rs:382`), so one that waits while the announced
time passes is accepted after it, and after the export that was to be final.
`LateWritesBounded` says that these are the only ones. And a start that fails after
its first transaction has pinned its disclosure (`sync.rs:55`), so the revision that
worked before is refused from then on; clients never notice (`NoAlarm`).

## 5. Proofs

All theorems hold for every value of the constants under the modules' named
assumptions, which TLC evaluates on the instances it checks. They say that limits,
times and bounds are numbers, that the stand-ins for an absent row or object are none
of the real ones, and `SortedIdsAssumption` that every finite set of device ids has an
enumeration that lists each once. `PagingAssumption` fixes the encoding of ids in
`Paging`, one digit for a device, record or request: its theorems hold for up to nine of
each, and for any number of epochs, generations, positions and any limits.

| Theorem | Says |
|---|---|
| **`RelayChain_proofs`** | |
| `TypeCorrect` | `Spec => []TypeOK` |
| `RecordsStayInTheirEpoch` | `Spec => []RecordsInTheirEpoch` |
| `RevokedAreSilent` | `Spec => []RevokedDevicesAreSilent` |
| `RevocationStays` | `Spec => RevocationIsFinal` |
| `HeadsDescribeTheChain` | `Spec => []HeadDescribesChain` |
| `NothingIsAcceptedTwice` | `Spec => []AcceptedOnce` |
| `ReceiptsAreEvidence` | `Spec => []ReceiptsMatchEvidence` |
| `EvidenceIsKept` | `Spec => ImplementsEvidenceLog` |
| `NoncesAreUnique` | `Spec => []PayloadNonceUnique` |
| `NobodyIsLockedOut` | `Spec => []MembersHoldCurrentKey` |
| `BoundaryStaysReadable` | `Spec => []BoundaryReadable` |
| `SuffixStaysAvailable` | `Spec => []SuffixAvailable` |
| **`Restart_proofs`** | |
| `CheckedErased` | `Spec => []CheckedChainsAreErased` |
| `DeletionIsFinal` | `Spec => NoResurrection` |
| `TokensAreSingleUse` | `TokenSpec => []SingleUse` |
| **`PeerEnrollment_proofs`** | |
| `EnrollmentTypeCorrect` | `Spec => []TypeOK` |
| `InvitedOnly` | `Spec => []PeerMembersWereInvited` |
| `VouchedByItsOffer` | `Spec => []VouchedByOffering` |
| `OffersEndInTime` | `Spec => []EnrolledInTime` |
| `EnrollmentImplementsInvitations` | `Spec => ImplementsInvitations` |
| **`Reseed_proofs`** | |
| `OldGenerationsAreRetired` | `Spec => []MembersOfCurrentGeneration` |
| `EvidenceStaysOneSequence` | `Spec => []EvidenceIsOneSequence` |
| `NothingIsAppendedTwice` | `Spec => []OneReceipt` |
| `AuthorsAreOfTheirGeneration` | `Spec => []AuthorOfGeneration` |
| **`Paging_proofs`** | |
| `RecoveryStaysWithAdmins` | `Spec => []RecoveryForAdmins` |
| `PagesStayPinned` | `Spec => []PagesArePinned` |
| `TornOnlyThatWay` | `Spec => []TornOnlyByExpiryAndStaging` |
| `PagesMoveOn` | `Spec => MovesOn` |
| **`Service_proofs`** | |
| `TypeCorrect`, `QuotaHolds`, `RelayStartsAgain` | `Spec => []TypeOK`, `[]WithinQuota`, `[]StartsAgain` (`Capacity`) |
| `OperatorTypeCorrect`, `ClientsNeverAlarmed` | `OperatorSpec => []OperatorTypeOK`, `[]NoAlarm` |
| **`Handling_proofs`** | |
| `TypeCorrect`, `PermitsAreKept` | `Spec => []TypeOK`, `[]PermitsAccounted` |
| `BatchesEnd`, `LateWritesAreFew` | `Spec => []BatchesEndAtShutdown`, `[]LateWritesBounded` |
| **`Legacy_proofs`** | |
| `ReadsAreComplete` | `Spec => []ReadIsComplete` |
| `ReplaysAreAtExpiry`, `ParametersAreRestoredOnce` | `Spec => ReplayOnlyAtExpiry`, `Spec => RestoredOnce` |

*RelayChain.* The properties about the log depend only on what a step appends.
Lemma `LogSteps` sorts the fourteen actions into two: an `OrdinaryStep` appends
objects that are none of them an epoch, whose records are of the current epoch by
active devices and whose envelopes go to registered devices; a `RotationStep`
appends one bundle ending in the next epoch. The inductive invariant `LogInv`
adds to the properties what the two cases need: every log object has a receipt
(so that a retry appends nothing, `Receipted`), epoch numbers in the log are at
most the current one and records carry at most the current epoch (`EpochBounds`),
and the position of a revocation lies in the log (`RevokedBounds`). For heads,
`HeadSteps` shows that each step either saves under a new transparency index or
leaves the row's published fields alone, and `HeadInv` adds that no head has an
index beyond the current one.

*RelayChain, evidence.* `EvidenceSteps` sorts the actions once more: a step appends
objects that are new to the log and distinct (`Fresh`), or accepts one part, or
publishes notes only. That an appended object is new is where the handlers differ:
uploads look for a receipt, an enrollment for the device in the registry, a rotation
has a number no epoch before it had. `Provenance` is the strengthening these
arguments need: it ties what is in the log to registry, epoch and position, so that
"not registered" or "a later epoch" implies "not in the log". With
`PartReceipts` (a receipt without position is of a part) an object that is not in the
log has no receipt (`NewHasNoReceipt`), and each of the three kinds of step is a
`Commit`, a `Keep` or a `Commit` of nothing of `EvidenceLog`: that is the refinement.

*RelayChain, rows.* What may be erased is proved in `RowInv`, one part for each table.
`KeyInv`: the log holds an envelope of the current epoch for every registered device,
and a recovery envelope for every epoch. `NulledInv`: a body is gone only if it is that
of a record below `minAvailable` or of an envelope of an expired epoch. `BoundaryInv`:
epochs that are handed off are older than the epoch of the boundary compaction, which
is itself in the log and covers everything below `minAvailable`; so an expiry never
takes the key of the snapshot that replaced the pruned records, nor one of the current
epoch. `ClearedInv`: entries are cleared only below `minAvailable`. `NonceInv`: every
stored ciphertext has its row in `v3_payload_nonces` and ids name one ciphertext.

*Deletion.* The invariant is `SeenAreErased`: the chains a worker saw have a
ledger row and no rows, and after its checkpoint no file copies; it is stable
because `Write` looks the ledger up in its own transaction (`DeletedStaysDeleted`).

*TokenReplay.* `SingleUse` is not inductive; `ConsumedIsBlocked` says why it holds:
a consumed token is stopped by its nonce row, its age, or the barrier of the
restart that is over or still to come. Both are proved together.

*PeerEnrollment.* The refinement is by cases on the actions: each maps to a step of
`Invitations` on the same offer or leaves phase, subject and members alone. That a
member was invited is proved from the abstract side (a member is the subject of an
approved invitation) and from what `Approve` compares before it registers.

*Reseed.* The invariant adds that control objects other than device records are of no
later generation, and epochs no later, than the chain (`ControlObjects`: the objects of
the next generation are new. Device records may be signed ahead; those a commit appends
are new because `reseed` refuses a device that is stored), that a log id is used once and
of a staged log only parts have receipts (`LogIds`: the commit starts at position 1), and
that a member's device record is stored (`MemberRecords`). Lemma `Appended` is the
argument for any append of a sequence that lists a set (`Lists`) of objects without
receipts. `AuthorsStay` is the argument for authors: nothing stored is removed, so only
new records and the compaction of a commit have to be shown to have theirs, and the
commit brings the devices and epochs of its snapshot's parts.

*Paging, recovery envelopes.* The invariant says that an envelope's id tells its
recipient (`RowSet`) and that what the reader has received names no recovery envelope of
any epoch, of those that are not yet stored either (`ReaderKept`). The second part is
stronger than the property, which speaks of the rows there are now, and that makes it
stable under writes. `LogSpared`, `ObjectsSpared` and `ExportSpared` go through the
three answers that could contain one. Commits append envelopes in the order of their
recipients; that an enumeration of a finite set of numbers by rank stays within the set
(`SortedType`) needs that some member has exactly n smaller ones (`Ranked`), by
well-foundedness of finite subsets.

*Paging, listings.* `reader.got = reader.want` says nothing before the last page, so the
invariant `PageInv` has to follow the reader from the first one. It has three parts.

- `Tables`: one row per object, no gap in the live log, all epochs stored, every device
  with a history in some log, and numbers that the relay gives out bounded by its
  counters, so that what it creates next is new. Every write but `Reseed` is shown to be
  `Grown` (a lemma for each, `UploadRecordGrows` to `StageGrows`): rows stay, but for the
  bodies and entries that pruning and expiry take; what comes is behind the head, a
  part, or staged; the two histories only get longer. `ReseedTables` is the one write
  after which a cut is of another log.
- `CutBehind`: the cut of a reader is a former state of the chain, as long as the log is
  the same.
- `Followed`, what the reader has. `Lines(p)` is the listing at the cut as a set of lines,
  each at a place (phase and key), and `Passed` says which of them the cursor is
  behind. For a pinned listing (`PinnedIn`) the reader has exactly the lines up to its
  cursor, and wants all; for an export or a list of envelopes (`TornIn`) the two differ
  by lines of expired envelopes and of staged objects.

A page keeps this because it is `Turned`: it sends the lines between the old cursor and
the new one, moves the cursor, and is the last one only if no line is behind it. That
is proved for each listing from the ranks by which its rows are selected (`PageLemma`,
for an export `FirstLinesShape` and `ChunkAnswer`), for any limits. A line has one place
(`Places`), so counting pages counts lines. A write keeps it because the lines of a cut
stay (`PinnedLines`), or go by expiry and come by staging (`EnvelopeLinesGrow`,
`ExportLinesGrow`): a line that comes is `Foreign` to all the reader may have, so it is
not taken for one of the cut. For the export this needs that nothing was pruned
meanwhile: `Current` says that, and is what the code tests before it answers. That the
first page starts from the wanted listing is `OpeningFollowed`, where the definitions of
`Want` and of `Lines` are compared for each listing.

*Legacy.* The rows of a frozen chain are all there until its deletion (`RowsFrozen`),
a page is the longest prefix that fits limit and bytes, so the largest position of the
page bounds what was left out (`MaxOfFinite`). A token that was accepted is stopped by
its nonce row or its expiry, or the chain is gone (`AcceptedIsBlocked`).

*Capacity.* `StartsAgain` needs that every live chain carries the notice of the
configuration (`Noticed`), which only genesis and the start establish; then a start
as configured appends nothing and every chain is within the quota already.

*Handling.* A request in its transaction has the lock (`LockHeld`), so an export that
makes the final capture sees no batch item past its guard, and from then on the guard
is closed (`FinalIsFrozen`). Permits are counted with the requests that hold one
(`StepPermits`: each step takes one and adds a holder, gives one back and removes a
holder, or does neither), and late mutations with those past the guard.

*Operator.* `NoAlarm` needs that the pin covers (`Covers`: the same relay, a revision
not lower, an equal one only for the same document) what every client has verified
and has in hand, and that a process past its first transaction serves the pin.
`Covers` is transitive, so a new pin keeps all of it.

*Only model-checked.* Liveness under fairness is out of the prover's reach:
`DeletionCompletes`, `DueIsExpired`, `HandlersEnd`, `ClientsSettle`. That following
cursors ends is proved only as far as `MovesOn` says it: every page moves on, within a
cut that does not change. Every invariant and every action property of the passing runs
is stated by a theorem.

## 6. Not modelled

Wire syntax, canonical JSON and cryptography are pure functions on bytes: objects
stand for their hashes, and signatures are taken to be unforgeable. Of the
disclosure's own values only that they pass (`sound`) is kept. Routing, media types
and the layout of responses; reading of rows in bounded chunks and byte limits of
pages of the v3 listings; authentication against a deleted chain's ledger, which
changes no chain state; rate limits (`rate`), which decide only whether a request is
served. The operator tool and the deployment scripts keep no state
of the relay; the reference clients are not part of it. Two processes on one
database are not modelled.

## 7. Plan

What is left: byte limits of pages, and `GET snapshots`; two relays on one database; the
operator tool. When a listing or an operation is added to `Paging`, its proof needs a
lemma that the operation is `Grown`, or one that a page of the listing is `Turned` and
that its lines stay.
