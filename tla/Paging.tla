------------------------------- MODULE Paging -------------------------------
(***************************************************************************)
(* Paged reads and the export of one chain.  A reader fetches a listing page *)
(* by page while the chain goes on: the first request takes a copy of the    *)
(* chain row (the cut), a cursor carries it from page to page, and between   *)
(* two pages any operation may change the tables.  Every request is one      *)
(* transaction.                                                            *)
(*                                                                         *)
(* A row stands for what v3_objects, v3_log and v3_receipts hold about one   *)
(* object.  Log ids are generations.  A page is the set of its items: keys   *)
(* only grow, so the order within a listing is that of the keys.             *)
(***************************************************************************)
EXTENDS Integers, Sequences, FiniteSets, FiniteSetsExt

CONSTANTS
    Devices, Creator,   \* device ids, positive integers
    RecordIds,          \* ids of records and snapshot parts
    RequestIds,         \* ids of enrollment requests
    Resources,          \* the listings that are read
    PageLimit,          \* items of a page (limit)
    ChunkLimit,         \* entries of a transparency page, lines of an export chunk (limit)
    ScanLimit,          \* rows of one query (1000)
    None,
    MaxIndex, MaxEpoch, MaxGeneration,   \* bounds of the model
    MaxFirstIndex,                       \* bound of the index in the first generation
    MaxIndexWithOffers,                  \* bound of the index for a chain with offers
    MaxLaterOffers                       \* bound of offers after the first generation

ASSUME PagingAssumption ==
    /\ Devices \cup RecordIds \cup RequestIds \subseteq 1..9 /\ Creator \in Devices
    /\ PageLimit \in Nat \ {0} /\ ChunkLimit \in Nat \ {0} /\ ScanLimit \in Nat \ {0}
    /\ None \notin Nat

VARIABLES
    log, head, index, epoch,   \* the chain row: log_id, head_seq, transparency_index, epoch
    min, boundary,             \* min_available_seq, boundary_compaction_id
    rows,                      \* v3_objects, v3_log, v3_receipts
    history,                   \* v3_registry_history
    offers,                    \* v3_offer_history
    handoffs, expired,         \* v3_handoffs
    imported,                  \* a row in v3_imports
    reader                     \* the client that reads

chain == <<log, head, index, epoch, min, boundary>>
tables == <<rows, history, offers, handoffs, expired, imported>>
vars == <<chain, tables, reader>>

(***************************************************************************)
(* The tables and the operations that change them.                          *)
(***************************************************************************)
\* An envelope to 0 is the recovery envelope.
Object(kind, id, e, to) == [kind |-> kind, id |-> id, epoch |-> e, to |-> to]
Device(d) == Object("device", d, 0, 0)
Envelope(e, to) == Object("envelope", 10 * e + to, e, to)
RowOf(o, l, seq, idx) ==
    [kind |-> o.kind, id |-> o.id, epoch |-> o.epoch, to |-> o.to,
     log |-> l, seq |-> seq, idx |-> idx, body |-> TRUE, entry |-> TRUE]
Same(r, o) == r.kind = o.kind /\ r.id = o.id

IsRecovery(r) == r.kind = "envelope" /\ r.to = 0

\* append of the objects os to the log l after position n; rows R are the table.
\* A staged object gets its position now.
Appended(R, os, l, n) ==
    {r \in R : \A k \in 1..Len(os) : ~Same(r, os[k])}
      \cup {RowOf(os[k], l, n + k, index + k) : k \in 1..Len(os)}
AppendAll(os) ==
    /\ index + Len(os) <= MaxIndex
    /\ rows' = Appended(rows, os, log, head)
    /\ head' = head + Len(os)
    /\ index' = index + Len(os)

Event(d, status, revoked) == [device |-> d, status |-> status, revoked |-> revoked]
LastOf(S, P(_)) == {i \in S : P(i) /\ \A j \in S : P(j) => j <= i}
StatusAt(d, version) ==
    {history[i] : i \in LastOf(1..version, LAMBDA i : history[i].device = d)}
Status(d) == {e.status : e \in StatusAt(d, Len(history))}
Members == {d \in Devices : Status(d) \in {{"active"}, {"pending_keys"}}}

Genesis == <<Object("parameters", 1, 0, 0), Device(Creator), Envelope(0, Creator),
             Envelope(0, 0), Object("epoch", 0, 0, 0)>>
Init ==
    /\ log = 0 /\ head = Len(Genesis) /\ index = Len(Genesis) /\ epoch = 0
    /\ min = 1 /\ boundary = None
    /\ rows = {RowOf(Genesis[k], 0, k, k) : k \in 1..Len(Genesis)}
    /\ history = <<Event(Creator, "active", 0)>>
    /\ offers = <<>> /\ handoffs = {} /\ expired = {} /\ imported = FALSE
    /\ reader = [st |-> "idle"]

Known(kind, id) == \E r \in rows : r.kind = kind /\ r.id = id

UploadRecord(i) ==
    /\ ~Known("record", i) /\ ~Known("part", i)
    /\ AppendAll(<<Object("record", i, epoch, 0)>>)
    /\ UNCHANGED <<log, epoch, min, boundary, history, offers, handoffs, expired, imported, reader>>

\* A snapshot part has a receipt and no position in the log.
UploadPart(i) ==
    /\ ~Known("record", i) /\ ~Known("part", i)
    /\ index < MaxIndex
    /\ rows' = rows \cup {RowOf(Object("part", i, epoch, 0), None, 0, index + 1)}
    /\ index' = index + 1
    /\ UNCHANGED <<log, head, epoch, min, boundary, history, offers, handoffs, expired, imported, reader>>

\* enroll by a device, with the envelope of the current epoch.
Enroll(d) ==
    /\ ~Known("device", d)
    /\ AppendAll(<<Device(d), Envelope(epoch, d)>>)
    /\ history' = Append(history, Event(d, "pending_keys", 0))
    /\ UNCHANGED <<log, epoch, min, boundary, offers, handoffs, expired, imported, reader>>

Ack(d) ==
    /\ Status(d) = {"pending_keys"}
    /\ history' = Append(history, Event(d, "active", 0))
    /\ UNCHANGED <<chain, rows, offers, handoffs, expired, imported, reader>>

\* commit_epoch: the records of new devices D, the envelopes of the members M, the
\* recovery envelope, the operation of an admin who revokes devices R, the epoch.
Sorted(S) == [k \in 1..Cardinality(S) |-> CHOOSE x \in S : Cardinality({y \in S : y < x}) = k - 1]
Envelopes(e, M) == [k \in 1..Cardinality(M) |-> Envelope(e, Sorted(M)[k])] \o <<Envelope(e, 0)>>
Events(S, status, seq) == [k \in 1..Cardinality(S) |-> Event(Sorted(S)[k], status, seq)]
DeviceRecords(D) == [k \in 1..Cardinality(D) |-> Device(Sorted(D)[k])]
Operation(signed, id) == IF signed THEN <<Object("admin", id, epoch, 0)>> ELSE <<>>
Rotate(R, D, signed) ==
    /\ epoch < MaxEpoch
    /\ signed => R # {}
    /\ D = {} \/ R = {} \/ signed
    /\ \A d \in D : ~Known("device", d)
    /\ R \subseteq Members
    /\ LET M == (Members \ R) \cup D
       IN /\ M # {}
          /\ AppendAll(DeviceRecords(D) \o Envelopes(epoch + 1, M)
                         \o Operation(signed, index + Cardinality(D) + Cardinality(M) + 2)
                         \o <<Object("epoch", epoch + 1, epoch + 1, 0)>>)
    /\ history' = history \o Events(D, "pending_keys", 0) \o Events(R, "revoked", head')
    /\ epoch' = epoch + 1
    /\ UNCHANGED <<log, min, boundary, offers, handoffs, expired, imported, reader>>

\* snapshot: the compaction of the whole log, for the current epoch.  Its number is
\* its position, its recipient field the covered position.
Snapshot ==
    /\ AppendAll(<<Object("compaction", index + 1, epoch, head)>>)
    /\ UNCHANGED <<log, epoch, min, boundary, history, offers, handoffs, expired, imported, reader>>

\* expire: the epochs E lose their envelopes, in the log below position m.
Expired(R, E, m) ==
    {[r EXCEPT !.body = r.body /\ ~(r.kind = "envelope" /\ r.epoch \in E),
               !.entry = r.entry /\ ~(r.kind = "envelope" /\ r.epoch \in E /\ r.seq < m)] : r \in R}

\* prune through a position that the compaction c covers, hand off the epochs whose
\* envelopes are all below it, and expire those of them that are due (E).
HandedOff(through) ==
    {e \in 0..(epoch - 1) : \A r \in rows :
        r.kind = "envelope" /\ r.epoch = e /\ r.body => r.seq <= through /\ r.log \in {log, None}}
Pruned(R, through) ==
    {[r EXCEPT !.body = r.body /\ ~(r.kind = "record" /\ r.log = log /\ r.seq <= through),
               !.entry = r.entry /\ ~(r.kind = "record" /\ r.log = log /\ r.seq <= through)] : r \in R}
Prune(c, through, E) ==
    /\ c.kind = "compaction" /\ c.log = log /\ c.epoch = epoch
    /\ through \in (min - 1)..c.to
    /\ index + 2 <= MaxIndex
    /\ handoffs' = handoffs \cup HandedOff(through)
    /\ E \subseteq handoffs' \ expired
    /\ expired' = expired \cup E
    /\ rows' = Expired(Pruned(Appended(rows, <<Object("admin", index + 1, epoch, 0)>>, log, head), through),
                       E, through + 1)
    /\ head' = head + 1 /\ index' = index + 2
    /\ min' = through + 1 /\ boundary' = c.id
    /\ UNCHANGED <<log, epoch, history, offers, imported, reader>>

\* maintenance: some handoffs have become due.
Maintenance(E) ==
    /\ E # {} /\ E \subseteq handoffs \ expired
    /\ expired' = expired \cup E
    /\ rows' = Expired(rows, E, min)
    /\ UNCHANGED <<chain, history, offers, handoffs, imported, reader>>

\* offer, enrollment_request and approve or reject each leave a row in the history.
\* An approval enrolls, which takes a request of the current generation.
OfferEvent(q, g, d, asked, status) ==
    [request |-> q, generation |-> g, by |-> d, asked |-> asked, status |-> status]
OfferAt(q, version) == {offers[i] : i \in LastOf(1..version, LAMBDA i : offers[i].request = q)}
OfferStep(q) ==
    /\ \/ /\ OfferAt(q, Len(offers)) = {}
          /\ \E d \in Devices : /\ Status(d) = {"active"}
                               /\ offers' = Append(offers, OfferEvent(q, log, d, FALSE, "awaiting_approval"))
       \/ \E o \in OfferAt(q, Len(offers)) :
            /\ o.status = "awaiting_approval"
            /\ \/ /\ ~o.asked /\ o.generation = log /\ Status(o.by) = {"active"}
                  /\ offers' = Append(offers, [o EXCEPT !.asked = TRUE])
               \/ /\ o.asked
                  /\ \E s \in {"approved", "rejected"} :
                       /\ s = "approved" => o.generation = log
                       /\ offers' = Append(offers, [o EXCEPT !.status = s])
    /\ UNCHANGED <<chain, rows, history, handoffs, expired, imported, reader>>

\* stage: the current head and certified devices D that the chain does not know,
\* with their envelopes.
Stage(D) ==
    /\ \A d \in D : ~Known("device", d)
    /\ rows' = rows \cup {RowOf(Device(d), None, 0, 0) : d \in D}
                    \cup {RowOf(Envelope(epoch, d), None, 0, 0) : d \in D}
    /\ imported' = TRUE
    /\ UNCHANGED <<chain, history, offers, handoffs, expired, reader>>

\* reseed: the staged objects are appended to the new log, then the objects of the
\* new generation, whose only device is d.  Staged devices are registered; all
\* members of the old generation are revoked.
StagedDevices == {d \in Devices : \E r \in rows : Same(r, Device(d)) /\ r.log = None}
StagedEnvelopes == {r.id : r \in {q \in rows : q.kind = "envelope" /\ q.log = None}}
StagedObjects ==
    DeviceRecords(StagedDevices)
      \o [k \in 1..Cardinality(StagedEnvelopes) |->
            Envelope(Sorted(StagedEnvelopes)[k] \div 10, Sorted(StagedEnvelopes)[k] % 10)]
Reseed(d) ==
    /\ imported /\ log < MaxGeneration /\ epoch < MaxEpoch
    /\ ~Known("device", d)
    /\ LET n == index + Len(StagedObjects)
           os == StagedObjects \o <<Object("parameters", log + 2, 0, 0), Device(d)>>
                   \o Envelopes(epoch + 1, {d}) \o <<Object("admin", n + 5, epoch, 0)>>
                   \o <<Object("epoch", epoch + 1, epoch + 1, 0)>>
                   \o <<Object("compaction", n + 7, epoch + 1, 0)>>
       IN /\ index + Len(os) <= MaxIndex
          /\ rows' = Appended(rows, os, log + 1, 0)
          /\ head' = Len(os) /\ index' = index + Len(os)
    /\ log' = log + 1 /\ epoch' = epoch + 1 /\ min' = 1 /\ boundary' = None
    /\ history' = history \o Events(StagedDevices, "active", 0) \o <<Event(d, "pending_keys", 0)>>
                    \o Events(Members \cup StagedDevices, "revoked", head' - 1)
    /\ imported' = FALSE
    /\ UNCHANGED <<offers, handoffs, expired, reader>>

(***************************************************************************)
(* Pages.  A page p carries the cut, the versions of the two histories, the   *)
(* position or key that was reached (at) and, for an export, the phase.      *)
(***************************************************************************)
\* The n rows of S with the smallest keys.
FirstN(S, key(_), n) == UNION {{r \in T : Cardinality({q \in T : key(q) < key(r)}) < n} : T \in {S}}
Seq_(r) == r.seq
Id(r) == r.id
Keys(S, key(_)) == {key(r) : r \in S}

\* Where the loop over the scanned keys stops: before the first selected one that
\* does not fit (left), or at the last.
ReachedItems(at, scanned, items, left) == Max({at} \cup items)
Reached(at, scanned, items, left) == Max({at} \cup {k \in scanned : \A l \in left : k < l})

Failed(code) == [st |-> "failed", code |-> code, at |-> 0, phase |-> 0, items |-> {}]
Answered(items, at, phase, more) ==
    [st |-> IF more THEN "paging" ELSE "done", code |-> None, at |-> at, phase |-> phase, items |-> items]

Line(r) == <<r.kind, r.id>>

\* Recovery envelopes are for the admin only.
Denied(p, items) == p.device # None /\ \E r \in items : IsRecovery(r)

\* log: all entries, or the records only; a filtered entry moves the position too.
Log(p) ==
    LET scanned == FirstN({r \in rows : r.log = log /\ r.seq \in (p.at + 1)..p.cut.head}, Seq_, ScanLimit)
        selected == {r \in scanned : r.entry /\ (p.res = "log" \/ r.kind = "record")}
        items == FirstN(selected, Seq_, PageLimit)
        through == Reached(p.at, Keys(scanned, Seq_), Keys(items, Seq_), Keys(selected \ items, Seq_))
    IN IF \/ p.at < min - 1
          \/ \E r \in scanned : ~r.entry /\ \A q \in selected \ items : r.seq < q.seq
         THEN Failed("LOG_PRUNED")
       ELSE IF Denied(p, items)
         THEN Failed("ENVELOPE_ACCESS_DENIED")
       ELSE Answered({Line(r) : r \in items}, through, 0, through < p.cut.head)

\* objects: the rows of a kind that are staged, of an older log, or within the cut.
Kind == [devices |-> "device", epochs |-> "epoch", envelopes |-> "envelope"]
WithinCut(r, p) == r.log = None \/ r.log # log \/ r.seq <= p.cut.head
After(p, at) == {r \in rows : r.kind = Kind[p.res] /\ r.id > at /\ r.body /\ WithinCut(r, p)}

\* The wrapper of a row; {} when the query for it finds nothing.
LatestStatus(p, d) == {<<d, s>> : s \in Status(d)}
PinnedStatus(p, d) ==
    {<<d, IF e.revoked # 0 /\ e.revoked <= p.cut.head THEN "revoked" ELSE e.status>> :
        e \in StatusAt(d, p.cut.registry)}
Wrapped(p, r) ==
    CASE p.res = "devices" -> PinnedStatus(p, r.id)
      [] p.res = "epochs" -> IF r.log # None /\ r.entry THEN {Line(r)} ELSE {}
      [] OTHER -> {Line(r)}
Objects(p) ==
    LET scanned == FirstN(After(p, p.at), Id, ScanLimit)
        selected == {r \in scanned : p.res = "envelopes" => r.to = p.device}
        items == FirstN(selected, Id, PageLimit)
        key == Reached(p.at, Keys(scanned, Id), Keys(items, Id), Keys(selected \ items, Id))
        wrapped == FirstN(selected, Id, PageLimit + 1)
    IN IF \E r \in wrapped : Wrapped(p, r) = {}
         THEN Failed(IF p.res = "devices" THEN "STORAGE_UNAVAILABLE" ELSE "REPAIR_PROOF_REQUIRED")
         ELSE Answered(UNION {Wrapped(p, r) : r \in items}, key, 0,
                       items # selected \/ After(p, key) # {})

\* requests of the current generation, as they were at the offer version of the first
\* page; a device sees those that answer its own offers.
RequestsOf(p) ==
    UNION {{<<e.request, e.status>> :
              e \in {o \in OfferAt(q, p.cut.offers) :
                       o.asked /\ o.generation = log /\ p.device \in {None, o.by}}} : q \in RequestIds}
First(x) == x[1]
NextRequest(p, items) == Max({p.at} \cup Keys(items, First))
Requests(p) ==
    LET found == FirstN({x \in RequestsOf(p) : x[1] > p.at}, First, PageLimit + 1)
        items == FirstN(found, First, PageLimit)
    IN Answered(items, NextRequest(p, items), 0, items # found)

\* transparency: the entries up to the head of the first page.
Itself(i) == i
Transparency(p) ==
    LET items == FirstN((p.at + 1)..p.cut.index, Itself, ChunkLimit)
        at == Max({p.at} \cup items)
    IN Answered(items, at, 0, at < p.cut.index)

(***************************************************************************)
(* export: ten groups of lines, each in the order of its keys.               *)
(***************************************************************************)
\* Control objects are ordered by kind, then by id, for ids below 100.
Control == [admin |-> 1, device |-> 2, envelope |-> 3, epoch |-> 4, parameters |-> 5]
AnyReceipt(r, p) == TRUE
Receipted(r, p) == r.idx <= p.cut.index
Group(p, phase) ==
    CASE phase = 0 -> {[key |-> r.seq, row |-> r] : r \in
                        {q \in rows : q.log = p.cut.log /\ q.seq \in 1..p.cut.head /\ q.entry}}
      [] phase = 1 -> {[key |-> r.id, row |-> r] : r \in
                        {q \in rows : q.kind = "compaction" /\ q.id = p.cut.boundary /\ Receipted(q, p)}}
      [] phase = 2 -> {[key |-> r.id, row |-> r] : r \in
                        {q \in rows : q.kind = "compaction" /\ Receipted(q, p)}}
      [] phase = 3 -> {[key |-> 100 * Control[r.kind] + r.id, row |-> r] : r \in
                        {q \in rows : q.kind \in DOMAIN Control /\ q.body /\ q.log # p.cut.log}}
      [] phase = 4 -> {[key |-> r.id, row |-> r] : r \in
                        {q \in rows : q.kind = "record" /\ ~q.body}}
      [] phase = 5 -> {[key |-> r.id, row |-> r] : r \in
                        {q \in rows : q.kind = "part" /\ Receipted(q, p)}}
      [] phase = 6 -> {[key |-> r.idx, row |-> r] : r \in
                        {q \in rows : q.log \notin {None, p.cut.log} /\ q.entry /\ Receipted(q, p)}}
      [] phase = 7 -> {[key |-> r.idx, row |-> r] : r \in {q \in rows : q.idx > 0 /\ Receipted(q, p)}}
      [] phase = 8 -> {[key |-> i, row |-> None] : i \in 1..p.cut.index}
      [] phase = 9 -> {[key |-> 1, row |-> None]}

\* protect: without include_recovery a recovery envelope of the log becomes an
\* "omitted" line and those of other groups are dropped.
Dropped(p, phase, x) == ~p.include /\ phase \in {3, 6} /\ IsRecovery(x.row)
WrittenPlain(p, phase, x) ==
    IF phase > 7 THEN <<phase, x.key>> ELSE <<phase, x.row.kind, x.row.id>>
Written(p, phase, x) ==
    IF phase > 7 THEN <<phase, x.key>>
    ELSE IF phase = 0 /\ ~p.include /\ IsRecovery(x.row) THEN <<phase, "omitted", x.row.seq>>
    ELSE <<phase, x.row.kind, x.row.id>>

\* The lines that are left: behind the key in the phase of the cursor, all of later phases.
Left(p) ==
    UNION {{[phase |-> f, key |-> x.key, line |-> Written(p, f, x)] :
              x \in {y \in Group(p, f) : (f = p.phase => y.key > p.at) /\ ~Dropped(p, f, y)}} :
           f \in p.phase..9}
Before(x, y) == x.phase < y.phase \/ (x.phase = y.phase /\ x.key < y.key)
FirstLines(S, n) == {x \in S : Cardinality({y \in S : Before(y, x)}) < n}

\* A chunk of at most limit lines.  The cursor stays in the phase of the last line
\* while that phase has lines left, and is otherwise at the start of the next one.
Chunk(left, items) ==
    LET last == CHOOSE x \in items : \A y \in items : ~Before(x, y)
        more == \E y \in left : y.phase = last.phase /\ y.key > last.key
    IN Answered({x.line : x \in items},
                IF more THEN last.key ELSE 0,
                IF more THEN last.phase ELSE last.phase + 1,
                more \/ last.phase < 9)
Export(p) ==
    IF p.cut.min < min THEN Failed("LOG_PRUNED")
    ELSE LET left == Left(p) IN Chunk(left, FirstLines(left, ChunkLimit))

Respond(p) ==
    CASE p.res \in {"log", "records"} -> Log(p)
      [] p.res \in DOMAIN Kind -> Objects(p)
      [] p.res = "requests" -> Requests(p)
      [] p.res = "transparency" -> Transparency(p)
      [] p.res = "export" -> Export(p)

(***************************************************************************)
(* The reader.  Of its requests only the pages matter: what it has received   *)
(* (got, count, pages), and what the listing was at the first page (want).          *)
(***************************************************************************)
Want(res, device, include, after) ==
    CASE res \in {"log", "records"} ->
           {Line(r) : r \in {q \in rows : q.log = log /\ q.seq > after /\ (res = "log" \/ q.kind = "record")}}
      [] res = "devices" -> UNION {{<<d, s>> : s \in Status(d)} : d \in Devices}
      [] res = "epochs" -> {<<"epoch", e>> : e \in 0..epoch}
      [] res = "envelopes" -> {Line(r) : r \in {q \in rows : q.kind = "envelope" /\ q.to = device /\ q.body}}
      [] res = "requests" ->
           {<<o.request, o.status>> : o \in
               {e \in UNION {OfferAt(q, Len(offers)) : q \in RequestIds} :
                  e.asked /\ e.generation = log /\ device \in {None, e.by}}}
      [] res = "transparency" -> 1..index
      [] res = "export" -> {}

Received(p, a, got, count, pages, want) ==
    [res |-> p.res, device |-> p.device, include |-> p.include, cut |-> p.cut,
     at |-> a.at, phase |-> a.phase, st |-> a.st, code |-> a.code,
     got |-> got \cup a.items, count |-> count + Cardinality(a.items), pages |-> pages + 1,
     want |-> want]

\* page without a cursor.
FirstPage(res, device, include, after) ==
    /\ reader.st = "idle"
    /\ LET cut == [log |-> log, head |-> head, index |-> index, min |-> min, boundary |-> boundary,
                   registry |-> Len(history), offers |-> Len(offers)]
           p == [res |-> res, device |-> device, include |-> include, cut |-> cut, at |-> after, phase |-> 0]
           want == IF res = "export" THEN {x.line : x \in Left(p)} ELSE Want(res, device, include, after)
       IN reader' = Received(p, Respond(p), {}, 0, 0, want)
    /\ UNCHANGED <<chain, tables>>

\* page with the cursor of the page before it; a repeated request is answered alike.
NextPage ==
    /\ reader.st = "paging"
    /\ reader' = Received(reader, IF reader.cut.log # log THEN Failed("LOG_ID_MISMATCH") ELSE Respond(reader),
                          reader.got, reader.count, reader.pages, reader.want)
    /\ UNCHANGED <<chain, tables>>

\* A cursor is good for 24 hours.
CursorExpires ==
    /\ reader.st = "paging"
    /\ reader' = Received(reader, Failed("CURSOR_EXPIRED"), reader.got, reader.count, reader.pages, reader.want)
    /\ UNCHANGED <<chain, tables>>

\* A device reads its own envelopes and exports without recovery envelopes; records are the
\* same for all.
Read ==
    \/ \E d \in {None, Creator}, after \in {0, min - 1} : "log" \in Resources /\ FirstPage("log", d, FALSE, after)
    \/ \E after \in {0, min - 1} : "records" \in Resources /\ FirstPage("records", None, FALSE, after)
    \/ \E res \in Resources \cap {"devices", "epochs", "transparency"} :
         FirstPage(res, None, FALSE, IF res = "epochs" THEN -1 ELSE 0)
    \/ \E d \in {None, Creator} : "requests" \in Resources /\ FirstPage("requests", d, FALSE, 0)
    \/ "envelopes" \in Resources /\ FirstPage("envelopes", Creator, FALSE, 0)
    \/ \E include \in BOOLEAN : "export" \in Resources /\ FirstPage("export", None, include, 0)

Write ==
    \/ \E i \in RecordIds : UploadRecord(i) \/ UploadPart(i)
    \/ \E d \in Devices : Enroll(d) \/ Ack(d) \/ Reseed(d)
    \/ \E R, D \in SUBSET Devices, signed \in BOOLEAN : Rotate(R, D, signed)
    \/ \E D \in SUBSET Devices : Stage(D)
    \/ Snapshot
    \/ \E c \in rows, E \in SUBSET (0..epoch) : \E through \in {min, c.to} : Prune(c, through, E)
    \/ \E E \in SUBSET (0..epoch) : Maintenance(E)
    \/ \E q \in RequestIds : OfferStep(q)

\* What happens once the client has its answer is of no interest here.
Next ==
    \/ reader.st \in {"idle", "paging"} /\ Write
    \/ Read \/ NextPage \/ CursorExpires

Spec == Init /\ [][Next]_vars

\* The last numbers are for a reseed.  Within a generation offers and the log do not
\* depend on each other: a chain has offers or a long log.  In a later generation
\* there are fewer offers.
Bounded ==
    /\ log > 0 \/ index <= MaxFirstIndex
    /\ \/ offers = <<>> \/ index <= MaxIndexWithOffers
       \/ log > 0 /\ Len(offers) <= MaxLaterOffers

-----------------------------------------------------------------------------
\* A listing that is read to its end is the listing at the first page: every item
\* of the cut exactly once, with its status of then, whatever was uploaded, pruned,
\* staged, acknowledged or revoked between the pages (log, objects, requests,
\* transparency, page).
PagesArePinned ==
    reader.st = "done" /\ reader.res \notin {"envelopes", "export"} =>
        reader.got = reader.want /\ reader.count = Cardinality(reader.want)

\* What a finished export or envelope listing may lack of its cut are envelopes that
\* expired meanwhile, and what it may have besides are objects staged meanwhile; no
\* line is repeated (export, group, objects).
LinesOf(r) ==
    IF reader.res = "envelopes" THEN {Line(r)}
    ELSE {<<phase, r.kind, r.id>> : phase \in {0, 3, 6}} \cup {<<0, "omitted", r.seq>>}
TornOnlyByExpiryAndStaging ==
    reader.st = "done" /\ reader.res \in {"envelopes", "export"} =>
        /\ reader.count = Cardinality(reader.got)
        /\ reader.want \ reader.got \subseteq
             UNION {LinesOf(r) : r \in {q \in rows : q.kind = "envelope" /\ q.epoch \in expired}}
        /\ reader.got \ reader.want \subseteq UNION {LinesOf(r) : r \in {q \in rows : q.log = None}}

\* A device never receives a recovery envelope, in a page or a chunk (log, objects,
\* protect).
RecoveryForAdmins ==
    /\ reader.st # "idle" /\ reader.res \in {"log", "envelopes"} /\ reader.device # None =>
         \A r \in rows : IsRecovery(r) => Line(r) \notin reader.got
    /\ reader.st # "idle" /\ reader.res = "export" /\ ~reader.include =>
         \A r \in rows, phase \in {0, 3, 6} : IsRecovery(r) => <<phase, r.kind, r.id>> \notin reader.got

\* Following the cursors comes to an end: every page moves on, also when all of its
\* rows are filtered, and no page comes without a cursor to the next one or the end
\* ("it MUST make forward progress", docs/v3.0.md 10.16; log, objects, export).
MovesOn == [][reader'.st = "paging" /\ reader.st = "paging" =>
                \/ reader'.phase > reader.phase
                \/ reader'.phase = reader.phase /\ reader'.at > reader.at]_reader

(***************************************************************************)
(* What documents and comments say and the code does not do: as an INVARIANT *)
(* of the run TLC refutes each.                                              *)
(***************************************************************************)
\* Every finished export is the one of its cut ("bounded JCS JSONL chunks pin both
\* data and transparency cuts", export.rs:1; export, group).
ExportIsPinned ==
    reader.st = "done" /\ reader.res = "export" => reader.got = reader.want

\* The device list of a live chain can be read ("the old chain stays live until
\* commit; import allocates a replacement incarnation without changing it",
\* docs/v3.0.md 17.5; objects, stage).
DevicesStayReadable ==
    ~(reader.st = "failed" /\ reader.res = "devices" /\ reader.code = "STORAGE_UNAVAILABLE")
=============================================================================
