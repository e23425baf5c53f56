---------------------------- MODULE Paging_proofs ---------------------------
(***************************************************************************)
(* What a reader of a paged listing receives, for any page, chunk and scan   *)
(* limits, any number of epochs and generations, up to nine devices, records  *)
(* and requests, and whatever is written between two pages.                  *)
(*                                                                         *)
(* First, a device never receives a recovery envelope: an envelope's id tells *)
(* its recipient, and what the reader has received names no recovery envelope.*)
(*                                                                         *)
(* Then, a finished listing is that of its first page, an export or a list of *)
(* envelopes up to expiry and staging, and every page moves on.  The argument *)
(* has four parts:                                                          *)
(*   1. the tables are sound (Tables), and every write but reseed only adds   *)
(*      to the live log (Grown);                                            *)
(*   2. a page sends the lines between two places of the cursor, and the last *)
(*      one leaves no line behind (Turned);                                   *)
(*   3. a write leaves the lines of a cut as they are, but for envelopes that  *)
(*      expire and objects that are staged, so the reader has what the cut    *)
(*      has up to the cursor (Followed);                                      *)
(*   4. the first page starts with the listing that is wanted (Opening).      *)
(***************************************************************************)
EXTENDS Paging, SequenceTheorems, FiniteSetTheorems, TLAPS

\* The objects, and the rows that hold them.
WellNamed(o) ==
    /\ o.kind = "envelope" => o.to \in 0..9 /\ o.id = 10 * o.epoch + o.to
    /\ o.kind \in {"compaction", "part", "record"} => o.id # 0
Kinds == {"admin", "compaction", "device", "envelope", "epoch", "parameters", "part", "record"}
ObjectSet ==
    {o \in [kind: Kinds, id: Nat, epoch: Nat, to: Nat] : WellNamed(o)}
RowSet ==
    {r \in [kind: Kinds, id: Nat, epoch: Nat, to: Nat, log: Nat \cup {None}, seq: Nat,
            idx: Nat, body: BOOLEAN, entry: BOOLEAN] :
        WellNamed(r) /\ (r.log # None => r.idx # 0)}

Counters == log \in Nat /\ head \in Nat /\ index \in Nat /\ epoch \in Nat
RowsTyped == rows \subseteq RowSet /\ IsFiniteSet(rows)

\* What the reader has received holds no recovery envelope that it may not have.
ReaderKept ==
    reader.st # "idle" =>
        /\ reader.res = "envelopes" => reader.device \in 1..9
        /\ reader.res \in {"log", "envelopes"} /\ reader.device # None =>
             \A e \in Nat : <<"envelope", 10 * e>> \notin reader.got
        /\ reader.res = "export" /\ ~reader.include =>
             \A e \in Nat, phase \in {0, 3, 6} : <<phase, "envelope", 10 * e>> \notin reader.got

Inv == Counters /\ RowsTyped /\ ReaderKept

-----------------------------------------------------------------------------
(* Sorted *)

\* A finite set of numbers has a greatest one.
LEMMA Greatest ==
    ASSUME NEW S \in SUBSET Int, IsFiniteSet(S), S # {}
    PROVE  \E x \in S : \A y \in S : y <= x
<1> DEFINE Above(x) == {y \in S : y >= x}
           T == {Above(x) : x \in S}
<1>1. T \subseteq FiniteSubsetsOf(S) /\ T # {}
  <2>1. \A x \in S : Above(x) \in SUBSET S /\ IsFiniteSet(Above(x))
    BY FS_Subset
  <2> HIDE DEF Above
  <2> QED BY <2>1 DEF FiniteSubsetsOf
<1>2. IsWellFoundedOn(StrictSubsetOrdering(S), FiniteSubsetsOf(S))
  BY FS_StrictSubsetOrderingWellFounded
<1>3. PICK A \in T : \A B \in T : ~(<<B, A>> \in StrictSubsetOrdering(S))
  <2> HIDE DEF T
  <2> QED BY <1>1, <1>2, WFMin
<1>4. PICK x \in S : A = Above(x)
  OBVIOUS
<1>5. ASSUME NEW y \in S, ~(y <= x) PROVE FALSE
  <2>1. x \in A /\ x \notin Above(y) /\ Above(y) \subseteq A
    <3>1. x \in Int /\ y \in Int /\ \A z \in S : z \in Int
      OBVIOUS
    <3>2. x \in A /\ x \notin Above(y)
      BY <1>4, <1>5, <3>1
    <3>3. \A z \in Above(y) : z \in S /\ z >= x
      BY <1>5, <3>1
    <3> QED BY <1>4, <3>2, <3>3
  <2>2. Above(y) \in T /\ Above(y) \in SUBSET S /\ A \in SUBSET S
    BY <1>4
  <2>3. <<Above(y), A>> \in StrictSubsetOrdering(S)
    BY <2>1, <2>2 DEF StrictSubsetOrdering
  <2> QED BY <1>3, <2>2, <2>3
<1> QED BY <1>5

\* Some member has exactly n smaller ones, for every n below the cardinality.
LEMMA Ranked ==
    ASSUME NEW S \in SUBSET Nat, IsFiniteSet(S), NEW n \in Nat, n < Cardinality(S)
    PROVE  \E x \in S : Cardinality({y \in S : y < x}) = n
<1> DEFINE Below(x) == {y \in S : y < x}
           X == {x \in S : Cardinality(Below(x)) >= n}
           T == {Below(x) : x \in X}
<1>1. \A x \in S : Below(x) \in SUBSET S /\ IsFiniteSet(Below(x)) /\ Cardinality(Below(x)) \in Nat
  <2>1. \A x \in S : Below(x) \in SUBSET S /\ IsFiniteSet(Below(x))
    BY FS_Subset
  <2> HIDE DEF Below
  <2> QED BY <2>1, FS_CardinalityType
<1>2. \A x, y \in S : y \in Below(x) <=> y < x
  OBVIOUS
<1> HIDE DEF Below
<1>3. T \subseteq FiniteSubsetsOf(S) /\ T # {}
  <2>1. S # {} /\ Cardinality(S) \in Nat
    BY FS_EmptySet, FS_CardinalityType
  <2>2. PICK m \in S : \A y \in S : y <= m
    BY <2>1, Greatest
  <2>3. Below(m) = S \ {m}
    <3>1. \A y \in S : y \in Nat /\ m \in Nat /\ (y < m <=> y # m)
      BY <2>2
    <3> QED BY <1>1, <1>2, <3>1
  <2>4. Cardinality(Below(m)) = Cardinality(S) - 1
    BY <2>2, <2>3, FS_RemoveElement
  <2>5. m \in X
    BY <2>1, <2>4
  <2> QED BY <1>1, <2>5 DEF FiniteSubsetsOf
<1>4. IsWellFoundedOn(StrictSubsetOrdering(S), FiniteSubsetsOf(S))
  BY FS_StrictSubsetOrderingWellFounded
<1>5. PICK A \in T : \A B \in T : ~(<<B, A>> \in StrictSubsetOrdering(S))
  <2> HIDE DEF T
  <2> QED BY <1>3, <1>4, WFMin
<1>6. PICK x \in S : A = Below(x) /\ Cardinality(Below(x)) >= n
  OBVIOUS
<1>7. ASSUME Cardinality(A) # n PROVE FALSE
  <2>1. /\ Cardinality(A) > n /\ Cardinality(A) \in Nat
        /\ IsFiniteSet(A) /\ A \in SUBSET S /\ A \in SUBSET Nat
    <3>1. /\ Below(x) \in SUBSET S /\ IsFiniteSet(Below(x)) /\ Cardinality(Below(x)) \in Nat
          /\ Cardinality(Below(x)) >= n
      BY <1>1, <1>6
    <3>2. A \in SUBSET S /\ IsFiniteSet(A) /\ Cardinality(A) \in Nat /\ Cardinality(A) >= n
      BY <1>6, <3>1
    <3>3. Cardinality(A) > n
      BY <1>7, <3>2
    <3> QED BY <3>2, <3>3
  <2>2. A # {}
    BY <2>1, FS_EmptySet
  <2>3. PICK z \in A : \A y \in A : y <= z
    BY <2>1, <2>2, Greatest
  <2>4. z \in S /\ Below(z) = A \ {z}
    <3>1. \A y \in S : y \in Nat /\ z \in Nat /\ x \in Nat
      BY <2>1
    <3>2. z \in S /\ z < x
      BY <1>2, <1>6, <2>1
    <3>3. \A y \in S : y < z <=> (y \in A /\ y # z)
      BY <1>2, <1>6, <2>3, <3>1, <3>2
    <3> QED BY <1>1, <1>2, <2>1, <3>2, <3>3
  <2>5. Cardinality(Below(z)) = Cardinality(A) - 1
    BY <2>1, <2>4, FS_RemoveElement
  <2>6. Below(z) \in T
    BY <2>1, <2>4, <2>5
  <2>7. <<Below(z), A>> \in StrictSubsetOrdering(S)
    BY <2>1, <2>4 DEF StrictSubsetOrdering
  <2> QED BY <1>5, <2>6, <2>7
<1> QED BY <1>6, <1>7 DEF Below

\* Sorted lists the members of a finite set.
LEMMA SortedType ==
    ASSUME NEW S \in SUBSET Nat, IsFiniteSet(S)
    PROVE  Cardinality(S) \in Nat /\ \A k \in 1..Cardinality(S) : Sorted(S)[k] \in S
<1>1. Cardinality(S) \in Nat
  BY FS_CardinalityType
<1>2. ASSUME NEW k \in 1..Cardinality(S)
      PROVE  (CHOOSE x \in S : Cardinality({y \in S : y < x}) = k - 1) \in S
  <2>1. k - 1 \in Nat /\ k - 1 < Cardinality(S)
    BY <1>1
  <2>2. \E x \in S : Cardinality({y \in S : y < x}) = k - 1
    BY <2>1, Ranked
  <2> QED BY <2>2
<1>3. Sorted(S) \in [1..Cardinality(S) -> S]
  BY <1>2 DEF Sorted
<1> QED BY <1>1, <1>3

-----------------------------------------------------------------------------
(* The rows *)

\* The row of an object.
LEMMA RowOfType ==
    ASSUME NEW o \in ObjectSet, NEW l \in Nat \cup {None}, NEW s \in Nat, NEW i \in Nat,
           l # None => i # 0
    PROVE  RowOf(o, l, s, i) \in RowSet
BY DEF RowOf, ObjectSet, RowSet, WellNamed

\* append leaves a finite table of rows.
LEMMA AppendedType ==
    ASSUME NEW R \in SUBSET RowSet, IsFiniteSet(R), index \in Nat,
           NEW os \in Seq(ObjectSet), NEW l \in Nat, NEW n \in Nat
    PROVE  Appended(R, os, l, n) \in SUBSET RowSet /\ IsFiniteSet(Appended(R, os, l, n))
<1> DEFINE kept == {r \in R : \A k \in 1..Len(os) : ~Same(r, os[k])}
           f == [k \in 1..Len(os) |-> RowOf(os[k], l, n + k, index + k)]
           new == {RowOf(os[k], l, n + k, index + k) : k \in 1..Len(os)}
<1>1. kept \in SUBSET R /\ IsFiniteSet(kept)
  BY FS_Subset
<1>2. Len(os) \in Nat /\ IsFiniteSet(1..Len(os))
  BY FS_Interval
<1>3. new \in SUBSET RowSet
  BY <1>2, RowOfType
<1>4. f \in Surjection(1..Len(os), new)
  BY DEF Surjection
<1>5. IsFiniteSet(new)
  <2> HIDE DEF f, new
  <2> QED BY <1>2, <1>4, FS_Surjection
<1>6. IsFiniteSet(kept \cup new)
  <2> HIDE DEF kept, new
  <2> QED BY <1>1, <1>5, FS_Union
<1>7. Appended(R, os, l, n) = kept \cup new
  BY DEF Appended
<1> HIDE DEF kept, new
<1> QED BY <1>1, <1>3, <1>6, <1>7

\* A row that loses its body or its entry is a row.
LEMMA RowEdited ==
    ASSUME NEW r \in RowSet, NEW b \in BOOLEAN, NEW n \in BOOLEAN
    PROVE  [r EXCEPT !.body = b, !.entry = n] \in RowSet
<1> DEFINE All == [kind: Kinds, id: Nat, epoch: Nat, to: Nat, log: Nat \cup {None}, seq: Nat,
                   idx: Nat, body: BOOLEAN, entry: BOOLEAN]
           s == [r EXCEPT !.body = b, !.entry = n]
<1>1. r \in All /\ WellNamed(r) /\ (r.log # None => r.idx # 0)
  BY DEF RowSet
<1>2. s \in All
  BY <1>1
<1>3. s.kind = r.kind /\ s.id = r.id /\ s.epoch = r.epoch /\ s.to = r.to /\ s.log = r.log /\ s.idx = r.idx
  BY <1>1
<1> HIDE DEF s
<1>4. WellNamed(s) /\ (s.log # None => s.idx # 0)
  BY <1>1, <1>3 DEF WellNamed
<1>5. s \in RowSet
  BY <1>2, <1>4 DEF RowSet
<1> QED BY <1>5 DEF s

\* expire leaves a finite table of rows.
LEMMA ExpiredType ==
    ASSUME NEW R \in SUBSET RowSet, IsFiniteSet(R), NEW E, NEW m
    PROVE  Expired(R, E, m) \in SUBSET RowSet /\ IsFiniteSet(Expired(R, E, m))
<1> DEFINE g(r) == [r EXCEPT !.body = r.body /\ ~(r.kind = "envelope" /\ r.epoch \in E),
                      !.entry = r.entry /\ ~(r.kind = "envelope" /\ r.epoch \in E /\ r.seq < m)]
           new == {g(r) : r \in R}
           f == [r \in R |-> g(r)]
<1>1. \A r \in R : g(r) \in RowSet
  <2>1. SUFFICES ASSUME NEW r \in R PROVE g(r) \in RowSet
    OBVIOUS
  <2>2. (r.body /\ ~(r.kind = "envelope" /\ r.epoch \in E)) \in BOOLEAN /\ (r.entry /\ ~(r.kind = "envelope" /\ r.epoch \in E /\ r.seq < m)) \in BOOLEAN
    BY Zenon
  <2>3. r \in RowSet
    OBVIOUS
  <2> QED BY <2>2, <2>3, RowEdited
<1>2. Expired(R, E, m) = new
  BY DEF Expired
<1> HIDE DEF g
<1>3. f \in Surjection(R, new)
  BY DEF Surjection
<1>4. new \in SUBSET RowSet
  BY <1>1
<1>5. IsFiniteSet(new)
  <2> HIDE DEF f, new
  <2> QED BY <1>3, FS_Surjection
<1> HIDE DEF new
<1> QED BY <1>2, <1>4, <1>5

\* prune leaves a finite table of rows.
LEMMA PrunedType ==
    ASSUME NEW R \in SUBSET RowSet, IsFiniteSet(R), NEW through
    PROVE  Pruned(R, through) \in SUBSET RowSet /\ IsFiniteSet(Pruned(R, through))
<1> DEFINE g(r) == [r EXCEPT !.body = r.body /\ ~(r.kind = "record" /\ r.log = log /\ r.seq <= through),
                      !.entry = r.entry /\ ~(r.kind = "record" /\ r.log = log /\ r.seq <= through)]
           new == {g(r) : r \in R}
           f == [r \in R |-> g(r)]
<1>1. \A r \in R : g(r) \in RowSet
  <2>1. SUFFICES ASSUME NEW r \in R PROVE g(r) \in RowSet
    OBVIOUS
  <2>2. (r.body /\ ~(r.kind = "record" /\ r.log = log /\ r.seq <= through)) \in BOOLEAN /\ (r.entry /\ ~(r.kind = "record" /\ r.log = log /\ r.seq <= through)) \in BOOLEAN
    BY Zenon
  <2>3. r \in RowSet
    OBVIOUS
  <2> QED BY <2>2, <2>3, RowEdited
<1>2. Pruned(R, through) = new
  BY DEF Pruned
<1> HIDE DEF g
<1>3. f \in Surjection(R, new)
  BY DEF Surjection
<1>4. new \in SUBSET RowSet
  BY <1>1
<1>5. IsFiniteSet(new)
  <2> HIDE DEF f, new
  <2> QED BY <1>3, FS_Surjection
<1> HIDE DEF new
<1> QED BY <1>2, <1>4, <1>5

\* The objects of every request are well named.
LEMMA ObjectType ==
    ASSUME NEW kind \in Kinds, kind # "envelope", NEW id \in Nat, NEW e \in Nat, NEW to \in Nat,
           kind \in {"compaction", "part", "record"} => id # 0
    PROVE  Object(kind, id, e, to) \in ObjectSet
BY DEF Object, ObjectSet, WellNamed

\* An envelope is an object.
LEMMA EnvelopeType ==
    ASSUME NEW e \in Nat, NEW to \in 0..9
    PROVE  Envelope(e, to) \in ObjectSet
<1>1. 10 * e + to \in Nat /\ to \in Nat
  OBVIOUS
<1> DEFINE n == 10 * e + to
           o == [kind |-> "envelope", id |-> n, epoch |-> e, to |-> to]
<1>2. Envelope(e, to) = o
  BY DEF Envelope, Object
<1>3. o.kind = "envelope" /\ o.to \in 0..9 /\ o.id = 10 * o.epoch + o.to
  OBVIOUS
<1>4. o \in [kind: Kinds, id: Nat, epoch: Nat, to: Nat]
  <2> HIDE DEF n
  <2>1. n \in Nat
    BY <1>1 DEF n
  <2> QED BY <1>1, <2>1 DEF Kinds
<1> HIDE DEF o
<1> QED BY <1>2, <1>3, <1>4 DEF ObjectSet, WellNamed

\* A device record is an object.
LEMMA DeviceType ==
    ASSUME NEW d \in Devices
    PROVE  Device(d) \in ObjectSet /\ d \in 0..9
<1>1. d \in 0..9 /\ d \in Nat /\ 0 \in Nat
  BY PagingAssumption
<1>2. "device" \in Kinds /\ "device" # "envelope"
  BY DEF Kinds
<1>3. Object("device", d, 0, 0) \in ObjectSet
  BY <1>1, <1>2, ObjectType
<1> QED BY <1>1, <1>3 DEF Device

\* Sets of devices are finite.
LEMMA DeviceSets ==
    ASSUME NEW M \in SUBSET Devices
    PROVE  /\ M \in SUBSET Nat /\ IsFiniteSet(M) /\ Cardinality(M) \in Nat
           /\ \A k \in 1..Cardinality(M) : Sorted(M)[k] \in M
<1>1. M \in SUBSET Nat /\ M \in SUBSET (1..9)
  BY PagingAssumption
<1>2. IsFiniteSet(1..9)
  <2>1. 1 \in Int /\ 9 \in Int
    OBVIOUS
  <2> QED BY <2>1, FS_Interval
<1>3. IsFiniteSet(M)
  BY <1>1, <1>2, FS_Subset
<1> QED BY <1>1, <1>3, SortedType

\* The envelopes of an epoch are objects.
LEMMA EnvelopesType ==
    ASSUME NEW e \in Nat, NEW M \in SUBSET Devices
    PROVE  Envelopes(e, M) \in Seq(ObjectSet)
<1> DEFINE s == [k \in 1..Cardinality(M) |-> Envelope(e, Sorted(M)[k])]
<1>1. Cardinality(M) \in Nat /\ \A k \in 1..Cardinality(M) : Sorted(M)[k] \in Devices
  BY DeviceSets
<1>2. \A k \in 1..Cardinality(M) : Envelope(e, Sorted(M)[k]) \in ObjectSet
  BY <1>1, DeviceType, EnvelopeType
<1>3. s \in Seq(ObjectSet)
  BY <1>1, <1>2
<1>4. Envelope(e, 0) \in ObjectSet
  BY EnvelopeType
<1>5. <<Envelope(e, 0)>> \in Seq(ObjectSet)
  BY <1>4
<1>6. s \o <<Envelope(e, 0)>> \in Seq(ObjectSet)
  <2> HIDE DEF s
  <2> QED BY <1>3, <1>5, ConcatProperties
<1> QED BY <1>6 DEF Envelopes

\* The records of new devices are objects.
LEMMA DeviceRecordsType ==
    ASSUME NEW D \in SUBSET Devices
    PROVE  DeviceRecords(D) \in Seq(ObjectSet)
<1>1. Cardinality(D) \in Nat /\ \A k \in 1..Cardinality(D) : Sorted(D)[k] \in Devices
  BY DeviceSets
<1>2. \A k \in 1..Cardinality(D) : Device(Sorted(D)[k]) \in ObjectSet
  BY <1>1, DeviceType
<1> QED BY <1>1, <1>2 DEF DeviceRecords

\* The staged objects are objects.
LEMMA StagedObjectsType ==
    ASSUME RowsTyped
    PROVE  StagedObjects \in Seq(ObjectSet)
<1> DEFINE D == StagedDevices
           E == StagedEnvelopes
           devices == DeviceRecords(D)
           envelopes == [k \in 1..Cardinality(E) |-> Envelope(Sorted(E)[k] \div 10, Sorted(E)[k] % 10)]
<1>1. D \in SUBSET Devices
  BY DEF StagedDevices
<1>2. E \in SUBSET Nat /\ IsFiniteSet(E)
  <2> DEFINE Q == {q \in rows : q.kind = "envelope" /\ q.log = None}
             f == [r \in Q |-> r.id]
  <2>1. Q \in SUBSET rows /\ IsFiniteSet(Q)
    BY FS_Subset DEF RowsTyped
  <2>2. E = {r.id : r \in Q}
    BY DEF StagedEnvelopes
  <2>3. \A r \in Q : r.id \in Nat
    BY DEF RowsTyped, RowSet
  <2> HIDE DEF Q, E
  <2>4. f \in Surjection(Q, E)
    BY <2>2 DEF Surjection
  <2>5. IsFiniteSet(E)
    <3> HIDE DEF f
    <3> QED BY <2>1, <2>4, FS_Surjection
  <2> QED BY <2>2, <2>3, <2>5
<1> HIDE DEF D, E
<1>3. devices \in Seq(ObjectSet)
  BY <1>1, DeviceRecordsType
<1>4. envelopes \in Seq(ObjectSet)
  <2>1. Cardinality(E) \in Nat /\ \A k \in 1..Cardinality(E) : Sorted(E)[k] \in E
    BY <1>2, SortedType
  <2>3. \A k \in 1..Cardinality(E) : Sorted(E)[k] \in Nat
    BY <1>2, <2>1
  <2>4. \A n \in Nat : n \div 10 \in Nat /\ n % 10 \in 0..9
    OBVIOUS
  <2>5. \A k \in 1..Cardinality(E) :
          Envelope(Sorted(E)[k] \div 10, Sorted(E)[k] % 10) \in ObjectSet
    BY <2>3, <2>4, EnvelopeType
  <2> QED BY <2>1, <2>5
<1>5. StagedObjects = devices \o envelopes
  BY DEF StagedObjects, D, E
<1> HIDE DEF devices, envelopes
<1> QED BY <1>3, <1>4, <1>5, ConcatProperties

\* The objects of a rotation for members M, of whom D are new.
TurnObjects(D, M, signed) ==
    DeviceRecords(D) \o Envelopes(epoch + 1, M)
      \o Operation(signed, index + Cardinality(D) + Cardinality(M) + 2)
      \o <<Object("epoch", epoch + 1, epoch + 1, 0)>>

\* They are objects.
LEMMA TurnType ==
    ASSUME epoch \in Nat, index \in Nat, NEW D \in SUBSET Devices, NEW M \in SUBSET Devices,
           NEW signed \in BOOLEAN
    PROVE  TurnObjects(D, M, signed) \in Seq(ObjectSet)
<1>1. PICK n : n = index + Cardinality(D) + Cardinality(M) + 2
  OBVIOUS
<1>2. n \in Nat /\ epoch + 1 \in Nat /\ 0 \in Nat
  <2>1. Cardinality(D) \in Nat /\ Cardinality(M) \in Nat
    BY DeviceSets
  <2> QED BY <1>1, <2>1
<1>3. "epoch" \in Kinds /\ "epoch" # "envelope" /\ "admin" \in Kinds /\ "admin" # "envelope"
  BY DEF Kinds
<1> DEFINE v == DeviceRecords(D)
           a == Envelopes(epoch + 1, M)
           c == Operation(signed, n)
           b == <<Object("epoch", epoch + 1, epoch + 1, 0)>>
<1>4. v \in Seq(ObjectSet) /\ a \in Seq(ObjectSet)
  BY <1>2, DeviceRecordsType, EnvelopesType
<1>5. c \in Seq(ObjectSet)
  <2>1. Object("admin", n, epoch, 0) \in ObjectSet
    BY <1>2, <1>3, ObjectType
  <2> QED BY <2>1 DEF Operation
<1>6. b \in Seq(ObjectSet)
  <2>1. Object("epoch", epoch + 1, epoch + 1, 0) \in ObjectSet
    BY <1>2, <1>3, ObjectType
  <2> QED BY <2>1
<1>7. TurnObjects(D, M, signed) = v \o a \o c \o b
  BY <1>1 DEF TurnObjects
<1> HIDE DEF v, a, c, b
<1>8. v \o a \in Seq(ObjectSet)
  BY <1>4, ConcatProperties
<1>9. v \o a \o c \in Seq(ObjectSet)
  BY <1>5, <1>8, ConcatProperties
<1>10. v \o a \o c \o b \in Seq(ObjectSet)
  BY <1>6, <1>9, ConcatProperties
<1> QED BY <1>7, <1>10

-----------------------------------------------------------------------------
(* Writes *)

\* append keeps the types of the chain row and the rows.
LEMMA AppendAllKept ==
    ASSUME Counters, RowsTyped, NEW os \in Seq(ObjectSet), AppendAll(os)
    PROVE  head' \in Nat /\ index' \in Nat /\ RowsTyped'
<1>1. Len(os) \in Nat
  OBVIOUS
<1>2. rows' = Appended(rows, os, log, head) /\ head' = head + Len(os) /\ index' = index + Len(os)
  BY DEF AppendAll
<1>3. rows' \in SUBSET RowSet /\ IsFiniteSet(rows')
  BY <1>2, AppendedType DEF Counters, RowsTyped
<1> QED BY <1>1, <1>2, <1>3 DEF Counters, RowsTyped

\* stage keeps them.
LEMMA StageKept ==
    ASSUME Counters, RowsTyped, NEW D \in SUBSET Devices, Stage(D)
    PROVE  RowsTyped'
<1> DEFINE devices == {RowOf(Device(d), None, 0, 0) : d \in D}
           envelopes == {RowOf(Envelope(epoch, d), None, 0, 0) : d \in D}
           f == [d \in D |-> RowOf(Device(d), None, 0, 0)]
           g == [d \in D |-> RowOf(Envelope(epoch, d), None, 0, 0)]
<1>1. IsFiniteSet(D)
  BY DeviceSets
<1>2. 0 \in Nat /\ None \in Nat \cup {None} /\ epoch \in Nat
  BY DEF Counters
<1>3. devices \in SUBSET RowSet
  BY <1>2, DeviceType, RowOfType
<1>4. envelopes \in SUBSET RowSet
  <2>1. SUFFICES ASSUME NEW d \in D PROVE RowOf(Envelope(epoch, d), None, 0, 0) \in RowSet
    OBVIOUS
  <2>2. Envelope(epoch, d) \in ObjectSet
    BY <1>2, DeviceType, EnvelopeType
  <2> QED BY <1>2, <2>2, RowOfType
<1>5. f \in Surjection(D, devices) /\ g \in Surjection(D, envelopes)
  BY DEF Surjection
<1>6. IsFiniteSet(devices) /\ IsFiniteSet(envelopes)
  <2> HIDE DEF devices, envelopes, f, g
  <2>1. IsFiniteSet(devices)
    BY <1>1, <1>5, FS_Surjection
  <2>2. IsFiniteSet(envelopes)
    BY <1>1, <1>5, FS_Surjection
  <2> QED BY <2>1, <2>2
<1>7. rows' = rows \cup devices \cup envelopes
  BY DEF Stage
<1> HIDE DEF devices, envelopes
<1>8. IsFiniteSet(rows \cup devices)
  BY <1>6, FS_Union DEF RowsTyped
<1>9. IsFiniteSet(rows \cup devices \cup envelopes)
  BY <1>6, <1>8, FS_Union
<1> QED BY <1>3, <1>4, <1>7, <1>9 DEF RowsTyped

\* prune keeps them.
LEMMA PruneKept ==
    ASSUME Counters, RowsTyped, NEW c, NEW through, NEW E, Prune(c, through, E)
    PROVE  Counters' /\ RowsTyped'
<1> DEFINE os == <<Object("admin", index + 1, epoch, 0)>>
           R == Appended(rows, os, log, head)
           Q == Pruned(R, through)
<1>1. /\ rows' = Expired(Q, E, through + 1)
      /\ head' = head + 1 /\ index' = index + 2 /\ UNCHANGED <<log, epoch>>
  BY DEF Prune
<1>2. Object("admin", index + 1, epoch, 0) \in ObjectSet
  <2>1. "admin" \in Kinds /\ "admin" # "envelope" /\ index + 1 \in Nat /\ epoch \in Nat /\ 0 \in Nat
    BY DEF Kinds, Counters
  <2> QED BY <2>1, ObjectType
<1>3. os \in Seq(ObjectSet)
  BY <1>2
<1> HIDE DEF os
<1>4. R \in SUBSET RowSet /\ IsFiniteSet(R)
  BY <1>3, AppendedType DEF Counters, RowsTyped
<1> HIDE DEF R
<1>5. Q \in SUBSET RowSet /\ IsFiniteSet(Q)
  BY <1>4, PrunedType
<1> HIDE DEF Q
<1>6. rows' \in SUBSET RowSet /\ IsFiniteSet(rows')
  BY <1>1, <1>5, ExpiredType
<1> QED BY <1>1, <1>6 DEF Counters, RowsTyped

\* reseed keeps them.
LEMMA ReseedKept ==
    ASSUME Counters, RowsTyped, NEW d \in Devices, Reseed(d)
    PROVE  Counters' /\ RowsTyped'
<1> DEFINE n == index + Len(StagedObjects)
           genesis == <<Object("parameters", log + 2, 0, 0), Device(d)>>
           envelopes == Envelopes(epoch + 1, {d})
           admin == <<Object("admin", n + 5, epoch, 0)>>
           opened == <<Object("epoch", epoch + 1, epoch + 1, 0)>>
           compaction == <<Object("compaction", n + 7, epoch + 1, 0)>>
           os == StagedObjects \o genesis \o envelopes \o admin \o opened \o compaction
<1>1. /\ rows' = Appended(rows, os, log + 1, 0)
      /\ head' = Len(os) /\ index' = index + Len(os)
      /\ log' = log + 1 /\ epoch' = epoch + 1
  BY DEF Reseed
<1>0. StagedObjects \in Seq(ObjectSet) /\ Len(StagedObjects) \in Nat
  BY StagedObjectsType
<1>2. /\ log + 2 \in Nat /\ log + 1 \in Nat /\ n + 5 \in Nat /\ n + 7 \in Nat /\ n + 7 # 0 /\ epoch + 1 \in Nat
      /\ epoch \in Nat /\ 0 \in Nat /\ index \in Nat
  BY <1>0 DEF Counters
<1> HIDE DEF n
<1>3. genesis \in Seq(ObjectSet)
  <2>1. "parameters" \in Kinds /\ "parameters" # "envelope"
    BY DEF Kinds
  <2>2. Object("parameters", log + 2, 0, 0) \in ObjectSet
    BY <1>2, <2>1, ObjectType
  <2>3. Device(d) \in ObjectSet
    BY DeviceType
  <2> QED BY <2>2, <2>3
<1>4. envelopes \in Seq(ObjectSet)
  BY <1>2, EnvelopesType
<1>5. admin \in Seq(ObjectSet)
  <2>1. "admin" \in Kinds /\ "admin" # "envelope"
    BY DEF Kinds
  <2>2. Object("admin", n + 5, epoch, 0) \in ObjectSet
    BY <1>2, <2>1, ObjectType
  <2> QED BY <2>2
<1>6. opened \in Seq(ObjectSet)
  <2>1. "epoch" \in Kinds /\ "epoch" # "envelope"
    BY DEF Kinds
  <2>2. Object("epoch", epoch + 1, epoch + 1, 0) \in ObjectSet
    BY <1>2, <2>1, ObjectType
  <2> QED BY <2>2
<1>7. compaction \in Seq(ObjectSet)
  <2>1. "compaction" \in Kinds /\ "compaction" # "envelope"
    BY DEF Kinds
  <2>2. Object("compaction", n + 7, epoch + 1, 0) \in ObjectSet
    BY <1>2, <2>1, ObjectType
  <2> QED BY <2>2
<1>8. StagedObjects \in Seq(ObjectSet)
  BY <1>0
<1>9. os \in Seq(ObjectSet)
  <2> HIDE DEF genesis, envelopes, admin, opened, compaction
  <2>1. StagedObjects \o genesis \in Seq(ObjectSet)
    BY <1>3, <1>8, ConcatProperties
  <2>2. StagedObjects \o genesis \o envelopes \in Seq(ObjectSet)
    BY <1>4, <2>1, ConcatProperties
  <2>3. StagedObjects \o genesis \o envelopes \o admin \in Seq(ObjectSet)
    BY <1>5, <2>2, ConcatProperties
  <2>4. StagedObjects \o genesis \o envelopes \o admin \o opened \in Seq(ObjectSet)
    BY <1>6, <2>3, ConcatProperties
  <2> QED BY <1>7, <2>4, ConcatProperties
<1> HIDE DEF os
<1>10. Len(os) \in Nat
  BY <1>9
<1>11. rows' \in SUBSET RowSet /\ IsFiniteSet(rows')
  BY <1>1, <1>2, <1>9, AppendedType DEF RowsTyped
<1> QED BY <1>1, <1>2, <1>10, <1>11 DEF Counters, RowsTyped

\* Every write leaves well-named rows, and the reader alone.
LEMMA WriteKept ==
    ASSUME Counters, RowsTyped, Write
    PROVE  Counters' /\ RowsTyped' /\ reader' = reader
<1>0. log \in Nat /\ head \in Nat /\ index \in Nat /\ epoch \in Nat /\ 0 \in Nat
  BY DEF Counters
<1>1. ASSUME NEW i \in RecordIds, UploadRecord(i)
      PROVE  Counters' /\ RowsTyped' /\ reader' = reader
  <2>1. "record" \in Kinds /\ "record" # "envelope" /\ i \in Nat /\ i # 0
    BY PagingAssumption DEF Kinds
  <2>2. Object("record", i, epoch, 0) \in ObjectSet
    BY <1>0, <2>1, ObjectType
  <2>3. <<Object("record", i, epoch, 0)>> \in Seq(ObjectSet)
    BY <2>2
  <2>4. AppendAll(<<Object("record", i, epoch, 0)>>) /\ UNCHANGED <<log, epoch, reader>>
    BY <1>1 DEF UploadRecord
  <2> QED BY <1>0, <2>3, <2>4, AppendAllKept DEF Counters
<1>2. ASSUME NEW i \in RecordIds, UploadPart(i)
      PROVE  Counters' /\ RowsTyped' /\ reader' = reader
  <2> DEFINE r == RowOf(Object("part", i, epoch, 0), None, 0, index + 1)
  <2>1. "part" \in Kinds /\ "part" # "envelope" /\ i \in Nat /\ i # 0
    BY PagingAssumption DEF Kinds
  <2>2. Object("part", i, epoch, 0) \in ObjectSet
    BY <1>0, <2>1, ObjectType
  <2>3. None \in Nat \cup {None} /\ index + 1 \in Nat
    BY <1>0
  <2>4. r \in RowSet
    BY <1>0, <2>2, <2>3, RowOfType
  <2>5. rows' = rows \cup {r} /\ index' = index + 1 /\ UNCHANGED <<log, head, epoch, reader>>
    BY <1>2 DEF UploadPart
  <2> HIDE DEF r
  <2>6. IsFiniteSet(rows \cup {r})
    BY FS_AddElement DEF RowsTyped
  <2> QED BY <1>0, <2>4, <2>5, <2>6 DEF Counters, RowsTyped
<1>3. ASSUME NEW d \in Devices, Enroll(d)
      PROVE  Counters' /\ RowsTyped' /\ reader' = reader
  <2>1. Device(d) \in ObjectSet /\ Envelope(epoch, d) \in ObjectSet
    BY <1>0, DeviceType, EnvelopeType
  <2>2. <<Device(d), Envelope(epoch, d)>> \in Seq(ObjectSet)
    BY <2>1
  <2>3. AppendAll(<<Device(d), Envelope(epoch, d)>>) /\ UNCHANGED <<log, epoch, reader>>
    BY <1>3 DEF Enroll
  <2> QED BY <1>0, <2>2, <2>3, AppendAllKept DEF Counters
<1>4. ASSUME NEW d \in Devices, Ack(d)
      PROVE  Counters' /\ RowsTyped' /\ reader' = reader
  BY <1>4 DEF Ack, chain, Counters, RowsTyped
<1>5. ASSUME NEW d \in Devices, Reseed(d)
      PROVE  Counters' /\ RowsTyped' /\ reader' = reader
  <2>1. reader' = reader
    BY <1>5 DEF Reseed
  <2> QED BY <1>5, <2>1, ReseedKept
<1>6. ASSUME NEW R \in SUBSET Devices, NEW D \in SUBSET Devices, NEW signed \in BOOLEAN, Rotate(R, D, signed)
      PROVE  Counters' /\ RowsTyped' /\ reader' = reader
  <2>1. PICK M : M = (Members \ R) \cup D
    OBVIOUS
  <2>2. M \in SUBSET Devices
    BY <2>1 DEF Members
  <2>3. /\ AppendAll(TurnObjects(D, M, signed)) /\ epoch' = epoch + 1
        /\ UNCHANGED <<log, reader>>
    BY <1>6, <2>1 DEF Rotate, TurnObjects
  <2>4. TurnObjects(D, M, signed) \in Seq(ObjectSet)
    BY <1>0, <2>2, TurnType
  <2>5. head' \in Nat /\ index' \in Nat /\ RowsTyped'
    BY <2>3, <2>4, AppendAllKept
  <2> QED BY <1>0, <2>3, <2>5 DEF Counters
<1>7. ASSUME NEW D \in SUBSET Devices, Stage(D)
      PROVE  Counters' /\ RowsTyped' /\ reader' = reader
  <2>1. RowsTyped'
    BY <1>7, StageKept
  <2>2. UNCHANGED <<chain, reader>>
    BY <1>7 DEF Stage
  <2> QED BY <1>0, <2>1, <2>2 DEF chain, Counters
<1>8. ASSUME Snapshot
      PROVE  Counters' /\ RowsTyped' /\ reader' = reader
  <2>1. "compaction" \in Kinds /\ "compaction" # "envelope" /\ index + 1 \in Nat
    BY <1>0 DEF Kinds
  <2>2. Object("compaction", index + 1, epoch, head) \in ObjectSet
    BY <1>0, <2>1, ObjectType
  <2>3. <<Object("compaction", index + 1, epoch, head)>> \in Seq(ObjectSet)
    BY <2>2
  <2>4. AppendAll(<<Object("compaction", index + 1, epoch, head)>>) /\ UNCHANGED <<log, epoch, reader>>
    BY <1>8 DEF Snapshot
  <2> QED BY <1>0, <2>3, <2>4, AppendAllKept DEF Counters
<1>9. ASSUME NEW c \in rows, NEW E \in SUBSET (0..epoch), NEW through \in {min, c.to},
             Prune(c, through, E)
      PROVE  Counters' /\ RowsTyped' /\ reader' = reader
  <2>1. reader' = reader
    BY <1>9 DEF Prune
  <2> QED BY <1>9, <2>1, PruneKept
<1>10. ASSUME NEW E \in SUBSET (0..epoch), Maintenance(E)
       PROVE  Counters' /\ RowsTyped' /\ reader' = reader
  <2>1. rows' = Expired(rows, E, min) /\ UNCHANGED <<chain, reader>>
    BY <1>10 DEF Maintenance
  <2>2. rows' \in SUBSET RowSet /\ IsFiniteSet(rows')
    BY <2>1, ExpiredType DEF RowsTyped
  <2> QED BY <1>0, <2>1, <2>2 DEF chain, Counters, RowsTyped
<1>11. ASSUME NEW q \in RequestIds, OfferStep(q)
       PROVE  Counters' /\ RowsTyped' /\ reader' = reader
  <2>1. UNCHANGED <<chain, rows, reader>>
    BY <1>11 DEF OfferStep
  <2> QED BY <1>0, <2>1 DEF chain, Counters, RowsTyped
<1> QED
  BY <1>1, <1>2, <1>3, <1>4, <1>5, <1>6, <1>7, <1>8, <1>9, <1>10, <1>11, Zenon DEF Write

-----------------------------------------------------------------------------
(* Pages *)

\* The items that the reader of p may not have.
Spared(p, items) ==
    /\ p.res \in {"log", "envelopes"} /\ p.device # None =>
         \A e \in Nat : <<"envelope", 10 * e>> \notin items
    /\ p.res = "export" /\ ~p.include =>
         \A e \in Nat, phase \in {0, 3, 6} : <<phase, "envelope", 10 * e>> \notin items

\* An envelope whose id ends in 0 is a recovery envelope.
LEMMA NamesRecovery ==
    ASSUME NEW r \in RowSet, NEW e \in Nat, r.kind = "envelope", r.id = 10 * e
    PROVE  r.to = 0 /\ IsRecovery(r)
<1>1. r.to \in 0..9 /\ r.epoch \in Nat /\ 10 * e = 10 * r.epoch + r.to
  BY DEF RowSet, WellNamed
<1>2. r.to = 0
  BY <1>1
<1> QED BY <1>2 DEF IsRecovery

\* A failure gives nothing away.
LEMMA FailedSpared ==
    ASSUME NEW p, NEW code
    PROVE  Spared(p, Failed(code).items)
BY DEF Spared, Failed

\* A page of the log gives no recovery envelope to a device.
LEMMA LogSpared ==
    ASSUME RowsTyped, NEW p, p.res = "log"
    PROVE  Spared(p, Log(p).items)
<1> DEFINE scanned == FirstN({r \in rows : r.log = log /\ r.seq \in (p.at + 1)..p.cut.head}, Seq_, ScanLimit)
           selected == {r \in scanned : r.entry /\ (p.res = "log" \/ r.kind = "record")}
           items == FirstN(selected, Seq_, PageLimit)
           through == Reached(p.at, Keys(scanned, Seq_), Keys(items, Seq_), Keys(selected \ items, Seq_))
<1>1. scanned \subseteq rows
  BY DEF FirstN
<1> HIDE DEF scanned
<1>2. items \subseteq rows
  BY <1>1 DEF FirstN
<1>3. \/ Log(p) = Failed("LOG_PRUNED")
      \/ Log(p) = Failed("ENVELOPE_ACCESS_DENIED")
      \/ /\ ~Denied(p, items)
         /\ Log(p) = Answered({Line(r) : r \in items}, through, 0, through < p.cut.head)
  BY DEF Log, scanned
<1> HIDE DEF selected, items, through
<1>4. CASE Log(p) = Failed("LOG_PRUNED") \/ Log(p) = Failed("ENVELOPE_ACCESS_DENIED")
  BY <1>4, FailedSpared
<1>5. CASE /\ ~Denied(p, items)
           /\ Log(p) = Answered({Line(r) : r \in items}, through, 0, through < p.cut.head)
  <2>1. Log(p).items = {Line(r) : r \in items}
    BY <1>5 DEF Answered
  <2>2. ASSUME p.device # None, NEW e \in Nat, <<"envelope", 10 * e>> \in Log(p).items
        PROVE  FALSE
    <3>1. PICK r \in items : <<"envelope", 10 * e>> = <<r.kind, r.id>>
      BY <2>1, <2>2 DEF Line
    <3>2. r \in RowSet /\ r.kind = "envelope" /\ r.id = 10 * e
      BY <1>2, <3>1 DEF RowsTyped
    <3>3. IsRecovery(r)
      BY <3>2, NamesRecovery
    <3> QED BY <1>5, <2>2, <3>3 DEF Denied
  <2> QED BY <2>2 DEF Spared
<1> QED BY <1>3, <1>4, <1>5

\* A page of own envelopes has none.
LEMMA ObjectsSpared ==
    ASSUME RowsTyped, NEW p, p.res = "envelopes", p.device \in 1..9
    PROVE  Spared(p, Objects(p).items)
<1> DEFINE scanned == FirstN(After(p, p.at), Id, ScanLimit)
           selected == {r \in scanned : p.res = "envelopes" => r.to = p.device}
           items == FirstN(selected, Id, PageLimit)
           key == Reached(p.at, Keys(scanned, Id), Keys(items, Id), Keys(selected \ items, Id))
           more == items # selected \/ After(p, key) # {}
<1>1. scanned \subseteq rows
  BY DEF FirstN, After
<1> HIDE DEF scanned
<1>2. \A r \in items : r \in rows /\ r.to = p.device
  BY <1>1 DEF FirstN
<1>3. \/ \E code : Objects(p) = Failed(code)
      \/ Objects(p) = Answered(UNION {Wrapped(p, r) : r \in items}, key, 0, more)
  BY DEF Objects, scanned
<1> HIDE DEF selected, items, key, more
<1>4. CASE \E code : Objects(p) = Failed(code)
  BY <1>4, FailedSpared
<1>5. CASE Objects(p) = Answered(UNION {Wrapped(p, r) : r \in items}, key, 0, more)
  <2>1. Objects(p).items = UNION {Wrapped(p, r) : r \in items}
    BY <1>5 DEF Answered
  <2>2. \A r \in items : Wrapped(p, r) = {<<r.kind, r.id>>}
    BY DEF Wrapped, Line
  <2>3. ASSUME NEW e \in Nat, <<"envelope", 10 * e>> \in Objects(p).items
        PROVE  FALSE
    <3>1. PICK r \in items : <<"envelope", 10 * e>> = <<r.kind, r.id>>
      BY <2>1, <2>2, <2>3
    <3>2. r \in RowSet /\ r.kind = "envelope" /\ r.id = 10 * e /\ r.to = p.device
      BY <1>2, <3>1 DEF RowsTyped
    <3>3. r.to = 0
      BY <3>2, NamesRecovery
    <3> QED BY <3>2, <3>3
  <2> QED BY <2>3 DEF Spared
<1> QED BY <1>3, <1>4, <1>5

\* A chunk without include_recovery has none.
LEMMA ExportSpared ==
    ASSUME RowsTyped, NEW p, p.res = "export"
    PROVE  Spared(p, Export(p).items)
<1>1. \/ Export(p) = Failed("LOG_PRUNED")
      \/ Export(p) = Chunk(Left(p), FirstLines(Left(p), ChunkLimit))
  BY DEF Export
<1>2. CASE Export(p) = Failed("LOG_PRUNED")
  BY <1>2, FailedSpared
<1>3. CASE Export(p) = Chunk(Left(p), FirstLines(Left(p), ChunkLimit))
  <2> DEFINE items == FirstLines(Left(p), ChunkLimit)
  <2>1. items \subseteq Left(p)
    BY DEF FirstLines
  <2>2. Export(p).items = {x.line : x \in items}
    BY <1>3 DEF Chunk, Answered
  <2> HIDE DEF items
  <2>3. ASSUME ~p.include, NEW e \in Nat, NEW phase \in {0, 3, 6},
               <<phase, "envelope", 10 * e>> \in Export(p).items
        PROVE  FALSE
    <3>1. PICK z \in Left(p) : z.line = <<phase, "envelope", 10 * e>>
      BY <2>1, <2>2, <2>3
    <3>2. PICK f \in p.phase..9 : \E x \in Group(p, f) :
            /\ ~Dropped(p, f, x)
            /\ z = [phase |-> f, key |-> x.key, line |-> Written(p, f, x)]
      BY <3>1 DEF Left
    <3>3. PICK x \in Group(p, f) :
            /\ ~Dropped(p, f, x)
            /\ Written(p, f, x) = <<phase, "envelope", 10 * e>>
      BY <3>1, <3>2
    <3>4. ~(f > 7)
      BY <3>3 DEF Written
    <3>5. /\ ~(f = 0 /\ IsRecovery(x.row))
          /\ f = phase /\ x.row.kind = "envelope" /\ x.row.id = 10 * e
      BY <2>3, <3>3, <3>4 DEF Written
    <3>6. x.row \in rows
      BY <3>3, <3>5 DEF Group
    <3>7. IsRecovery(x.row)
      BY <3>5, <3>6, NamesRecovery DEF RowsTyped
    <3> QED BY <2>3, <3>3, <3>5, <3>7 DEF Dropped
  <2> QED BY <2>3 DEF Spared
<1> QED BY <1>1, <1>2, <1>3

\* No page has one for a device.
LEMMA RespondSpared ==
    ASSUME RowsTyped, NEW p, p.res = "envelopes" => p.device \in 1..9
    PROVE  Spared(p, Respond(p).items)
<1>1. CASE p.res = "log"
  <2>1. Respond(p) = Log(p)
    BY <1>1 DEF Respond, Kind
  <2> QED BY <1>1, <2>1, LogSpared
<1>2. CASE p.res = "envelopes"
  <2>1. Respond(p) = Objects(p)
    BY <1>2 DEF Respond, Kind
  <2> QED BY <1>2, <2>1, ObjectsSpared
<1>3. CASE p.res = "export"
  <2>1. Respond(p) = Export(p)
    BY <1>3 DEF Respond, Kind
  <2> QED BY <1>3, <2>1, ExportSpared
<1>4. CASE p.res \notin {"log", "envelopes", "export"}
  BY <1>4 DEF Spared
<1> QED BY <1>1, <1>2, <1>3, <1>4

\* One more page: what the reader had and what the page adds.
LEMMA ReceivedKept ==
    ASSUME NEW p, NEW a, NEW got, NEW count, NEW pages, NEW want,
           p.res = "envelopes" => p.device \in 1..9,
           Spared(p, got), Spared(p, a.items),
           reader' = Received(p, a, got, count, pages, want)
    PROVE  ReaderKept'
<1>1. /\ reader'.res = p.res /\ reader'.device = p.device /\ reader'.include = p.include
      /\ reader'.got = got \cup a.items
  BY DEF Received
<1>2. Spared(p, got \cup a.items)
  BY DEF Spared
<1> QED BY <1>1, <1>2 DEF Spared, ReaderKept

\* The first page.
LEMMA FirstPageKept ==
    ASSUME RowsTyped, NEW res, NEW device, NEW include, NEW after,
           res = "envelopes" => device \in 1..9,
           FirstPage(res, device, include, after)
    PROVE  ReaderKept'
<1> DEFINE cut == [log |-> log, head |-> head, index |-> index, min |-> min, boundary |-> boundary,
                   registry |-> Len(history), offers |-> Len(offers)]
           p == [res |-> res, device |-> device, include |-> include, cut |-> cut, at |-> after, phase |-> 0]
           want == IF res = "export" THEN {x.line : x \in Left(p)} ELSE Want(res, device, include, after)
<1>1. reader' = Received(p, Respond(p), {}, 0, 0, want)
  BY DEF FirstPage
<1>2. p.res = "envelopes" => p.device \in 1..9
  OBVIOUS
<1> HIDE DEF p, want
<1>3. Spared(p, {})
  BY DEF Spared
<1>4. Spared(p, Respond(p).items)
  BY <1>2, RespondSpared
<1> QED BY <1>1, <1>2, <1>3, <1>4, ReceivedKept

\* The reader's invariant, after a page.
LEMMA ReaderIsSpared ==
    ASSUME ReaderKept, reader.st = "paging"
    PROVE  (reader.res = "envelopes" => reader.device \in 1..9) /\ Spared(reader, reader.got)
BY DEF ReaderKept, Spared

\* Every first page.
LEMMA ReadKept ==
    ASSUME Inv, Read \/ NextPage \/ CursorExpires
    PROVE  Inv'
<1>1. RowsTyped /\ Counters /\ ReaderKept
  BY DEF Inv
<1>2. ASSUME UNCHANGED <<chain, tables>>
      PROVE  Counters' /\ RowsTyped'
  BY <1>1, <1>2 DEF chain, tables, Counters, RowsTyped
<1>3. CASE Read
  <2>1. PICK res, device, include, after :
          /\ FirstPage(res, device, include, after)
          /\ res = "envelopes" => device = Creator
    <3>1. CASE \E d \in {None, Creator}, after \in {0, min - 1} : FirstPage("log", d, FALSE, after)
      <4>1. PICK d, after : FirstPage("log", d, FALSE, after)
        BY <3>1
      <4>2. "log" # "envelopes"
        OBVIOUS
      <4> QED BY <4>1, <4>2, Zenon
    <3>2. CASE \E after \in {0, min - 1} : FirstPage("records", None, FALSE, after)
      <4>1. PICK after : FirstPage("records", None, FALSE, after)
        BY <3>2
      <4>2. "records" # "envelopes"
        OBVIOUS
      <4> QED BY <4>1, <4>2, Zenon
    <3>3. CASE \E res \in Resources \cap {"devices", "epochs", "transparency"} :
                 FirstPage(res, None, FALSE, IF res = "epochs" THEN -1 ELSE 0)
      <4>1. PICK res, after : /\ FirstPage(res, None, FALSE, after)
                              /\ res \in {"devices", "epochs", "transparency"}
        BY <3>3, Zenon
      <4>2. res # "envelopes"
        BY <4>1
      <4> QED BY <4>1, <4>2, Zenon
    <3>4. CASE FirstPage("envelopes", Creator, FALSE, 0)
      BY <3>4, Zenon
    <3>5. CASE \E include \in BOOLEAN : FirstPage("export", None, include, 0)
      <4>1. PICK include : FirstPage("export", None, include, 0)
        BY <3>5
      <4>2. "export" # "envelopes"
        OBVIOUS
      <4> QED BY <4>1, <4>2, Zenon
    <3>6. CASE \E d \in {None, Creator} : FirstPage("requests", d, FALSE, 0)
      <4>1. PICK d : FirstPage("requests", d, FALSE, 0)
        BY <3>6
      <4>2. "requests" # "envelopes"
        OBVIOUS
      <4> QED BY <4>1, <4>2, Zenon
    <3> QED BY <1>3, <3>1, <3>2, <3>3, <3>4, <3>5, <3>6, Zenon DEF Read
  <2>2. res = "envelopes" => device \in 1..9
    BY <2>1, PagingAssumption
  <2>3. ReaderKept'
    BY <1>1, <2>1, <2>2, FirstPageKept
  <2>4. UNCHANGED <<chain, tables>>
    BY <2>1 DEF FirstPage
  <2> QED BY <1>2, <2>3, <2>4 DEF Inv
<1>4. CASE NextPage
  <2> DEFINE a == IF reader.cut.log # log THEN Failed("LOG_ID_MISMATCH") ELSE Respond(reader)
  <2>1. /\ reader.st = "paging" /\ UNCHANGED <<chain, tables>>
        /\ reader' = Received(reader, a, reader.got, reader.count, reader.pages, reader.want)
    BY <1>4 DEF NextPage
  <2>2. (reader.res = "envelopes" => reader.device \in 1..9) /\ Spared(reader, reader.got)
    BY <1>1, <2>1, ReaderIsSpared
  <2>3. Spared(reader, Failed("LOG_ID_MISMATCH").items) /\ Spared(reader, Respond(reader).items)
    BY <1>1, <2>2, FailedSpared, RespondSpared
  <2>4. Spared(reader, a.items)
    BY <2>3
  <2> HIDE DEF a
  <2>5. ReaderKept'
    BY <2>1, <2>2, <2>4, ReceivedKept
  <2> QED BY <1>2, <2>1, <2>5 DEF Inv
<1>5. CASE CursorExpires
  <2>1. /\ reader.st = "paging" /\ UNCHANGED <<chain, tables>>
        /\ reader' = Received(reader, Failed("CURSOR_EXPIRED"), reader.got, reader.count,
                              reader.pages, reader.want)
    BY <1>5 DEF CursorExpires
  <2>2. (reader.res = "envelopes" => reader.device \in 1..9) /\ Spared(reader, reader.got)
    BY <1>1, <2>1, ReaderIsSpared
  <2>3. Spared(reader, Failed("CURSOR_EXPIRED").items)
    BY FailedSpared
  <2>4. ReaderKept'
    BY <2>1, <2>2, <2>3, ReceivedKept
  <2> QED BY <1>2, <2>1, <2>4 DEF Inv
<1> QED BY <1>3, <1>4, <1>5

\* No reader has started.
LEMMA InitKept == Init => Inv
<1> SUFFICES ASSUME Init PROVE Inv
  OBVIOUS
<1>1. Genesis \in Seq(ObjectSet) /\ Len(Genesis) = 5
  <2>1. {"parameters", "epoch"} \subseteq Kinds /\ "parameters" # "envelope" /\ "epoch" # "envelope"
    BY DEF Kinds
  <2>2. Object("parameters", 1, 0, 0) \in ObjectSet /\ Object("epoch", 0, 0, 0) \in ObjectSet
    BY <2>1, ObjectType
  <2>3. Device(Creator) \in ObjectSet /\ Creator \in 0..9
    BY PagingAssumption, DeviceType
  <2>4. Envelope(0, Creator) \in ObjectSet /\ Envelope(0, 0) \in ObjectSet
    BY <2>3, EnvelopeType
  <2> QED BY <2>2, <2>3, <2>4 DEF Genesis
<1> DEFINE R == {RowOf(Genesis[k], 0, k, k) : k \in 1..5}
           f == [k \in 1..5 |-> RowOf(Genesis[k], 0, k, k)]
<1>2. rows = R /\ log = 0 /\ head = 5 /\ index = 5 /\ epoch = 0 /\ reader = [st |-> "idle"]
  BY <1>1 DEF Init
<1>3. R \in SUBSET RowSet
  <2>1. \A k \in 1..5 : Genesis[k] \in ObjectSet /\ k \in Nat
    <3>1. Genesis \in Seq(ObjectSet) /\ \A k \in 1..5 : k \in 1..Len(Genesis)
      BY <1>1
    <3>2. \A k \in 1..5 : Genesis[k] \in ObjectSet
      BY <3>1, ElementOfSeq
    <3> QED BY <3>2
  <2>2. 0 \in Nat \cup {None}
    OBVIOUS
  <2> QED BY <2>1, <2>2, RowOfType
<1>4. IsFiniteSet(1..5)
  <2>1. 1 \in Int /\ 5 \in Int
    OBVIOUS
  <2> QED BY <2>1, FS_Interval
<1>5. f \in Surjection(1..5, R)
  BY DEF Surjection
<1>6. IsFiniteSet(R)
  <2> HIDE DEF f, R
  <2> QED BY <1>4, <1>5, FS_Surjection
<1> HIDE DEF R
<1>7. RowsTyped
  BY <1>2, <1>3, <1>6 DEF RowsTyped
<1>8. Counters /\ ReaderKept
  BY <1>2 DEF Counters, ReaderKept
<1> QED BY <1>7, <1>8 DEF Inv

\* Every step.
LEMMA NextKept ==
    ASSUME Inv, [Next]_vars
    PROVE  Inv'
<1>1. CASE Write
  <2>1. Counters' /\ RowsTyped' /\ reader' = reader
    BY <1>1, WriteKept DEF Inv
  <2> QED BY <2>1 DEF Inv, ReaderKept
<1>2. CASE Read \/ NextPage \/ CursorExpires
  BY <1>2, ReadKept
<1>3. CASE UNCHANGED vars
  BY <1>3 DEF vars, chain, tables, Inv, Counters, RowsTyped, ReaderKept
<1> QED BY <1>1, <1>2, <1>3, Zenon DEF Next

\* What the invariant says of every envelope holds of the rows there are.
LEMMA KeptForAdmins == Inv => RecoveryForAdmins
<1> SUFFICES ASSUME Inv PROVE RecoveryForAdmins
  OBVIOUS
<1>1. \A r \in rows : IsRecovery(r) => r.kind = "envelope" /\ r.epoch \in Nat /\ r.id = 10 * r.epoch
  BY DEF Inv, RowsTyped, RowSet, WellNamed, IsRecovery
<1> QED BY <1>1 DEF Inv, ReaderKept, RecoveryForAdmins, Line

\* No page or chunk, of any size and however many writes come between, gives a
\* device a recovery envelope (log, objects, protect).
THEOREM RecoveryStaysWithAdmins == Spec => []RecoveryForAdmins
<1>1. Init => Inv
  BY InitKept
<1>2. Inv /\ [Next]_vars => Inv'
  BY NextKept
<1>3. Inv => RecoveryForAdmins
  BY KeptForAdmins
<1> QED BY <1>1, <1>2, <1>3, PTL DEF Spec

(* The rows of a page *)

\* The image of a finite set is finite.
LEMMA ImageFinite ==
    ASSUME NEW S, IsFiniteSet(S), NEW k
    PROVE  IsFiniteSet({k[x] : x \in S})
<1> DEFINE T == {k[x] : x \in S}
           f == [x \in S |-> k[x]]
<1>1. f \in Surjection(S, T)
  BY DEF Surjection
<1> HIDE DEF T, f
<1>2. IsFiniteSet(T)
  BY <1>1, FS_Surjection
<1> QED BY <1>2 DEF T

\* Fewer than n are before x: then fewer than n are before what is not after x.
LEMMA RankBound ==
    ASSUME NEW B, IsFiniteSet(B), NEW A \in SUBSET B, NEW n \in Nat, Cardinality(B) < n
    PROVE  Cardinality(A) < n
<1>1. Cardinality(A) <= Cardinality(B) /\ IsFiniteSet(A)
  BY FS_Subset
<1>2. Cardinality(A) \in Nat /\ Cardinality(B) \in Nat
  BY <1>1, FS_CardinalityType
<1> QED BY <1>1, <1>2

\* A finite set has a member with the least key.
LEMMA Least ==
    ASSUME NEW S, IsFiniteSet(S), S # {}, NEW k, \A x \in S : k[x] \in Int
    PROVE  \E m \in S : \A x \in S : k[m] <= k[x]
<1> DEFINE g == [x \in S |-> -k[x]]
           T == {g[x] : x \in S}
<1>1. \A x \in S : g[x] = -k[x] /\ g[x] \in Int
  OBVIOUS
<1> HIDE DEF g
<1>2. IsFiniteSet(T)
  BY ImageFinite
<1>3. T \in SUBSET Int /\ T # {}
  BY <1>1
<1>4. PICK t \in T : \A u \in T : u <= t
  <2> HIDE DEF T
  <2> QED BY <1>2, <1>3, Greatest
<1>5. PICK m \in S : t = g[m]
  OBVIOUS
<1>6. ASSUME NEW x \in S PROVE k[m] <= k[x]
  <2>1. g[x] <= g[m]
    BY <1>4, <1>5
  <2>2. g[x] = -k[x] /\ g[m] = -k[m] /\ k[x] \in Int /\ k[m] \in Int
    BY <1>1
  <2> QED BY <2>1, <2>2
<1> QED BY <1>6

\* The members with fewer than n before them, as FirstN takes them.
FirstBy(S, k, n) == {r \in S : Cardinality({q \in S : k[q] < k[r]}) < n}

\* The first n of a set: with a member they have every one that is not behind it, and the least.
LEMMA Firsts ==
    ASSUME NEW S, IsFiniteSet(S), NEW k, \A x \in S : k[x] \in Int, NEW n \in Nat \ {0}
    PROVE  /\ FirstBy(S, k, n) \subseteq S
           /\ \A r \in S, q \in FirstBy(S, k, n) : k[r] <= k[q] => r \in FirstBy(S, k, n)
           /\ S # {} => \E m \in FirstBy(S, k, n) : \A r \in S : k[m] <= k[r]
<1> DEFINE F == FirstBy(S, k, n)
           Below(r) == {q \in S : k[q] < k[r]}
<1>1. F = {r \in S : Cardinality(Below(r)) < n}
  BY DEF FirstBy
<1>2. \A r \in S : Below(r) \in SUBSET S /\ IsFiniteSet(Below(r))
  BY FS_Subset
<1>3. ASSUME NEW r \in S, NEW q \in F, k[r] <= k[q] PROVE r \in F
  <2>1. q \in S /\ Cardinality(Below(q)) < n
    BY <1>1
  <2>2. Below(r) \in SUBSET Below(q)
    <3>1. \A x \in S : k[x] < k[r] => k[x] < k[q]
      BY <1>3, <2>1
    <3> QED BY <3>1
  <2>3. IsFiniteSet(Below(q))
    BY <1>2, <2>1
  <2> HIDE DEF Below
  <2>4. Cardinality(Below(r)) < n
    BY <2>1, <2>2, <2>3, RankBound
  <2> QED BY <1>1, <2>4
<1>4. ASSUME S # {} PROVE \E m \in F : \A r \in S : k[m] <= k[r]
  <2>1. PICK m \in S : \A r \in S : k[m] <= k[r]
    BY <1>4, Least
  <2>2. Below(m) = {}
    BY <2>1
  <2>3. Cardinality(Below(m)) = 0
    BY <2>2, FS_EmptySet
  <2>4. m \in F
    BY <1>1, <2>3
  <2> QED BY <2>1, <2>4
<1> QED BY <1>1, <1>3, <1>4

\* Where a page ends: before the first of the rows B that are left.
Through(at, k, A, B) == Max({at} \cup {x \in {k[s] : s \in A} : \A l \in {k[s] : s \in B} : x < l})

\* A page: of the rows S behind the cursor at most m are scanned, some of them
\* selected, at most n of these sent, and the cursor moves before the first one left.
LEMMA PageLemma ==
    ASSUME NEW S, IsFiniteSet(S), NEW k, \A x \in S : k[x] \in Int,
           NEW at \in Int, \A x \in S : at < k[x],
           NEW m \in Nat \ {0}, NEW n \in Nat \ {0},
           NEW scanned, scanned = FirstBy(S, k, m), NEW selected \in SUBSET scanned,
           NEW items, items = FirstBy(selected, k, n),
           NEW through, through = Through(at, k, scanned, selected \ items)
    PROVE  /\ through \in Int /\ at <= through
           /\ \A r \in items : r \in selected /\ at < k[r] /\ k[r] <= through
           /\ \A r \in S : k[r] <= through => r \in scanned /\ r \notin selected \ items
           /\ S # {} => at < through
<1> DEFINE left == selected \ items
           keys == {x \in {k[s] : s \in scanned} : \A l \in {k[s] : s \in left} : x < l}
<1>0. through = Max({at} \cup keys)
  BY DEF Through
<1>1. /\ scanned \subseteq S
      /\ \A r \in S, q \in scanned : k[r] <= k[q] => r \in scanned
      /\ S # {} => \E x \in scanned : \A r \in S : k[x] <= k[r]
  BY Firsts
<1>2. selected \subseteq S /\ IsFiniteSet(selected) /\ \A x \in selected : k[x] \in Int
  <2>1. selected \subseteq S
    BY <1>1
  <2> QED BY <2>1, FS_Subset
<1>3. /\ items \subseteq selected
      /\ \A r \in selected, q \in items : k[r] <= k[q] => r \in items
      /\ selected # {} => \E x \in items : \A r \in selected : k[x] <= k[r]
  BY <1>2, Firsts
<1>4. selected \subseteq scanned
  OBVIOUS
<1>5. \A s \in scanned : k[s] \in Int /\ at < k[s]
  BY <1>1
<1>6. \A x : x \in keys <=> \E s \in scanned : x = k[s] /\ \A l \in left : k[s] < k[l]
  OBVIOUS
<1> HIDE DEF keys
<1>7. through \in {at} \cup keys /\ \A x \in {at} \cup keys : x <= through
  <2>1. keys \subseteq {k[s] : s \in scanned}
    BY <1>6
  <2>2. IsFiniteSet(scanned)
    BY <1>1, FS_Subset
  <2>3. IsFiniteSet({k[s] : s \in scanned})
    BY <2>2, ImageFinite
  <2>4. IsFiniteSet(keys)
    BY <2>1, <2>3, FS_Subset
  <2>5. IsFiniteSet(keys \cup {at})
    BY <2>4, FS_AddElement
  <2>6. {at} \cup keys = keys \cup {at}
    OBVIOUS
  <2>7. {at} \cup keys \in SUBSET Int
    BY <1>5, <1>6
  <2>8. \E x \in {at} \cup keys : \A y \in {at} \cup keys : y <= x
    BY <2>5, <2>6, <2>7, Greatest
  <2>9. \E x \in {at} \cup keys : \A y \in {at} \cup keys : x >= y
    BY <2>7, <2>8
  <2>10. through \in {at} \cup keys /\ \A y \in {at} \cup keys : through >= y
    BY <1>0, <2>9 DEF Max
  <2> QED BY <2>7, <2>10
<1>8. through \in Int /\ at <= through
  BY <1>5, <1>6, <1>7
<1>9. \A l \in left, i \in items : k[i] < k[l]
  <2>1. \A l \in left, i \in items : ~(k[l] <= k[i])
    BY <1>3
  <2> QED BY <1>2, <1>3, <2>1
<1>10. \A r \in items : r \in selected /\ at < k[r] /\ k[r] <= through
  <2> SUFFICES ASSUME NEW r \in items PROVE r \in selected /\ at < k[r] /\ k[r] <= through
    OBVIOUS
  <2>1. r \in selected /\ r \in scanned /\ at < k[r]
    BY <1>3, <1>4, <1>5
  <2>2. k[r] \in keys
    BY <1>6, <1>9, <2>1
  <2> QED BY <1>7, <2>1, <2>2
<1>11. \A r \in S : k[r] <= through => r \in scanned /\ r \notin left
  <2> SUFFICES ASSUME NEW r \in S, k[r] <= through PROVE r \in scanned /\ r \notin left
    OBVIOUS
  <2>1. at < k[r] /\ k[r] \in Int
    OBVIOUS
  <2>2. through # at
    BY <1>8, <2>1
  <2>3. PICK s \in scanned : through = k[s] /\ \A l \in left : k[s] < k[l]
    BY <1>6, <1>7, <2>2
  <2>4. r \in scanned
    BY <1>1, <2>3
  <2>5. r \notin left
    BY <1>5, <2>1, <2>3
  <2> QED BY <2>4, <2>5
<1>12. ASSUME S # {} PROVE at < through
  <2>1. PICK x \in scanned : \A r \in S : k[x] <= k[r]
    BY <1>1, <1>12
  <2>2. \A l \in left : k[x] < k[l]
    <3> SUFFICES ASSUME NEW l \in left PROVE k[x] < k[l]
      OBVIOUS
    <3>1. PICK i \in items : \A r \in selected : k[i] <= k[r]
      BY <1>3
    <3>2. k[i] < k[l] /\ i \in S /\ k[i] \in Int /\ l \in S /\ k[l] \in Int /\ k[x] \in Int
      BY <1>2, <1>3, <1>5, <1>9
    <3>3. k[x] <= k[i]
      BY <2>1, <3>2
    <3> QED BY <3>2, <3>3
  <2>3. k[x] \in keys
    BY <1>6, <2>2
  <2>4. k[x] <= through /\ at < k[x] /\ k[x] \in Int
    BY <1>5, <1>7, <2>3
  <2> QED BY <1>8, <2>4
<1> QED BY <1>8, <1>10, <1>11, <1>12

(* The tables *)
\* The rows of the two histories.
EventSet == [device: Devices, status: {"active", "pending_keys", "revoked"}, revoked: Nat]
OfferSet == [request: RequestIds, generation: Nat, by: Devices, asked: BOOLEAN,
             status: {"awaiting_approval", "approved", "rejected"}]
\* The types of the tables and of the chain row.
Typed == /\ Counters /\ RowsTyped /\ min \in Nat
         /\ history \in Seq(EventSet) /\ offers \in Seq(OfferSet)

\* Ids that the relay gives out grow with its counters, so a new object has a new name.
Numbered(r) ==
    /\ r.kind = "device" => r.id \in Devices
    /\ r.kind = "envelope" => r.epoch <= epoch /\ (r.to # 0 => Known("device", r.to))
    /\ r.kind = "epoch" => r.id <= epoch
    /\ r.kind = "parameters" => r.id <= log + 1
    /\ r.kind \in {"admin", "compaction"} => r.id <= index
    /\ r.kind = "compaction" /\ r.log = log => r.to <= head
\* A position is within its log; only devices, envelopes and parts may be without one.
Placed(r) ==
    /\ r.log # None => r.log <= log /\ r.seq >= 1
    /\ r.log = log => r.seq <= head
    /\ r.log = None => r.kind \in {"device", "envelope", "part"}
\* What pruning and expiry may have taken from a row.
Lasting(r) ==
    /\ r.kind \notin {"record", "envelope"} => r.body /\ r.entry
    /\ r.kind = "record" /\ r.log = log => (r.body <=> r.seq >= min) /\ (r.entry <=> r.seq >= min)
    /\ r.kind = "envelope" /\ r.log = log /\ ~r.entry => r.seq < min
RowsSound == \A r \in rows : Numbered(r) /\ Placed(r) /\ Lasting(r)
NoTwins(R) == \A r, q \in R : Same(r, q) => r = q
\* put_object keeps one row per object.
Unique == NoTwins(rows)
\* The live log has no gap.
Filled == \A k \in 1..head : \E r \in rows : r.log = log /\ r.seq = k
EpochsStored == \A e \in 0..epoch : Known("epoch", e)
\* A device with a history has a record in some log.
RegisteredAt(i) ==
    /\ history[i].status # "revoked" => history[i].revoked = 0
    /\ \E r \in rows : Same(r, Device(history[i].device)) /\ r.log # None
Registered == \A i \in 1..Len(history) : RegisteredAt(i)
Bounds == 1 <= min /\ min <= head + 1
\* The inductive invariant of the tables.
Tables == RowsSound /\ Unique /\ Filled /\ EpochsStored /\ Registered /\ Bounds

-----------------------------------------------------------------------------
(* Names of objects *)
\* No object is listed twice.
Distinct(os) == \A j, k \in 1..Len(os) : Same(os[j], os[k]) => j = k

\* Sorted enumerates a set without repetition.
LEMMA SortedOnce ==
    ASSUME NEW S \in SUBSET Nat, IsFiniteSet(S)
    PROVE  /\ \A j, k \in 1..Cardinality(S) : Sorted(S)[j] = Sorted(S)[k] => j = k
           /\ \A x \in S : \E k \in 1..Cardinality(S) : Sorted(S)[k] = x
<1> DEFINE Below(x) == {y \in S : y < x}
<1>1. Cardinality(S) \in Nat
  BY FS_CardinalityType
<1>2. \A k \in 1..Cardinality(S) : Sorted(S)[k] \in S /\ Cardinality(Below(Sorted(S)[k])) = k - 1
  <2> SUFFICES ASSUME NEW k \in 1..Cardinality(S)
               PROVE  Sorted(S)[k] \in S /\ Cardinality(Below(Sorted(S)[k])) = k - 1
    OBVIOUS
  <2>1. k - 1 \in Nat /\ k - 1 < Cardinality(S)
    BY <1>1
  <2>2. \E x \in S : Cardinality({y \in S : y < x}) = k - 1
    BY <2>1, Ranked
  <2> DEFINE c == CHOOSE x \in S : Cardinality({y \in S : y < x}) = k - 1
  <2>3. c \in S /\ Cardinality({y \in S : y < c}) = k - 1
    BY <2>2
  <2>4. Sorted(S)[k] = c
    BY DEF Sorted
  <2> HIDE DEF c
  <2> QED BY <2>3, <2>4
<1>3. ASSUME NEW x \in S, NEW y \in S, x < y
      PROVE  Cardinality(Below(x)) # Cardinality(Below(y))
  <2>1. Below(x) \in SUBSET Below(y) /\ x \in Below(y) /\ x \notin Below(x)
    <3>1. x \in Nat /\ y \in Nat /\ \A z \in S : z \in Nat
      OBVIOUS
    <3>2. x \in Below(y) /\ x \notin Below(x)
      BY <1>3, <3>1
    <3>3. \A z \in S : z < x => z < y
      BY <1>3, <3>1
    <3> QED BY <3>2, <3>3
  <2>2. IsFiniteSet(Below(y))
    BY FS_Subset
  <2> HIDE DEF Below
  <2> QED BY <2>1, <2>2, FS_Subset
<1>4. \A x, y \in S : Cardinality(Below(x)) = Cardinality(Below(y)) => x = y
  <2>1. \A x, y \in S : x = y \/ x < y \/ y < x
    OBVIOUS
  <2> HIDE DEF Below
  <2> QED BY <1>3, <2>1
<1>5. ASSUME NEW x \in S PROVE \E k \in 1..Cardinality(S) : Sorted(S)[k] = x
  <2> DEFINE k == Cardinality(Below(x)) + 1
  <2>1. Below(x) \in SUBSET S /\ x \notin Below(x) /\ IsFiniteSet(Below(x))
    BY FS_Subset
  <2> HIDE DEF Below
  <2>2. /\ Cardinality(Below(x)) <= Cardinality(S)
        /\ Cardinality(S) = Cardinality(Below(x)) => S = Below(x)
    BY <2>1, FS_Subset
  <2>3. Cardinality(Below(x)) \in Nat
    BY <2>1, FS_CardinalityType
  <2>4. Cardinality(Below(x)) # Cardinality(S)
    BY <2>1, <2>2
  <2>5. k \in 1..Cardinality(S)
    BY <1>1, <2>2, <2>3, <2>4
  <2>6. Cardinality(Below(Sorted(S)[k])) = Cardinality(Below(x)) /\ Sorted(S)[k] \in S
    <3>1. Cardinality(Below(Sorted(S)[k])) = k - 1 /\ Sorted(S)[k] \in S
      BY <1>2, <2>5
    <3> QED BY <2>3, <3>1
  <2>7. Sorted(S)[k] = x
    BY <1>4, <2>6
  <2> QED BY <2>5, <2>7
<1>6. ASSUME NEW j \in 1..Cardinality(S), NEW k \in 1..Cardinality(S), Sorted(S)[j] = Sorted(S)[k]
      PROVE  j = k
  <2>1. j - 1 = k - 1
    BY <1>2, <1>6
  <2> QED BY <1>1, <2>1
<1> QED BY <1>5, <1>6

\* s lists objects of S, none of them twice.
Lists(s, S) == s \in Seq(S) /\ Distinct(s)
\* The objects of A and of B have different names.
Apart(A, B) == \A x \in A, y \in B : ~Same(x, y)

\* Two lists of different objects, one after the other.
LEMMA ListsConcat ==
    ASSUME NEW A, NEW B, NEW a, NEW b, Lists(a, A), Lists(b, B), Apart(A, B)
    PROVE  Lists(a \o b, A \cup B) /\ Len(a \o b) = Len(a) + Len(b)
<1> DEFINE c == a \o b
<1>0. a \in Seq(A) /\ b \in Seq(B) /\ Distinct(a) /\ Distinct(b) /\ \A x \in A, y \in B : ~Same(x, y)
  BY DEF Lists, Apart
<1>1. Len(a) \in Nat /\ Len(b) \in Nat
  BY <1>0
<1>2. /\ Len(c) = Len(a) + Len(b)
      /\ \A i \in 1..Len(a) : c[i] = a[i]
      /\ \A i \in (Len(a) + 1)..(Len(a) + Len(b)) : c[i] = b[i - Len(a)]
  BY <1>0
<1>3. \A i \in 1..Len(a) : a[i] \in A
  BY <1>0
<1>4. \A i \in 1..Len(b) : b[i] \in B
  BY <1>0
<1>5. c \in Seq(A \cup B)
  <2>1. a \in Seq(A \cup B) /\ b \in Seq(A \cup B)
    BY <1>0
  <2> QED BY <2>1, ConcatProperties
<1> HIDE DEF c
<1>6. ASSUME NEW j \in 1..Len(c), NEW k \in 1..Len(c), Same(c[j], c[k]) PROVE j = k
  <2>1. CASE j \in 1..Len(a) /\ k \in 1..Len(a)
    BY <1>0, <1>2, <1>6, <2>1 DEF Distinct
  <2>2. CASE j \in (Len(a) + 1)..(Len(a) + Len(b)) /\ k \in (Len(a) + 1)..(Len(a) + Len(b))
    <3>1. j - Len(a) \in 1..Len(b) /\ k - Len(a) \in 1..Len(b)
      BY <1>1, <2>2
    <3>2. Same(b[j - Len(a)], b[k - Len(a)])
      BY <1>2, <1>6, <2>2
    <3>3. j - Len(a) = k - Len(a)
      BY <1>0, <3>1, <3>2 DEF Distinct
    <3> QED BY <1>1, <3>3
  <2>3. CASE j \in 1..Len(a) /\ k \in (Len(a) + 1)..(Len(a) + Len(b))
    <3>1. k - Len(a) \in 1..Len(b)
      BY <1>1, <2>3
    <3>2. Same(a[j], b[k - Len(a)])
      BY <1>2, <1>6, <2>3
    <3> QED BY <1>0, <1>3, <1>4, <2>3, <3>1, <3>2
  <2>4. CASE k \in 1..Len(a) /\ j \in (Len(a) + 1)..(Len(a) + Len(b))
    <3>1. j - Len(a) \in 1..Len(b)
      BY <1>1, <2>4
    <3>2. Same(b[j - Len(a)], a[k])
      BY <1>2, <1>6, <2>4
    <3>3. Same(a[k], b[j - Len(a)])
      BY <3>2 DEF Same
    <3> QED BY <1>0, <1>3, <1>4, <2>4, <3>1, <3>3
  <2> QED BY <1>1, <1>2, <2>1, <2>2, <2>3, <2>4
<1> QED BY <1>2, <1>5, <1>6 DEF Distinct, Lists, c

\* A list of one object.
LEMMA OneDistinct ==
    ASSUME NEW o
    PROVE  <<o>> \in Seq({o}) /\ Distinct(<<o>>) /\ Len(<<o>>) = 1
<1>1. <<o>> \in Seq({o}) /\ Len(<<o>>) = 1
  OBVIOUS
<1> QED BY <1>1 DEF Distinct

\* The fields of an envelope.
LEMMA EnvelopeFields ==
    ASSUME NEW e, NEW t
    PROVE  /\ Envelope(e, t).kind = "envelope" /\ Envelope(e, t).id = 10 * e + t
           /\ Envelope(e, t).epoch = e /\ Envelope(e, t).to = t
BY DEF Envelope, Object

\* The envelopes of an epoch: one for every member and the recovery envelope, each once.
LEMMA EnvelopesShape ==
    ASSUME NEW e \in Nat, NEW M \in SUBSET Devices
    PROVE  /\ Envelopes(e, M) \in Seq({Envelope(e, t) : t \in M \cup {0}})
           /\ Distinct(Envelopes(e, M))
           /\ Len(Envelopes(e, M)) = Cardinality(M) + 1
<1> DEFINE s == [k \in 1..Cardinality(M) |-> Envelope(e, Sorted(M)[k])]
           A == {Envelope(e, t) : t \in M}
           z == Envelope(e, 0)
           b == <<z>>
           B == {z}
<1>1. /\ M \in SUBSET Nat /\ M \in SUBSET (1..9) /\ IsFiniteSet(M) /\ Cardinality(M) \in Nat
      /\ \A k \in 1..Cardinality(M) : Sorted(M)[k] \in M
  BY DeviceSets, PagingAssumption
<1>2. \A j, k \in 1..Cardinality(M) : Sorted(M)[j] = Sorted(M)[k] => j = k
  BY <1>1, SortedOnce
<1>3. s \in Seq(A) /\ Len(s) = Cardinality(M)
  BY <1>1
<1>4. Distinct(s)
  <2> SUFFICES ASSUME NEW j \in 1..Cardinality(M), NEW k \in 1..Cardinality(M), Same(s[j], s[k])
               PROVE  j = k
    BY <1>3 DEF Distinct
  <2>1. s[j] = Envelope(e, Sorted(M)[j]) /\ s[k] = Envelope(e, Sorted(M)[k])
    OBVIOUS
  <2>2. 10 * e + Sorted(M)[j] = 10 * e + Sorted(M)[k]
    BY <2>1, EnvelopeFields DEF Same
  <2>3. Sorted(M)[j] \in Nat /\ Sorted(M)[k] \in Nat
    BY <1>1
  <2>4. Sorted(M)[j] = Sorted(M)[k]
    BY <2>2, <2>3
  <2> QED BY <1>2, <2>4
<1>5. b \in Seq(B) /\ Distinct(b) /\ Len(b) = 1
  BY OneDistinct
<1>6. \A x \in A, y \in B : ~Same(x, y)
  <2> SUFFICES ASSUME NEW t \in M, Same(Envelope(e, t), z) PROVE FALSE
    OBVIOUS
  <2>1. 10 * e + t = 10 * e + 0
    BY EnvelopeFields DEF Same
  <2>2. t \in 1..9
    BY <1>1
  <2> QED BY <2>1, <2>2
<1> HIDE DEF s, A, z, b, B
<1>7. Lists(s \o b, A \cup B) /\ Len(s \o b) = Len(s) + Len(b)
  <2>1. Lists(s, A)
    BY <1>3, <1>4 DEF Lists
  <2>2. Lists(b, B)
    BY <1>5 DEF Lists
  <2>3. Apart(A, B)
    BY <1>6 DEF Apart
  <2> QED BY <2>1, <2>2, <2>3, ListsConcat
<1>8. A \cup B = {Envelope(e, t) : t \in M \cup {0}}
  BY DEF A, z, B
<1>9. Envelopes(e, M) = s \o b
  BY DEF Envelopes, s, z, b
<1>10. Len(s) + Len(b) = Cardinality(M) + 1
  BY <1>3, <1>5
<1> QED BY <1>7, <1>8, <1>9, <1>10 DEF Lists

-----------------------------------------------------------------------------
(* A write of a live log *)
\* Two versions of the same row.
Kin(r, s) ==
    /\ s.kind = r.kind /\ s.id = r.id /\ s.epoch = r.epoch /\ s.to = r.to
    /\ s.log = r.log /\ s.seq = r.seq /\ s.idx = r.idx
\* What a write to the live log may do to a row: take bodies and entries, by pruning or expiry.
Worn(r, s) ==
    /\ Kin(r, s)
    /\ s.body => r.body
    /\ s.entry => r.entry
    /\ r.kind \notin {"record", "envelope"} => s.body /\ s.entry
    /\ r.kind = "record" /\ r.log = log => (s.body <=> r.seq >= min') /\ (s.entry <=> r.seq >= min')
    /\ r.kind = "record" /\ r.log # log => (s.body <=> r.body) /\ (s.entry <=> r.entry)
    /\ r.kind = "envelope" /\ r.body /\ ~s.body => r.epoch \in expired'
    /\ r.kind = "envelope" /\ r.entry /\ ~s.entry => r.epoch \in expired' /\ r.seq < min'
\* A row that a write to the live log adds: behind the head, a part, or a staged object.
Arrived(s) ==
    /\ ~Known(s.kind, s.id) /\ s.body /\ s.entry
    /\ \/ s.log = log /\ s.seq > head /\ s.idx > index /\ s.kind # "part"
       \/ s.log = None /\ s.kind = "part" /\ s.idx > index
       \/ s.log = None /\ s.kind \in {"device", "envelope"} /\ s.idx = 0
\* t continues s.
Prefix(s, t) == Len(s) <= Len(t) /\ \A i \in 1..Len(s) : t[i] = s[i]
\* Every row stays, perhaps worn; every other one arrives.
RowsGrow ==
    /\ \A r \in rows : \E s \in rows' : Worn(r, s)
    /\ \A s \in rows' : Arrived(s) \/ \E r \in rows : Worn(r, s)
\* A write to the live log, as far as a listing can tell.
Grown ==
    /\ log' = log /\ head <= head' /\ index <= index' /\ min <= min' /\ expired \subseteq expired'
    /\ RowsGrow /\ Prefix(history, history') /\ Prefix(offers, offers')
\* What is new about the new rows.
NewRowsSound ==
    /\ \A s \in rows' : Arrived(s) => Numbered(s)' /\ (s.log = log => s.seq <= head')
    /\ \A k \in (head + 1)..head' : \E s \in rows' : s.log = log /\ s.seq = k
    /\ \A e \in (epoch + 1)..epoch' : Known("epoch", e)'
    /\ \A i \in (Len(history) + 1)..Len(history') : RegisteredAt(i)'

\* What is known stays known.
LEMMA KnownGrows ==
    ASSUME RowsGrow, NEW kind, NEW id, Known(kind, id)
    PROVE  Known(kind, id)'
BY DEF RowsGrow, Known, Worn, Kin

\* The fields of a row.
LEMMA RowFields ==
    ASSUME NEW r \in RowSet
    PROVE  /\ r.kind \in Kinds /\ r.id \in Nat /\ r.epoch \in Nat /\ r.to \in Nat
           /\ r.log \in Nat \cup {None} /\ r.seq \in Nat /\ r.idx \in Nat
           /\ r.body \in BOOLEAN /\ r.entry \in BOOLEAN
           /\ r = [kind |-> r.kind, id |-> r.id, epoch |-> r.epoch, to |-> r.to, log |-> r.log,
                   seq |-> r.seq, idx |-> r.idx, body |-> r.body, entry |-> r.entry]
BY DEF RowSet

\* A write to the live log leaves the tables sound.
LEMMA GrownTables ==
    ASSUME Typed, Typed', Tables, Grown, NewRowsSound, Unique', epoch <= epoch', min' <= head + 1
    PROVE  Tables'
<1>1. /\ log \in Nat /\ head \in Nat /\ index \in Nat /\ epoch \in Nat /\ min \in Nat
      /\ head' \in Nat /\ index' \in Nat /\ epoch' \in Nat /\ min' \in Nat
      /\ log' = log /\ head <= head' /\ index <= index' /\ min <= min' /\ 1 <= min /\ min <= head + 1
      /\ None \notin Nat
  BY PagingAssumption DEF Typed, Counters, Grown, Tables, Bounds
<1>2. /\ \A r \in rows : \E s \in rows' : Worn(r, s)
      /\ \A s \in rows' : Arrived(s) \/ \E r \in rows : Worn(r, s)
      /\ RowsGrow
  BY DEF Grown, RowsGrow
<1>3. /\ \A r \in rows : r \in RowSet /\ Numbered(r) /\ Placed(r) /\ Lasting(r)
      /\ \A s \in rows' : s \in RowSet
  BY DEF Typed, RowsTyped, Tables, RowsSound
<1>4. RowsSound'
  <2> SUFFICES ASSUME NEW s \in rows' PROVE Numbered(s)' /\ Placed(s)' /\ Lasting(s)'
    BY DEF RowsSound
  <2>0. /\ s.id \in Nat /\ s.epoch \in Nat /\ s.to \in Nat /\ s.seq \in Nat
        /\ s.log \in Nat \cup {None} /\ s.kind \in Kinds
    BY <1>3, RowFields
  <2>1. CASE Arrived(s)
    <3>1. Numbered(s)'
      BY <2>1 DEF NewRowsSound
    <3>2. Placed(s)'
      <4>1. s.log = log => s.seq <= head'
        BY <2>1 DEF NewRowsSound
      <4> QED BY <1>1, <2>0, <2>1, <4>1 DEF Arrived, Placed
    <3>3. Lasting(s)'
      BY <1>1, <2>0, <2>1 DEF Arrived, Lasting
    <3> QED BY <3>1, <3>2, <3>3
  <2>2. CASE \E r \in rows : Worn(r, s)
    <3>1. PICK r \in rows : Worn(r, s)
      BY <2>2
    <3>2. /\ s.kind = r.kind /\ s.id = r.id /\ s.epoch = r.epoch /\ s.to = r.to
          /\ s.log = r.log /\ s.seq = r.seq /\ s.idx = r.idx
      BY <3>1 DEF Worn, Kin
    <3>3. Numbered(r) /\ Placed(r) /\ Lasting(r)
      BY <1>3
    <3>4. Numbered(s)'
      <4>1. r.to # 0 /\ r.kind = "envelope" => Known("device", r.to)'
        BY <1>2, <3>3, KnownGrows DEF Numbered
      <4> QED BY <1>1, <2>0, <3>2, <3>3, <4>1 DEF Numbered
    <3>5. Placed(s)'
      BY <1>1, <2>0, <3>2, <3>3 DEF Placed
    <3>6. Lasting(s)'
      BY <1>1, <2>0, <3>1, <3>2, <3>3 DEF Lasting, Worn
    <3> QED BY <3>4, <3>5, <3>6
  <2> QED BY <1>2, <2>1, <2>2
<1>5. Filled'
  <2> SUFFICES ASSUME NEW k \in 1..head' PROVE \E s \in rows' : s.log = log /\ s.seq = k
    BY <1>1 DEF Filled
  <2>1. CASE k \in (head + 1)..head'
    BY <2>1 DEF NewRowsSound
  <2>2. CASE k \in 1..head
    <3>1. PICK r \in rows : r.log = log /\ r.seq = k
      BY <2>2 DEF Tables, Filled
    <3> QED BY <1>2, <3>1 DEF Worn, Kin
  <2> QED BY <1>1, <2>1, <2>2
<1>6. EpochsStored'
  <2> SUFFICES ASSUME NEW e \in 0..epoch' PROVE Known("epoch", e)'
    BY DEF EpochsStored
  <2>1. CASE e \in (epoch + 1)..epoch'
    BY <2>1 DEF NewRowsSound
  <2>2. CASE e \in 0..epoch
    <3>1. Known("epoch", e)
      BY <2>2 DEF Tables, EpochsStored
    <3> QED BY <1>2, <3>1, KnownGrows
  <2> QED BY <1>1, <2>1, <2>2
<1>7. Registered'
  <2> SUFFICES ASSUME NEW i \in 1..Len(history') PROVE RegisteredAt(i)'
    BY DEF Registered
  <2>0. Len(history) \in Nat /\ Len(history') \in Nat
    BY DEF Typed
  <2>1. CASE i \in (Len(history) + 1)..Len(history')
    BY <2>1 DEF NewRowsSound
  <2>2. CASE i \in 1..Len(history)
    <3>1. RegisteredAt(i) /\ history'[i] = history[i]
      BY <2>2 DEF Tables, Registered, Grown, Prefix
    <3>2. PICK r \in rows : Same(r, Device(history[i].device)) /\ r.log # None
      BY <3>1 DEF RegisteredAt
    <3>3. PICK s \in rows' : Worn(r, s)
      BY <1>2
    <3>4. Same(s, Device(history'[i].device)) /\ s.log # None
      BY <3>1, <3>2, <3>3 DEF Worn, Kin, Same
    <3>5. history'[i].status # "revoked" => history'[i].revoked = 0
      BY <3>1 DEF RegisteredAt
    <3> QED BY <3>4, <3>5 DEF RegisteredAt
  <2> QED BY <2>0, <2>1, <2>2
<1>8. Bounds'
  <2>1. 1 <= min'
    BY <1>1
  <2>2. min' <= head + 1
    OBVIOUS
  <2>3. head <= head' /\ head \in Nat /\ head' \in Nat /\ min' \in Nat
    BY <1>1
  <2>4. \A a, b, c \in Nat : a <= b + 1 /\ b <= c => a <= c + 1
    OBVIOUS
  <2>5. min' <= head' + 1
    BY <2>2, <2>3, <2>4
  <2> QED BY <2>1, <2>5 DEF Bounds
<1> QED BY <1>4, <1>5, <1>6, <1>7, <1>8 DEF Tables

\* The fields of a new row.
LEMMA RowOfFields ==
    ASSUME NEW o, NEW l, NEW s, NEW i
    PROVE  /\ RowOf(o, l, s, i).kind = o.kind /\ RowOf(o, l, s, i).id = o.id
           /\ RowOf(o, l, s, i).epoch = o.epoch /\ RowOf(o, l, s, i).to = o.to
           /\ RowOf(o, l, s, i).log = l /\ RowOf(o, l, s, i).seq = s /\ RowOf(o, l, s, i).idx = i
           /\ RowOf(o, l, s, i).body /\ RowOf(o, l, s, i).entry
BY DEF RowOf

\* append leaves one row per name.
LEMMA AppendedTwins ==
    ASSUME NEW R, NoTwins(R), NEW os, Distinct(os), NEW l, NEW n
    PROVE  NoTwins(Appended(R, os, l, n))
<1> DEFINE kept == {r \in R : \A k \in 1..Len(os) : ~Same(r, os[k])}
           new == {RowOf(os[k], l, n + k, index + k) : k \in 1..Len(os)}
<1>1. Appended(R, os, l, n) = kept \cup new
  BY DEF Appended
<1>2. ASSUME NEW r \in kept, NEW q \in kept, Same(r, q) PROVE r = q
  BY <1>2 DEF NoTwins
<1>3. ASSUME NEW r \in kept, NEW q \in new PROVE ~Same(r, q) /\ ~Same(q, r)
  <2>1. PICK k \in 1..Len(os) : q = RowOf(os[k], l, n + k, index + k)
    OBVIOUS
  <2>2. q.kind = os[k].kind /\ q.id = os[k].id
    BY <2>1, RowOfFields
  <2>3. ~Same(r, os[k])
    OBVIOUS
  <2> QED BY <2>2, <2>3 DEF Same
<1>4. ASSUME NEW r \in new, NEW q \in new, Same(r, q) PROVE r = q
  <2>1. PICK j \in 1..Len(os) : r = RowOf(os[j], l, n + j, index + j)
    OBVIOUS
  <2>2. PICK k \in 1..Len(os) : q = RowOf(os[k], l, n + k, index + k)
    OBVIOUS
  <2>3. r.kind = os[j].kind /\ r.id = os[j].id /\ q.kind = os[k].kind /\ q.id = os[k].id
    BY <2>1, <2>2, RowOfFields
  <2>4. Same(os[j], os[k])
    BY <1>4, <2>3 DEF Same
  <2>5. j = k
    BY <2>4 DEF Distinct
  <2> QED BY <2>1, <2>2, <2>5
<1> HIDE DEF kept, new
<1> QED BY <1>1, <1>2, <1>3, <1>4 DEF NoTwins

\* expire leaves one row per name.
LEMMA ExpiredTwins ==
    ASSUME NEW R \in SUBSET RowSet, NoTwins(R), NEW E, NEW m
    PROVE  NoTwins(Expired(R, E, m))
<1> DEFINE g(r) == [r EXCEPT !.body = r.body /\ ~(r.kind = "envelope" /\ r.epoch \in E),
                      !.entry = r.entry /\ ~(r.kind = "envelope" /\ r.epoch \in E /\ r.seq < m)]
<1>1. \A r \in R : g(r).kind = r.kind /\ g(r).id = r.id
  BY DEF RowSet
<1>2. Expired(R, E, m) = {g(r) : r \in R}
  BY DEF Expired
<1> HIDE DEF g
<1> QED BY <1>1, <1>2 DEF NoTwins, Same

\* prune leaves one row per name.
LEMMA PrunedTwins ==
    ASSUME NEW R \in SUBSET RowSet, NoTwins(R), NEW through
    PROVE  NoTwins(Pruned(R, through))
<1> DEFINE g(r) == [r EXCEPT !.body = r.body /\ ~(r.kind = "record" /\ r.log = log /\ r.seq <= through),
                      !.entry = r.entry /\ ~(r.kind = "record" /\ r.log = log /\ r.seq <= through)]
<1>1. \A r \in R : g(r).kind = r.kind /\ g(r).id = r.id
  BY DEF RowSet
<1>2. Pruned(R, through) = {g(r) : r \in R}
  BY DEF Pruned
<1> HIDE DEF g
<1> QED BY <1>1, <1>2 DEF NoTwins, Same

\* A row that a write leaves alone.
LEMMA WornItself ==
    ASSUME Tables, min' = min, NEW r \in rows
    PROVE  Worn(r, r)
<1>1. Lasting(r)
  BY DEF Tables, RowsSound
<1> QED BY <1>1 DEF Worn, Kin, Lasting

\* append of new objects: they arrive behind the head, without a gap.
LEMMA AppendGrows ==
    ASSUME Typed, Tables, NEW os \in Seq(ObjectSet), Distinct(os),
           \A k \in 1..Len(os) : ~Known(os[k].kind, os[k].id) /\ os[k].kind # "part",
           AppendAll(os), min' = min
    PROVE  /\ Unique' /\ RowsGrow
           /\ head <= head' /\ index <= index' /\ head' = head + Len(os) /\ Len(os) \in Nat
           /\ \A s \in rows' : Arrived(s) =>
                \E k \in 1..Len(os) : s = RowOf(os[k], log, head + k, index + k)
           /\ \A k \in 1..Len(os) : RowOf(os[k], log, head + k, index + k) \in rows'
           /\ \A k \in (head + 1)..head' : \E s \in rows' : s.log = log /\ s.seq = k
<1> DEFINE New(k) == RowOf(os[k], log, head + k, index + k)
           n == Len(os)
<1>1. n \in Nat /\ head \in Nat /\ index \in Nat /\ head' = head + n /\ index' = index + n
  BY DEF AppendAll, Typed, Counters
<1>2. rows' = Appended(rows, os, log, head)
  BY DEF AppendAll
<1>3. Unique'
  <2>1. NoTwins(Appended(rows, os, log, head))
    BY AppendedTwins DEF Tables, Unique
  <2> QED BY <1>2, <2>1 DEF Unique
<1>4. \A r \in rows, k \in 1..n : ~Same(r, os[k])
  BY DEF Known, Same
<1>5. rows' = rows \cup {New(k) : k \in 1..n}
  BY <1>2, <1>4 DEF Appended
<1>6. \A k \in 1..n : /\ New(k).kind = os[k].kind /\ New(k).id = os[k].id
                      /\ New(k).log = log /\ New(k).seq = head + k /\ New(k).idx = index + k
                      /\ New(k).body /\ New(k).entry
  BY RowOfFields
<1> HIDE DEF New
<1>7. \A k \in 1..n : Arrived(New(k))
  <2> SUFFICES ASSUME NEW k \in 1..n PROVE Arrived(New(k))
    OBVIOUS
  <2>1. ~Known(New(k).kind, New(k).id) /\ New(k).kind # "part"
    BY <1>6
  <2>2. New(k).seq > head /\ New(k).idx > index
    BY <1>1, <1>6
  <2> QED BY <1>6, <2>1, <2>2 DEF Arrived
<1>8. RowsGrow
  <2>1. \A r \in rows : r \in rows' /\ Worn(r, r)
    BY <1>5, WornItself
  <2>2. \A s \in rows' : Arrived(s) \/ \E r \in rows : Worn(r, s)
    BY <1>5, <1>7, <2>1
  <2> QED BY <2>1, <2>2 DEF RowsGrow
<1>9. \A s \in rows' : Arrived(s) => \E k \in 1..n : s = New(k)
  <2>1. \A r \in rows : ~Arrived(r)
    BY DEF Arrived, Known
  <2> QED BY <1>5, <2>1
<1>10. \A k \in (head + 1)..head' : \E s \in rows' : s.log = log /\ s.seq = k
  <2> SUFFICES ASSUME NEW k \in (head + 1)..head' PROVE \E s \in rows' : s.log = log /\ s.seq = k
    OBVIOUS
  <2>1. k - head \in 1..n /\ head + (k - head) = k
    BY <1>1
  <2>2. New(k - head) \in rows' /\ New(k - head).log = log /\ New(k - head).seq = k
    BY <1>5, <1>6, <2>1
  <2> QED BY <2>2
<1>11. head <= head' /\ index <= index'
  BY <1>1
<1>12. \A k \in 1..n : New(k) \in rows'
  BY <1>5
<1> QED BY <1>1, <1>3, <1>8, <1>9, <1>10, <1>11, <1>12 DEF New

\* A sequence continues itself.
LEMMA SamePrefix ==
    ASSUME NEW S, NEW s \in Seq(S)
    PROVE  Prefix(s, s)
<1>1. Len(s) \in Nat
  OBVIOUS
<1> QED BY <1>1 DEF Prefix

\* A concatenation continues its first part.
LEMMA ConcatPrefix ==
    ASSUME NEW S, NEW s \in Seq(S), NEW t \in Seq(S)
    PROVE  /\ Prefix(s, s \o t) /\ s \o t \in Seq(S)
           /\ \A i \in (Len(s) + 1)..Len(s \o t) : \E k \in 1..Len(t) : (s \o t)[i] = t[k]
<1>1. /\ s \o t \in Seq(S) /\ Len(s \o t) = Len(s) + Len(t)
      /\ \A i \in 1..(Len(s) + Len(t)) : (s \o t)[i] = IF i <= Len(s) THEN s[i] ELSE t[i - Len(s)]
  BY ConcatProperties
<1>2. Len(s) \in Nat /\ Len(t) \in Nat
  OBVIOUS
<1> DEFINE u == s \o t
<1> HIDE DEF u
<1>3. Prefix(s, u)
  BY <1>1, <1>2 DEF Prefix, u
<1>4. ASSUME NEW i \in (Len(s) + 1)..Len(u) PROVE \E k \in 1..Len(t) : u[i] = t[k]
  <2>1. i - Len(s) \in 1..Len(t) /\ i \in 1..(Len(s) + Len(t)) /\ ~(i <= Len(s))
    BY <1>1, <1>2 DEF u
  <2>2. u[i] = t[i - Len(s)]
    BY <1>1, <2>1 DEF u
  <2> QED BY <2>1, <2>2
<1> QED BY <1>1, <1>3, <1>4 DEF u

\* An appended event leaves the older ones.
LEMMA AppendPrefix ==
    ASSUME NEW S, NEW s \in Seq(S), NEW e \in S
    PROVE  /\ Prefix(s, Append(s, e)) /\ Append(s, e) \in Seq(S)
           /\ \A i \in (Len(s) + 1)..Len(Append(s, e)) : Append(s, e)[i] = e
<1> DEFINE u == Append(s, e)
<1>1. /\ u \in Seq(S) /\ Len(u) = Len(s) + 1
      /\ \A i \in 1..Len(s) : u[i] = s[i]
      /\ u[Len(s) + 1] = e
  BY AppendProperties
<1>2. Len(s) \in Nat
  OBVIOUS
<1> HIDE DEF u
<1>3. Prefix(s, u)
  BY <1>1, <1>2 DEF Prefix
<1>4. \A i \in (Len(s) + 1)..Len(u) : i = Len(s) + 1
  BY <1>1, <1>2
<1> QED BY <1>1, <1>3, <1>4 DEF u

\* What Typed says of the counters and the rows.
LEMMA TypedFacts ==
    ASSUME Typed
    PROVE  /\ log \in Nat /\ head \in Nat /\ index \in Nat /\ epoch \in Nat /\ min \in Nat
           /\ Len(history) \in Nat /\ Len(offers) \in Nat /\ None \notin Nat
           /\ \A r \in rows : r \in RowSet
BY PagingAssumption DEF Typed, Counters, RowsTyped

\* A write that leaves epoch, history and offers alone, and min too.
LEMMA PlainGrows ==
    ASSUME Typed, Typed', Tables,
           UNCHANGED <<log, epoch, min, history, offers, expired>>,
           head <= head', index <= index', RowsGrow, Unique',
           \A s \in rows' : Arrived(s) => Numbered(s)' /\ (s.log = log => s.seq <= head'),
           \A k \in (head + 1)..head' : \E s \in rows' : s.log = log /\ s.seq = k
    PROVE  Tables' /\ Grown
<1>1. epoch \in Nat /\ Len(history) \in Nat /\ min \in Nat /\ head \in Nat
  BY TypedFacts
<1>2. (\A e \in (epoch + 1)..epoch' : FALSE) /\ (\A i \in (Len(history) + 1)..Len(history') : FALSE)
  BY <1>1
<1>3. NewRowsSound
  BY <1>2 DEF NewRowsSound
<1>4. Prefix(history, history') /\ Prefix(offers, offers')
  BY SamePrefix DEF Typed
<1>5. min <= min' /\ epoch <= epoch' /\ min' <= head + 1
  BY <1>1 DEF Tables, Bounds
<1>6. Grown
  BY <1>4, <1>5 DEF Grown
<1> QED BY <1>3, <1>5, <1>6, GrownTables

\* append of one new object.
LEMMA AppendOneGrows ==
    ASSUME Typed, Tables, NEW o \in ObjectSet, ~Known(o.kind, o.id), o.kind # "part",
           AppendAll(<<o>>), min' = min
    PROVE  /\ Unique' /\ RowsGrow
           /\ head <= head' /\ index <= index' /\ head' = head + 1 /\ index' = index + 1
           /\ \A s \in rows' : Arrived(s) => s = RowOf(o, log, head + 1, index + 1)
           /\ \A k \in (head + 1)..head' : \E s \in rows' : s.log = log /\ s.seq = k
<1> DEFINE os == <<o>>
<1>1. os \in Seq(ObjectSet) /\ Len(os) = 1 /\ os[1] = o
  OBVIOUS
<1>2. Distinct(os)
  BY OneDistinct
<1>3. AppendAll(os)
  OBVIOUS
<1>3a. index' = index + Len(os)
  BY DEF AppendAll
<1> HIDE DEF os
<1>4. \A k \in 1..Len(os) : k = 1
  BY <1>1
<1>5. \A k \in 1..Len(os) : ~Known(os[k].kind, os[k].id) /\ os[k].kind # "part"
  BY <1>1, <1>4
<1>6. os \in Seq(ObjectSet)
  BY <1>1
<1>7. /\ Unique' /\ RowsGrow
      /\ head <= head' /\ index <= index' /\ head' = head + Len(os) /\ Len(os) \in Nat
      /\ \A s \in rows' : Arrived(s) =>
           \E k \in 1..Len(os) : s = RowOf(os[k], log, head + k, index + k)
      /\ \A k \in (head + 1)..head' : \E s \in rows' : s.log = log /\ s.seq = k
  BY <1>2, <1>3, <1>5, <1>6, AppendGrows
<1>8. \A s \in rows' : Arrived(s) => s = RowOf(o, log, head + 1, index + 1)
  BY <1>1, <1>4, <1>7
<1> QED BY <1>1, <1>3a, <1>7, <1>8

\* An envelope's id tells its epoch and its recipient.
LEMMA Digits ==
    ASSUME NEW a \in Nat, NEW b \in Nat, NEW x \in 0..9, NEW y \in 0..9, 10 * a + x = 10 * b + y
    PROVE  a = b /\ x = y
<1>1. CASE a = b
  BY <1>1
<1>2. CASE a < b
  <2>1. a + 1 <= b
    BY <1>2
  <2>2. 10 * a + 10 <= 10 * b
    BY <2>1
  <2> QED BY <2>2
<1>3. CASE b < a
  <2>1. b + 1 <= a
    BY <1>3
  <2>2. 10 * b + 10 <= 10 * a
    BY <2>1
  <2> QED BY <2>2
<1> QED BY <1>1, <1>2, <1>3

\* One lemma for every write to the live log: upload of a record.
LEMMA UploadRecordGrows ==
    ASSUME Typed, Typed', Tables, NEW i \in RecordIds, UploadRecord(i)
    PROVE  Tables' /\ Grown
<1> DEFINE o == Object("record", i, epoch, 0)
<1>1. /\ AppendAll(<<o>>) /\ ~Known("record", i)
      /\ UNCHANGED <<log, epoch, min, history, offers, expired>>
  BY DEF UploadRecord
<1>2. o.kind = "record" /\ o.id = i
  BY DEF Object
<1>3. o \in ObjectSet
  <2>1. "record" \in Kinds /\ "record" # "envelope" /\ i \in Nat /\ i # 0 /\ epoch \in Nat /\ 0 \in Nat
    <3>1. i \in 1..9
      BY PagingAssumption
    <3>2. epoch \in Nat
      BY TypedFacts
    <3>3. "record" \in Kinds
      BY DEF Kinds
    <3> QED BY <3>1, <3>2, <3>3
  <2> QED BY <2>1, ObjectType
<1> HIDE DEF o
<1>01. PICK n : n = RowOf(o, log, head + 1, index + 1)
  OBVIOUS
<1>4. ~Known(o.kind, o.id) /\ o.kind # "part" /\ min' = min
  BY <1>1, <1>2
<1>5. /\ Unique' /\ RowsGrow
      /\ head <= head' /\ index <= index' /\ head' = head + 1
      /\ \A s \in rows' : Arrived(s) => s = n
      /\ \A k \in (head + 1)..head' : \E s \in rows' : s.log = log /\ s.seq = k
  BY <1>1, <1>3, <1>4, <1>01, AppendOneGrows
<1>6. n.kind = "record" /\ n.seq = head + 1
  BY <1>2, <1>01, RowOfFields
<1>7. Numbered(n)' /\ n.seq <= head'
  <2>1. Numbered(n)'
    BY <1>6 DEF Numbered
  <2>2. head + 1 \in Nat
    BY TypedFacts
  <2> QED BY <1>5, <1>6, <2>1, <2>2
<1>8. \A s \in rows' : Arrived(s) => Numbered(s)' /\ (s.log = log => s.seq <= head')
  BY <1>5, <1>7
<1> QED BY <1>1, <1>5, <1>8, PlainGrows

\* snapshot adds a compaction whose number, its position, is new.
LEMMA SnapshotGrows ==
    ASSUME Typed, Typed', Tables, Snapshot
    PROVE  Tables' /\ Grown
<1> DEFINE o == Object("compaction", index + 1, epoch, head)
<1>0. index \in Nat /\ head \in Nat /\ epoch \in Nat
  BY TypedFacts
<1>1. /\ AppendAll(<<o>>)
      /\ UNCHANGED <<log, epoch, min, history, offers, expired>>
  BY DEF Snapshot
<1>2. o.kind = "compaction" /\ o.id = index + 1 /\ o.to = head
  BY DEF Object
<1>3. o \in ObjectSet
  <2>1. "compaction" \in Kinds /\ "compaction" # "envelope" /\ index + 1 \in Nat
    BY <1>0 DEF Kinds
  <2> QED BY <1>0, <2>1, ObjectType
<1> HIDE DEF o
<1>01. PICK n : n = RowOf(o, log, head + 1, index + 1)
  OBVIOUS
<1>4. ~Known(o.kind, o.id) /\ o.kind # "part" /\ min' = min
  <2>1. \A r \in rows : r.kind = "compaction" => r.id <= index /\ r.id \in Nat
    BY TypedFacts, RowFields DEF Tables, RowsSound, Numbered
  <2>2. \A r \in rows : r.kind = "compaction" => r.id # index + 1
    BY <1>0, <2>1
  <2> QED BY <1>1, <1>2, <2>2 DEF Known
<1>5. /\ Unique' /\ RowsGrow
      /\ head <= head' /\ index <= index' /\ head' = head + 1 /\ index' = index + 1
      /\ \A s \in rows' : Arrived(s) => s = n
      /\ \A k \in (head + 1)..head' : \E s \in rows' : s.log = log /\ s.seq = k
  BY <1>1, <1>3, <1>4, <1>01, AppendOneGrows
<1>6. n.kind = "compaction" /\ n.seq = head + 1 /\ n.id = index + 1 /\ n.to = head
  BY <1>2, <1>01, RowOfFields
<1>7. Numbered(n)' /\ n.seq <= head'
  <2>1. n.id <= index' /\ n.to <= head'
    BY <1>0, <1>5, <1>6
  <2>2. Numbered(n)'
    BY <1>6, <2>1 DEF Numbered
  <2> QED BY <1>0, <1>5, <1>6, <2>2
<1>8. \A s \in rows' : Arrived(s) => Numbered(s)' /\ (s.log = log => s.seq <= head')
  BY <1>5, <1>7
<1> QED BY <1>1, <1>5, <1>8, PlainGrows

\* upload of a snapshot part.
LEMMA UploadPartGrows ==
    ASSUME Typed, Typed', Tables, NEW i \in RecordIds, UploadPart(i)
    PROVE  Tables' /\ Grown
<1>01. PICK n : n = RowOf(Object("part", i, epoch, 0), None, 0, index + 1)
  OBVIOUS
<1>0. index \in Nat /\ head \in Nat /\ epoch \in Nat /\ log \in Nat /\ None \notin Nat
  BY TypedFacts
<1>1. /\ rows' = rows \cup {n} /\ index' = index + 1 /\ ~Known("part", i)
      /\ UNCHANGED <<log, head, epoch, min, history, offers, expired>>
  BY <1>01 DEF UploadPart
<1>2. n.kind = "part" /\ n.id = i /\ n.log = None /\ n.idx = index + 1 /\ n.body /\ n.entry
  BY <1>01, RowOfFields DEF Object
<1>3. Arrived(n)
  <2>1. n.idx > index
    BY <1>0, <1>2
  <2> QED BY <1>1, <1>2, <2>1 DEF Arrived
<1>4. \A r \in rows : Worn(r, r)
  BY <1>1, WornItself
<1>5. RowsGrow
  BY <1>1, <1>3, <1>4 DEF RowsGrow
<1>6. Unique'
  <2>1. \A r \in rows : ~Same(r, n) /\ ~Same(n, r)
    BY <1>1, <1>2 DEF Known, Same
  <2>2. NoTwins(rows)
    BY DEF Tables, Unique
  <2> QED BY <1>1, <2>1, <2>2 DEF Unique, NoTwins
<1>7. \A s \in rows' : Arrived(s) => s = n
  BY <1>1 DEF Arrived, Known
<1>8. Numbered(n)' /\ n.log # log
  BY <1>0, <1>2 DEF Numbered
<1>9. \A s \in rows' : Arrived(s) => Numbered(s)' /\ (s.log = log => s.seq <= head')
  BY <1>7, <1>8
<1>10. head <= head' /\ index <= index' /\ \A k \in (head + 1)..head' : FALSE
  BY <1>0, <1>1
<1> QED BY <1>1, <1>5, <1>6, <1>9, <1>10, PlainGrows

\* A device with a history is known.
LEMMA MembersKnown ==
    ASSUME Tables, NEW d, Status(d) # {}
    PROVE  \E r \in rows : Same(r, Device(d)) /\ r.log # None
<1>1. PICK i \in 1..Len(history) : history[i].device = d
  BY DEF Status, StatusAt, LastOf
<1> QED BY <1>1 DEF Tables, Registered, RegisteredAt

\* The name of a device record.
LEMMA DeviceFields ==
    ASSUME NEW d
    PROVE  Device(d).kind = "device" /\ Device(d).id = d
BY DEF Device, Object

\* enroll: a device that is not known has no envelope of the current epoch either.
LEMMA EnrollGrows ==
    ASSUME Typed, Typed', Tables, NEW d \in Devices, Enroll(d)
    PROVE  Tables' /\ Grown
<1> DEFINE o == Device(d)
           v == Envelope(epoch, d)
           os == <<o, v>>
<1>0. /\ index \in Nat /\ head \in Nat /\ epoch \in Nat /\ log \in Nat /\ min \in Nat
      /\ d \in 1..9 /\ Len(history) \in Nat
  BY TypedFacts, PagingAssumption
<1>1. /\ AppendAll(os) /\ ~Known("device", d)
      /\ history' = Append(history, Event(d, "pending_keys", 0))
      /\ UNCHANGED <<log, epoch, min, offers, expired>>
  BY DEF Enroll
<1>2. /\ o.kind = "device" /\ o.id = d /\ v.kind = "envelope" /\ v.id = 10 * epoch + d
      /\ v.epoch = epoch /\ v.to = d
  BY DeviceFields, EnvelopeFields
<1>3. o \in ObjectSet /\ v \in ObjectSet
  BY <1>0, DeviceType, EnvelopeType
<1> HIDE DEF o, v
<1>4. os \in Seq(ObjectSet) /\ Len(os) = 2 /\ os[1] = o /\ os[2] = v
  BY <1>3
<1>5. Distinct(os)
  BY <1>2, <1>4 DEF Distinct, Same
<1> HIDE DEF os
<1>6. \A k \in 1..Len(os) : k = 1 \/ k = 2
  BY <1>4
<1>7. ~Known("envelope", 10 * epoch + d)
  <2> SUFFICES ASSUME NEW r \in rows, r.kind = "envelope", r.id = 10 * epoch + d PROVE FALSE
    BY DEF Known
  <2>1. r.epoch \in Nat /\ r.to \in 0..9 /\ 10 * r.epoch + r.to = 10 * epoch + d
    BY TypedFacts DEF RowSet, WellNamed
  <2>2. r.to = d /\ r.to # 0
    <3>1. d \in 0..9 /\ d # 0
      BY <1>0
    <3>2. r.epoch \in Nat
      BY <2>1
    <3>3. r.to \in 0..9
      BY <2>1
    <3>4. epoch \in Nat
      BY <1>0
    <3>5. 10 * r.epoch + r.to = 10 * epoch + d
      BY <2>1
    <3>6. r.to = d
      BY <3>1, <3>2, <3>3, <3>4, <3>5, Digits
    <3> QED BY <3>1, <3>6
  <2>3. Known("device", r.to)
    BY <2>2 DEF Tables, RowsSound, Numbered
  <2> QED BY <1>1, <2>2, <2>3
<1>8. \A k \in 1..Len(os) : ~Known(os[k].kind, os[k].id) /\ os[k].kind # "part"
  BY <1>1, <1>2, <1>4, <1>6, <1>7
<1>9. os \in Seq(ObjectSet) /\ min' = min
  BY <1>1, <1>4
<1>10. /\ Unique' /\ RowsGrow
       /\ head <= head' /\ index <= index' /\ head' = head + Len(os) /\ Len(os) \in Nat
       /\ \A s \in rows' : Arrived(s) =>
            \E k \in 1..Len(os) : s = RowOf(os[k], log, head + k, index + k)
       /\ \A k \in 1..Len(os) : RowOf(os[k], log, head + k, index + k) \in rows'
       /\ \A k \in (head + 1)..head' : \E s \in rows' : s.log = log /\ s.seq = k
  BY <1>1, <1>5, <1>8, <1>9, AppendGrows
<1>02. PICK a : a = RowOf(o, log, head + 1, index + 1)
  OBVIOUS
<1>03. PICK b : b = RowOf(v, log, head + 2, index + 2)
  OBVIOUS
<1>11. a \in rows' /\ b \in rows' /\ \A s \in rows' : Arrived(s) => s = a \/ s = b
  BY <1>4, <1>6, <1>10, <1>02, <1>03
<1>12. /\ a.kind = "device" /\ a.id = d /\ a.seq = head + 1 /\ a.log = log
       /\ b.kind = "envelope" /\ b.epoch = epoch /\ b.to = d /\ b.seq = head + 2
  BY <1>2, <1>02, <1>03, RowOfFields
<1>13. Known("device", d)'
  BY <1>11, <1>12 DEF Known
<1>14. Numbered(a)' /\ Numbered(b)' /\ a.seq <= head' /\ b.seq <= head'
  <2>1. Numbered(a)'
    BY <1>12 DEF Numbered
  <2>2. epoch <= epoch'
    BY <1>0, <1>1
  <2>3. Numbered(b)'
    BY <1>12, <1>13, <2>2 DEF Numbered
  <2>4. head' = head + 2
    BY <1>4, <1>10
  <2>5. head + 1 <= head + 2
    BY <1>0
  <2> QED BY <1>0, <1>12, <2>1, <2>3, <2>4, <2>5
<1>15. /\ Prefix(history, history') /\ Prefix(offers, offers')
       /\ \A i \in (Len(history) + 1)..Len(history') : RegisteredAt(i)'
  <2> DEFINE e == Event(d, "pending_keys", 0)
  <2>1. e \in EventSet /\ e.device = d /\ e.revoked = 0
    BY DEF Event, EventSet
  <2> HIDE DEF e
  <2>2. history \in Seq(EventSet) /\ offers \in Seq(OfferSet)
    BY DEF Typed
  <2>3. Prefix(history, history') /\ \A i \in (Len(history) + 1)..Len(history') : history'[i] = e
    BY <1>1, <2>1, <2>2, AppendPrefix DEF e
  <2>4. Prefix(offers, offers')
    BY <1>1, <2>2, SamePrefix
  <2>5. Same(a, Device(d)) /\ a.log # None
    BY <1>0, <1>12, DeviceFields, TypedFacts DEF Same
  <2>6. \A i \in (Len(history) + 1)..Len(history') : RegisteredAt(i)'
    BY <1>11, <2>1, <2>3, <2>5 DEF RegisteredAt
  <2> QED BY <2>3, <2>4, <2>6
<1>16. NewRowsSound
  <2>1. \A e \in (epoch + 1)..epoch' : FALSE
    BY <1>0, <1>1
  <2>2. \A s \in rows' : Arrived(s) => Numbered(s)' /\ (s.log = log => s.seq <= head')
    BY <1>11, <1>14
  <2> QED BY <1>10, <1>15, <2>1, <2>2 DEF NewRowsSound
<1>17. min <= min' /\ epoch <= epoch' /\ min' <= head + 1
  BY <1>0, <1>1 DEF Tables, Bounds
<1>18. Grown
  BY <1>1, <1>10, <1>15, <1>17 DEF Grown
<1> QED BY <1>10, <1>16, <1>17, <1>18, GrownTables

\* A write that leaves the rows and the chain row alone.
LEMMA RowsAlone ==
    ASSUME Typed, Tables, UNCHANGED <<rows, chain>>
    PROVE  /\ Unique' /\ RowsGrow
           /\ \A s \in rows' : ~Arrived(s)
           /\ \A k \in (head + 1)..head' : FALSE
           /\ \A e \in (epoch + 1)..epoch' : FALSE
           /\ UNCHANGED <<log, head, index, epoch, min>>
           /\ head <= head' /\ index <= index' /\ min <= min' /\ epoch <= epoch' /\ min' <= head + 1
<1>0. index \in Nat /\ head \in Nat /\ epoch \in Nat /\ log \in Nat /\ min \in Nat
  BY TypedFacts
<1>1. UNCHANGED <<log, head, index, epoch, min>> /\ rows' = rows
  BY DEF chain
<1>2. \A r \in rows : Worn(r, r)
  BY <1>1, WornItself
<1>3. \A s \in rows' : ~Arrived(s)
  BY <1>1 DEF Arrived, Known
<1>4. RowsGrow
  BY <1>1, <1>2 DEF RowsGrow
<1>5. Unique'
  BY <1>1 DEF Tables, Unique
<1>6. (\A k \in (head + 1)..head' : FALSE) /\ (\A e \in (epoch + 1)..epoch' : FALSE)
  BY <1>0, <1>1
<1>7. head <= head' /\ index <= index' /\ min <= min' /\ epoch <= epoch' /\ min' <= head + 1
  BY <1>0, <1>1 DEF Tables, Bounds
<1> QED BY <1>1, <1>3, <1>4, <1>5, <1>6, <1>7

\* ack adds an event.
LEMMA AckGrows ==
    ASSUME Typed, Typed', Tables, NEW d \in Devices, Ack(d)
    PROVE  Tables' /\ Grown
<1>1. /\ Status(d) = {"pending_keys"} /\ history' = Append(history, Event(d, "active", 0))
      /\ UNCHANGED <<rows, chain>> /\ offers' = offers /\ expired' = expired
  BY DEF Ack
<1>2. /\ Unique' /\ RowsGrow
      /\ \A s \in rows' : ~Arrived(s)
      /\ \A k \in (head + 1)..head' : FALSE
      /\ \A e \in (epoch + 1)..epoch' : FALSE
      /\ UNCHANGED <<log, head, index, epoch, min>>
      /\ head <= head' /\ index <= index' /\ min <= min' /\ epoch <= epoch' /\ min' <= head + 1
  BY <1>1, RowsAlone
<1> DEFINE e == Event(d, "active", 0)
<1>3. e \in EventSet /\ e.device = d /\ e.revoked = 0
  BY DEF Event, EventSet
<1> HIDE DEF e
<1>4. history \in Seq(EventSet) /\ offers \in Seq(OfferSet)
  BY DEF Typed
<1>5. Prefix(history, history') /\ \A i \in (Len(history) + 1)..Len(history') : history'[i] = e
  BY <1>1, <1>3, <1>4, AppendPrefix DEF e
<1>6. Prefix(offers, offers')
  BY <1>1, <1>4, SamePrefix
<1>7. PICK r \in rows : Same(r, Device(d)) /\ r.log # None
  <2>1. Status(d) # {}
    BY <1>1
  <2> QED BY <2>1, MembersKnown
<1>8. \A i \in (Len(history) + 1)..Len(history') : RegisteredAt(i)'
  BY <1>1, <1>3, <1>5, <1>7 DEF RegisteredAt
<1>9. NewRowsSound
  BY <1>2, <1>8 DEF NewRowsSound
<1>10. Grown
  BY <1>1, <1>2, <1>5, <1>6 DEF Grown
<1> QED BY <1>2, <1>9, <1>10, GrownTables

\* offer, enrollment_request and approve or reject each add a version of one offer.
LEMMA OfferVersion ==
    ASSUME Typed, NEW q \in RequestIds, OfferStep(q)
    PROVE  \E e \in OfferSet : offers' = Append(offers, e)
<1>1. log \in Nat /\ offers \in Seq(OfferSet)
  BY TypedFacts DEF Typed
<1>2. ASSUME NEW d \in Devices, offers' = Append(offers, OfferEvent(q, log, d, FALSE, "awaiting_approval"))
      PROVE  \E e \in OfferSet : offers' = Append(offers, e)
  <2>1. OfferEvent(q, log, d, FALSE, "awaiting_approval") \in OfferSet
    BY <1>1 DEF OfferEvent, OfferSet
  <2> QED BY <1>2, <2>1
<1>3. \A o \in OfferAt(q, Len(offers)) : o \in OfferSet
  <2>1. \A i \in 1..Len(offers) : offers[i] \in OfferSet
    BY <1>1, ElementOfSeq
  <2> QED BY <2>1 DEF OfferAt, LastOf
<1>4. ASSUME NEW o \in OfferAt(q, Len(offers)), offers' = Append(offers, [o EXCEPT !.asked = TRUE])
      PROVE  \E e \in OfferSet : offers' = Append(offers, e)
  <2>1. [o EXCEPT !.asked = TRUE] \in OfferSet
    BY <1>3 DEF OfferSet
  <2> QED BY <1>4, <2>1
<1>5. ASSUME NEW o \in OfferAt(q, Len(offers)), NEW s \in {"approved", "rejected"},
             offers' = Append(offers, [o EXCEPT !.status = s])
      PROVE  \E e \in OfferSet : offers' = Append(offers, e)
  <2>1. [o EXCEPT !.status = s] \in OfferSet
    BY <1>3 DEF OfferSet
  <2> QED BY <1>5, <2>1
<1>6. \/ \E d \in Devices : offers' = Append(offers, OfferEvent(q, log, d, FALSE, "awaiting_approval"))
      \/ \E o \in OfferAt(q, Len(offers)) :
           \/ offers' = Append(offers, [o EXCEPT !.asked = TRUE])
           \/ \E s \in {"approved", "rejected"} : offers' = Append(offers, [o EXCEPT !.status = s])
  BY Zenon DEF OfferStep
<1> QED BY <1>2, <1>4, <1>5, <1>6, Zenon

\* Such a step changes nothing else.
LEMMA OfferGrows ==
    ASSUME Typed, Typed', Tables, NEW q \in RequestIds, OfferStep(q)
    PROVE  Tables' /\ Grown
<1>1. /\ UNCHANGED <<rows, chain>> /\ history' = history /\ expired' = expired
      /\ \E e \in OfferSet : offers' = Append(offers, e)
  BY OfferVersion DEF OfferStep
<1>2. /\ Unique' /\ RowsGrow
      /\ \A s \in rows' : ~Arrived(s)
      /\ \A k \in (head + 1)..head' : FALSE
      /\ \A e \in (epoch + 1)..epoch' : FALSE
      /\ UNCHANGED <<log, head, index, epoch, min>>
      /\ head <= head' /\ index <= index' /\ min <= min' /\ epoch <= epoch' /\ min' <= head + 1
  BY <1>1, RowsAlone
<1>3. PICK e \in OfferSet : offers' = Append(offers, e)
  BY <1>1
<1>4. history \in Seq(EventSet) /\ offers \in Seq(OfferSet) /\ Len(history) \in Nat
  BY DEF Typed
<1>5. Prefix(offers, offers')
  BY <1>3, <1>4, AppendPrefix
<1>6. Prefix(history, history')
  BY <1>1, <1>4, SamePrefix
<1>7. \A i \in (Len(history) + 1)..Len(history') : FALSE
  BY <1>1, <1>4
<1>8. NewRowsSound
  BY <1>2, <1>7 DEF NewRowsSound
<1>9. Grown
  BY <1>1, <1>2, <1>5, <1>6 DEF Grown
<1> QED BY <1>2, <1>8, <1>9, GrownTables

\* expire: only envelopes of expired epochs change.
LEMMA ExpiredRow ==
    ASSUME NEW R \in SUBSET RowSet, NEW E, NEW m
    PROVE  \E g \in [R -> RowSet] :
             /\ Expired(R, E, m) = {g[r] : r \in R}
             /\ \A r \in R :
                  /\ Kin(r, g[r])
                  /\ g[r].body <=> r.body /\ ~(r.kind = "envelope" /\ r.epoch \in E)
                  /\ g[r].entry <=> r.entry /\ ~(r.kind = "envelope" /\ r.epoch \in E /\ r.seq < m)
<1> DEFINE h(r) == [r EXCEPT !.body = r.body /\ ~(r.kind = "envelope" /\ r.epoch \in E),
                      !.entry = r.entry /\ ~(r.kind = "envelope" /\ r.epoch \in E /\ r.seq < m)]
           g == [r \in R |-> h(r)]
<1>1. g \in [R -> RowSet]
  <2>1. \A r \in R : h(r) \in RowSet
    <3>1. SUFFICES ASSUME NEW r \in R PROVE h(r) \in RowSet
      OBVIOUS
    <3>2. (r.body /\ ~(r.kind = "envelope" /\ r.epoch \in E)) \in BOOLEAN /\ (r.entry /\ ~(r.kind = "envelope" /\ r.epoch \in E /\ r.seq < m)) \in BOOLEAN
      BY Zenon
    <3>3. r \in RowSet
      OBVIOUS
    <3> QED BY <3>2, <3>3, RowEdited
  <2> HIDE DEF h
  <2> QED BY <2>1
<1>2. Expired(R, E, m) = {g[r] : r \in R}
  BY DEF Expired
<1>3. ASSUME NEW r \in R
      PROVE  /\ Kin(r, g[r])
             /\ g[r].body <=> r.body /\ ~(r.kind = "envelope" /\ r.epoch \in E)
             /\ g[r].entry <=> r.entry /\ ~(r.kind = "envelope" /\ r.epoch \in E /\ r.seq < m)
  <2> DEFINE b == r.body /\ ~(r.kind = "envelope" /\ r.epoch \in E)
             n == r.entry /\ ~(r.kind = "envelope" /\ r.epoch \in E /\ r.seq < m)
  <2>1. g[r] = [r EXCEPT !.body = b, !.entry = n]
    OBVIOUS
  <2> HIDE DEF b, n, g
  <2>2. Kin(r, g[r]) /\ g[r].body = b /\ g[r].entry = n
    BY <2>1 DEF Kin, RowSet
  <2> QED BY <2>2, Zenon DEF b, n
<1> HIDE DEF g
<1> QED BY <1>1, <1>2, <1>3

\* prune: only records of the live log change.
LEMMA PrunedRow ==
    ASSUME NEW R \in SUBSET RowSet, NEW through
    PROVE  \E g \in [R -> RowSet] :
             /\ Pruned(R, through) = {g[r] : r \in R}
             /\ \A r \in R :
                  /\ Kin(r, g[r])
                  /\ g[r].body <=> r.body /\ ~(r.kind = "record" /\ r.log = log /\ r.seq <= through)
                  /\ g[r].entry <=> r.entry /\ ~(r.kind = "record" /\ r.log = log /\ r.seq <= through)
<1> DEFINE h(r) == [r EXCEPT !.body = r.body /\ ~(r.kind = "record" /\ r.log = log /\ r.seq <= through),
                      !.entry = r.entry /\ ~(r.kind = "record" /\ r.log = log /\ r.seq <= through)]
           g == [r \in R |-> h(r)]
<1>1. g \in [R -> RowSet]
  <2>1. \A r \in R : h(r) \in RowSet
    <3>1. SUFFICES ASSUME NEW r \in R PROVE h(r) \in RowSet
      OBVIOUS
    <3>2. (r.body /\ ~(r.kind = "record" /\ r.log = log /\ r.seq <= through)) \in BOOLEAN /\ (r.entry /\ ~(r.kind = "record" /\ r.log = log /\ r.seq <= through)) \in BOOLEAN
      BY Zenon
    <3>3. r \in RowSet
      OBVIOUS
    <3> QED BY <3>2, <3>3, RowEdited
  <2> HIDE DEF h
  <2> QED BY <2>1
<1>2. Pruned(R, through) = {g[r] : r \in R}
  BY DEF Pruned
<1>3. ASSUME NEW r \in R
      PROVE  /\ Kin(r, g[r])
             /\ g[r].body <=> r.body /\ ~(r.kind = "record" /\ r.log = log /\ r.seq <= through)
             /\ g[r].entry <=> r.entry /\ ~(r.kind = "record" /\ r.log = log /\ r.seq <= through)
  <2> DEFINE b == r.body /\ ~(r.kind = "record" /\ r.log = log /\ r.seq <= through)
             n == r.entry /\ ~(r.kind = "record" /\ r.log = log /\ r.seq <= through)
  <2>1. g[r] = [r EXCEPT !.body = b, !.entry = n]
    OBVIOUS
  <2> HIDE DEF b, n, g
  <2>2. Kin(r, g[r]) /\ g[r].body = b /\ g[r].entry = n
    BY <2>1 DEF Kin, RowSet
  <2> QED BY <2>2, Zenon DEF b, n
<1> HIDE DEF g
<1> QED BY <1>1, <1>2, <1>3

\* maintenance takes the envelopes of due epochs.
LEMMA MaintenanceGrows ==
    ASSUME Typed, Typed', Tables, NEW E, Maintenance(E)
    PROVE  Tables' /\ Grown
<1>0. /\ index \in Nat /\ head \in Nat /\ epoch \in Nat /\ log \in Nat /\ min \in Nat
      /\ rows \in SUBSET RowSet
  BY TypedFacts
<1>1. /\ rows' = Expired(rows, E, min) /\ expired' = expired \cup E
      /\ UNCHANGED <<log, head, index, epoch, min, history, offers>>
  BY DEF Maintenance, chain
<1>2. PICK g \in [rows -> RowSet] :
             /\ Expired(rows, E, min) = {g[r] : r \in rows}
             /\ \A r \in rows :
                  /\ Kin(r, g[r])
                  /\ g[r].body <=> r.body /\ ~(r.kind = "envelope" /\ r.epoch \in E)
                  /\ g[r].entry <=> r.entry /\ ~(r.kind = "envelope" /\ r.epoch \in E /\ r.seq < min)
  BY <1>0, ExpiredRow
<1>3. \A r \in rows : Worn(r, g[r])
  <2> SUFFICES ASSUME NEW r \in rows PROVE Worn(r, g[r])
    OBVIOUS
  <2>1. Lasting(r)
    BY DEF Tables, RowsSound
  <2> QED BY <1>1, <1>2, <2>1 DEF Worn, Lasting
<1>4. RowsGrow
  BY <1>1, <1>2, <1>3 DEF RowsGrow
<1>5. \A s \in rows' : ~Arrived(s)
  BY <1>1, <1>2 DEF Arrived, Known, Kin
<1>6. Unique'
  <2>1. NoTwins(Expired(rows, E, min))
    BY <1>0, ExpiredTwins DEF Tables, Unique
  <2> QED BY <1>1, <2>1 DEF Unique
<1>7. /\ \A k \in (head + 1)..head' : FALSE
      /\ \A e \in (epoch + 1)..epoch' : FALSE
      /\ \A i \in (Len(history) + 1)..Len(history') : FALSE
  BY <1>0, <1>1, TypedFacts
<1>8. NewRowsSound
  BY <1>5, <1>7 DEF NewRowsSound
<1>9. Prefix(history, history') /\ Prefix(offers, offers')
  BY <1>1, SamePrefix DEF Typed
<1>10. head <= head' /\ index <= index' /\ min <= min' /\ epoch <= epoch' /\ min' <= head + 1
  BY <1>0, <1>1 DEF Tables, Bounds
<1>11. Grown
  BY <1>1, <1>4, <1>9, <1>10 DEF Grown
<1> QED BY <1>6, <1>8, <1>10, <1>11, GrownTables

\* prune takes records up to the new boundary and envelopes of the epochs that are due.
LEMMA PruneGrows ==
    ASSUME Typed, Typed', Tables, NEW c \in rows, NEW E, NEW through, Prune(c, through, E)
    PROVE  Tables' /\ Grown
<1> DEFINE o == Object("admin", index + 1, epoch, 0)
           os == <<o>>
           A == Appended(rows, os, log, head)
           P == Pruned(A, through)
<1>0. /\ index \in Nat /\ head \in Nat /\ epoch \in Nat /\ log \in Nat /\ min \in Nat
      /\ rows \in SUBSET RowSet /\ IsFiniteSet(rows) /\ index + 1 \in Nat
  BY TypedFacts DEF Typed, RowsTyped
<1>1. /\ c.kind = "compaction" /\ c.log = log /\ through \in (min - 1)..c.to
      /\ rows' = Expired(P, E, through + 1) /\ expired' = expired \cup E
      /\ head' = head + 1 /\ index' = index + 2 /\ min' = through + 1
      /\ UNCHANGED <<log, epoch, history, offers>>
  BY DEF Prune
<1>2. c.to <= head /\ c.to \in Nat
  BY <1>1, TypedFacts, RowFields DEF Tables, RowsSound, Numbered
<1>3. through \in Int /\ min <= min' /\ min' <= head + 1 /\ epoch <= epoch' /\ head <= head' /\ index <= index'
  <2>1. \A m, t, u, h \in Int : t \in (m - 1)..u /\ u <= h => m <= t + 1 /\ t + 1 <= h + 1
    OBVIOUS
  <2>2. through \in Int
    BY <1>0, <1>1, <1>2
  <2> QED BY <1>0, <1>1, <1>2, <2>1, <2>2
<1>4. o.kind = "admin" /\ o.id = index + 1
  BY DEF Object
<1>5. o \in ObjectSet
  <2>1. "admin" \in Kinds /\ "admin" # "envelope" /\ 0 \in Nat
    BY DEF Kinds
  <2> QED BY <1>0, <2>1, ObjectType
<1> HIDE DEF o
<1>6. ~Known("admin", index + 1)
  <2>1. \A r \in rows : r.kind = "admin" => r.id <= index /\ r.id \in Nat
    BY TypedFacts, RowFields DEF Tables, RowsSound, Numbered
  <2> QED BY <1>0, <2>1 DEF Known
<1>7. os \in Seq(ObjectSet) /\ Len(os) = 1 /\ os[1] = o /\ Distinct(os)
  BY <1>5, OneDistinct
<1> HIDE DEF os
<1>8. PICK n : n = RowOf(o, log, head + 1, index + 1)
  OBVIOUS
<1>9. A = rows \cup {n}
  <2>1. \A k \in 1..Len(os) : k = 1
    BY <1>7
  <2>2. 1 \in 1..Len(os)
    BY <1>7
  <2>3. \A r \in rows : ~Same(r, os[1])
    BY <1>4, <1>6, <1>7 DEF Known, Same
  <2> QED BY <1>7, <1>8, <2>1, <2>2, <2>3 DEF Appended
<1>10. A \in SUBSET RowSet /\ NoTwins(A)
  <2>1. A \in SUBSET RowSet
    BY <1>0, <1>7, AppendedType
  <2>2. NoTwins(rows)
    BY DEF Tables, Unique
  <2> QED BY <1>7, <2>1, <2>2, AppendedTwins
<1> HIDE DEF A
<1>11. PICK g \in [A -> RowSet] :
             /\ P = {g[r] : r \in A}
             /\ \A r \in A :
                  /\ Kin(r, g[r])
                  /\ g[r].body <=> r.body /\ ~(r.kind = "record" /\ r.log = log /\ r.seq <= through)
                  /\ g[r].entry <=> r.entry /\ ~(r.kind = "record" /\ r.log = log /\ r.seq <= through)
  BY <1>10, PrunedRow
<1>12. P \in SUBSET RowSet /\ NoTwins(P)
  <2>1. P \in SUBSET RowSet
    BY <1>11
  <2> QED BY <1>10, <2>1, PrunedTwins
<1> HIDE DEF P
<1>13. PICK f \in [P -> RowSet] :
             /\ Expired(P, E, through + 1) = {f[r] : r \in P}
             /\ \A r \in P :
                  /\ Kin(r, f[r])
                  /\ f[r].body <=> r.body /\ ~(r.kind = "envelope" /\ r.epoch \in E)
                  /\ f[r].entry <=> r.entry /\ ~(r.kind = "envelope" /\ r.epoch \in E /\ r.seq < through + 1)
  <2>1. P \in SUBSET RowSet
    BY <1>12
  <2> QED BY <2>1, ExpiredRow, Zenon
<1>14. Unique'
  <2>1. NoTwins(Expired(P, E, through + 1))
    BY <1>12, ExpiredTwins
  <2> QED BY <1>1, <2>1 DEF Unique
<1>15. rows' = {f[g[r]] : r \in A}
  BY <1>1, <1>11, <1>13
<1>16. \A r \in A : /\ Kin(r, f[g[r]])
                    /\ f[g[r]].body <=> /\ r.body /\ ~(r.kind = "record" /\ r.log = log /\ r.seq <= through)
                                        /\ ~(r.kind = "envelope" /\ r.epoch \in E)
                    /\ f[g[r]].entry <=> /\ r.entry /\ ~(r.kind = "record" /\ r.log = log /\ r.seq <= through)
                                         /\ ~(r.kind = "envelope" /\ r.epoch \in E /\ r.seq < through + 1)
  BY <1>11, <1>13 DEF Kin
<1>17. \A r \in rows : Worn(r, f[g[r]])
  <2> SUFFICES ASSUME NEW r \in rows PROVE Worn(r, f[g[r]])
    OBVIOUS
  <2>1. Lasting(r) /\ r \in A /\ r.seq \in Nat
    BY <1>9, TypedFacts, RowFields DEF Tables, RowsSound
  <2>2. (r.seq <= through <=> ~(r.seq >= min')) /\ (r.seq < through + 1 <=> r.seq < min')
        /\ (r.seq >= min' => r.seq >= min)
    BY <1>0, <1>1, <1>3, <2>1
  <2> QED BY <1>1, <1>16, <2>1, <2>2 DEF Worn, Lasting
<1>18. /\ n.kind = "admin" /\ n.id = index + 1 /\ n.log = log /\ n.seq = head + 1 /\ n.idx = index + 1
       /\ n.body /\ n.entry
  BY <1>4, <1>8, RowOfFields
<1>19. PICK m : m = f[g[n]]
  OBVIOUS
<1>20. /\ m.kind = "admin" /\ m.id = index + 1 /\ m.log = log /\ m.seq = head + 1 /\ m.idx = index + 1
       /\ m.body /\ m.entry
  BY <1>9, <1>16, <1>18, <1>19 DEF Kin
<1>21. Arrived(m)
  <2>1. m.seq > head /\ m.idx > index
    BY <1>0, <1>20
  <2> QED BY <1>6, <1>20, <2>1 DEF Arrived
<1>22. rows' = {f[g[r]] : r \in rows} \cup {m}
  BY <1>9, <1>15, <1>19
<1>23. RowsGrow
  BY <1>17, <1>21, <1>22 DEF RowsGrow
<1>24. \A s \in rows' : Arrived(s) => s = m
  <2>1. \A r \in rows : ~Arrived(f[g[r]])
    BY <1>17 DEF Arrived, Known, Worn, Kin
  <2> QED BY <1>22, <2>1
<1>25. NewRowsSound
  <2>1. index + 1 <= index' /\ head + 1 <= head'
    <3>1. \A a \in Nat : a + 1 <= a + 2 /\ a + 1 <= a + 1
      OBVIOUS
    <3> QED BY <1>0, <1>1, <3>1
  <2>2. Numbered(m)'
    BY <1>20, <2>1 DEF Numbered
  <2>3. \A s \in rows' : Arrived(s) => Numbered(s)' /\ (s.log = log => s.seq <= head')
    BY <1>20, <1>24, <2>1, <2>2
  <2>4. \A k \in (head + 1)..head' : \E s \in rows' : s.log = log /\ s.seq = k
    <3>1. \A k \in (head + 1)..head' : k = head + 1
      BY <1>0, <1>1
    <3> QED BY <1>20, <1>22, <3>1
  <2>5. /\ \A e \in (epoch + 1)..epoch' : FALSE
        /\ \A i \in (Len(history) + 1)..Len(history') : FALSE
    BY <1>0, <1>1, TypedFacts
  <2> QED BY <2>3, <2>4, <2>5 DEF NewRowsSound
<1>26. Prefix(history, history') /\ Prefix(offers, offers')
  BY <1>1, SamePrefix DEF Typed
<1>27. Grown
  BY <1>1, <1>3, <1>23, <1>26 DEF Grown
<1> QED BY <1>3, <1>14, <1>25, <1>27, GrownTables

\* The events of a set of devices.
LEMMA EventsShape ==
    ASSUME NEW S \in SUBSET Devices, NEW status, NEW n, NEW T, \A x \in S : Event(x, status, n) \in T
    PROVE  Events(S, status, n) \in Seq(T)
<1>1. Cardinality(S) \in Nat /\ \A k \in 1..Cardinality(S) : Sorted(S)[k] \in S
  BY DeviceSets
<1>2. \A k \in 1..Cardinality(S) : Event(Sorted(S)[k], status, n) \in T
  BY <1>1
<1> QED BY <1>1, <1>2 DEF Events

\* The fields of an event.
LEMMA EventFields ==
    ASSUME NEW d, NEW status, NEW n
    PROVE  Event(d, status, n).device = d /\ Event(d, status, n).status = status /\ Event(d, status, n).revoked = n
BY DEF Event

\* The envelopes of the next epoch, and the one of a new device, are new.
LEMMA NextEnvelopesNew ==
    ASSUME Typed, Tables, NEW t \in 0..9
    PROVE  ~Known("envelope", 10 * (epoch + 1) + t)
<1> SUFFICES ASSUME NEW r \in rows, r.kind = "envelope", r.id = 10 * (epoch + 1) + t PROVE FALSE
  BY DEF Known
<1>1. r.epoch \in Nat /\ r.to \in 0..9 /\ 10 * r.epoch + r.to = 10 * (epoch + 1) + t
  BY TypedFacts DEF RowSet, WellNamed
<1>2. PICK e : e = epoch + 1
  OBVIOUS
<1>3. e \in Nat /\ epoch \in Nat
  <2>1. epoch \in Nat
    BY TypedFacts
  <2> QED BY <1>2, <2>1
<1>4. 10 * r.epoch + r.to = 10 * e + t
  BY <1>1, <1>2
<1>5. r.epoch = e
  <2>1. r.epoch \in Nat
    BY <1>1
  <2>2. r.to \in 0..9
    BY <1>1
  <2>3. e \in Nat
    BY <1>3
  <2> QED BY <1>4, <2>1, <2>2, <2>3, Digits
<1>6. r.epoch <= epoch
  BY DEF Tables, RowsSound, Numbered
<1> QED BY <1>2, <1>3, <1>5, <1>6

\* A device that is not known has no envelope of the current epoch.
LEMMA DeviceEnvelopeNew ==
    ASSUME Typed, Tables, NEW d \in Devices, ~Known("device", d)
    PROVE  ~Known("envelope", 10 * epoch + d)
<1> SUFFICES ASSUME NEW r \in rows, r.kind = "envelope", r.id = 10 * epoch + d PROVE FALSE
  BY DEF Known
<1>1. r.epoch \in Nat
  BY TypedFacts DEF RowSet
<1>2. r.to \in 0..9
  BY TypedFacts DEF RowSet, WellNamed
<1>3. 10 * r.epoch + r.to = 10 * epoch + d
  BY TypedFacts DEF RowSet, WellNamed
<1>4. d \in 0..9
  BY PagingAssumption
<1>5. epoch \in Nat
  BY TypedFacts
<1>6. r.to = d
  BY <1>1, <1>2, <1>3, <1>4, <1>5, Digits
<1>7. d # 0
  BY PagingAssumption
<1>8. Known("device", r.to)
  BY <1>6, <1>7 DEF Tables, RowsSound, Numbered
<1> QED BY <1>6, <1>8

\* The fields of an object.
LEMMA ObjectFields ==
    ASSUME NEW kind, NEW id, NEW e, NEW to
    PROVE  /\ Object(kind, id, e, to).kind = kind /\ Object(kind, id, e, to).id = id
           /\ Object(kind, id, e, to).epoch = e /\ Object(kind, id, e, to).to = to
BY DEF Object

\* x is in the list s.
Holds(s, x) == \E k \in 1..Len(s) : s[k] = x

\* A concatenation has what its parts have.
LEMMA ConcatHolds ==
    ASSUME NEW A, NEW B, NEW a, NEW b, Lists(a, A), Lists(b, B), NEW x, Holds(a, x) \/ Holds(b, x)
    PROVE  Holds(a \o b, x)
<1>1. a \in Seq(A) /\ b \in Seq(B)
  BY DEF Lists
<1>2. /\ Len(a) \in Nat /\ Len(b) \in Nat /\ Len(a \o b) = Len(a) + Len(b)
      /\ \A i \in 1..Len(a) : (a \o b)[i] = a[i]
      /\ \A i \in (Len(a) + 1)..(Len(a) + Len(b)) : (a \o b)[i] = b[i - Len(a)]
  BY <1>1
<1>3. CASE Holds(a, x)
  <2>1. PICK k \in 1..Len(a) : a[k] = x
    BY <1>3 DEF Holds
  <2>2. k \in 1..Len(a \o b) /\ (a \o b)[k] = x
    BY <1>2, <2>1
  <2> QED BY <2>2 DEF Holds
<1>4. CASE Holds(b, x)
  <2>1. PICK k \in 1..Len(b) : b[k] = x
    BY <1>4 DEF Holds
  <2>2. PICK i : i = k + Len(a)
    OBVIOUS
  <2>3. i \in (Len(a) + 1)..(Len(a) + Len(b)) /\ i - Len(a) = k
    BY <1>2, <2>1, <2>2
  <2>4. i \in 1..Len(a \o b) /\ (a \o b)[i] = x
    BY <1>2, <2>1, <2>3
  <2> QED BY <2>4 DEF Holds
<1> QED BY <1>3, <1>4

\* A list of one object, as a list.
LEMMA OneLists ==
    ASSUME NEW o
    PROVE  Lists(<<o>>, {o}) /\ Len(<<o>>) = 1 /\ Holds(<<o>>, o)
<1>1. <<o>> \in Seq({o}) /\ Distinct(<<o>>) /\ Len(<<o>>) = 1
  BY OneDistinct
<1>2. <<o>>[1] = o /\ 1 \in 1..1
  OBVIOUS
<1> QED BY <1>1, <1>2 DEF Lists, Holds

\* Objects that are apart from two sets.
LEMMA ApartUnion ==
    ASSUME NEW A, NEW B, NEW C, Apart(A, C), Apart(B, C)
    PROVE  Apart(A \cup B, C)
BY DEF Apart

\* Objects of different kinds are apart.
LEMMA ApartKinds ==
    ASSUME NEW A, NEW B, \A x \in A, y \in B : x.kind # y.kind
    PROVE  Apart(A, B)
BY DEF Apart, Same

\* The records of new devices list each of them once.
LEMMA DeviceRecordsShape ==
    ASSUME NEW D \in SUBSET Devices
    PROVE  /\ Lists(DeviceRecords(D), {Device(d) : d \in D}) /\ Len(DeviceRecords(D)) = Cardinality(D)
           /\ \A d \in D : Holds(DeviceRecords(D), Device(d))
<1> DEFINE a == DeviceRecords(D)
           A == {Device(d) : d \in D}
<1>1. /\ D \in SUBSET Nat /\ IsFiniteSet(D) /\ Cardinality(D) \in Nat
      /\ \A k \in 1..Cardinality(D) : Sorted(D)[k] \in D
  BY DeviceSets
<1>2. /\ \A j, k \in 1..Cardinality(D) : Sorted(D)[j] = Sorted(D)[k] => j = k
      /\ \A x \in D : \E k \in 1..Cardinality(D) : Sorted(D)[k] = x
  BY <1>1, SortedOnce
<1>3. /\ a \in Seq(A) /\ Len(a) = Cardinality(D)
      /\ \A k \in 1..Cardinality(D) : a[k] = Device(Sorted(D)[k])
  BY <1>1 DEF DeviceRecords
<1> HIDE DEF a
<1>4. ASSUME NEW j \in 1..Cardinality(D), NEW k \in 1..Cardinality(D), Same(a[j], a[k]) PROVE j = k
  <2>1. Sorted(D)[j] = Sorted(D)[k]
    BY <1>3, <1>4, DeviceFields DEF Same
  <2> QED BY <1>2, <2>1
<1>5. Lists(a, A)
  BY <1>3, <1>4 DEF Lists, Distinct
<1>6. \A d \in D : Holds(a, Device(d))
  BY <1>2, <1>3 DEF Holds
<1> QED BY <1>3, <1>5, <1>6 DEF a

\* The operation of an admin and the next epoch.
Admin(n) == Object("admin", n, epoch, 0)
Opened == Object("epoch", epoch + 1, epoch + 1, 0)

\* x is an object of a rotation of m objects: a device, an envelope, the operation, with
\* a number that the index does not yet reach, or the epoch.
OfRotation(D, M, m, x) ==
    \/ \E d \in D : x = Device(d)
    \/ \E t \in M \cup {0} : x = Envelope(epoch + 1, t)
    \/ \E n \in (index + 1)..(index + m) : x = Admin(n)
    \/ x = Opened

\* A rotation lists its objects once.
LEMMA TurnShape ==
    ASSUME epoch \in Nat, index \in Nat, NEW D \in SUBSET Devices, NEW M \in SUBSET Devices,
           NEW signed \in BOOLEAN,
           NEW os, os = TurnObjects(D, M, signed)
    PROVE  /\ Distinct(os)
           /\ \A k \in 1..Len(os) : OfRotation(D, M, Len(os), os[k])
           /\ \A d \in D : Holds(os, Device(d))
           /\ Holds(os, Opened)
<1> DEFINE n == index + Cardinality(D) + Cardinality(M) + 2
           v == DeviceRecords(D)
           a == Envelopes(epoch + 1, M)
           c == Operation(signed, n)
           b == <<Opened>>
           V == {Device(d) : d \in D}
           A == {Envelope(epoch + 1, t) : t \in M \cup {0}}
           C == {Admin(n)}
           B == {Opened}
<1>1. Cardinality(D) \in Nat /\ Cardinality(M) \in Nat /\ epoch + 1 \in Nat
  BY DeviceSets
<1>2. Lists(v, V) /\ Len(v) = Cardinality(D) /\ \A d \in D : Holds(v, Device(d))
  BY DeviceRecordsShape
<1>3. Lists(a, A) /\ Len(a) = Cardinality(M) + 1
  BY <1>1, EnvelopesShape DEF Lists
<1>4. Lists(c, C) /\ Len(c) = IF signed THEN 1 ELSE 0
  <2>1. CASE signed
    <3>1. c = <<Admin(n)>>
      BY <2>1 DEF Operation, Admin
    <3> QED BY <2>1, <3>1, OneLists
  <2>2. CASE ~signed
    <3>1. c = <<>>
      BY <2>2 DEF Operation
    <3>2. <<>> \in Seq(C) /\ Len(<<>>) = 0
      OBVIOUS
    <3>3. Distinct(<<>>)
      BY <3>2 DEF Distinct
    <3>4. Lists(<<>>, C)
      BY <3>2, <3>3 DEF Lists
    <3> QED BY <2>2, <3>1, <3>2, <3>4
  <2> QED BY <2>1, <2>2
<1>5. Lists(b, B) /\ Len(b) = 1 /\ Holds(b, Opened)
  BY OneLists
<1>6. /\ \A x \in V : x.kind = "device"
      /\ \A x \in A : x.kind = "envelope"
      /\ \A x \in C : x.kind = "admin"
      /\ \A x \in B : x.kind = "epoch"
  BY DeviceFields, EnvelopeFields, ObjectFields DEF Admin, Opened
<1>7. os = v \o a \o c \o b
  BY DEF TurnObjects, Opened
<1>8. signed => n = index + (Cardinality(D) + (Cardinality(M) + 1) + 1)
  BY <1>1
<1>9. C = {Admin(n)} /\ V = {Device(d) : d \in D} /\ A = {Envelope(epoch + 1, t) : t \in M \cup {0}} /\ B = {Opened}
  OBVIOUS
<1>10. n \in Nat /\ index < n
  BY <1>1
<1> HIDE DEF n, v, a, c, b, V, A, C, B
<1>11. Lists(v \o a, V \cup A) /\ Len(v \o a) = Len(v) + Len(a)
  <2>1. Apart(V, A)
    BY <1>6, ApartKinds
  <2> QED BY <1>2, <1>3, <2>1, ListsConcat
<1>12. Lists(v \o a \o c, V \cup A \cup C) /\ Len(v \o a \o c) = Len(v) + Len(a) + Len(c)
  <2>1. Apart(V, C) /\ Apart(A, C)
    BY <1>6, ApartKinds
  <2>2. Apart(V \cup A, C)
    BY <2>1, ApartUnion
  <2>3. PICK w, W : w = v \o a /\ W = V \cup A
    OBVIOUS
  <2>4. Lists(w, W) /\ Lists(c, C) /\ Apart(W, C)
    BY <1>4, <1>11, <2>2, <2>3
  <2>5. Lists(w \o c, W \cup C) /\ Len(w \o c) = Len(w) + Len(c)
    BY <2>4, ListsConcat
  <2> QED BY <1>11, <2>3, <2>5
<1>13. Lists(os, V \cup A \cup C \cup B) /\ Len(os) = Len(v) + Len(a) + Len(c) + 1
  <2>1. Apart(V, B) /\ Apart(A, B) /\ Apart(C, B)
    BY <1>6, ApartKinds
  <2>2. Apart(V \cup A, B)
    BY <2>1, ApartUnion
  <2>3. Apart(V \cup A \cup C, B)
    BY <2>1, <2>2, ApartUnion
  <2>4. Lists(v \o a \o c, V \cup A \cup C)
    BY <1>12
  <2>5. Lists(b, B)
    BY <1>5
  <2>6. Lists(os, V \cup A \cup C \cup B) /\ Len(os) = Len(v \o a \o c) + Len(b)
    BY <1>7, <2>3, <2>4, <2>5, ListsConcat
  <2> QED BY <1>5, <1>12, <2>6
<1>14. Distinct(os) /\ \A k \in 1..Len(os) : os[k] \in V \cup A \cup C \cup B
  <2>1. os \in Seq(V \cup A \cup C \cup B) /\ Distinct(os)
    BY <1>13 DEF Lists
  <2> QED BY <2>1, ElementOfSeq
<1>15. n \in (index + 1)..(index + Len(os))
  <2>1. Len(os) >= Cardinality(D) + (Cardinality(M) + 1) + 1
    BY <1>1, <1>2, <1>3, <1>4, <1>13
  <2>2. n = index + Cardinality(D) + Cardinality(M) + 2
    BY DEF n
  <2>3. Len(os) \in Nat
    BY <1>1, <1>2, <1>3, <1>4, <1>13
  <2> QED BY <1>1, <2>1, <2>2, <2>3
<1>16. \A d \in D : Holds(os, Device(d))
  <2> SUFFICES ASSUME NEW d \in D PROVE Holds(os, Device(d))
    OBVIOUS
  <2>1. Holds(v, Device(d))
    BY <1>2
  <2>2. Holds(v \o a, Device(d))
    BY <1>2, <1>3, <2>1, ConcatHolds
  <2>3. Holds(v \o a \o c, Device(d))
    BY <1>4, <1>11, <2>2, ConcatHolds
  <2> QED BY <1>5, <1>7, <1>12, <2>3, ConcatHolds
<1>17. Holds(os, Opened)
  BY <1>5, <1>7, <1>12, ConcatHolds
<1>18. ASSUME NEW k \in 1..Len(os) PROVE OfRotation(D, M, Len(os), os[k])
  <2>1. os[k] \in V \/ os[k] \in A \/ os[k] \in C \/ os[k] \in B
    BY <1>14
  <2> QED BY <1>9, <1>15, <2>1 DEF OfRotation
<1> QED BY <1>14, <1>16, <1>17, <1>18

\* commit_epoch: the objects of a rotation are new.
LEMMA TurnNew ==
    ASSUME Typed, Tables, NEW D \in SUBSET Devices, NEW M \in SUBSET Devices,
           \A d \in D : ~Known("device", d),
           NEW m \in Nat, NEW x, OfRotation(D, M, m, x)
    PROVE  ~Known(x.kind, x.id) /\ x.kind # "part"
<1>0. index \in Nat /\ epoch \in Nat
  BY TypedFacts
<1>1. CASE \E d \in D : x = Device(d)
  BY <1>1, DeviceFields
<1>2. CASE \E t \in M \cup {0} : x = Envelope(epoch + 1, t)
  <2>1. PICK t \in M \cup {0} : x = Envelope(epoch + 1, t)
    BY <1>2
  <2>2. t \in 0..9
    BY PagingAssumption
  <2>3. x.kind = "envelope" /\ x.id = 10 * (epoch + 1) + t
    BY <2>1, EnvelopeFields
  <2> QED BY <2>2, <2>3, NextEnvelopesNew
<1>3. CASE \E n \in (index + 1)..(index + m) : x = Admin(n)
  <2>1. PICK n \in (index + 1)..(index + m) : x = Admin(n)
    BY <1>3
  <2>2. x.kind = "admin" /\ x.id = n
    BY <2>1, ObjectFields DEF Admin
  <2>3. \A r \in rows : r.kind = "admin" => r.id <= index /\ r.id \in Nat
    BY TypedFacts, RowFields DEF Tables, RowsSound, Numbered
  <2> QED BY <1>0, <2>2, <2>3 DEF Known
<1>4. CASE x = Opened
  <2>1. x.kind = "epoch" /\ x.id = epoch + 1
    BY <1>4, ObjectFields DEF Opened
  <2>2. \A r \in rows : r.kind = "epoch" => r.id <= epoch /\ r.id \in Nat
    BY TypedFacts, RowFields DEF Tables, RowsSound, Numbered
  <2> QED BY <1>0, <2>1, <2>2 DEF Known
<1> QED BY <1>1, <1>2, <1>3, <1>4 DEF OfRotation

\* commit_epoch adds its objects, and registers and revokes devices that the log has.
LEMMA RotateGrows ==
    ASSUME Typed, Typed', Tables, NEW R \in SUBSET Devices, NEW D \in SUBSET Devices,
           NEW signed \in BOOLEAN, Rotate(R, D, signed)
    PROVE  Tables' /\ Grown
<1>0. /\ index \in Nat /\ head \in Nat /\ epoch \in Nat /\ log \in Nat /\ min \in Nat
      /\ epoch + 1 \in Nat /\ head' \in Nat /\ None \notin Nat
  BY TypedFacts, PagingAssumption DEF Typed, Counters
<1>1. PICK M, os : M = (Members \ R) \cup D /\ os = TurnObjects(D, M, signed)
  OBVIOUS
<1>2. /\ AppendAll(os) /\ epoch' = epoch + 1
      /\ history' = history \o Events(D, "pending_keys", 0) \o Events(R, "revoked", head')
      /\ R \subseteq Members /\ \A d \in D : ~Known("device", d)
      /\ UNCHANGED <<log, min, offers, expired>>
  BY <1>1 DEF Rotate, TurnObjects
<1>3. M \in SUBSET Devices /\ M \subseteq Members \cup D
  BY <1>1 DEF Members
<1>4. os \in Seq(ObjectSet) /\ Len(os) \in Nat
  <2>1. os \in Seq(ObjectSet)
    BY <1>0, <1>1, <1>3, TurnType
  <2> QED BY <2>1
<1>5. /\ Distinct(os)
      /\ \A k \in 1..Len(os) : OfRotation(D, M, Len(os), os[k])
      /\ \A d \in D : Holds(os, Device(d))
      /\ Holds(os, Opened)
  <2>1. epoch \in Nat
    BY <1>0
  <2>2. index \in Nat
    BY <1>0
  <2>3. M \in SUBSET Devices
    BY <1>3
  <2>4. os = TurnObjects(D, M, signed)
    BY <1>1
  <2> QED BY <2>1, <2>2, <2>3, <2>4, TurnShape
<1>6. \A k \in 1..Len(os) : ~Known(os[k].kind, os[k].id) /\ os[k].kind # "part"
  <2> SUFFICES ASSUME NEW k \in 1..Len(os) PROVE ~Known(os[k].kind, os[k].id) /\ os[k].kind # "part"
    OBVIOUS
  <2>1. OfRotation(D, M, Len(os), os[k])
    BY <1>5
  <2> QED BY <1>2, <1>3, <1>4, <2>1, TurnNew
<1>7. /\ Unique' /\ RowsGrow
      /\ head <= head' /\ index <= index' /\ head' = head + Len(os)
      /\ \A s \in rows' : Arrived(s) =>
           \E k \in 1..Len(os) : s = RowOf(os[k], log, head + k, index + k)
      /\ \A k \in 1..Len(os) : RowOf(os[k], log, head + k, index + k) \in rows'
      /\ \A k \in (head + 1)..head' : \E s \in rows' : s.log = log /\ s.seq = k
  <2>1. min' = min
    BY <1>2
  <2> QED BY <1>2, <1>4, <1>5, <1>6, <2>1, AppendGrows
<1>8. index' = index + Len(os)
  BY <1>2 DEF AppendAll
<1>9. \A t \in Members : \E s \in rows' : Same(s, Device(t)) /\ s.log # None
  <2> SUFFICES ASSUME NEW t \in Members PROVE \E s \in rows' : Same(s, Device(t)) /\ s.log # None
    OBVIOUS
  <2>1. Status(t) # {} /\ t \in Devices
    BY DEF Members
  <2>2. PICK r \in rows : Same(r, Device(t)) /\ r.log # None
    BY <2>1, MembersKnown
  <2>3. PICK s \in rows' : Worn(r, s)
    BY <1>7 DEF RowsGrow
  <2>4. Same(s, Device(t)) /\ s.log # None
    BY <2>2, <2>3 DEF Worn, Kin, Same
  <2> QED BY <2>4
<1>10. \A d \in D : \E s \in rows' : Same(s, Device(d)) /\ s.log # None
  <2> SUFFICES ASSUME NEW d \in D PROVE \E s \in rows' : Same(s, Device(d)) /\ s.log # None
    OBVIOUS
  <2>1. PICK k \in 1..Len(os) : os[k] = Device(d)
    BY <1>5 DEF Holds
  <2>2. PICK s : s = RowOf(os[k], log, head + k, index + k)
    OBVIOUS
  <2>3. s \in rows' /\ s.kind = os[k].kind /\ s.id = os[k].id /\ s.log = log
    BY <1>7, <2>2, RowOfFields
  <2>4. Same(s, Device(d)) /\ s.log # None
    BY <1>0, <2>1, <2>3 DEF Same
  <2> QED BY <2>3, <2>4
<1>11. \A t \in M : Known("device", t)'
  <2>1. \A t \in M : \E s \in rows' : Same(s, Device(t))
    BY <1>3, <1>9, <1>10
  <2> QED BY <2>1, DeviceFields DEF Known, Same
<1>12. \A s \in rows' : Arrived(s) => Numbered(s)' /\ (s.log = log => s.seq <= head')
  <2> SUFFICES ASSUME NEW s \in rows', Arrived(s) PROVE Numbered(s)' /\ s.seq <= head'
    OBVIOUS
  <2>1. PICK k \in 1..Len(os) : s = RowOf(os[k], log, head + k, index + k)
    BY <1>7
  <2>2. /\ s.kind = os[k].kind /\ s.id = os[k].id /\ s.epoch = os[k].epoch /\ s.to = os[k].to
        /\ s.seq = head + k
    BY <2>1, RowOfFields
  <2>3. s.seq <= head'
    <3>1. \A h, j, n \in Nat : j \in 1..n => h + j <= h + n
      OBVIOUS
    <3>2. k \in Nat
      BY <1>4
    <3> QED BY <1>0, <1>4, <1>7, <2>2, <3>1, <3>2
  <2>4. CASE os[k] = Opened
    <3>1. s.kind = "epoch" /\ s.id = epoch' /\ epoch' \in Nat
      BY <1>0, <1>2, <2>2, <2>4, ObjectFields DEF Opened
    <3>2. Numbered(s)'
      BY <3>1 DEF Numbered
    <3> QED BY <2>3, <3>2
  <2>5. CASE \E t \in M \cup {0} : os[k] = Envelope(epoch + 1, t)
    <3>1. PICK t \in M \cup {0} : os[k] = Envelope(epoch + 1, t)
      BY <2>5
    <3>2. s.kind = "envelope" /\ s.epoch = epoch' /\ epoch' \in Nat /\ s.to = t
      BY <1>0, <1>2, <2>2, <3>1, EnvelopeFields
    <3>3. s.to # 0 => s.to \in M
      BY <3>2
    <3>4. Numbered(s)'
      BY <1>11, <3>2, <3>3 DEF Numbered
    <3> QED BY <2>3, <3>4
  <2>6. CASE \E d \in D : os[k] = Device(d)
    <3>1. s.kind = "device" /\ s.id \in Devices
      BY <2>2, <2>6, DeviceFields
    <3>2. Numbered(s)'
      BY <3>1 DEF Numbered
    <3> QED BY <2>3, <3>2
  <2>7. CASE \E n \in (index + 1)..(index + Len(os)) : os[k] = Admin(n)
    <3>1. s.kind = "admin" /\ s.id <= index'
      BY <1>0, <1>4, <1>8, <2>2, <2>7, ObjectFields DEF Admin
    <3>2. Numbered(s)'
      BY <3>1 DEF Numbered
    <3> QED BY <2>3, <3>2
  <2> QED BY <1>5, <2>4, <2>5, <2>6, <2>7 DEF OfRotation
<1>13. \A e \in (epoch + 1)..epoch' : Known("epoch", e)'
  <2>1. PICK k \in 1..Len(os) : os[k] = Opened
    BY <1>5 DEF Holds
  <2>2. RowOf(os[k], log, head + k, index + k) \in rows'
    BY <1>7
  <2>3. Opened.kind = "epoch" /\ Opened.id = epoch + 1
    BY ObjectFields DEF Opened
  <2>4. \E s \in rows' : s.kind = "epoch" /\ s.id = epoch + 1
    BY <2>1, <2>2, <2>3, RowOfFields
  <2>5. \A e \in (epoch + 1)..epoch' : e = epoch + 1
    BY <1>0, <1>2
  <2> QED BY <2>4, <2>5 DEF Known
<1>14. /\ Prefix(history, history') /\ Prefix(offers, offers')
       /\ \A i \in (Len(history) + 1)..Len(history') : RegisteredAt(i)'
  <2> DEFINE T == {e \in EventSet : \/ e.device \in R /\ e.status = "revoked"
                                    \/ e.device \in D /\ e.revoked = 0}
  <2>1. PICK e1, e2 : e1 = Events(D, "pending_keys", 0) /\ e2 = Events(R, "revoked", head')
    OBVIOUS
  <2>2. \A x \in R : Event(x, "revoked", head') \in T
    BY <1>0 DEF Event, EventSet
  <2>3. \A x \in D : Event(x, "pending_keys", 0) \in T
    BY DEF Event, EventSet
  <2>4. e1 \in Seq(T) /\ e2 \in Seq(T)
    <3> HIDE DEF T
    <3> QED BY <2>1, <2>2, <2>3, EventsShape
  <2>5. PICK t : t = e1 \o e2
    OBVIOUS
  <2>6. t \in Seq(T) /\ \A k \in 1..Len(t) : t[k] \in T
    <3> HIDE DEF T
    <3>1. t \in Seq(T)
      BY <2>4, <2>5, ConcatProperties
    <3> QED BY <3>1, ElementOfSeq
  <2>7. history \in Seq(EventSet) /\ offers \in Seq(OfferSet)
    BY DEF Typed
  <2>8. t \in Seq(EventSet) /\ e1 \in Seq(EventSet) /\ e2 \in Seq(EventSet)
    <3>1. T \subseteq EventSet
      OBVIOUS
    <3> HIDE DEF T
    <3> QED BY <2>4, <2>6, <3>1, SeqMonotonic
  <2>9. history' = history \o t
    <3>1. history' = history \o e1 \o e2
      BY <1>2, <2>1
    <3> QED BY <2>5, <2>7, <2>8, <3>1
  <2>10. /\ Prefix(history, history')
         /\ \A i \in (Len(history) + 1)..Len(history') : \E k \in 1..Len(t) : history'[i] = t[k]
    BY <2>7, <2>8, <2>9, ConcatPrefix
  <2>11. Prefix(offers, offers')
    BY <1>2, <2>7, SamePrefix
  <2>12. ASSUME NEW i \in (Len(history) + 1)..Len(history') PROVE RegisteredAt(i)'
    <3>1. history'[i] \in T
      BY <2>6, <2>10
    <3>2. /\ history'[i].status # "revoked" => history'[i].revoked = 0
          /\ history'[i].device \in R \cup D
      BY <3>1
    <3>3. \E s \in rows' : Same(s, Device(history'[i].device)) /\ s.log # None
      BY <1>2, <1>9, <1>10, <3>2
    <3> QED BY <3>2, <3>3 DEF RegisteredAt
  <2> QED BY <2>10, <2>11, <2>12
<1>15. NewRowsSound
  BY <1>7, <1>12, <1>13, <1>14 DEF NewRowsSound
<1>16. min <= min' /\ epoch <= epoch' /\ min' <= head + 1
  BY <1>0, <1>2 DEF Tables, Bounds
<1>17. Grown
  BY <1>2, <1>7, <1>14, <1>16 DEF Grown
<1> QED BY <1>7, <1>15, <1>16, <1>17, GrownTables

\* stage adds rows without a position.
LEMMA StageGrows ==
    ASSUME Typed, Typed', Tables, NEW D \in SUBSET Devices, Stage(D)
    PROVE  Tables' /\ Grown
<1> DEFINE V(d) == RowOf(Device(d), None, 0, 0)
           W(d) == RowOf(Envelope(epoch, d), None, 0, 0)
<1>0. /\ index \in Nat /\ head \in Nat /\ epoch \in Nat /\ log \in Nat /\ None \notin Nat
      /\ D \subseteq 1..9
  BY TypedFacts, PagingAssumption
<1>1. /\ rows' = rows \cup {V(d) : d \in D} \cup {W(d) : d \in D}
      /\ \A d \in D : ~Known("device", d)
      /\ UNCHANGED <<log, head, index, epoch, min, history, offers, expired>>
  BY DEF Stage, chain
<1>2. \A d \in D : /\ V(d).kind = "device" /\ V(d).id = d /\ V(d).log = None /\ V(d).idx = 0
                   /\ V(d).body /\ V(d).entry
  BY DeviceFields, RowOfFields
<1>3. \A d \in D : /\ W(d).kind = "envelope" /\ W(d).id = 10 * epoch + d /\ W(d).log = None /\ W(d).idx = 0
                   /\ W(d).epoch = epoch /\ W(d).to = d /\ W(d).body /\ W(d).entry
  BY EnvelopeFields, RowOfFields
<1> HIDE DEF V, W
<1>4. \A d \in D : ~Known("envelope", 10 * epoch + d)
  BY <1>1, DeviceEnvelopeNew
<1>5. (\A d \in D : Arrived(V(d)) /\ Arrived(W(d)))
  BY <1>1, <1>2, <1>3, <1>4 DEF Arrived
<1>6. \A r \in rows : Worn(r, r)
  BY <1>1, WornItself
<1>7. RowsGrow
  BY <1>1, <1>5, <1>6 DEF RowsGrow
<1>8. \A s \in rows' : Arrived(s) => \E d \in D : s = V(d) \/ s = W(d)
  BY <1>1 DEF Arrived, Known
<1>9. Unique'
  <2>1. \A d, e \in D : 10 * epoch + d = 10 * epoch + e => d = e
    BY <1>0
  <2>2. \A r \in rows, d \in D : ~Same(r, V(d)) /\ ~Same(V(d), r) /\ ~Same(r, W(d)) /\ ~Same(W(d), r)
    BY <1>1, <1>2, <1>3, <1>4 DEF Known, Same
  <2>3. \A d, e \in D : /\ Same(V(d), V(e)) => d = e
                        /\ Same(W(d), W(e)) => d = e
                        /\ ~Same(V(d), W(e)) /\ ~Same(W(d), V(e))
    BY <1>2, <1>3, <2>1 DEF Same
  <2>4. NoTwins(rows)
    BY DEF Tables, Unique
  <2>5. ASSUME NEW s \in rows', NEW t \in rows', Same(s, t) PROVE s = t
    <3>1. s \in rows \/ \E d \in D : s = V(d) \/ s = W(d)
      BY <1>1
    <3>2. t \in rows \/ \E d \in D : t = V(d) \/ t = W(d)
      BY <1>1
    <3> QED BY <2>2, <2>3, <2>4, <2>5, <3>1, <3>2 DEF NoTwins
  <2> QED BY <2>5 DEF Unique, NoTwins
<1>10. \A d \in D : Known("device", d)'
  BY <1>1, <1>2 DEF Known
<1>11. \A s \in rows' : Arrived(s) => Numbered(s)' /\ (s.log = log => s.seq <= head')
  <2> SUFFICES ASSUME NEW s \in rows', Arrived(s) PROVE Numbered(s)' /\ s.log # log
    OBVIOUS
  <2>1. PICK d \in D : s = V(d) \/ s = W(d)
    BY <1>8
  <2>2. CASE s = V(d)
    <3>1. s.kind = "device" /\ s.id \in Devices /\ s.log = None
      BY <1>2, <2>2
    <3> QED BY <1>0, <3>1 DEF Numbered
  <2>3. CASE s = W(d)
    <3>1. s.kind = "envelope" /\ s.epoch = epoch /\ s.to = d /\ s.log = None
      BY <1>3, <2>3
    <3>2. s.epoch <= epoch'
      BY <1>0, <1>1, <3>1
    <3> QED BY <1>0, <1>10, <3>1, <3>2 DEF Numbered
  <2> QED BY <2>1, <2>2, <2>3
<1>12. head <= head' /\ index <= index' /\ \A k \in (head + 1)..head' : FALSE
  BY <1>0, <1>1
<1> QED BY <1>1, <1>7, <1>9, <1>11, <1>12, PlainGrows

-----------------------------------------------------------------------------
(* Reseed *)
\* The objects that reseed appends first.
StagedSet == {Device(d) : d \in StagedDevices} \cup {Envelope(x \div 10, x % 10) : x \in StagedEnvelopes}

\* The digits of an envelope's id.
LEMMA SplitId ==
    ASSUME NEW e \in Nat, NEW t \in 0..9
    PROVE  (10 * e + t) \div 10 = e /\ (10 * e + t) % 10 = t
OBVIOUS

\* A staged envelope is listed as it was staged.
LEMMA StagedEnvelopeFields ==
    ASSUME RowsTyped, NEW x \in StagedEnvelopes
    PROVE  \E r \in rows :
             /\ r.kind = "envelope" /\ r.log = None /\ r.id = x /\ r.epoch \in Nat /\ r.to \in 0..9
             /\ Envelope(x \div 10, x % 10).id = x /\ Envelope(x \div 10, x % 10).kind = "envelope"
             /\ Envelope(x \div 10, x % 10).epoch = r.epoch /\ Envelope(x \div 10, x % 10).to = r.to
             /\ Envelope(x \div 10, x % 10) \in ObjectSet
<1>1. PICK r \in rows : r.kind = "envelope" /\ r.log = None /\ r.id = x
  BY DEF StagedEnvelopes
<1>2. PICK e, t : e = r.epoch /\ t = r.to
  OBVIOUS
<1>3. e \in Nat /\ t \in 0..9 /\ x = 10 * e + t
  BY <1>1, <1>2 DEF RowsTyped, RowSet, WellNamed
<1>4. x \div 10 = e /\ x % 10 = t
  BY <1>3, SplitId
<1>5. Envelope(x \div 10, x % 10) = Envelope(e, t)
  BY <1>4
<1>6. Envelope(e, t) \in ObjectSet
  BY <1>3, EnvelopeType
<1>7. /\ Envelope(e, t).kind = "envelope" /\ Envelope(e, t).id = 10 * e + t
      /\ Envelope(e, t).epoch = e /\ Envelope(e, t).to = t
  BY EnvelopeFields
<1> QED BY <1>1, <1>2, <1>3, <1>5, <1>6, <1>7

\* reseed lists every staged object once.
LEMMA StagedShape ==
    ASSUME RowsTyped
    PROVE  /\ Lists(StagedObjects, StagedSet)
           /\ \A d \in StagedDevices : \E k \in 1..Len(StagedObjects) : StagedObjects[k] = Device(d)
<1> DEFINE D == StagedDevices
           E == StagedEnvelopes
           a == DeviceRecords(D)
           b == [k \in 1..Cardinality(E) |-> Envelope(Sorted(E)[k] \div 10, Sorted(E)[k] % 10)]
           A == {Device(d) : d \in D}
           B == {Envelope(x \div 10, x % 10) : x \in E}
<1>1. D \in SUBSET Devices
  BY DEF StagedDevices
<1>2. E \in SUBSET Nat /\ IsFiniteSet(E)
  <2> DEFINE Q == {q \in rows : q.kind = "envelope" /\ q.log = None}
             f == [r \in Q |-> r.id]
  <2>1. Q \in SUBSET rows /\ IsFiniteSet(Q)
    BY FS_Subset DEF RowsTyped
  <2>2. E = {r.id : r \in Q}
    BY DEF StagedEnvelopes
  <2>3. \A r \in Q : r.id \in Nat
    BY DEF RowsTyped, RowSet
  <2> HIDE DEF Q, E
  <2>4. f \in Surjection(Q, E)
    BY <2>2 DEF Surjection
  <2>5. IsFiniteSet(E)
    <3> HIDE DEF f
    <3> QED BY <2>1, <2>4, FS_Surjection
  <2> QED BY <2>2, <2>3, <2>5
<1>5. Cardinality(E) \in Nat /\ \A k \in 1..Cardinality(E) : Sorted(E)[k] \in E
  BY <1>2, SortedType
<1>6. \A j, k \in 1..Cardinality(E) : Sorted(E)[j] = Sorted(E)[k] => j = k
  BY <1>2, SortedOnce
<1>7. \A x \in E : /\ Envelope(x \div 10, x % 10).id = x
                   /\ Envelope(x \div 10, x % 10).kind = "envelope"
  BY StagedEnvelopeFields
<1>8. StagedObjects = a \o b /\ StagedSet = A \cup B
  BY DEF StagedObjects, StagedSet
<1> HIDE DEF D, E
<1>9. Lists(a, A)
  BY <1>1, DeviceRecordsShape
<1>10. Lists(b, B)
  <2>1. b \in Seq(B) /\ Len(b) = Cardinality(E)
    BY <1>5
  <2>2. ASSUME NEW j \in 1..Cardinality(E), NEW k \in 1..Cardinality(E), Same(b[j], b[k]) PROVE j = k
    <3>1. /\ b[j] = Envelope(Sorted(E)[j] \div 10, Sorted(E)[j] % 10)
          /\ b[k] = Envelope(Sorted(E)[k] \div 10, Sorted(E)[k] % 10)
      OBVIOUS
    <3>2. Sorted(E)[j] = Sorted(E)[k]
      BY <1>5, <1>7, <2>2, <3>1 DEF Same
    <3> QED BY <1>6, <3>2
  <2> HIDE DEF b
  <2> QED BY <2>1, <2>2 DEF Lists, Distinct
<1>11. \A d \in D : \E k \in 1..Len(a) : a[k] = Device(d)
  BY <1>1, DeviceRecordsShape DEF Holds
<1>12. Apart(A, B)
  BY <1>7, DeviceFields DEF Apart, Same
<1> HIDE DEF a, b, A, B
<1>13. Lists(a \o b, A \cup B) /\ Len(a \o b) = Len(a) + Len(b)
  BY <1>9, <1>10, <1>12, ListsConcat
<1>14. \A k \in 1..Len(a) : k \in 1..Len(a \o b) /\ (a \o b)[k] = a[k]
  <2>1. a \in Seq(A) /\ b \in Seq(B)
    BY <1>9, <1>10 DEF Lists
  <2>2. Len(a) \in Nat /\ Len(b) \in Nat
    BY <2>1
  <2> QED BY <1>13, <2>1, <2>2
<1> QED BY <1>8, <1>11, <1>13, <1>14 DEF D

\* The objects of a new generation.
Parameters == Object("parameters", log + 2, 0, 0)
Compaction(n) == Object("compaction", n, epoch + 1, 0)
Fresh(d, n) ==
    {Parameters, Device(d), Admin(n + 5), Opened, Compaction(n + 7)} \cup {Envelope(epoch + 1, t) : t \in {d, 0}}
\* All objects of a new generation, in the order of their positions.
SeedObjects(d, n) ==
    StagedObjects \o <<Parameters, Device(d)>> \o Envelopes(epoch + 1, {d}) \o <<Admin(n + 5)>>
      \o <<Opened>> \o <<Compaction(n + 7)>>

\* A staged object is in the tables.
LEMMA StagedKnown ==
    ASSUME Typed, NEW x \in StagedSet
    PROVE  /\ x \in ObjectSet /\ Known(x.kind, x.id)
           /\ \/ x.kind = "device" /\ x.id \in Devices
              \/ /\ x.kind = "envelope"
                 /\ \E r \in rows : r.kind = "envelope" /\ r.epoch = x.epoch /\ r.to = x.to
<1>0. RowsTyped
  BY DEF Typed
<1>1. CASE \E d \in StagedDevices : x = Device(d)
  <2>1. PICK d \in StagedDevices : x = Device(d)
    BY <1>1
  <2>2. d \in Devices /\ \E r \in rows : Same(r, Device(d))
    BY DEF StagedDevices
  <2>3. x \in ObjectSet
    BY <2>1, <2>2, DeviceType
  <2>4. x.kind = "device" /\ x.id = d
    BY <2>1, DeviceFields
  <2>5. Known(x.kind, x.id)
    BY <2>1, <2>2 DEF Known, Same
  <2> QED BY <2>2, <2>3, <2>4, <2>5
<1>2. CASE \E y \in StagedEnvelopes : x = Envelope(y \div 10, y % 10)
  <2>1. PICK y \in StagedEnvelopes : x = Envelope(y \div 10, y % 10)
    BY <1>2
  <2>2. PICK r \in rows :
             /\ r.kind = "envelope" /\ r.log = None /\ r.id = y /\ r.epoch \in Nat /\ r.to \in 0..9
             /\ x.id = y /\ x.kind = "envelope"
             /\ x.epoch = r.epoch /\ x.to = r.to
             /\ x \in ObjectSet
    BY <1>0, <2>1, StagedEnvelopeFields
  <2>3. Known(x.kind, x.id)
    BY <2>2 DEF Known
  <2> QED BY <2>2, <2>3
<1> QED BY <1>1, <1>2 DEF StagedSet

\* The objects of the new generation are new.
LEMMA FreshNew ==
    ASSUME Typed, Tables, NEW d \in Devices, ~Known("device", d), NEW n \in Nat, index <= n,
           NEW x \in Fresh(d, n)
    PROVE  ~Known(x.kind, x.id) /\ x \in ObjectSet
<1>0. log \in Nat /\ index \in Nat /\ epoch \in Nat /\ d \in 0..9 /\ log + 2 \in Nat /\ epoch + 1 \in Nat
      /\ n + 5 \in Nat /\ n + 7 \in Nat /\ 0 \in Nat
  BY TypedFacts, PagingAssumption
<1>01. \A r \in rows : Numbered(r) /\ r.id \in Nat
  BY TypedFacts, RowFields DEF Tables, RowsSound
<1>1. CASE x = Parameters
  <2>1. x.kind = "parameters" /\ x.id = log + 2
    BY <1>1, ObjectFields DEF Parameters
  <2>2. \A r \in rows : r.kind = "parameters" => r.id <= log + 1 /\ r.id \in Nat
    BY <1>01 DEF Numbered
  <2>3. ~Known(x.kind, x.id)
    BY <1>0, <2>1, <2>2 DEF Known
  <2>4. "parameters" \in Kinds /\ "parameters" # "envelope"
    BY DEF Kinds
  <2>5. x \in ObjectSet
    BY <1>0, <1>1, <2>4, ObjectType DEF Parameters
  <2> QED BY <2>3, <2>5
<1>2. CASE x = Device(d)
  BY <1>2, DeviceFields, DeviceType
<1>3. CASE x = Admin(n + 5)
  <2>1. x.kind = "admin" /\ x.id = n + 5
    BY <1>3, ObjectFields DEF Admin
  <2>2. \A r \in rows : r.kind = "admin" => r.id <= index /\ r.id \in Nat
    BY <1>01 DEF Numbered
  <2>3. ~Known(x.kind, x.id)
    BY <1>0, <2>1, <2>2 DEF Known
  <2>4. "admin" \in Kinds /\ "admin" # "envelope"
    BY DEF Kinds
  <2>5. x \in ObjectSet
    BY <1>0, <1>3, <2>4, ObjectType DEF Admin
  <2> QED BY <2>3, <2>5
<1>4. CASE x = Opened
  <2>1. x.kind = "epoch" /\ x.id = epoch + 1
    BY <1>4, ObjectFields DEF Opened
  <2>2. \A r \in rows : r.kind = "epoch" => r.id <= epoch /\ r.id \in Nat
    BY <1>01 DEF Numbered
  <2>3. ~Known(x.kind, x.id)
    BY <1>0, <2>1, <2>2 DEF Known
  <2>4. "epoch" \in Kinds /\ "epoch" # "envelope"
    BY DEF Kinds
  <2>5. x \in ObjectSet
    BY <1>0, <1>4, <2>4, ObjectType DEF Opened
  <2> QED BY <2>3, <2>5
<1>5. CASE x = Compaction(n + 7)
  <2>1. x.kind = "compaction" /\ x.id = n + 7
    BY <1>5, ObjectFields DEF Compaction
  <2>2. \A r \in rows : r.kind = "compaction" => r.id <= index /\ r.id \in Nat
    BY <1>01 DEF Numbered
  <2>3. ~Known(x.kind, x.id)
    BY <1>0, <2>1, <2>2 DEF Known
  <2>4. "compaction" \in Kinds /\ "compaction" # "envelope"
    BY DEF Kinds
  <2>5. x \in ObjectSet
    BY <1>0, <1>5, <2>4, ObjectType DEF Compaction
  <2> QED BY <2>3, <2>5
<1>6. CASE \E t \in {d, 0} : x = Envelope(epoch + 1, t)
  <2>1. PICK t \in {d, 0} : x = Envelope(epoch + 1, t)
    BY <1>6
  <2>2. t \in 0..9
    BY <1>0
  <2>3. x.kind = "envelope" /\ x.id = 10 * (epoch + 1) + t
    BY <2>1, EnvelopeFields
  <2>4. ~Known(x.kind, x.id)
    BY <2>2, <2>3, NextEnvelopesNew
  <2>5. x \in ObjectSet
    BY <1>0, <2>1, <2>2, EnvelopeType
  <2> QED BY <2>4, <2>5
<1> QED BY <1>1, <1>2, <1>3, <1>4, <1>5, <1>6 DEF Fresh

\* The objects of a new generation are all different, and those that must be there are.
LEMMA SeedShape ==
    ASSUME Typed, Tables, NEW d \in Devices, ~Known("device", d), NEW n \in Nat, index <= n
    PROVE  /\ Lists(SeedObjects(d, n), StagedSet \cup Fresh(d, n))
           /\ Len(SeedObjects(d, n)) = Len(StagedObjects) + 7 /\ Len(StagedObjects) \in Nat
           /\ Holds(SeedObjects(d, n), Device(d)) /\ Holds(SeedObjects(d, n), Opened)
           /\ \A t \in StagedDevices : Holds(SeedObjects(d, n), Device(t))
<1> DEFINE g == <<Parameters, Device(d)>>
           e == Envelopes(epoch + 1, {d})
           a == <<Admin(n + 5)>>
           o == <<Opened>>
           c == <<Compaction(n + 7)>>
           G == {Parameters, Device(d)}
           E == {Envelope(epoch + 1, t) : t \in {d, 0}}
           A == {Admin(n + 5)}
           O == {Opened}
           C == {Compaction(n + 7)}
<1>0. RowsTyped /\ epoch + 1 \in Nat /\ d \in 0..9
  BY TypedFacts, PagingAssumption DEF Typed
<1>1. Lists(StagedObjects, StagedSet) /\ \A t \in StagedDevices : Holds(StagedObjects, Device(t))
  BY <1>0, StagedShape DEF Holds
<1>2. Lists(g, G) /\ Len(g) = 2 /\ Holds(g, Device(d))
  <2>1. Parameters.kind = "parameters" /\ Device(d).kind = "device"
    BY ObjectFields, DeviceFields DEF Parameters
  <2>2. g \in Seq(G) /\ Len(g) = 2 /\ g[1] = Parameters /\ g[2] = Device(d)
    OBVIOUS
  <2>3. ~Same(g[1], g[2]) /\ ~Same(g[2], g[1])
    BY <2>1, <2>2 DEF Same
  <2> HIDE DEF g
  <2>4. \A k \in 1..2 : k = 1 \/ k = 2
    OBVIOUS
  <2>5. Distinct(g)
    BY <2>2, <2>3, <2>4 DEF Distinct
  <2>6. 2 \in 1..2
    OBVIOUS
  <2> QED BY <2>2, <2>5, <2>6 DEF Lists, Holds
<1>3. Lists(e, E) /\ Len(e) = 2
  <2>1. {d} \in SUBSET Devices /\ {d} \cup {0} = {d, 0} /\ Cardinality({d}) = 1
    BY FS_Singleton
  <2>2. /\ e \in Seq({Envelope(epoch + 1, t) : t \in {d} \cup {0}})
        /\ Distinct(e)
        /\ Len(e) = Cardinality({d}) + 1
    BY <1>0, <2>1, EnvelopesShape
  <2>3. E = {Envelope(epoch + 1, t) : t \in {d} \cup {0}}
    BY <2>1
  <2> HIDE DEF e, E
  <2>4. Len(e) = 2
    BY <2>1, <2>2
  <2> QED BY <2>2, <2>3, <2>4 DEF Lists
<1>4. Lists(a, A) /\ Len(a) = 1
  BY OneLists
<1>5. Lists(o, O) /\ Len(o) = 1 /\ Holds(o, Opened)
  BY OneLists
<1>6. Lists(c, C) /\ Len(c) = 1
  BY OneLists
<1>7. /\ \A x \in G : x.kind \in {"parameters", "device"}
      /\ \A x \in E : x.kind = "envelope"
      /\ \A x \in A : x.kind = "admin"
      /\ \A x \in O : x.kind = "epoch"
      /\ \A x \in C : x.kind = "compaction"
  BY ObjectFields, DeviceFields, EnvelopeFields DEF Parameters, Admin, Opened, Compaction
<1>8. Fresh(d, n) = G \cup E \cup A \cup O \cup C
  BY DEF Fresh
<1>9. SeedObjects(d, n) = StagedObjects \o g \o e \o a \o o \o c
  BY DEF SeedObjects
<1>10. Apart(StagedSet, Fresh(d, n))
  <2>1. \A x \in StagedSet : Known(x.kind, x.id)
    BY StagedKnown
  <2>2. \A x \in Fresh(d, n) : ~Known(x.kind, x.id)
    BY FreshNew
  <2> QED BY <2>1, <2>2 DEF Apart, Same
<1> HIDE DEF g, e, a, o, c, G, E, A, O, C
<1>29. /\ Apart(StagedSet, G) /\ Apart(StagedSet, E) /\ Apart(StagedSet, A)
       /\ Apart(StagedSet, O) /\ Apart(StagedSet, C)
       /\ Apart(G, E) /\ Apart(G, A) /\ Apart(G, O) /\ Apart(G, C)
       /\ Apart(E, A) /\ Apart(E, O) /\ Apart(E, C)
       /\ Apart(A, O) /\ Apart(A, C) /\ Apart(O, C)
  <2>1. /\ Apart(StagedSet, G) /\ Apart(StagedSet, E) /\ Apart(StagedSet, A)
        /\ Apart(StagedSet, O) /\ Apart(StagedSet, C)
    BY <1>8, <1>10 DEF Apart
  <2>2. /\ Apart(G, E) /\ Apart(G, A) /\ Apart(G, O) /\ Apart(G, C)
        /\ Apart(E, A) /\ Apart(E, O) /\ Apart(E, C)
        /\ Apart(A, O) /\ Apart(A, C) /\ Apart(O, C)
    BY <1>7, ApartKinds
  <2> QED BY <2>1, <2>2
<1>11. Len(StagedObjects) \in Nat
  BY <1>1 DEF Lists
<1>12. PICK s1 : s1 = StagedObjects \o g
  OBVIOUS
<1>13. Lists(s1, StagedSet \cup G) /\ Len(s1) = Len(StagedObjects) + Len(g)
  <2>1. Apart(StagedSet, G)
    BY <1>29
  <2>2. Lists(StagedObjects, StagedSet) /\ Lists(g, G)
    BY <1>1, <1>2
  <2>3. Lists(StagedObjects \o g, StagedSet \cup G) /\ Len(StagedObjects \o g) = Len(StagedObjects) + Len(g)
    BY <2>1, <2>2, ListsConcat
  <2> QED BY <1>12, <2>3
<1>14. Holds(s1, Device(d)) /\ \A t \in StagedDevices : Holds(s1, Device(t))
  BY <1>1, <1>2, <1>12, ConcatHolds
<1>15. PICK s2 : s2 = s1 \o e
  OBVIOUS
<1>16. Lists(s2, StagedSet \cup G \cup E) /\ Len(s2) = Len(s1) + Len(e)
  <2>1. Apart(StagedSet \cup G, E)
    BY <1>29, ApartUnion
  <2>2. Lists(s1 \o e, StagedSet \cup G \cup E) /\ Len(s1 \o e) = Len(s1) + Len(e)
    <3>1. PICK S : S = StagedSet \cup G
      OBVIOUS
    <3>2. Lists(s1, S) /\ Apart(S, E) /\ Lists(e, E)
      BY <1>3, <1>13, <2>1, <3>1
    <3>3. Lists(s1 \o e, S \cup E) /\ Len(s1 \o e) = Len(s1) + Len(e)
      BY <3>2, ListsConcat
    <3> QED BY <3>1, <3>3
  <2> QED BY <1>15, <2>2
<1>17. Holds(s2, Device(d)) /\ \A t \in StagedDevices : Holds(s2, Device(t))
  BY <1>3, <1>13, <1>14, <1>15, ConcatHolds
<1>18. PICK s3 : s3 = s2 \o a
  OBVIOUS
<1>19. Lists(s3, StagedSet \cup G \cup E \cup A) /\ Len(s3) = Len(s2) + Len(a)
  <2>1. Apart(StagedSet \cup G \cup E, A)
    BY <1>29, ApartUnion
  <2>2. Lists(s2 \o a, StagedSet \cup G \cup E \cup A) /\ Len(s2 \o a) = Len(s2) + Len(a)
    <3>1. PICK S : S = StagedSet \cup G \cup E
      OBVIOUS
    <3>2. Lists(s2, S) /\ Apart(S, A) /\ Lists(a, A)
      BY <1>4, <1>16, <2>1, <3>1
    <3>3. Lists(s2 \o a, S \cup A) /\ Len(s2 \o a) = Len(s2) + Len(a)
      BY <3>2, ListsConcat
    <3> QED BY <3>1, <3>3
  <2> QED BY <1>18, <2>2
<1>20. Holds(s3, Device(d)) /\ \A t \in StagedDevices : Holds(s3, Device(t))
  BY <1>4, <1>16, <1>17, <1>18, ConcatHolds
<1>21. PICK s4 : s4 = s3 \o o
  OBVIOUS
<1>22. Lists(s4, StagedSet \cup G \cup E \cup A \cup O) /\ Len(s4) = Len(s3) + Len(o)
  <2>1. Apart(StagedSet \cup G \cup E \cup A, O)
    BY <1>29, ApartUnion
  <2>2. Lists(s3 \o o, StagedSet \cup G \cup E \cup A \cup O) /\ Len(s3 \o o) = Len(s3) + Len(o)
    <3>1. PICK S : S = StagedSet \cup G \cup E \cup A
      OBVIOUS
    <3>2. Lists(s3, S) /\ Apart(S, O) /\ Lists(o, O)
      BY <1>5, <1>19, <2>1, <3>1
    <3>3. Lists(s3 \o o, S \cup O) /\ Len(s3 \o o) = Len(s3) + Len(o)
      BY <3>2, ListsConcat
    <3> QED BY <3>1, <3>3
  <2> QED BY <1>21, <2>2
<1>23. Holds(s4, Opened) /\ Holds(s4, Device(d)) /\ \A t \in StagedDevices : Holds(s4, Device(t))
  BY <1>5, <1>19, <1>20, <1>21, ConcatHolds
<1>24. PICK s5 : s5 = s4 \o c
  OBVIOUS
<1>25. Lists(s5, StagedSet \cup G \cup E \cup A \cup O \cup C) /\ Len(s5) = Len(s4) + Len(c)
  <2>1. Apart(StagedSet \cup G \cup E \cup A \cup O, C)
    BY <1>29, ApartUnion
  <2>2. Lists(s4 \o c, StagedSet \cup G \cup E \cup A \cup O \cup C) /\ Len(s4 \o c) = Len(s4) + Len(c)
    <3>1. PICK S : S = StagedSet \cup G \cup E \cup A \cup O
      OBVIOUS
    <3>2. Lists(s4, S) /\ Apart(S, C) /\ Lists(c, C)
      BY <1>6, <1>22, <2>1, <3>1
    <3>3. Lists(s4 \o c, S \cup C) /\ Len(s4 \o c) = Len(s4) + Len(c)
      BY <3>2, ListsConcat
    <3> QED BY <3>1, <3>3
  <2> QED BY <1>24, <2>2
<1>26. Holds(s5, Opened) /\ Holds(s5, Device(d)) /\ \A t \in StagedDevices : Holds(s5, Device(t))
  BY <1>6, <1>22, <1>23, <1>24, ConcatHolds
<1>27. s5 = SeedObjects(d, n)
  BY <1>9, <1>12, <1>15, <1>18, <1>21, <1>24
<1>28. StagedSet \cup G \cup E \cup A \cup O \cup C = StagedSet \cup Fresh(d, n)
  BY <1>8
<1>30. Len(s5) = Len(StagedObjects) + 7
  BY <1>2, <1>3, <1>4, <1>5, <1>6, <1>11, <1>13, <1>16, <1>19, <1>22, <1>25
<1> QED BY <1>11, <1>25, <1>26, <1>27, <1>28, <1>30

\* reseed: the tables of the new generation are sound.
LEMMA ReseedTables ==
    ASSUME Typed, Tables, NEW d \in Devices, Reseed(d)
    PROVE  Typed' /\ Tables' /\ log' = log + 1
<1>01. PICK n : n = index + Len(StagedObjects)
  OBVIOUS
<1>02. PICK os : os = SeedObjects(d, n)
  OBVIOUS
<1>03. PICK l : l = log + 1
  OBVIOUS
<1> DEFINE W(k) == RowOf(os[k], l, k, index + k)
<1>1. /\ rows' = Appended(rows, os, l, 0) /\ head' = Len(os) /\ index' = index + Len(os)
      /\ log' = l /\ epoch' = epoch + 1 /\ min' = 1 /\ ~Known("device", d)
      /\ history' = history \o Events(StagedDevices, "active", 0) \o <<Event(d, "pending_keys", 0)>>
                      \o Events(Members \cup StagedDevices, "revoked", head' - 1)
      /\ offers' = offers
  BY <1>01, <1>02, <1>03 DEF Reseed, SeedObjects, Parameters, Admin, Opened, Compaction
<1>2. /\ log \in Nat /\ index \in Nat /\ epoch \in Nat /\ head \in Nat /\ None \notin Nat
      /\ l \in Nat /\ epoch + 1 \in Nat /\ log < l /\ d \in 0..9
  BY <1>03, TypedFacts, PagingAssumption
<1>3. Len(StagedObjects) \in Nat
  <2>1. Lists(StagedObjects, StagedSet)
    BY StagedShape DEF Typed
  <2> QED BY <2>1 DEF Lists
<1>4. n \in Nat /\ index <= n
  BY <1>01, <1>2, <1>3
<1>5. /\ Lists(os, StagedSet \cup Fresh(d, n))
      /\ Len(os) = Len(StagedObjects) + 7
      /\ Holds(os, Device(d)) /\ Holds(os, Opened)
      /\ \A t \in StagedDevices : Holds(os, Device(t))
  BY <1>02, <1>1, <1>4, SeedShape
<1>6. /\ Len(os) \in Nat /\ Len(os) >= 7 /\ index + Len(os) = n + 7 /\ Distinct(os)
      /\ \A k \in 1..Len(os) : os[k] \in StagedSet \cup Fresh(d, n)
  <2>1. os \in Seq(StagedSet \cup Fresh(d, n)) /\ Distinct(os)
    BY <1>5 DEF Lists
  <2>2. \A k \in 1..Len(os) : os[k] \in StagedSet \cup Fresh(d, n)
    BY <2>1, ElementOfSeq
  <2>3. Len(os) \in Nat /\ Len(os) >= 7 /\ index + Len(os) = n + 7
    BY <1>01, <1>2, <1>3, <1>5
  <2> QED BY <2>1, <2>2, <2>3
<1>7. rows' = {r \in rows : \A k \in 1..Len(os) : ~Same(r, os[k])} \cup {W(k) : k \in 1..Len(os)}
  <2>1. rows' = {r \in rows : \A k \in 1..Len(os) : ~Same(r, os[k])}
                  \cup {RowOf(os[k], l, 0 + k, index + k) : k \in 1..Len(os)}
    BY <1>1 DEF Appended
  <2>2. \A k \in 1..Len(os) : 0 + k = k
    BY <1>6
  <2>3. {RowOf(os[k], l, 0 + k, index + k) : k \in 1..Len(os)} = {W(k) : k \in 1..Len(os)}
    BY <2>2
  <2> QED BY <2>1, <2>3
<1>8. \A k \in 1..Len(os) :
        /\ W(k).kind = os[k].kind /\ W(k).id = os[k].id /\ W(k).epoch = os[k].epoch /\ W(k).to = os[k].to
        /\ W(k).log = l /\ W(k).seq = k /\ W(k).body = TRUE /\ W(k).entry = TRUE
  BY RowOfFields
<1> HIDE DEF W
<1>9. \A k \in 1..Len(os) : W(k) \in rows'
  BY <1>7
<1>10. \A s \in rows' : s \in rows \/ \E k \in 1..Len(os) : s = W(k)
  BY <1>7
<1>11. \A r \in rows : \E s \in rows' : s.kind = r.kind /\ s.id = r.id /\ (r.log # None => s.log # None)
  <2> SUFFICES ASSUME NEW r \in rows
               PROVE  \E s \in rows' : s.kind = r.kind /\ s.id = r.id /\ (r.log # None => s.log # None)
    OBVIOUS
  <2>1. CASE r \in rows'
    BY <2>1
  <2>2. CASE \E k \in 1..Len(os) : Same(r, os[k])
    <3>1. PICK k \in 1..Len(os) : Same(r, os[k])
      BY <2>2
    <3>2. W(k) \in rows' /\ W(k).kind = r.kind /\ W(k).id = r.id /\ W(k).log # None
      BY <1>2, <1>8, <1>9, <3>1 DEF Same
    <3> QED BY <3>2
  <2> QED BY <1>7, <2>1, <2>2
<1>12. \A kind, id : Known(kind, id) => Known(kind, id)'
  BY <1>11 DEF Known
<1>13. \A x : Holds(os, x) => \E s \in rows' : s.kind = x.kind /\ s.id = x.id /\ s.log = l
  BY <1>8, <1>9 DEF Holds
<1>14. Counters' /\ RowsTyped'
  BY ReseedKept DEF Typed
<1>15. \A s \in rows' : s.id \in Nat /\ s.epoch \in Nat /\ s.to \in Nat /\ s.seq \in Nat
  BY <1>14, RowFields DEF RowsTyped
<1>16. Known("device", d)'
  BY <1>5, <1>13, DeviceFields DEF Known
<1>17. ASSUME NEW k \in 1..Len(os), NEW w, w = W(k) PROVE Numbered(w)'
  <2>1. PICK x : x = os[k]
    OBVIOUS
  <2>2. w.kind = x.kind /\ w.id = x.id /\ w.epoch = x.epoch /\ w.to = x.to
    BY <1>8, <1>17, <2>1
  <2>3. CASE x \in StagedSet
    <3>1. \/ x.kind = "device" /\ x.id \in Devices
          \/ /\ x.kind = "envelope"
             /\ \E r \in rows : r.kind = "envelope" /\ r.epoch = x.epoch /\ r.to = x.to
      BY <2>3, StagedKnown
    <3>2. CASE x.kind = "device" /\ x.id \in Devices
      <4>1. Numbered(w)'
        BY <2>2, <3>2 DEF Numbered
      <4> QED BY <2>1, <4>1
    <3>3. CASE x.kind = "envelope" /\ \E r \in rows : r.kind = "envelope" /\ r.epoch = x.epoch /\ r.to = x.to
      <4>1. PICK r \in rows : r.kind = "envelope" /\ r.epoch = x.epoch /\ r.to = x.to
        BY <3>3
      <4>2. r.epoch <= epoch /\ (r.to # 0 => Known("device", r.to)) /\ r.epoch \in Nat
        BY <4>1, TypedFacts, RowFields DEF Tables, RowsSound, Numbered
      <4>3. w.epoch <= epoch' /\ w.kind = "envelope" /\ (w.to # 0 => Known("device", w.to)')
        <5>1. w.epoch = r.epoch /\ w.to = r.to /\ w.kind = "envelope"
          BY <2>2, <3>3, <4>1
        <5>2. r.epoch <= epoch'
          BY <1>1, <1>2, <4>2
        <5>3. r.to # 0 => Known("device", r.to)'
          BY <1>12, <4>2
        <5> QED BY <5>1, <5>2, <5>3
      <4>4. Numbered(w)'
        BY <4>3 DEF Numbered
      <4> QED BY <2>1, <4>4
    <3> QED BY <3>1, <3>2, <3>3
  <2>4. CASE x \in Fresh(d, n)
    <3>1. CASE x = Parameters
      <4>1. w.kind = "parameters" /\ w.id = log + 2
        BY <2>2, <3>1, ObjectFields DEF Parameters
      <4>2. w.id <= log' + 1
        BY <1>03, <1>1, <1>2, <4>1
      <4>3. Numbered(w)'
        BY <4>1, <4>2 DEF Numbered
      <4> QED BY <2>1, <4>3
    <3>2. CASE x = Device(d)
      <4>1. w.kind = "device" /\ w.id \in Devices
        BY <2>2, <3>2, DeviceFields
      <4>2. Numbered(w)'
        BY <4>1 DEF Numbered
      <4> QED BY <2>1, <4>2
    <3>3. CASE x = Admin(n + 5)
      <4>1. w.kind = "admin" /\ w.id = n + 5
        BY <2>2, <3>3, ObjectFields DEF Admin
      <4>2. w.id <= index'
        BY <1>1, <1>4, <1>6, <4>1
      <4>3. Numbered(w)'
        BY <4>1, <4>2 DEF Numbered
      <4> QED BY <2>1, <4>3
    <3>4. CASE x = Opened
      <4>1. w.kind = "epoch" /\ w.id = epoch + 1
        BY <2>2, <3>4, ObjectFields DEF Opened
      <4>2. w.id <= epoch'
        BY <1>1, <1>2, <4>1
      <4>3. Numbered(w)'
        BY <4>1, <4>2 DEF Numbered
      <4> QED BY <2>1, <4>3
    <3>5. CASE x = Compaction(n + 7)
      <4>1. w.kind = "compaction" /\ w.id = n + 7 /\ w.to = 0
        BY <2>2, <3>5, ObjectFields DEF Compaction
      <4>2. w.id <= index' /\ w.to <= head'
        BY <1>1, <1>4, <1>6, <4>1
      <4>3. Numbered(w)'
        BY <4>1, <4>2 DEF Numbered
      <4> QED BY <2>1, <4>3
    <3>6. CASE \E t \in {d, 0} : x = Envelope(epoch + 1, t)
      <4>1. PICK t \in {d, 0} : x = Envelope(epoch + 1, t)
        BY <3>6
      <4>2. w.kind = "envelope" /\ w.epoch = epoch + 1 /\ w.to = t
        BY <2>2, <4>1, EnvelopeFields
      <4>3. w.epoch <= epoch' /\ (w.to # 0 => Known("device", w.to)')
        BY <1>1, <1>2, <1>16, <4>2
      <4>4. Numbered(w)'
        BY <4>2, <4>3 DEF Numbered
      <4> QED BY <2>1, <4>4
    <3> QED BY <2>4, <3>1, <3>2, <3>3, <3>4, <3>5, <3>6 DEF Fresh
  <2> QED BY <1>6, <2>1, <2>3, <2>4
<1>18. RowsSound'
  <2> SUFFICES ASSUME NEW s \in rows' PROVE Numbered(s)' /\ Placed(s)' /\ Lasting(s)'
    BY DEF RowsSound
  <2>1. CASE \E k \in 1..Len(os) : s = W(k)
    <3>1. PICK k \in 1..Len(os) : s = W(k)
      BY <2>1
    <3>2. s.log = l /\ s.seq = k /\ s.body = TRUE /\ s.entry = TRUE
      BY <1>8, <3>1
    <3>3. Numbered(s)'
      BY <1>17, <3>1
    <3>4. Placed(s)'
      BY <1>1, <1>2, <1>6, <3>2 DEF Placed
    <3>5. Lasting(s)'
      BY <1>1, <1>6, <3>2 DEF Lasting
    <3> QED BY <3>3, <3>4, <3>5
  <2>2. CASE s \in rows
    <3>1. Numbered(s) /\ Placed(s) /\ Lasting(s) /\ s \in RowSet
      BY <2>2, TypedFacts DEF Tables, RowsSound
    <3>2. s.log # l /\ s.log \in Nat \cup {None} /\ s.id \in Nat /\ s.epoch \in Nat
      BY <1>2, <3>1, RowFields DEF Placed
    <3>3. Numbered(s)'
      <4>1. s.kind = "envelope" /\ s.to # 0 => Known("device", s.to)'
        BY <1>12, <3>1 DEF Numbered
      <4>2. /\ epoch' = epoch + 1 /\ log' = log + 1 /\ index <= index' /\ s.log # log'
            /\ index \in Nat /\ index' \in Nat /\ epoch \in Nat /\ log \in Nat
        BY <1>03, <1>1, <1>2, <1>6, <3>2
      <4>3. /\ s.epoch <= epoch => s.epoch <= epoch'
            /\ s.id <= epoch => s.id <= epoch'
            /\ s.id <= log + 1 => s.id <= log' + 1
            /\ s.id <= index => s.id <= index'
        BY <3>2, <4>2
      <4> QED BY <3>1, <4>1, <4>2, <4>3 DEF Numbered
    <3>4. Placed(s)'
      BY <1>1, <1>2, <3>1, <3>2 DEF Placed
    <3>5. Lasting(s)'
      BY <1>1, <3>1, <3>2 DEF Lasting
    <3> QED BY <3>3, <3>4, <3>5
  <2> QED BY <1>10, <2>1, <2>2
<1>19. Unique'
  <2>1. NoTwins(rows)
    BY DEF Tables, Unique
  <2>2. NoTwins(Appended(rows, os, l, 0))
    BY <1>6, <2>1, AppendedTwins
  <2> QED BY <1>1, <2>2 DEF Unique
<1>20. Filled'
  BY <1>1, <1>8, <1>9 DEF Filled
<1>21. EpochsStored'
  <2> SUFFICES ASSUME NEW e \in 0..epoch' PROVE Known("epoch", e)'
    BY DEF EpochsStored
  <2>1. CASE e \in 0..epoch
    <3>1. Known("epoch", e)
      BY <2>1 DEF Tables, EpochsStored
    <3> QED BY <1>12, <3>1
  <2>2. CASE e = epoch + 1
    <3>1. Opened.kind = "epoch" /\ Opened.id = e
      BY <2>2, ObjectFields DEF Opened
    <3> QED BY <1>5, <1>13, <3>1 DEF Known
  <2> QED BY <1>1, <1>2, <2>1, <2>2
<1>22. Bounds'
  BY <1>1, <1>6 DEF Bounds
<1> DEFINE OnRecord(x) == \E s \in rows' : s.kind = "device" /\ s.id = x /\ s.log # None
           T == {e \in EventSet : (e.status # "revoked" => e.revoked = 0) /\ OnRecord(e.device)}
<1>23. /\ \A x \in StagedDevices : OnRecord(x)
       /\ OnRecord(d)
       /\ \A x \in Members : OnRecord(x)
  <2>1. \A x \in StagedDevices : OnRecord(x)
    BY <1>2, <1>5, <1>13, DeviceFields
  <2>2. OnRecord(d)
    BY <1>2, <1>5, <1>13, DeviceFields
  <2>3. ASSUME NEW x \in Members PROVE OnRecord(x)
    <3>1. Status(x) # {}
      BY DEF Members
    <3>2. PICK r \in rows : Same(r, Device(x)) /\ r.log # None
      BY <3>1, MembersKnown
    <3> QED BY <1>11, <3>2, DeviceFields DEF Same
  <2> QED BY <2>1, <2>2, <2>3
<1>24. \A e \in T : e \in EventSet /\ (e.status # "revoked" => e.revoked = 0) /\ OnRecord(e.device)
  OBVIOUS
<1>25. history' \in Seq(T)
  <2>1. history \in Seq(T)
    <3>1. history \in Seq(EventSet)
      BY DEF Typed
    <3>2. ASSUME NEW i \in 1..Len(history) PROVE history[i] \in T
      <4>1. history[i] \in EventSet
        BY <3>1, ElementOfSeq
      <4>2. RegisteredAt(i)
        BY DEF Tables, Registered
      <4>3. history[i].status # "revoked" => history[i].revoked = 0
        BY <4>2 DEF RegisteredAt
      <4>4. PICK r \in rows : Same(r, Device(history[i].device)) /\ r.log # None
        BY <4>2 DEF RegisteredAt
      <4>5. OnRecord(history[i].device)
        BY <1>11, <4>4, DeviceFields DEF Same
      <4> QED BY <4>1, <4>3, <4>5
    <3> HIDE DEF T
    <3> QED BY <3>1, <3>2
  <2>2. Events(StagedDevices, "active", 0) \in Seq(T)
    <3>1. StagedDevices \in SUBSET Devices
      BY DEF StagedDevices
    <3>2. \A x \in StagedDevices : Event(x, "active", 0) \in T
      BY <1>23, <3>1, EventFields DEF Event, EventSet
    <3> HIDE DEF T
    <3> QED BY <3>1, <3>2, EventsShape
  <2>3. Event(d, "pending_keys", 0) \in T
    BY <1>23, EventFields DEF Event, EventSet
  <2>4. Events(Members \cup StagedDevices, "revoked", head' - 1) \in Seq(T)
    <3>1. Members \cup StagedDevices \in SUBSET Devices
      BY DEF StagedDevices, Members
    <3>01. head' - 1 \in Nat
      BY <1>1, <1>6
    <3>02. PICK h \in Nat : h = head' - 1
      BY <3>01
    <3>2. \A x \in Members \cup StagedDevices : Event(x, "revoked", h) \in T
      BY <1>23, <3>1, EventFields DEF Event, EventSet
    <3> HIDE DEF T
    <3>3. Events(Members \cup StagedDevices, "revoked", h) \in Seq(T)
      BY <3>1, <3>2, EventsShape
    <3> QED BY <3>02, <3>3
  <2>5. PICK a, b, c : /\ a = Events(StagedDevices, "active", 0)
                       /\ b = <<Event(d, "pending_keys", 0)>>
                       /\ c = Events(Members \cup StagedDevices, "revoked", head' - 1)
    OBVIOUS
  <2> HIDE DEF T
  <2>6. b \in Seq(T)
    BY <2>3, <2>5
  <2>7. history \o a \in Seq(T)
    BY <2>1, <2>2, <2>5, ConcatProperties
  <2>8. history \o a \o b \in Seq(T)
    BY <2>6, <2>7, ConcatProperties
  <2>9. history \o a \o b \o c \in Seq(T)
    BY <2>4, <2>5, <2>8, ConcatProperties
  <2> QED BY <1>1, <2>5, <2>9
<1> HIDE DEF T
<1>26. Registered'
  <2> SUFFICES ASSUME NEW i \in 1..Len(history') PROVE RegisteredAt(i)'
    BY DEF Registered
  <2>1. history'[i] \in T
    BY <1>25, ElementOfSeq
  <2>2. /\ history'[i].status # "revoked" => history'[i].revoked = 0
        /\ OnRecord(history'[i].device)
    BY <1>24, <2>1
  <2> QED BY <2>2, DeviceFields DEF RegisteredAt, Same
<1>27. Typed'
  <2>1. history' \in Seq(EventSet)
    <3>1. T \subseteq EventSet
      BY <1>24
    <3> QED BY <1>25, <3>1, SeqMonotonic
  <2> QED BY <1>1, <1>14, <2>1 DEF Typed
<1> QED BY <1>03, <1>1, <1>18, <1>19, <1>20, <1>21, <1>22, <1>26, <1>27 DEF Tables

\* A write leaves the tables sound: it adds to a live log or starts a new one.
LEMMA WriteTables ==
    ASSUME Typed, Tables, Write
    PROVE  Typed' /\ Tables' /\ (Grown \/ log' = log + 1) /\ reader' = reader
<1> DEFINE Goal == Typed' /\ Tables' /\ (Grown \/ log' = log + 1)
<1>0. Counters' /\ RowsTyped' /\ reader' = reader
  BY WriteKept DEF Typed
<1>01. min \in Nat /\ history \in Seq(EventSet) /\ offers \in Seq(OfferSet)
  BY DEF Typed
<1>02. ASSUME min' \in Nat, history' \in Seq(EventSet), offers' \in Seq(OfferSet)
       PROVE  Typed'
  BY <1>0, <1>02 DEF Typed
<1>1. ASSUME NEW i \in RecordIds, UploadRecord(i) PROVE Goal
  <2>1. Typed'
    BY <1>01, <1>02, <1>1 DEF UploadRecord
  <2> QED BY <1>1, <2>1, UploadRecordGrows
<1>2. ASSUME NEW i \in RecordIds, UploadPart(i) PROVE Goal
  <2>1. Typed'
    BY <1>01, <1>02, <1>2 DEF UploadPart
  <2> QED BY <1>2, <2>1, UploadPartGrows
<1>3. ASSUME NEW d \in Devices, Enroll(d) PROVE Goal
  <2>1. Event(d, "pending_keys", 0) \in EventSet
    BY DEF Event, EventSet
  <2>2. history' = Append(history, Event(d, "pending_keys", 0)) /\ min' = min /\ offers' = offers
    BY <1>3 DEF Enroll
  <2>3. history' \in Seq(EventSet)
    BY <1>01, <2>1, <2>2, AppendPrefix
  <2>4. Typed'
    BY <1>01, <1>02, <2>2, <2>3
  <2> QED BY <1>3, <2>4, EnrollGrows
<1>4. ASSUME NEW d \in Devices, Ack(d) PROVE Goal
  <2>1. Event(d, "active", 0) \in EventSet
    BY DEF Event, EventSet
  <2>2. history' = Append(history, Event(d, "active", 0)) /\ min' = min /\ offers' = offers
    BY <1>4 DEF Ack, chain
  <2>3. history' \in Seq(EventSet)
    BY <1>01, <2>1, <2>2, AppendPrefix
  <2>4. Typed'
    BY <1>01, <1>02, <2>2, <2>3
  <2> QED BY <1>4, <2>4, AckGrows
<1>5. ASSUME NEW d \in Devices, Reseed(d) PROVE Goal
  BY <1>5, ReseedTables
<1>6. ASSUME NEW R \in SUBSET Devices, NEW D \in SUBSET Devices, NEW signed \in BOOLEAN, Rotate(R, D, signed)
      PROVE  Goal
  <2>1. PICK e1, e2 : e1 = Events(D, "pending_keys", 0) /\ e2 = Events(R, "revoked", head')
    OBVIOUS
  <2>2. e1 \in Seq(EventSet) /\ e2 \in Seq(EventSet)
    <3>1. head' \in Nat
      BY <1>0 DEF Counters
    <3>2. \A x \in R : Event(x, "revoked", head') \in EventSet
      BY <3>1 DEF Event, EventSet
    <3>3. \A x \in D : Event(x, "pending_keys", 0) \in EventSet
      BY DEF Event, EventSet
    <3> QED BY <2>1, <3>2, <3>3, EventsShape
  <2>3. history' = history \o e1 \o e2 /\ min' = min /\ offers' = offers
    BY <1>6, <2>1 DEF Rotate
  <2>4. history \o e1 \in Seq(EventSet)
    BY <1>01, <2>2, ConcatProperties
  <2>5. history' \in Seq(EventSet)
    BY <2>2, <2>3, <2>4, ConcatProperties
  <2>6. Typed'
    BY <1>01, <1>02, <2>3, <2>5
  <2> QED BY <1>6, <2>6, RotateGrows
<1>7. ASSUME NEW D \in SUBSET Devices, Stage(D) PROVE Goal
  <2>1. Typed'
    BY <1>01, <1>02, <1>7 DEF Stage, chain
  <2> QED BY <1>7, <2>1, StageGrows
<1>8. ASSUME Snapshot PROVE Goal
  <2>1. Typed'
    BY <1>01, <1>02, <1>8 DEF Snapshot
  <2> QED BY <1>8, <2>1, SnapshotGrows
<1>9. ASSUME NEW c \in rows, NEW E \in SUBSET (0..epoch), NEW through \in {min, c.to}, Prune(c, through, E)
      PROVE  Goal
  <2>1. through \in (min - 1)..c.to /\ min' = through + 1 /\ UNCHANGED <<history, offers>>
    BY <1>9 DEF Prune
  <2>2. c.to \in Nat /\ 1 <= min
    BY TypedFacts, RowFields DEF Tables, Bounds
  <2>3. min' \in Nat
    BY <1>01, <2>1, <2>2
  <2>4. Typed'
    BY <1>01, <1>02, <2>1, <2>3
  <2> QED BY <1>9, <2>4, PruneGrows
<1>10. ASSUME NEW E \in SUBSET (0..epoch), Maintenance(E) PROVE Goal
  <2>1. Typed'
    BY <1>01, <1>02, <1>10 DEF Maintenance, chain
  <2> QED BY <1>10, <2>1, MaintenanceGrows
<1>11. ASSUME NEW q \in RequestIds, OfferStep(q) PROVE Goal
  <2>1. \E e \in OfferSet : offers' = Append(offers, e)
    BY <1>11, OfferVersion
  <2>2. offers' \in Seq(OfferSet)
    BY <1>01, <2>1, AppendPrefix
  <2>3. Typed'
    BY <1>01, <1>02, <1>11, <2>2 DEF OfferStep, chain
  <2> QED BY <1>11, <2>3, OfferGrows
<1>12. Goal
  <2> HIDE DEF Goal
  <2> QED
    BY <1>1, <1>2, <1>3, <1>4, <1>5, <1>6, <1>7, <1>8, <1>9, <1>10, <1>11, Zenon DEF Write
<1> QED BY <1>0, <1>12

\* The tables after genesis.
LEMMA InitTables == Init => Typed /\ Tables
<1> SUFFICES ASSUME Init PROVE Typed /\ Tables
  OBVIOUS
<1>0. Counters /\ RowsTyped
  BY InitKept DEF Inv
<1> DEFINE W(k) == RowOf(Genesis[k], 0, k, k)
<1>1. /\ Len(Genesis) = 5 /\ Genesis[1] = Object("parameters", 1, 0, 0) /\ Genesis[2] = Device(Creator)
      /\ Genesis[3] = Envelope(0, Creator) /\ Genesis[4] = Envelope(0, 0)
      /\ Genesis[5] = Object("epoch", 0, 0, 0)
  BY DEF Genesis
<1>2. /\ log = 0 /\ head = 5 /\ index = 5 /\ epoch = 0 /\ min = 1
      /\ rows = {W(k) : k \in 1..5}
      /\ history = <<Event(Creator, "active", 0)>> /\ offers = <<>>
  BY <1>1 DEF Init
<1>3. \A k \in 1..5 : /\ W(k).kind = Genesis[k].kind /\ W(k).id = Genesis[k].id
                      /\ W(k).epoch = Genesis[k].epoch /\ W(k).to = Genesis[k].to
                      /\ W(k).log = 0 /\ W(k).seq = k /\ W(k).body = TRUE /\ W(k).entry = TRUE
  BY RowOfFields
<1> HIDE DEF W
<1>4. /\ W(1).kind = "parameters" /\ W(1).id = 1
      /\ W(2).kind = "device" /\ W(2).id = Creator
      /\ W(3).kind = "envelope" /\ W(3).id = 10 * 0 + Creator /\ W(3).epoch = 0 /\ W(3).to = Creator
      /\ W(4).kind = "envelope" /\ W(4).id = 10 * 0 + 0 /\ W(4).epoch = 0 /\ W(4).to = 0
      /\ W(5).kind = "epoch" /\ W(5).id = 0
  <2>1. 1 \in 1..5 /\ 2 \in 1..5 /\ 3 \in 1..5 /\ 4 \in 1..5 /\ 5 \in 1..5
    OBVIOUS
  <2> QED BY <1>1, <1>3, <2>1, ObjectFields, DeviceFields, EnvelopeFields
<1>5. Creator \in 1..9 /\ Creator \in Devices /\ None \notin Nat
  BY PagingAssumption
<1>6. \A r \in rows : \E k \in 1..5 : r = W(k)
  BY <1>2
<1>7. \A k \in 1..5 : k = 1 \/ k = 2 \/ k = 3 \/ k = 4 \/ k = 5
  OBVIOUS
<1>8. W(1) \in rows /\ W(2) \in rows /\ W(3) \in rows /\ W(4) \in rows /\ W(5) \in rows
  BY <1>2
<1>9. RowsSound
  <2> SUFFICES ASSUME NEW k \in 1..5 PROVE Numbered(W(k)) /\ Placed(W(k)) /\ Lasting(W(k))
    BY <1>6 DEF RowsSound
  <2>1. Placed(W(k)) /\ Lasting(W(k))
    BY <1>2, <1>3, <1>5 DEF Placed, Lasting
  <2>2. Known("device", Creator)
    BY <1>4, <1>8 DEF Known
  <2>3. Numbered(W(k))
    BY <1>2, <1>4, <1>5, <1>7, <2>2 DEF Numbered
  <2> QED BY <2>1, <2>3
<1>10. Unique
  <2>1. \A j, k \in 1..5 : Same(W(j), W(k)) => j = k
    BY <1>4, <1>5, <1>7 DEF Same
  <2> QED BY <1>6, <2>1 DEF Unique, NoTwins
<1>11. Filled
  BY <1>2, <1>3 DEF Filled
<1>12. EpochsStored
  <2>1. \A e \in 0..epoch : e = 0
    BY <1>2
  <2> QED BY <1>4, <1>8, <2>1 DEF EpochsStored, Known
<1>13. history \in Seq(EventSet) /\ Len(history) = 1 /\ history[1] = Event(Creator, "active", 0)
  <2>1. Event(Creator, "active", 0) \in EventSet
    BY <1>5 DEF Event, EventSet
  <2> QED BY <1>2, <2>1
<1>14. Registered
  <2> SUFFICES ASSUME NEW i \in 1..Len(history) PROVE RegisteredAt(i)
    BY DEF Registered
  <2>1. i = 1
    BY <1>13
  <2>2. history[i].device = Creator /\ history[i].revoked = 0
    BY <1>13, <2>1, EventFields
  <2>3. Same(W(2), Device(Creator)) /\ W(2).log # None
    <3>1. 2 \in 1..5 /\ 0 \in Nat
      OBVIOUS
    <3> QED BY <1>3, <1>4, <1>5, <3>1, DeviceFields DEF Same
  <2> QED BY <1>8, <2>2, <2>3 DEF RegisteredAt
<1>15. Bounds
  BY <1>2 DEF Bounds
<1>16. offers \in Seq(OfferSet) /\ min \in Nat
  BY <1>2
<1> QED BY <1>0, <1>9, <1>10, <1>11, <1>12, <1>13, <1>14, <1>15, <1>16 DEF Typed, Tables

-----------------------------------------------------------------------------
(* Listings *)
\* A line of a listing, at its place.
Entry(f, k, x) == [phase |-> f, key |-> k, line |-> x]

\* The lines of each listing at the cut of p.
LogLines(p) ==
    {Entry(0, r.seq, Line(r)) : r \in {q \in rows :
        q.log = p.cut.log /\ q.seq <= p.cut.head /\ (p.res = "log" \/ q.kind = "record")}}
EpochLines(p) == {Entry(0, r.id, Line(r)) : r \in {q \in rows : q.kind = "epoch" /\ WithinCut(q, p)}}
StatusLines(p) ==
    {Entry(0, e.device, <<e.device, e.status>>) : e \in UNION {StatusAt(d, p.cut.registry) : d \in Devices}}
RequestLines(p) == {Entry(0, x[1], x) : x \in RequestsOf(p)}
HeadLines(p) == {Entry(0, i, i) : i \in 1..p.cut.index}
EnvelopeLines(p) ==
    {Entry(0, r.id, Line(r)) :
        r \in {q \in rows : q.kind = "envelope" /\ q.to = p.device /\ q.body /\ WithinCut(q, p)}}
ExportLines(p) ==
    UNION {{Entry(f, x.key, Written(p, f, x)) : x \in {y \in Group(p, f) : ~Dropped(p, f, y)}} : f \in 0..9}
Lines(p) ==
    CASE p.res \in {"log", "records"} -> LogLines(p)
      [] p.res = "epochs" -> EpochLines(p)
      [] p.res = "devices" -> StatusLines(p)
      [] p.res = "requests" -> RequestLines(p)
      [] p.res = "transparency" -> HeadLines(p)
      [] p.res = "envelopes" -> EnvelopeLines(p)
      [] p.res = "export" -> ExportLines(p)
\* The cursor of p is at or behind the line e.
Passed(p, e) == e.phase < p.phase \/ (e.phase = p.phase /\ e.key <= p.at)

\* The paged listings.
Listings == {"log", "records", "epochs", "devices", "requests", "transparency", "envelopes", "export"}
\* The types of a cut.
CutTyped(p) ==
    /\ p.res \in Listings
    /\ p.cut.log \in Nat /\ p.cut.head \in Nat /\ p.cut.index \in Nat /\ p.cut.min \in Nat
    /\ p.cut.registry \in Nat /\ p.cut.offers \in Nat
\* The cut is a former state of the chain.
CutBehind(p) ==
    /\ p.cut.head <= head /\ p.cut.index <= index /\ p.cut.min <= min
    /\ p.cut.registry <= Len(history) /\ p.cut.offers <= Len(offers)
    /\ \A i \in 1..p.cut.registry : \E r \in rows :
          Same(r, Device(history[i].device)) /\ r.log # None /\ WithinCut(r, p)
\* Where a cursor can be.
CursorIn(p) ==
    /\ p.at \in Int /\ (p.res # "epochs" => p.at \in Nat)
    /\ p.res = "export" => p.phase \in 0..9 /\ (p.phase = 9 => p.at = 0)
    /\ p.res # "export" => p.phase = 0

\* The page a follows from p.
Turned(p, a) ==
    /\ a.st \in {"paging", "done"} /\ a.at \in Int /\ a.phase \in Int
    /\ IsFiniteSet(a.items)
    /\ a.items = {e.line : e \in {f \in Lines(p) : ~Passed(p, f) /\ Passed(a, f)}}
    /\ \A e \in Lines(p) : Passed(p, e) => Passed(a, e)
    /\ a.st = "done" => \A e \in Lines(p) : Passed(a, e)
    /\ a.st = "paging" => \/ a.phase > p.phase
                          \/ a.phase = p.phase /\ a.at > p.at
    /\ p.res # "epochs" => a.at \in Nat
    /\ p.res = "export" /\ a.st = "paging" => a.phase \in 0..9 /\ (a.phase = 9 => a.at = 0)
    /\ p.res # "export" => a.phase = 0

\* The fields of an answer.
LEMMA AnsweredFields ==
    ASSUME NEW items, NEW at, NEW phase, NEW more \in BOOLEAN
    PROVE  /\ Answered(items, at, phase, more).items = items
           /\ Answered(items, at, phase, more).at = at
           /\ Answered(items, at, phase, more).phase = phase
           /\ more => Answered(items, at, phase, more).st = "paging"
           /\ ~more => Answered(items, at, phase, more).st = "done"
BY DEF Answered

\* The fields of a line.
LEMMA EntryFields ==
    ASSUME NEW f, NEW k, NEW x
    PROVE  Entry(f, k, x).phase = f /\ Entry(f, k, x).key = k /\ Entry(f, k, x).line = x
BY DEF Entry

\* A listing of one phase: the page takes the lines in (at, through].
LEMMA PlainTurn ==
    ASSUME NEW p, CursorIn(p), p.res # "export", NEW a,
           NEW items, NEW at, NEW more \in BOOLEAN, a = Answered(items, at, 0, more),
           at \in Int, p.at <= at, IsFiniteSet(items),
           \A e \in Lines(p) : e.phase = 0 /\ e.key \in Int,
           items = {e.line : e \in {f \in Lines(p) : p.at < f.key /\ f.key <= at}},
           ~more => \A e \in Lines(p) : e.key <= at,
           more => p.at < at
    PROVE  Turned(p, a)
<1>1. /\ p.at \in Int /\ (p.res # "epochs" => p.at \in Nat) /\ p.phase = 0
  BY DEF CursorIn
<1>2. /\ a.items = items /\ a.at = at /\ a.phase = 0
      /\ more => a.st = "paging"
      /\ ~more => a.st = "done"
  BY AnsweredFields
<1>3. \A e \in Lines(p) : (Passed(p, e) <=> e.key <= p.at) /\ (Passed(a, e) <=> e.key <= at)
  BY <1>1, <1>2 DEF Passed
<1>4. \A e \in Lines(p) : ~Passed(p, e) /\ Passed(a, e) <=> p.at < e.key /\ e.key <= at
  BY <1>1, <1>3
<1>5. a.items = {e.line : e \in {f \in Lines(p) : ~Passed(p, f) /\ Passed(a, f)}}
  BY <1>2, <1>4
<1>6. \A e \in Lines(p) : Passed(p, e) => Passed(a, e)
  BY <1>1, <1>3
<1>7. a.st = "done" => \A e \in Lines(p) : Passed(a, e)
  BY <1>2, <1>3
<1>8. a.st = "paging" => a.phase = p.phase /\ a.at > p.at
  BY <1>1, <1>2
<1>9. p.res # "epochs" => a.at \in Nat
  BY <1>1, <1>2
<1>10. a.st \in {"paging", "done"} /\ a.at \in Int /\ a.phase \in Int /\ a.phase = 0 /\ IsFiniteSet(a.items)
  BY <1>2
<1> QED BY <1>5, <1>6, <1>7, <1>8, <1>9, <1>10 DEF Turned

\* The rows of a page by position, by id.
BySeq(R) == [r \in R |-> r.seq]
ById(R) == [r \in R |-> r.id]

\* The first rows by position, as FirstBy takes them.
LEMMA FirstSeq ==
    ASSUME NEW R, NEW S \in SUBSET R
    PROVE  /\ \A n : FirstN(S, Seq_, n) = FirstBy(S, BySeq(R), n)
           /\ Keys(S, Seq_) = {BySeq(R)[s] : s \in S}
           /\ \A r \in S : BySeq(R)[r] = r.seq
<1>01. PICK k : k = BySeq(R)
  OBVIOUS
<1> DEFINE A(r) == Cardinality({q \in S : q.seq < r.seq})
           B(r) == Cardinality({q \in S : k[q] < k[r]})
<1>1. \A r \in S : k[r] = r.seq
  BY <1>01 DEF BySeq
<1>2. \A r \in S : {q \in S : q.seq < r.seq} = {q \in S : k[q] < k[r]}
  BY <1>1
<1>3. \A r \in S : A(r) = B(r)
  BY <1>2
<1>4. \A n : FirstN(S, Seq_, n) = {r \in S : A(r) < n}
  BY DEF FirstN, Seq_
<1>5. \A n : FirstBy(S, k, n) = {r \in S : B(r) < n}
  BY DEF FirstBy
<1> HIDE DEF A, B
<1>6. \A n : FirstN(S, Seq_, n) = FirstBy(S, k, n)
  BY <1>3, <1>4, <1>5
<1>7. Keys(S, Seq_) = {r.seq : r \in S}
  BY DEF Keys, Seq_
<1>8. {r.seq : r \in S} = {k[s] : s \in S}
  BY <1>1
<1> QED BY <1>01, <1>1, <1>6, <1>7, <1>8

\* The first rows by id, as FirstBy takes them.
LEMMA FirstId ==
    ASSUME NEW R, NEW S \in SUBSET R
    PROVE  /\ \A n : FirstN(S, Id, n) = FirstBy(S, ById(R), n)
           /\ Keys(S, Id) = {ById(R)[s] : s \in S}
           /\ \A r \in S : ById(R)[r] = r.id
<1>01. PICK k : k = ById(R)
  OBVIOUS
<1> DEFINE A(r) == Cardinality({q \in S : q.id < r.id})
           B(r) == Cardinality({q \in S : k[q] < k[r]})
<1>1. \A r \in S : k[r] = r.id
  BY <1>01 DEF ById
<1>2. \A r \in S : {q \in S : q.id < r.id} = {q \in S : k[q] < k[r]}
  BY <1>1
<1>3. \A r \in S : A(r) = B(r)
  BY <1>2
<1>4. \A n : FirstN(S, Id, n) = {r \in S : A(r) < n}
  BY DEF FirstN, Id
<1>5. \A n : FirstBy(S, k, n) = {r \in S : B(r) < n}
  BY DEF FirstBy
<1> HIDE DEF A, B
<1>6. \A n : FirstN(S, Id, n) = FirstBy(S, k, n)
  BY <1>3, <1>4, <1>5
<1>7. Keys(S, Id) = {r.id : r \in S}
  BY DEF Keys, Id
<1>8. {r.id : r \in S} = {k[s] : s \in S}
  BY <1>1
<1> QED BY <1>01, <1>1, <1>6, <1>7, <1>8

\* A page of the log or of the records, when it does not fail, follows from the one before.
LEMMA LogTurns ==
    ASSUME Typed, Tables, NEW p, CutTyped(p), p.cut.log = log, CutBehind(p), CursorIn(p),
           p.res \in {"log", "records"}
    PROVE  (\E code : Log(p) = Failed(code)) \/ Turned(p, Log(p))
<1>01. PICK S : S = {r \in rows : r.log = log /\ r.seq \in (p.at + 1)..p.cut.head}
  OBVIOUS
<1>02. PICK scanned : scanned = FirstN(S, Seq_, ScanLimit)
  OBVIOUS
<1>03. PICK selected : selected = {r \in scanned : r.entry /\ (p.res = "log" \/ r.kind = "record")}
  OBVIOUS
<1>04. PICK items : items = FirstN(selected, Seq_, PageLimit)
  OBVIOUS
<1>05. PICK through : through = Reached(p.at, Keys(scanned, Seq_), Keys(items, Seq_), Keys(selected \ items, Seq_))
  OBVIOUS
<1>06. PICK k : k = BySeq(rows)
  OBVIOUS
<1>1. /\ p.at \in Nat /\ p.phase = 0 /\ p.cut.head \in Nat /\ p.cut.head <= head /\ head \in Nat /\ min \in Nat
      /\ \A r \in rows : r.seq \in Nat /\ r \in RowSet
  BY TypedFacts, RowFields DEF CursorIn, CutTyped, CutBehind
<1>2. /\ S \in SUBSET rows /\ IsFiniteSet(S)
      /\ \A r \in S : k[r] = r.seq /\ k[r] \in Int /\ p.at < k[r] /\ r.log = log /\ r.seq <= p.cut.head
  <2>1. S \in SUBSET rows
    BY <1>01
  <2>2. IsFiniteSet(S)
    BY <2>1, FS_Subset DEF Typed, RowsTyped
  <2>3. \A r \in S : k[r] = r.seq /\ k[r] \in Int /\ p.at < k[r] /\ r.log = log /\ r.seq <= p.cut.head
    <3>1. SUFFICES ASSUME NEW r \in S
                   PROVE  k[r] = r.seq /\ k[r] \in Int /\ p.at < k[r] /\ r.log = log /\ r.seq <= p.cut.head
      OBVIOUS
    <3>2. r \in rows /\ r.log = log /\ r.seq \in (p.at + 1)..p.cut.head
      BY <1>01
    <3>3. r.seq \in Nat /\ p.at < r.seq /\ r.seq <= p.cut.head
      BY <1>1, <3>2
    <3>4. k[r] = r.seq
      BY <1>06, <3>2 DEF BySeq
    <3> QED BY <3>2, <3>3, <3>4
  <2> QED BY <2>1, <2>2, <2>3
<1>3. scanned = FirstBy(S, k, ScanLimit) /\ scanned \in SUBSET S
  <2>1. scanned = FirstBy(S, k, ScanLimit)
    BY <1>02, <1>06, <1>2, FirstSeq
  <2> QED BY <2>1 DEF FirstBy
<1>4. selected \in SUBSET scanned /\ selected \in SUBSET rows /\ scanned \in SUBSET rows
  BY <1>03, <1>2, <1>3
<1>5. items = FirstBy(selected, k, PageLimit) /\ items \in SUBSET selected
  <2>1. items = FirstBy(selected, k, PageLimit)
    BY <1>04, <1>06, <1>4, FirstSeq
  <2> QED BY <2>1 DEF FirstBy
<1>6. through = Through(p.at, k, scanned, selected \ items)
  <2>1. Keys(scanned, Seq_) = {k[s] : s \in scanned}
    BY <1>06, <1>4, FirstSeq
  <2>2. selected \ items \in SUBSET rows
    BY <1>4
  <2>3. Keys(selected \ items, Seq_) = {k[s] : s \in selected \ items}
    BY <1>06, <2>2, FirstSeq
  <2> QED BY <1>05, <2>1, <2>3 DEF Reached, Through
<1>7. ScanLimit \in Nat \ {0} /\ PageLimit \in Nat \ {0} /\ p.at \in Int
  BY <1>1, PagingAssumption
<1>8. /\ through \in Int /\ p.at <= through
      /\ \A r \in items : r \in selected /\ p.at < k[r] /\ k[r] <= through
      /\ \A r \in S : k[r] <= through => r \in scanned /\ r \notin selected \ items
      /\ S # {} => p.at < through
  <2>1. (\A x \in S : k[x] \in Int) /\ (\A x \in S : p.at < k[x])
    BY <1>2
  <2> QED BY <1>2, <1>3, <1>4, <1>5, <1>6, <1>7, <2>1, PageLemma
<1>9. CASE \E code : Log(p) = Failed(code)
  BY <1>9
<1>10. CASE Log(p) = Answered({Line(r) : r \in items}, through, 0, through < p.cut.head) /\ ~(p.at < min - 1)
  <2>1. \A r \in S : r.entry
    <3> SUFFICES ASSUME NEW r \in S PROVE r.entry
      OBVIOUS
    <3>1. r \in rows /\ r.log = log /\ r.seq >= min /\ r.seq \in Nat
      BY <1>1, <1>2, <1>10
    <3>2. Lasting(r) /\ r.kind \in Kinds
      BY <1>1, <3>1, RowFields DEF Tables, RowsSound
    <3> QED BY <1>1, <3>1, <3>2 DEF Lasting
  <2>2. items = {r \in S : (p.res = "log" \/ r.kind = "record") /\ r.seq <= through}
    <3>1. \A r \in items : r \in S /\ (p.res = "log" \/ r.kind = "record") /\ r.seq <= through
      BY <1>03, <1>2, <1>3, <1>4, <1>8
    <3>2. \A r \in S : (p.res = "log" \/ r.kind = "record") /\ r.seq <= through => r \in items
      BY <1>03, <1>2, <1>8, <2>1
    <3> QED BY <3>1, <3>2, <1>3, <1>4, <1>5
  <2>3. Lines(p) = {Entry(0, r.seq, Line(r)) : r \in {q \in rows :
                      q.log = log /\ q.seq <= p.cut.head /\ (p.res = "log" \/ q.kind = "record")}}
    BY DEF Lines, LogLines
  <2>4. \A e \in Lines(p) : e.phase = 0 /\ e.key \in Int /\ e.key <= p.cut.head
    BY <1>1, <2>3, EntryFields
  <2>5. {Line(r) : r \in items} = {e.line : e \in {f \in Lines(p) : p.at < f.key /\ f.key <= through}}
    <3>1. ASSUME NEW r \in items PROVE \E e \in Lines(p) : p.at < e.key /\ e.key <= through /\ e.line = Line(r)
      <4>1. r \in S /\ (p.res = "log" \/ r.kind = "record") /\ r.seq <= through
        BY <2>2
      <4>2. r \in rows /\ r.log = log /\ r.seq <= p.cut.head /\ p.at < r.seq
        BY <1>2, <4>1
      <4>3. Entry(0, r.seq, Line(r)) \in Lines(p)
        BY <2>3, <4>1, <4>2
      <4> QED BY <4>1, <4>2, <4>3, EntryFields
    <3>2. ASSUME NEW e \in Lines(p), p.at < e.key, e.key <= through PROVE \E r \in items : e.line = Line(r)
      <4>1. PICK r \in rows : /\ r.log = log /\ r.seq <= p.cut.head /\ (p.res = "log" \/ r.kind = "record")
                              /\ e = Entry(0, r.seq, Line(r))
        BY <2>3
      <4>2. e.key = r.seq /\ e.line = Line(r)
        BY <4>1, EntryFields
      <4>3. r \in S
        BY <1>01, <1>1, <3>2, <4>1, <4>2
      <4> QED BY <2>2, <3>2, <4>1, <4>2, <4>3
    <3> QED BY <3>1, <3>2
  <2>6. IsFiniteSet({Line(r) : r \in items})
    <3>1. IsFiniteSet(items)
      BY <1>2, <1>3, <1>4, <1>5, FS_Subset
    <3>2. PICK g : g = [r \in items |-> Line(r)]
      OBVIOUS
    <3>3. {Line(r) : r \in items} = {g[r] : r \in items}
      BY <3>2
    <3>4. IsFiniteSet({g[r] : r \in items})
      BY <3>1, ImageFinite
    <3> QED BY <3>3, <3>4
  <2>7. through < p.cut.head => p.at < through
    <3> SUFFICES ASSUME through < p.cut.head PROVE p.at < through
      OBVIOUS
    <3>1. p.at + 1 \in 1..head /\ p.at + 1 <= p.cut.head
      BY <1>1, <1>8
    <3>2. PICK r \in rows : r.log = log /\ r.seq = p.at + 1
      BY <3>1 DEF Tables, Filled
    <3>3. r \in S
      BY <1>01, <1>1, <3>1, <3>2
    <3> QED BY <1>8, <3>3
  <2>8. ~(through < p.cut.head) => \A e \in Lines(p) : e.key <= through
    BY <1>1, <1>8, <2>4
  <2>9. p.res # "export" /\ (through < p.cut.head) \in BOOLEAN
    OBVIOUS
  <2>10. PICK lines, more : lines = {Line(r) : r \in items} /\ more = (through < p.cut.head)
    OBVIOUS
  <2>11. /\ more \in BOOLEAN /\ Log(p) = Answered(lines, through, 0, more) /\ IsFiniteSet(lines)
         /\ lines = {e.line : e \in {f \in Lines(p) : p.at < f.key /\ f.key <= through}}
         /\ ~more => \A e \in Lines(p) : e.key <= through
         /\ more => p.at < through
    BY <1>10, <2>5, <2>6, <2>7, <2>8, <2>9, <2>10
  <2>12. \A e \in Lines(p) : e.phase = 0 /\ e.key \in Int
    BY <2>4
  <2>13. Turned(p, Log(p))
    BY <1>8, <2>9, <2>11, <2>12, PlainTurn
  <2> QED BY <2>13
<1>11. \/ \E code : Log(p) = Failed(code)
       \/ Log(p) = Answered({Line(r) : r \in items}, through, 0, through < p.cut.head) /\ ~(p.at < min - 1)
  BY <1>01, <1>02, <1>03, <1>04, <1>05 DEF Log
<1> QED BY <1>9, <1>10, <1>11

\* Of the rows behind the cursor a page has those up to its key that are for the reader.
ObjectsPage(p, items, key, more) ==
    /\ more \in BOOLEAN /\ key \in Int /\ p.at <= key
    /\ items \subseteq After(p, p.at) /\ IsFiniteSet(items)
    /\ \A r \in items : r.id <= key /\ (p.res = "envelopes" => r.to = p.device)
    /\ \A r \in After(p, p.at) : r.id <= key /\ (p.res = "envelopes" => r.to = p.device) => r \in items
    /\ ~more => \A r \in After(p, p.at) : r.id <= key
    /\ more => p.at < key

\* A page of objects.
LEMMA ObjectsAnswer ==
    ASSUME Typed, NEW p, p.at \in Int
    PROVE  \/ \E code : Objects(p) = Failed(code)
           \/ \E items, key, more : /\ Objects(p) = Answered(UNION {Wrapped(p, r) : r \in items}, key, 0, more)
                                    /\ ObjectsPage(p, items, key, more)
<1>01. PICK S : S = After(p, p.at)
  OBVIOUS
<1>02. PICK scanned : scanned = FirstN(S, Id, ScanLimit)
  OBVIOUS
<1>03. PICK selected : selected = {r \in scanned : p.res = "envelopes" => r.to = p.device}
  OBVIOUS
<1>04. PICK items : items = FirstN(selected, Id, PageLimit)
  OBVIOUS
<1>05. PICK key : key = Reached(p.at, Keys(scanned, Id), Keys(items, Id), Keys(selected \ items, Id))
  OBVIOUS
<1>06. PICK k : k = ById(rows)
  OBVIOUS
<1>07. PICK more : more = (items # selected \/ After(p, key) # {})
  OBVIOUS
<1>1. \A r \in rows : r.id \in Nat
  BY TypedFacts, RowFields
<1>2. /\ S \in SUBSET rows /\ IsFiniteSet(S)
      /\ \A r \in S : k[r] = r.id /\ k[r] \in Int /\ p.at < k[r]
  <2>1. S \in SUBSET rows
    BY <1>01 DEF After
  <2>2. IsFiniteSet(S)
    BY <2>1, FS_Subset DEF Typed, RowsTyped
  <2>3. \A r \in S : k[r] = r.id
    BY <1>06, <2>1, FirstId
  <2>4. \A r \in S : r.id > p.at
    BY <1>01 DEF After
  <2>5. \A r \in S : k[r] \in Int /\ p.at < k[r]
    BY <1>1, <2>1, <2>3, <2>4
  <2> QED BY <2>1, <2>2, <2>3, <2>5
<1>3. scanned = FirstBy(S, k, ScanLimit) /\ scanned \in SUBSET S
  <2>1. scanned = FirstBy(S, k, ScanLimit)
    BY <1>02, <1>06, <1>2, FirstId
  <2> QED BY <2>1 DEF FirstBy
<1>4. selected \in SUBSET scanned /\ selected \in SUBSET rows /\ scanned \in SUBSET rows
  BY <1>03, <1>2, <1>3
<1>5. items = FirstBy(selected, k, PageLimit) /\ items \in SUBSET selected
  <2>1. items = FirstBy(selected, k, PageLimit)
    BY <1>04, <1>06, <1>4, FirstId
  <2> QED BY <2>1 DEF FirstBy
<1>6. key = Through(p.at, k, scanned, selected \ items)
  <2>1. Keys(scanned, Id) = {k[s] : s \in scanned}
    BY <1>06, <1>4, FirstId
  <2>2. selected \ items \in SUBSET rows
    BY <1>4
  <2>3. Keys(selected \ items, Id) = {k[s] : s \in selected \ items}
    BY <1>06, <2>2, FirstId
  <2> QED BY <1>05, <2>1, <2>3 DEF Reached, Through
<1>7. ScanLimit \in Nat \ {0} /\ PageLimit \in Nat \ {0}
  BY PagingAssumption
<1>8. /\ key \in Int /\ p.at <= key
      /\ \A r \in items : r \in selected /\ p.at < k[r] /\ k[r] <= key
      /\ \A r \in S : k[r] <= key => r \in scanned /\ r \notin selected \ items
      /\ S # {} => p.at < key
  <2>1. (\A x \in S : k[x] \in Int) /\ (\A x \in S : p.at < k[x])
    BY <1>2
  <2> QED BY <1>2, <1>3, <1>4, <1>5, <1>6, <1>7, <2>1, PageLemma
<1>9. \/ \E code : Objects(p) = Failed(code)
      \/ Objects(p) = Answered(UNION {Wrapped(p, r) : r \in items}, key, 0, more)
  BY <1>01, <1>02, <1>03, <1>04, <1>05, <1>07 DEF Objects
<1>10. \A r \in rows : r \in After(p, key) <=> r \in S /\ r.id > key
  BY <1>01, <1>1, <1>8 DEF After
<1>11. After(p, key) \in SUBSET rows
  BY DEF After
<1>12. \A r \in items : r.id <= key /\ (p.res = "envelopes" => r.to = p.device)
  <2>1. \A r \in items : r \in S /\ r \in selected /\ k[r] <= key
    BY <1>3, <1>4, <1>5, <1>8
  <2> QED BY <1>03, <1>2, <2>1
<1>13. \A r \in S : r.id <= key /\ (p.res = "envelopes" => r.to = p.device) => r \in items
  BY <1>03, <1>2, <1>8
<1>14. ASSUME ~more PROVE \A r \in S : r.id <= key
  <2>1. After(p, key) = {}
    BY <1>07, <1>14
  <2> QED BY <1>1, <1>2, <1>8, <1>10, <2>1
<1>15. ASSUME more PROVE p.at < key
  <2>1. ASSUME S = {} PROVE FALSE
    <3>1. scanned = {} /\ selected = {} /\ items = {}
      BY <1>3, <1>4, <1>5, <2>1
    <3>2. After(p, key) = {}
      BY <1>10, <1>11, <2>1
    <3> QED BY <1>07, <1>15, <3>1, <3>2
  <2> QED BY <1>8, <2>1
<1>16. IsFiniteSet(items) /\ items \in SUBSET S
  <2>1. items \in SUBSET S
    BY <1>3, <1>4, <1>5
  <2> QED BY <1>2, <2>1, FS_Subset
<1>17. more \in BOOLEAN
  BY <1>07
<1>18. ObjectsPage(p, items, key, more)
  BY <1>01, <1>8, <1>12, <1>13, <1>14, <1>15, <1>16, <1>17 DEF ObjectsPage
<1> QED BY <1>9, <1>18

\* Finitely many rows have finitely many lines.
LEMMA LineSetFinite ==
    ASSUME NEW S, IsFiniteSet(S)
    PROVE  IsFiniteSet({Line(r) : r \in S})
<1>1. PICK g : g = [r \in S |-> Line(r)]
  OBVIOUS
<1>2. {Line(r) : r \in S} = {g[r] : r \in S}
  BY <1>1
<1>3. IsFiniteSet({g[r] : r \in S})
  BY ImageFinite
<1> QED BY <1>2, <1>3

\* A page of the epochs.
LEMMA EpochsTurn ==
    ASSUME Typed, Tables, NEW p, CutTyped(p), p.cut.log = log, CutBehind(p), CursorIn(p), p.res = "epochs"
    PROVE  (\E code : Objects(p) = Failed(code)) \/ Turned(p, Objects(p))
<1>1. p.at \in Int
  BY DEF CursorIn
<1>2. CASE \E code : Objects(p) = Failed(code)
  BY <1>2
<1>3. CASE \E items, key, more : /\ Objects(p) = Answered(UNION {Wrapped(p, r) : r \in items}, key, 0, more)
                                 /\ ObjectsPage(p, items, key, more)
  <2>1. PICK items, key, more : /\ Objects(p) = Answered(UNION {Wrapped(p, r) : r \in items}, key, 0, more)
                                /\ ObjectsPage(p, items, key, more)
    BY <1>3
  <2>2. After(p, p.at) = {r \in rows : r.kind = "epoch" /\ r.id > p.at /\ r.body /\ WithinCut(r, p)}
    BY DEF After, Kind
  <2>3. \A r \in rows : r.kind = "epoch" => r.body /\ r.entry /\ r.log # None /\ r.id \in Nat
    BY TypedFacts, RowFields DEF Tables, RowsSound, Lasting, Placed
  <2>4. Lines(p) = {Entry(0, r.id, Line(r)) : r \in {q \in rows : q.kind = "epoch" /\ WithinCut(q, p)}}
    BY DEF Lines, EpochLines
  <2>5. /\ more \in BOOLEAN /\ key \in Int /\ p.at <= key
        /\ items \subseteq After(p, p.at) /\ IsFiniteSet(items)
        /\ \A r \in items : r.id <= key
        /\ \A r \in After(p, p.at) : r.id <= key => r \in items
        /\ ~more => \A r \in After(p, p.at) : r.id <= key
        /\ more => p.at < key
    BY <2>1 DEF ObjectsPage
  <2>6. UNION {Wrapped(p, r) : r \in items} = {Line(r) : r \in items}
    <3>1. \A r \in items : Wrapped(p, r) = {Line(r)}
      BY <2>2, <2>3, <2>5 DEF Wrapped
    <3> QED BY <3>1
  <2>7. \A e \in Lines(p) : e.phase = 0 /\ e.key \in Int
    BY <2>3, <2>4, EntryFields
  <2>8. {Line(r) : r \in items} = {e.line : e \in {f \in Lines(p) : p.at < f.key /\ f.key <= key}}
    <3>1. ASSUME NEW r \in items PROVE \E e \in Lines(p) : p.at < e.key /\ e.key <= key /\ e.line = Line(r)
      <4>1. r \in rows /\ r.kind = "epoch" /\ WithinCut(r, p) /\ r.id > p.at /\ r.id <= key
        BY <2>2, <2>5
      <4>2. Entry(0, r.id, Line(r)) \in Lines(p)
        BY <2>4, <4>1
      <4>3. p.at < r.id
        BY <1>1, <2>3, <4>1
      <4> QED BY <4>1, <4>2, <4>3, EntryFields
    <3>2. ASSUME NEW e \in Lines(p), p.at < e.key, e.key <= key PROVE \E r \in items : e.line = Line(r)
      <4>1. PICK r \in rows : r.kind = "epoch" /\ WithinCut(r, p) /\ e = Entry(0, r.id, Line(r))
        BY <2>4
      <4>2. e.key = r.id /\ e.line = Line(r)
        BY <4>1, EntryFields
      <4>3. r \in After(p, p.at)
        BY <1>1, <2>2, <2>3, <3>2, <4>1, <4>2
      <4> QED BY <2>5, <3>2, <4>2, <4>3
    <3> QED BY <3>1, <3>2
  <2>9. ~more => \A e \in Lines(p) : e.key <= key
    <3> SUFFICES ASSUME ~more, NEW e \in Lines(p) PROVE e.key <= key
      OBVIOUS
    <3>1. PICK r \in rows : r.kind = "epoch" /\ WithinCut(r, p) /\ e = Entry(0, r.id, Line(r))
      BY <2>4
    <3>2. e.key = r.id /\ r.id \in Nat
      BY <2>3, <3>1, EntryFields
    <3>3. CASE r.id > p.at
      <4>1. r \in After(p, p.at)
        BY <2>2, <2>3, <3>1, <3>3
      <4> QED BY <2>5, <3>2, <4>1
    <3>4. CASE ~(r.id > p.at)
      BY <1>1, <2>5, <3>2, <3>4
    <3> QED BY <3>3, <3>4
  <2>10. IsFiniteSet({Line(r) : r \in items})
    BY <2>5, LineSetFinite
  <2>11. PICK lines : lines = {Line(r) : r \in items}
    OBVIOUS
  <2>12. /\ Objects(p) = Answered(lines, key, 0, more) /\ IsFiniteSet(lines)
         /\ lines = {e.line : e \in {f \in Lines(p) : p.at < f.key /\ f.key <= key}}
    BY <2>1, <2>6, <2>8, <2>10, <2>11
  <2>13. p.res # "export"
    OBVIOUS
  <2>14. Turned(p, Objects(p))
    BY <2>5, <2>7, <2>9, <2>12, <2>13, PlainTurn
  <2> QED BY <2>14
<1> QED BY <1>1, <1>2, <1>3, ObjectsAnswer

\* A page of a device's envelopes.
LEMMA EnvelopesTurn ==
    ASSUME Typed, Tables, NEW p, CutTyped(p), p.cut.log = log, CutBehind(p), CursorIn(p), p.res = "envelopes"
    PROVE  (\E code : Objects(p) = Failed(code)) \/ Turned(p, Objects(p))
<1>1. p.at \in Int
  BY DEF CursorIn
<1>2. CASE \E code : Objects(p) = Failed(code)
  BY <1>2
<1>3. CASE \E items, key, more : /\ Objects(p) = Answered(UNION {Wrapped(p, r) : r \in items}, key, 0, more)
                                 /\ ObjectsPage(p, items, key, more)
  <2>1. PICK items, key, more : /\ Objects(p) = Answered(UNION {Wrapped(p, r) : r \in items}, key, 0, more)
                                /\ ObjectsPage(p, items, key, more)
    BY <1>3
  <2>2. After(p, p.at) = {r \in rows : r.kind = "envelope" /\ r.id > p.at /\ r.body /\ WithinCut(r, p)}
    BY DEF After, Kind
  <2>3. \A r \in rows : r.id \in Nat
    BY TypedFacts, RowFields
  <2>4. Lines(p) = {Entry(0, r.id, Line(r)) :
                      r \in {q \in rows : q.kind = "envelope" /\ q.to = p.device /\ q.body /\ WithinCut(q, p)}}
    BY DEF Lines, EnvelopeLines
  <2>5. /\ more \in BOOLEAN /\ key \in Int /\ p.at <= key
        /\ items \subseteq After(p, p.at) /\ IsFiniteSet(items)
        /\ \A r \in items : r.id <= key /\ r.to = p.device
        /\ \A r \in After(p, p.at) : r.id <= key /\ r.to = p.device => r \in items
        /\ ~more => \A r \in After(p, p.at) : r.id <= key
        /\ more => p.at < key
    BY <2>1 DEF ObjectsPage
  <2>6. UNION {Wrapped(p, r) : r \in items} = {Line(r) : r \in items}
    <3>1. \A r \in items : Wrapped(p, r) = {Line(r)}
      BY DEF Wrapped
    <3> QED BY <3>1
  <2>7. \A e \in Lines(p) : e.phase = 0 /\ e.key \in Int
    BY <2>3, <2>4, EntryFields
  <2>8. {Line(r) : r \in items} = {e.line : e \in {f \in Lines(p) : p.at < f.key /\ f.key <= key}}
    <3>1. ASSUME NEW r \in items PROVE \E e \in Lines(p) : p.at < e.key /\ e.key <= key /\ e.line = Line(r)
      <4>1. /\ r \in rows /\ r.kind = "envelope" /\ WithinCut(r, p) /\ r.body
            /\ r.id > p.at /\ r.id <= key /\ r.to = p.device
        BY <2>2, <2>5
      <4>2. Entry(0, r.id, Line(r)) \in Lines(p)
        BY <2>4, <4>1
      <4>3. p.at < r.id
        BY <1>1, <2>3, <4>1
      <4> QED BY <4>1, <4>2, <4>3, EntryFields
    <3>2. ASSUME NEW e \in Lines(p), p.at < e.key, e.key <= key PROVE \E r \in items : e.line = Line(r)
      <4>1. PICK r \in rows : /\ r.kind = "envelope" /\ r.to = p.device /\ r.body /\ WithinCut(r, p)
                              /\ e = Entry(0, r.id, Line(r))
        BY <2>4
      <4>2. e.key = r.id /\ e.line = Line(r)
        BY <4>1, EntryFields
      <4>3. r \in After(p, p.at)
        BY <1>1, <2>2, <2>3, <3>2, <4>1, <4>2
      <4> QED BY <2>5, <3>2, <4>1, <4>2, <4>3
    <3> QED BY <3>1, <3>2
  <2>9. ~more => \A e \in Lines(p) : e.key <= key
    <3> SUFFICES ASSUME ~more, NEW e \in Lines(p) PROVE e.key <= key
      OBVIOUS
    <3>1. PICK r \in rows : /\ r.kind = "envelope" /\ r.to = p.device /\ r.body /\ WithinCut(r, p)
                            /\ e = Entry(0, r.id, Line(r))
      BY <2>4
    <3>2. e.key = r.id /\ r.id \in Nat
      BY <2>3, <3>1, EntryFields
    <3>3. CASE r.id > p.at
      <4>1. r \in After(p, p.at)
        BY <2>2, <2>3, <3>1, <3>3
      <4> QED BY <2>5, <3>2, <4>1
    <3>4. CASE ~(r.id > p.at)
      BY <1>1, <2>5, <3>2, <3>4
    <3> QED BY <3>3, <3>4
  <2>10. IsFiniteSet({Line(r) : r \in items})
    BY <2>5, LineSetFinite
  <2>11. PICK lines : lines = {Line(r) : r \in items}
    OBVIOUS
  <2>12. /\ Objects(p) = Answered(lines, key, 0, more) /\ IsFiniteSet(lines)
         /\ lines = {e.line : e \in {f \in Lines(p) : p.at < f.key /\ f.key <= key}}
    BY <2>1, <2>6, <2>8, <2>10, <2>11
  <2>13. p.res # "export"
    OBVIOUS
  <2>14. Turned(p, Objects(p))
    BY <2>5, <2>7, <2>9, <2>12, <2>13, PlainTurn
  <2> QED BY <2>14
<1> QED BY <1>1, <1>2, <1>3, ObjectsAnswer

\* The status of a device is that of an event of it.
LEMMA StatusEvents ==
    ASSUME NEW d, NEW v, NEW e \in StatusAt(d, v)
    PROVE  \E i \in 1..v : e = history[i] /\ e.device = d
BY DEF StatusAt, LastOf

\* Whom a later event revoked is shown with the status of the event.
LEMMA PinnedStatusPlain ==
    ASSUME Typed, Tables, NEW p, p.cut.registry \in Nat, p.cut.registry <= Len(history), NEW d
    PROVE  PinnedStatus(p, d) = {<<d, e.status>> : e \in StatusAt(d, p.cut.registry)}
<1>1. ASSUME NEW e \in StatusAt(d, p.cut.registry)
      PROVE  (IF e.revoked # 0 /\ e.revoked <= p.cut.head THEN "revoked" ELSE e.status) = e.status
  <2>1. PICK i \in 1..p.cut.registry : e = history[i]
    BY StatusEvents
  <2>2. i \in 1..Len(history)
    BY TypedFacts
  <2>3. e.status # "revoked" => e.revoked = 0
    BY <2>1, <2>2 DEF Tables, Registered, RegisteredAt
  <2> QED BY <2>3
<1>2. PinnedStatus(p, d) =
        {<<d, IF e.revoked # 0 /\ e.revoked <= p.cut.head THEN "revoked" ELSE e.status>> :
            e \in StatusAt(d, p.cut.registry)}
  BY DEF PinnedStatus
<1> QED BY <1>1, <1>2

\* A device with an event is in the list.
LEMMA StatusHasRow ==
    ASSUME Typed, Tables, NEW p, CutTyped(p), CutBehind(p), NEW d, NEW e \in StatusAt(d, p.cut.registry)
    PROVE  \E r \in rows : r.kind = "device" /\ r.id = d /\ r.body /\ WithinCut(r, p)
<1>1. PICK i \in 1..p.cut.registry : e = history[i] /\ e.device = d
  BY StatusEvents
<1>2. PICK r \in rows : Same(r, Device(history[i].device)) /\ r.log # None /\ WithinCut(r, p)
  BY DEF CutBehind
<1>3. r.kind = "device" /\ r.id = d
  BY <1>1, <1>2, DeviceFields DEF Same
<1>4. r.body
  BY <1>3 DEF Tables, RowsSound, Lasting
<1> QED BY <1>2, <1>3, <1>4

\* A page of the devices: every device of the cut has its one status of then.
LEMMA DevicesTurn ==
    ASSUME Typed, Tables, NEW p, CutTyped(p), p.cut.log = log, CutBehind(p), CursorIn(p), p.res = "devices"
    PROVE  (\E code : Objects(p) = Failed(code)) \/ Turned(p, Objects(p))
<1>1. p.at \in Int /\ p.cut.registry \in Nat /\ p.cut.registry <= Len(history)
  BY DEF CursorIn, CutTyped, CutBehind
<1>2. CASE \E code : Objects(p) = Failed(code)
  BY <1>2
<1>3. CASE \E items, key, more : /\ Objects(p) = Answered(UNION {Wrapped(p, r) : r \in items}, key, 0, more)
                                 /\ ObjectsPage(p, items, key, more)
  <2>1. PICK items, key, more : /\ Objects(p) = Answered(UNION {Wrapped(p, r) : r \in items}, key, 0, more)
                                /\ ObjectsPage(p, items, key, more)
    BY <1>3
  <2>2. After(p, p.at) = {r \in rows : r.kind = "device" /\ r.id > p.at /\ r.body /\ WithinCut(r, p)}
    BY DEF After, Kind
  <2>3. \A r \in rows : r.id \in Nat /\ (r.kind = "device" => r.id \in Devices)
    BY TypedFacts, RowFields DEF Tables, RowsSound, Numbered
  <2>4. Lines(p) = {Entry(0, e.device, <<e.device, e.status>>) :
                      e \in UNION {StatusAt(d, p.cut.registry) : d \in Devices}}
    BY DEF Lines, StatusLines
  <2>5. /\ more \in BOOLEAN /\ key \in Int /\ p.at <= key
        /\ items \subseteq After(p, p.at) /\ IsFiniteSet(items)
        /\ \A r \in items : r.id <= key
        /\ \A r \in After(p, p.at) : r.id <= key => r \in items
        /\ ~more => \A r \in After(p, p.at) : r.id <= key
        /\ more => p.at < key
    BY <2>1 DEF ObjectsPage
  <2>6. \A r \in items : Wrapped(p, r) = {<<r.id, e.status>> : e \in StatusAt(r.id, p.cut.registry)}
    BY <1>1, PinnedStatusPlain DEF Wrapped
  <2>7. \A d \in Devices : d \in Int
    BY PagingAssumption
  <2>8. \A f \in Lines(p) : \E d \in Devices : \E e \in StatusAt(d, p.cut.registry) :
          e.device = d /\ f.phase = 0 /\ f.key = d /\ f.line = <<d, e.status>>
    <3> SUFFICES ASSUME NEW f \in Lines(p)
                 PROVE  \E d \in Devices : \E e \in StatusAt(d, p.cut.registry) :
                          e.device = d /\ f.phase = 0 /\ f.key = d /\ f.line = <<d, e.status>>
      OBVIOUS
    <3>1. PICK d \in Devices : \E e \in StatusAt(d, p.cut.registry) : f = Entry(0, e.device, <<e.device, e.status>>)
      BY <2>4
    <3>2. PICK e \in StatusAt(d, p.cut.registry) : f = Entry(0, e.device, <<e.device, e.status>>)
      BY <3>1
    <3>3. e.device = d
      BY StatusEvents
    <3> QED BY <3>2, <3>3, EntryFields
  <2>9. \A d \in Devices : \A e \in StatusAt(d, p.cut.registry) : Entry(0, d, <<d, e.status>>) \in Lines(p)
    <3> SUFFICES ASSUME NEW d \in Devices, NEW e \in StatusAt(d, p.cut.registry)
                 PROVE  Entry(0, d, <<d, e.status>>) \in Lines(p)
      OBVIOUS
    <3>1. e.device = d
      BY StatusEvents
    <3>2. Entry(0, e.device, <<e.device, e.status>>) \in Lines(p)
      BY <2>4
    <3> QED BY <3>1, <3>2
  <2>10. \A f \in Lines(p) : f.phase = 0 /\ f.key \in Int
    BY <2>7, <2>8
  <2>11. \A f \in Lines(p) : f.key > p.at => \E r \in After(p, p.at) : r.id = f.key
    <3> SUFFICES ASSUME NEW f \in Lines(p), f.key > p.at PROVE \E r \in After(p, p.at) : r.id = f.key
      OBVIOUS
    <3>1. PICK d \in Devices : \E e \in StatusAt(d, p.cut.registry) : f.key = d
      BY <2>8
    <3>2. PICK e \in StatusAt(d, p.cut.registry) : f.key = d
      BY <3>1
    <3>3. PICK r \in rows : r.kind = "device" /\ r.id = d /\ r.body /\ WithinCut(r, p)
      BY StatusHasRow
    <3> QED BY <2>2, <3>2, <3>3
  <2>12. UNION {Wrapped(p, r) : r \in items} = {e.line : e \in {f \in Lines(p) : p.at < f.key /\ f.key <= key}}
    <3>1. ASSUME NEW r \in items, NEW x \in Wrapped(p, r)
          PROVE  \E f \in Lines(p) : p.at < f.key /\ f.key <= key /\ f.line = x
      <4>1. PICK e \in StatusAt(r.id, p.cut.registry) : x = <<r.id, e.status>>
        BY <2>6
      <4>2. r.id \in Devices /\ r.id > p.at /\ r.id <= key /\ r.id \in Nat
        BY <2>2, <2>3, <2>5
      <4>3. Entry(0, r.id, <<r.id, e.status>>) \in Lines(p)
        BY <2>9, <4>2
      <4>4. p.at < r.id
        BY <1>1, <4>2
      <4> QED BY <4>1, <4>2, <4>3, <4>4, EntryFields
    <3>2. ASSUME NEW f \in Lines(p), p.at < f.key, f.key <= key
          PROVE  \E r \in items : f.line \in Wrapped(p, r)
      <4>1. PICK d \in Devices : \E e \in StatusAt(d, p.cut.registry) : f.key = d /\ f.line = <<d, e.status>>
        BY <2>8
      <4>2. f.key > p.at
        BY <1>1, <2>10, <3>2
      <4>3. PICK r \in After(p, p.at) : r.id = f.key
        BY <2>11, <4>2
      <4>4. r \in items
        BY <2>5, <3>2, <4>3
      <4> QED BY <2>6, <4>1, <4>3, <4>4
    <3> QED BY <3>1, <3>2
  <2>13. ~more => \A f \in Lines(p) : f.key <= key
    <3> SUFFICES ASSUME ~more, NEW f \in Lines(p) PROVE f.key <= key
      OBVIOUS
    <3>1. CASE f.key > p.at
      BY <2>5, <2>11, <3>1
    <3>2. CASE ~(f.key > p.at)
      BY <1>1, <2>5, <2>10, <3>2
    <3> QED BY <3>1, <3>2
  <2>14. PICK lines : lines = UNION {Wrapped(p, r) : r \in items}
    OBVIOUS
  <2>15. IsFiniteSet(lines)
    <3>1. PICK g : g = [i \in 1..p.cut.registry |-> <<history[i].device, history[i].status>>]
      OBVIOUS
    <3>2. IsFiniteSet(1..p.cut.registry)
      BY <1>1, FS_Interval
    <3>3. IsFiniteSet({g[i] : i \in 1..p.cut.registry})
      BY <3>2, ImageFinite
    <3>4. lines \in SUBSET {g[i] : i \in 1..p.cut.registry}
      <4> SUFFICES ASSUME NEW x \in lines PROVE \E i \in 1..p.cut.registry : x = g[i]
        OBVIOUS
      <4>1. PICK r \in items : x \in Wrapped(p, r)
        BY <2>14
      <4>2. PICK e \in StatusAt(r.id, p.cut.registry) : x = <<r.id, e.status>>
        BY <2>6, <4>1
      <4>3. PICK i \in 1..p.cut.registry : e = history[i] /\ e.device = r.id
        BY StatusEvents
      <4> QED BY <3>1, <4>2, <4>3
    <3> QED BY <3>3, <3>4, FS_Subset
  <2>16. /\ Objects(p) = Answered(lines, key, 0, more)
         /\ lines = {e.line : e \in {f \in Lines(p) : p.at < f.key /\ f.key <= key}}
    BY <2>1, <2>12, <2>14
  <2>17. p.res # "export"
    OBVIOUS
  <2>18. Turned(p, Objects(p))
    BY <2>5, <2>10, <2>13, <2>15, <2>16, <2>17, PlainTurn
  <2> QED BY <2>18
<1> QED BY <1>1, <1>2, <1>3, ObjectsAnswer

-----------------------------------------------------------------------------
(* transparency *)
\* A page of the transparency log.
LEMMA TransparencyTurns ==
    ASSUME NEW p, CutTyped(p), CursorIn(p), p.res = "transparency"
    PROVE  Turned(p, Transparency(p))
<1>01. PICK S : S = (p.at + 1)..p.cut.index
  OBVIOUS
<1>02. PICK k : k = [i \in S |-> i]
  OBVIOUS
<1>03. PICK items : items = FirstN(S, Itself, ChunkLimit)
  OBVIOUS
<1>04. PICK at : at = Max({p.at} \cup items)
  OBVIOUS
<1>1. p.at \in Nat /\ p.cut.index \in Nat /\ ChunkLimit \in Nat \ {0} /\ p.at \in Int
  BY PagingAssumption DEF CursorIn, CutTyped
<1>2. /\ IsFiniteSet(S)
      /\ \A i \in S : k[i] = i /\ k[i] \in Int /\ p.at < k[i]
      /\ \A i \in Int : i \in S <=> p.at < i /\ i <= p.cut.index
  <2>1. IsFiniteSet(S)
    <3>1. p.at + 1 \in Int /\ p.cut.index \in Int
      BY <1>1
    <3>2. IsFiniteSet((p.at + 1)..p.cut.index)
      BY <3>1, FS_Interval
    <3> QED BY <1>01, <3>2
  <2> QED BY <1>01, <1>02, <1>1, <2>1
<1>3. items = FirstBy(S, k, ChunkLimit)
  <2> DEFINE A(i) == Cardinality({j \in S : j < i})
             B(i) == Cardinality({j \in S : k[j] < k[i]})
  <2>1. \A i \in S : {j \in S : j < i} = {j \in S : k[j] < k[i]}
    BY <1>2
  <2>2. \A i \in S : A(i) = B(i)
    BY <2>1
  <2>3. FirstN(S, Itself, ChunkLimit) = {i \in S : A(i) < ChunkLimit}
    BY DEF FirstN, Itself
  <2>4. FirstBy(S, k, ChunkLimit) = {i \in S : B(i) < ChunkLimit}
    BY DEF FirstBy
  <2> HIDE DEF A, B
  <2> QED BY <1>03, <2>2, <2>3, <2>4
<1>4. items \in SUBSET S
  BY <1>3 DEF FirstBy
<1>5. items = FirstBy(items, k, ChunkLimit)
  <2> SUFFICES ASSUME NEW i \in items PROVE Cardinality({j \in items : k[j] < k[i]}) < ChunkLimit
    BY DEF FirstBy
  <2>1. Cardinality({j \in S : k[j] < k[i]}) < ChunkLimit
    BY <1>3 DEF FirstBy
  <2>2. {j \in items : k[j] < k[i]} \in SUBSET {j \in S : k[j] < k[i]}
    BY <1>4
  <2>3. {j \in S : k[j] < k[i]} \in SUBSET S
    OBVIOUS
  <2>4. IsFiniteSet({j \in S : k[j] < k[i]})
    BY <1>2, <2>3, FS_Subset
  <2> QED BY <1>1, <2>1, <2>2, <2>4, RankBound
<1>6. at = Through(p.at, k, items, items \ items)
  <2>1. {x \in {k[s] : s \in items} : \A l \in {k[s] : s \in items \ items} : x < l} = items
    BY <1>2, <1>4
  <2> QED BY <1>04, <2>1 DEF Through
<1>7. /\ at \in Int /\ p.at <= at
      /\ \A r \in items : r \in items /\ p.at < k[r] /\ k[r] <= at
      /\ \A r \in S : k[r] <= at => r \in items /\ r \notin items \ items
      /\ S # {} => p.at < at
  <2>1. (\A x \in S : k[x] \in Int) /\ (\A x \in S : p.at < k[x]) /\ items \in SUBSET items
    BY <1>2
  <2> QED BY <1>1, <1>2, <1>3, <1>5, <1>6, <2>1, PageLemma
<1>8. PICK more : more = (at < p.cut.index)
  OBVIOUS
<1>9. Transparency(p) = Answered(items, at, 0, more) /\ more \in BOOLEAN /\ IsFiniteSet(items)
  <2>1. Transparency(p) = Answered(items, at, 0, more)
    BY <1>01, <1>03, <1>04, <1>8 DEF Transparency
  <2> QED BY <1>2, <1>4, <1>8, <2>1, FS_Subset
<1>10. Lines(p) = {Entry(0, i, i) : i \in 1..p.cut.index}
  BY DEF Lines, HeadLines
<1>11. \A f \in Lines(p) : f.phase = 0 /\ f.key \in Int /\ f.key <= p.cut.index
  <2> SUFFICES ASSUME NEW f \in Lines(p) PROVE f.phase = 0 /\ f.key \in Int /\ f.key <= p.cut.index
    OBVIOUS
  <2>1. PICK i \in 1..p.cut.index : f = Entry(0, i, i)
    BY <1>10
  <2>2. f.phase = 0 /\ f.key = i
    BY <2>1, EntryFields
  <2> QED BY <1>1, <2>2
<1>12. items = {e.line : e \in {f \in Lines(p) : p.at < f.key /\ f.key <= at}}
  <2>1. ASSUME NEW i \in items PROVE \E e \in Lines(p) : p.at < e.key /\ e.key <= at /\ e.line = i
    <3>1. i \in S /\ p.at < i /\ i <= at /\ i \in 1..p.cut.index
      <4>1. i \in S /\ k[i] <= at
        BY <1>4, <1>7
      <4>2. k[i] = i /\ p.at < i
        BY <1>2, <4>1
      <4>3. i \in (p.at + 1)..p.cut.index
        BY <1>01, <4>1
      <4>4. i \in 1..p.cut.index
        BY <1>1, <4>3
      <4> QED BY <4>1, <4>2, <4>4
    <3> QED BY <1>10, <3>1, EntryFields
  <2>2. ASSUME NEW e \in Lines(p), p.at < e.key, e.key <= at PROVE e.line \in items
    <3>1. PICK i \in 1..p.cut.index : e = Entry(0, i, i)
      BY <1>10
    <3>2. e.key = i /\ e.line = i /\ i \in Int /\ i <= p.cut.index
      BY <1>1, <3>1, EntryFields
    <3>3. i \in S /\ k[i] <= at
      BY <1>2, <2>2, <3>2
    <3> QED BY <1>7, <3>2, <3>3
  <2> QED BY <2>1, <2>2
<1>13. ~more => \A e \in Lines(p) : e.key <= at
  <2> SUFFICES ASSUME ~more, NEW e \in Lines(p) PROVE e.key <= at
    OBVIOUS
  <2>1. ~(at < p.cut.index)
    BY <1>8
  <2>2. at \in Int /\ e.key \in Int /\ e.key <= p.cut.index /\ p.cut.index \in Int
    BY <1>1, <1>7, <1>11
  <2> QED BY <2>1, <2>2
<1>14. more => p.at < at
  <2> SUFFICES ASSUME more PROVE p.at < at
    OBVIOUS
  <2>0. at < p.cut.index
    BY <1>8
  <2>1. p.cut.index \in S
    BY <1>1, <1>2, <1>7, <2>0
  <2> QED BY <1>7, <2>1
<1>15. p.res # "export" /\ \A f \in Lines(p) : f.phase = 0 /\ f.key \in Int
  BY <1>11
<1> QED BY <1>7, <1>9, <1>12, <1>13, <1>14, <1>15, PlainTurn

\* A finite set has a member with the greatest key.
LEMMA GreatestBy ==
    ASSUME NEW S, IsFiniteSet(S), S # {}, NEW k, \A x \in S : k[x] \in Int
    PROVE  \E m \in S : \A x \in S : k[x] <= k[m]
<1> DEFINE T == {k[x] : x \in S}
<1>1. IsFiniteSet(T)
  BY ImageFinite
<1>2. T \in SUBSET Int /\ T # {}
  OBVIOUS
<1>3. PICK t \in T : \A u \in T : u <= t
  <2> HIDE DEF T
  <2> QED BY <1>1, <1>2, Greatest
<1>4. PICK m \in S : t = k[m]
  OBVIOUS
<1>5. \A x \in S : k[x] <= k[m]
  BY <1>3, <1>4
<1> QED BY <1>5

\* One row more than a page has is fetched: when it is not there, nothing is left.
LEMMA OneMore ==
    ASSUME NEW S, IsFiniteSet(S), NEW k, \A x \in S : k[x] \in Int, \A x, y \in S : k[x] = k[y] => x = y,
           NEW n \in Nat \ {0}, NEW found, found = FirstBy(S, k, n + 1), found = FirstBy(found, k, n)
    PROVE  found = S
<1> DEFINE Below(x) == {q \in S : k[q] < k[x]}
<1>1. found = {r \in S : Cardinality(Below(r)) < n + 1}
  BY DEF FirstBy
<1>2. \A y \in found : Cardinality({q \in found : k[q] < k[y]}) < n
  <2>1. found = {r \in found : Cardinality({q \in found : k[q] < k[r]}) < n}
    BY DEF FirstBy
  <2> QED BY <2>1
<1>3. \A x \in S : IsFiniteSet(Below(x)) /\ Below(x) \in SUBSET S
  BY FS_Subset
<1>4. ASSUME S \ found # {} PROVE FALSE
  <2>0. S \ found \in SUBSET S /\ IsFiniteSet(S \ found)
    BY FS_Subset
  <2>1. PICK x \in S \ found : \A q \in S \ found : k[x] <= k[q]
    BY <1>4, <2>0, Least
  <2>2. PICK B : B = Below(x)
    OBVIOUS
  <2>3. B \in SUBSET found /\ B \in SUBSET S /\ IsFiniteSet(B) /\ x \in S
    <3>1. \A q \in B : q \in S /\ k[q] < k[x] /\ k[q] \in Int /\ k[x] \in Int
      BY <2>2
    <3>2. \A q \in B : q \in found
      BY <2>1, <3>1
    <3> QED BY <1>3, <2>2, <3>1, <3>2
  <2>4. ~(Cardinality(B) < n + 1) /\ Cardinality(B) \in Nat
    BY <1>1, <2>1, <2>2, <2>3, FS_CardinalityType
  <2>5. B # {}
    BY <2>4, FS_EmptySet
  <2>6. PICK y \in B : \A q \in B : k[q] <= k[y]
    BY <2>3, <2>5, GreatestBy
  <2>7. PICK C : C = {q \in found : k[q] < k[y]}
    OBVIOUS
  <2>8. B \ {y} \in SUBSET C
    <3> SUFFICES ASSUME NEW q \in B, q # y PROVE q \in found /\ k[q] < k[y]
      BY <2>7
    <3>1. q \in S /\ y \in S /\ k[q] # k[y] /\ k[q] <= k[y]
      BY <2>3, <2>6
    <3> QED BY <2>3, <3>1
  <2>9. IsFiniteSet(C) /\ Cardinality(C) < n
    <3>1. found \in SUBSET S /\ y \in found
      BY <1>1, <2>3
    <3>2. C \in SUBSET S
      BY <2>7, <3>1
    <3>3. IsFiniteSet(C)
      BY <3>2, FS_Subset
    <3> QED BY <1>2, <2>7, <3>1, <3>3
  <2>10. Cardinality(B \ {y}) < n
    BY <2>8, <2>9, RankBound
  <2>11. Cardinality(B \ {y}) = Cardinality(B) - 1
    BY <2>3, FS_RemoveElement
  <2> QED BY <2>4, <2>10, <2>11
<1>5. found \subseteq S
  BY <1>1
<1> QED BY <1>4, <1>5

\* A request has one latest event.
LEMMA OfferOnce ==
    ASSUME NEW q, NEW v, NEW d \in OfferAt(q, v), NEW e \in OfferAt(q, v)
    PROVE  d = e
<1>1. PICK i \in 1..v : d = offers[i] /\ offers[i].request = q /\ \A j \in 1..v : offers[j].request = q => j <= i
  BY DEF OfferAt, LastOf
<1>2. PICK k \in 1..v : e = offers[k] /\ offers[k].request = q /\ \A j \in 1..v : offers[j].request = q => j <= k
  BY DEF OfferAt, LastOf
<1>3. i <= k /\ k <= i
  BY <1>1, <1>2
<1>4. i = k
  BY <1>3
<1> QED BY <1>1, <1>2, <1>4

\* The requests of a version: each once.
LEMMA RequestsShape ==
    ASSUME NEW p, p.cut.offers \in Nat
    PROVE  /\ \A x \in RequestsOf(p) : /\ x[1] \in RequestIds
                                       /\ \E e \in OfferAt(x[1], p.cut.offers) : e.asked /\ x = <<x[1], e.status>>
           /\ \A x, y \in RequestsOf(p) : x[1] = y[1] => x = y
           /\ IsFiniteSet(RequestsOf(p))
<1>1. \A x \in RequestsOf(p) : \E q \in RequestIds : \E e \in OfferAt(q, p.cut.offers) :
        e.asked /\ x = <<e.request, e.status>>
  BY DEF RequestsOf
<1>2. \A q : \A e \in OfferAt(q, p.cut.offers) : e.request = q /\ \E i \in 1..p.cut.offers : e = offers[i]
  BY DEF OfferAt, LastOf
<1>3. ASSUME NEW x \in RequestsOf(p)
      PROVE  /\ x[1] \in RequestIds
             /\ \E e \in OfferAt(x[1], p.cut.offers) : e.asked /\ x = <<x[1], e.status>>
  <2>1. PICK q \in RequestIds : \E e \in OfferAt(q, p.cut.offers) : e.asked /\ x = <<e.request, e.status>>
    BY <1>1
  <2>2. PICK e \in OfferAt(q, p.cut.offers) : e.asked /\ x = <<e.request, e.status>>
    BY <2>1
  <2>3. e.request = q
    BY <1>2
  <2>4. x = <<q, e.status>> /\ x[1] = q
    BY <2>2, <2>3
  <2> QED BY <2>2, <2>4
<1>4. ASSUME NEW x \in RequestsOf(p), NEW y \in RequestsOf(p), x[1] = y[1] PROVE x = y
  <2>1. PICK d \in OfferAt(x[1], p.cut.offers) : x = <<x[1], d.status>>
    BY <1>3
  <2>2. PICK e \in OfferAt(y[1], p.cut.offers) : y = <<y[1], e.status>>
    BY <1>3
  <2>3. d = e
    BY <1>4, OfferOnce
  <2> QED BY <1>4, <2>1, <2>2, <2>3
<1>5. IsFiniteSet(RequestsOf(p))
  <2>1. PICK g : g = [i \in 1..p.cut.offers |-> <<offers[i].request, offers[i].status>>]
    OBVIOUS
  <2>2. IsFiniteSet(1..p.cut.offers)
    BY FS_Interval
  <2>3. IsFiniteSet({g[i] : i \in 1..p.cut.offers})
    BY <2>2, ImageFinite
  <2>4. RequestsOf(p) \in SUBSET {g[i] : i \in 1..p.cut.offers}
    <3> SUFFICES ASSUME NEW x \in RequestsOf(p) PROVE \E i \in 1..p.cut.offers : x = g[i]
      OBVIOUS
    <3>1. PICK q \in RequestIds : \E e \in OfferAt(q, p.cut.offers) : x = <<e.request, e.status>>
      BY <1>1
    <3>2. PICK e \in OfferAt(q, p.cut.offers) : x = <<e.request, e.status>>
      BY <3>1
    <3>3. PICK i \in 1..p.cut.offers : e = offers[i]
      BY <1>2
    <3> QED BY <2>1, <3>2, <3>3
  <2> QED BY <2>3, <2>4, FS_Subset
<1> QED BY <1>3, <1>4, <1>5

\* A page of the requests.
LEMMA RequestsTurn ==
    ASSUME NEW p, CutTyped(p), CursorIn(p), p.res = "requests"
    PROVE  Turned(p, Requests(p))
<1>01. PICK S : S = {x \in RequestsOf(p) : x[1] > p.at}
  OBVIOUS
<1>02. PICK k : k = [x \in S |-> x[1]]
  OBVIOUS
<1>03. PICK found : found = FirstN(S, First, PageLimit + 1)
  OBVIOUS
<1>04. PICK items : items = FirstN(found, First, PageLimit)
  OBVIOUS
<1>05. PICK at : at = NextRequest(p, items)
  OBVIOUS
<1>06. PICK more : more = (items # found)
  OBVIOUS
<1>1. /\ p.at \in Nat /\ p.cut.offers \in Nat /\ p.at \in Int
      /\ PageLimit \in Nat \ {0} /\ PageLimit + 1 \in Nat \ {0}
  BY PagingAssumption DEF CursorIn, CutTyped
<1>2. /\ IsFiniteSet(S) /\ S \in SUBSET RequestsOf(p)
      /\ \A x \in S : k[x] = x[1] /\ k[x] \in Int /\ p.at < k[x]
      /\ \A x, y \in S : k[x] = k[y] => x = y
      /\ \A x \in RequestsOf(p) : x[1] \in Int
  <2>1. /\ IsFiniteSet(RequestsOf(p)) /\ \A x \in RequestsOf(p) : x[1] \in RequestIds
        /\ \A x, y \in RequestsOf(p) : x[1] = y[1] => x = y
    BY <1>1, RequestsShape
  <2>2. S \in SUBSET RequestsOf(p) /\ IsFiniteSet(S)
    BY <1>01, <2>1, FS_Subset
  <2>3. \A x \in RequestsOf(p) : x[1] \in Int
    BY <2>1, PagingAssumption
  <2>4. \A x \in S : k[x] = x[1]
    BY <1>02
  <2>5. \A x \in S : x[1] > p.at
    BY <1>01
  <2>6. \A x \in S : k[x] = x[1] /\ k[x] \in Int /\ p.at < k[x]
    BY <1>1, <2>2, <2>3, <2>4, <2>5
  <2>7. \A x, y \in S : k[x] = k[y] => x = y
    BY <2>1, <2>2, <2>4
  <2> QED BY <2>2, <2>3, <2>6, <2>7
<1>3. ASSUME NEW T \in SUBSET S, NEW n PROVE FirstN(T, First, n) = FirstBy(T, k, n)
  <2> DEFINE A(x) == Cardinality({y \in T : y[1] < x[1]})
             B(x) == Cardinality({y \in T : k[y] < k[x]})
  <2>1. \A x \in T : {y \in T : y[1] < x[1]} = {y \in T : k[y] < k[x]}
    BY <1>2
  <2>2. \A x \in T : A(x) = B(x)
    BY <2>1
  <2>3. FirstN(T, First, n) = {x \in T : A(x) < n}
    BY DEF FirstN, First
  <2>4. FirstBy(T, k, n) = {x \in T : B(x) < n}
    BY DEF FirstBy
  <2> HIDE DEF A, B
  <2> QED BY <2>2, <2>3, <2>4
<1>4. found = FirstBy(S, k, PageLimit + 1) /\ found \in SUBSET S /\ IsFiniteSet(found)
  <2>1. found = FirstBy(S, k, PageLimit + 1)
    BY <1>03, <1>3
  <2>2. found \in SUBSET S
    BY <2>1 DEF FirstBy
  <2> QED BY <1>2, <2>1, <2>2, FS_Subset
<1>5. items = FirstBy(found, k, PageLimit) /\ items \in SUBSET found
  <2>1. items = FirstBy(found, k, PageLimit)
    BY <1>04, <1>3, <1>4
  <2> QED BY <2>1 DEF FirstBy
<1>6. at = Through(p.at, k, found, found \ items)
  <2>1. \A x \in found : k[x] \in Int
    BY <1>2, <1>4
  <2>2. \A r \in found, q \in FirstBy(found, k, PageLimit) : k[r] <= k[q] => r \in FirstBy(found, k, PageLimit)
    BY <1>1, <1>4, <2>1, Firsts
  <2>3. \A l \in found \ items, i \in items : k[i] < k[l]
    <3>1. \A l \in found \ items, i \in items : ~(k[l] <= k[i])
      BY <1>5, <2>2
    <3> QED BY <1>5, <2>1, <3>1
  <2>4. {x \in {k[s] : s \in found} : \A l \in {k[s] : s \in found \ items} : x < l} = {k[s] : s \in items}
    <3>1. ASSUME NEW s \in found, \A l \in found \ items : k[s] < k[l] PROVE s \in items
      BY <2>1, <3>1
    <3> QED BY <1>5, <2>3, <3>1
  <2>5. Keys(items, First) = {k[s] : s \in items}
    <3>1. \A s \in items : s[1] = k[s]
      BY <1>2, <1>4, <1>5
    <3> QED BY <3>1 DEF Keys, First
  <2> QED BY <1>05, <2>4, <2>5 DEF NextRequest, Through
<1>7. /\ at \in Int /\ p.at <= at
      /\ \A r \in items : r \in found /\ p.at < k[r] /\ k[r] <= at
      /\ \A r \in S : k[r] <= at => r \in found /\ r \notin found \ items
      /\ S # {} => p.at < at
  <2>1. (\A x \in S : k[x] \in Int) /\ (\A x \in S : p.at < k[x])
    BY <1>2
  <2>2. PICK m \in Nat \ {0} : m = PageLimit + 1
    BY <1>1
  <2>3. PICK sel \in SUBSET found : sel = found
    OBVIOUS
  <2>4. found = FirstBy(S, k, m)
    BY <1>4, <2>2
  <2>5. items = FirstBy(sel, k, PageLimit) /\ at = Through(p.at, k, found, sel \ items)
    BY <1>5, <1>6, <2>3
  <2>6. PageLimit \in Nat \ {0} /\ p.at \in Int /\ IsFiniteSet(S)
    BY <1>1, <1>2
  <2> HIDE <2>2, <2>3
  <2>7. /\ at \in Int /\ p.at <= at
        /\ \A r \in items : r \in sel /\ p.at < k[r] /\ k[r] <= at
        /\ \A r \in S : k[r] <= at => r \in found /\ r \notin sel \ items
        /\ S # {} => p.at < at
    BY <2>1, <2>4, <2>5, <2>6, PageLemma
  <2> QED BY <2>3, <2>7
<1>8. Requests(p) = Answered(items, at, 0, more) /\ more \in BOOLEAN /\ IsFiniteSet(items)
  <2>1. Requests(p) = Answered(items, at, 0, more)
    BY <1>01, <1>03, <1>04, <1>05, <1>06 DEF Requests
  <2> QED BY <1>4, <1>5, <1>06, <2>1, FS_Subset
<1>9. Lines(p) = {Entry(0, x[1], x) : x \in RequestsOf(p)}
  BY DEF Lines, RequestLines
<1>10. \A f \in Lines(p) : \E x \in RequestsOf(p) : f.phase = 0 /\ f.key = x[1] /\ f.line = x /\ f.key \in Int
  BY <1>2, <1>9, EntryFields
<1>11. items = {e.line : e \in {f \in Lines(p) : p.at < f.key /\ f.key <= at}}
  <2>1. ASSUME NEW x \in items PROVE \E e \in Lines(p) : p.at < e.key /\ e.key <= at /\ e.line = x
    <3>1. x \in S /\ p.at < x[1] /\ x[1] <= at /\ x \in RequestsOf(p)
      BY <1>2, <1>4, <1>5, <1>7
    <3>2. Entry(0, x[1], x) \in Lines(p)
      BY <1>9, <3>1
    <3> QED BY <3>1, <3>2, EntryFields
  <2>2. ASSUME NEW e \in Lines(p), p.at < e.key, e.key <= at PROVE e.line \in items
    <3>1. PICK x \in RequestsOf(p) : e.key = x[1] /\ e.line = x /\ e.key \in Int
      BY <1>10
    <3>2. x \in S /\ k[x] <= at
      BY <1>01, <1>1, <1>2, <2>2, <3>1
    <3> QED BY <1>7, <3>1, <3>2
  <2> QED BY <2>1, <2>2
<1>12. ASSUME ~more PROVE \A e \in Lines(p) : e.key <= at
  <2>1. items = found
    BY <1>06, <1>12
  <2>2. found = FirstBy(found, k, PageLimit)
    BY <1>5, <2>1
  <2>3. (\A x \in S : k[x] \in Int) /\ (\A x, y \in S : k[x] = k[y] => x = y)
    BY <1>2
  <2>4. found = S
    BY <1>1, <1>2, <1>4, <2>2, <2>3, OneMore
  <2> SUFFICES ASSUME NEW e \in Lines(p) PROVE e.key <= at
    OBVIOUS
  <2>5. PICK x \in RequestsOf(p) : e.key = x[1] /\ e.key \in Int
    BY <1>10
  <2>6. CASE x[1] > p.at
    <3>1. x \in items
      BY <1>01, <2>1, <2>4, <2>6
    <3> QED BY <1>2, <1>7, <2>1, <2>4, <2>5, <3>1
  <2>7. CASE ~(x[1] > p.at)
    BY <1>1, <1>7, <2>5, <2>7
  <2> QED BY <2>6, <2>7
<1>13. ASSUME more PROVE p.at < at
  <2>1. found # {}
    <3>1. items # found
      BY <1>06, <1>13
    <3> QED BY <1>5, <3>1
  <2> QED BY <1>4, <1>7, <2>1
<1>14. p.res # "export" /\ \A f \in Lines(p) : f.phase = 0 /\ f.key \in Int
  BY <1>10
<1> QED BY <1>7, <1>8, <1>11, <1>12, <1>13, <1>14, PlainTurn

-----------------------------------------------------------------------------
(* The lines of an export *)
\* The groups 0 to 7 of an export by their rows.
InGroup(p, f, r) ==
    \/ f = 0 /\ r.log = p.cut.log /\ r.seq \in 1..p.cut.head /\ r.entry
    \/ f = 1 /\ r.kind = "compaction" /\ r.id = p.cut.boundary /\ r.idx <= p.cut.index
    \/ f = 2 /\ r.kind = "compaction" /\ r.idx <= p.cut.index
    \/ f = 3 /\ r.kind \in DOMAIN Control /\ r.body /\ r.log # p.cut.log
    \/ f = 4 /\ r.kind = "record" /\ ~r.body
    \/ f = 5 /\ r.kind = "part" /\ r.idx <= p.cut.index
    \/ f = 6 /\ r.log \notin {None, p.cut.log} /\ r.entry /\ r.idx <= p.cut.index
    \/ f = 7 /\ r.idx > 0 /\ r.idx <= p.cut.index
\* protect drops the row.
Hidden(p, f, r) == ~p.include /\ f \in {3, 6} /\ IsRecovery(r)
\* The key and the line of a row in a group.
KeyIn(f, r) ==
    IF f = 0 THEN r.seq
    ELSE IF f = 3 THEN 100 * Control[r.kind] + r.id
    ELSE IF f \in {6, 7} THEN r.idx ELSE r.id
LineIn(p, f, r) ==
    IF f = 0 /\ ~p.include /\ IsRecovery(r) THEN <<f, "omitted", r.seq>> ELSE <<f, r.kind, r.id>>
\* The row r has the line e in group f.
RowLine(p, f, r, e) == InGroup(p, f, r) /\ ~Hidden(p, f, r) /\ e = Entry(f, KeyIn(f, r), LineIn(p, f, r))

\* The groups 0 to 7 are those of rows.
LEMMA GroupRows ==
    ASSUME NEW p, NEW f \in 0..7
    PROVE  Group(p, f) = {[key |-> KeyIn(f, r), row |-> r] : r \in {q \in rows : InGroup(p, f, q)}}
<1>0. CASE f = 0
  BY <1>0 DEF Group, InGroup, KeyIn, Receipted
<1>1. CASE f = 1
  BY <1>1 DEF Group, InGroup, KeyIn, Receipted
<1>2. CASE f = 2
  BY <1>2 DEF Group, InGroup, KeyIn, Receipted
<1>3. CASE f = 3
  BY <1>3 DEF Group, InGroup, KeyIn, Receipted
<1>4. CASE f = 4
  BY <1>4 DEF Group, InGroup, KeyIn, Receipted
<1>5. CASE f = 5
  BY <1>5 DEF Group, InGroup, KeyIn, Receipted
<1>6. CASE f = 6
  BY <1>6 DEF Group, InGroup, KeyIn, Receipted
<1>7. CASE f = 7
  BY <1>7 DEF Group, InGroup, KeyIn, Receipted
<1> QED BY <1>0, <1>1, <1>2, <1>3, <1>4, <1>5, <1>6, <1>7

\* The groups of transparency entries and of the trailer.
LEMMA GroupHeads ==
    ASSUME NEW p
    PROVE  /\ Group(p, 8) = {[key |-> i, row |-> None] : i \in 1..p.cut.index}
           /\ Group(p, 9) = {[key |-> 1, row |-> None]}
BY DEF Group

\* The lines of one phase.
PhaseLines(p, f) == {Entry(f, x.key, Written(p, f, x)) : x \in {y \in Group(p, f) : ~Dropped(p, f, y)}}

\* The lines of the groups 0 to 7.
LEMMA PhaseRows ==
    ASSUME NEW p, NEW f \in 0..7, NEW e
    PROVE  e \in PhaseLines(p, f) <=> \E r \in rows : RowLine(p, f, r, e)
<1> DEFINE X(r) == [key |-> KeyIn(f, r), row |-> r]
<1>1. Group(p, f) = {X(r) : r \in {q \in rows : InGroup(p, f, q)}}
  BY GroupRows
<1>2. \A r \in rows : X(r).key = KeyIn(f, r) /\ X(r).row = r
  OBVIOUS
<1>3. \A r \in rows : Written(p, f, X(r)) = LineIn(p, f, r) /\ (Dropped(p, f, X(r)) <=> Hidden(p, f, r))
  BY <1>2 DEF Written, LineIn, Dropped, Hidden
<1> HIDE DEF X
<1>4. ASSUME e \in PhaseLines(p, f) PROVE \E r \in rows : RowLine(p, f, r, e)
  <2>1. PICK x \in Group(p, f) : ~Dropped(p, f, x) /\ e = Entry(f, x.key, Written(p, f, x))
    BY <1>4 DEF PhaseLines
  <2>2. PICK r \in rows : InGroup(p, f, r) /\ x = X(r)
    BY <1>1, <2>1
  <2>3. RowLine(p, f, r, e)
    BY <1>2, <1>3, <2>1, <2>2 DEF RowLine
  <2> QED BY <2>3
<1>5. ASSUME NEW r \in rows, RowLine(p, f, r, e) PROVE e \in PhaseLines(p, f)
  <2>1. InGroup(p, f, r) /\ ~Hidden(p, f, r) /\ e = Entry(f, KeyIn(f, r), LineIn(p, f, r))
    BY <1>5 DEF RowLine
  <2>2. X(r) \in Group(p, f) /\ ~Dropped(p, f, X(r))
    BY <1>1, <1>3, <2>1
  <2>3. e = Entry(f, X(r).key, Written(p, f, X(r)))
    BY <1>2, <1>3, <2>1
  <2> QED BY <2>2, <2>3 DEF PhaseLines
<1> QED BY <1>4, <1>5

\* The lines of the last two groups.
LEMMA PhaseHeads ==
    ASSUME NEW p, NEW e
    PROVE  /\ e \in PhaseLines(p, 8) <=> \E i \in 1..p.cut.index : e = Entry(8, i, <<8, i>>)
           /\ e \in PhaseLines(p, 9) <=> e = Entry(9, 1, <<9, 1>>)
<1> DEFINE X(i) == [key |-> i, row |-> None]
<1>1. \A i : X(i).key = i
  OBVIOUS
<1>2. \A i : Written(p, 8, X(i)) = <<8, i>> /\ Written(p, 9, X(i)) = <<9, i>>
  BY <1>1 DEF Written
<1>3. \A i : ~Dropped(p, 8, X(i)) /\ ~Dropped(p, 9, X(i))
  BY DEF Dropped
<1>4. Group(p, 8) = {X(i) : i \in 1..p.cut.index} /\ Group(p, 9) = {X(1)}
  BY GroupHeads
<1> HIDE DEF X
<1>5. PhaseLines(p, 8) = {Entry(8, i, <<8, i>>) : i \in 1..p.cut.index}
  <2>1. PhaseLines(p, 8) = {Entry(8, X(i).key, Written(p, 8, X(i))) : i \in 1..p.cut.index}
    BY <1>3, <1>4 DEF PhaseLines
  <2>2. \A i : Entry(8, X(i).key, Written(p, 8, X(i))) = Entry(8, i, <<8, i>>)
    BY <1>1, <1>2
  <2> QED BY <2>1, <2>2
<1>6. PhaseLines(p, 9) = {Entry(9, 1, <<9, 1>>)}
  BY <1>1, <1>2, <1>3, <1>4 DEF PhaseLines
<1> QED BY <1>5, <1>6

\* The lines of an export.
LEMMA ExportShape ==
    ASSUME NEW p, NEW e
    PROVE  e \in ExportLines(p) <=>
             \/ \E f \in 0..7 : \E r \in rows : RowLine(p, f, r, e)
             \/ \E i \in 1..p.cut.index : e = Entry(8, i, <<8, i>>)
             \/ e = Entry(9, 1, <<9, 1>>)
<1>1. ExportLines(p) = UNION {PhaseLines(p, f) : f \in 0..9}
  BY DEF ExportLines, PhaseLines
<1>2. e \in ExportLines(p) <=> \E f \in 0..9 : e \in PhaseLines(p, f)
  BY <1>1
<1>3. \A f \in 0..9 : f \in 0..7 \/ f = 8 \/ f = 9
  OBVIOUS
<1>4. (\E f \in 0..9 : e \in PhaseLines(p, f)) <=>
        (\E f \in 0..7 : e \in PhaseLines(p, f)) \/ e \in PhaseLines(p, 8) \/ e \in PhaseLines(p, 9)
  <2>1. \A f \in 0..7 : f \in 0..9
    OBVIOUS
  <2>2. 8 \in 0..9 /\ 9 \in 0..9
    OBVIOUS
  <2> QED BY <1>3, <2>1, <2>2
<1>5. \A f \in 0..7 : e \in PhaseLines(p, f) <=> \E r \in rows : RowLine(p, f, r, e)
  BY PhaseRows
<1>6. /\ e \in PhaseLines(p, 8) <=> \E i \in 1..p.cut.index : e = Entry(8, i, <<8, i>>)
      /\ e \in PhaseLines(p, 9) <=> e = Entry(9, 1, <<9, 1>>)
  BY PhaseHeads
<1> QED BY <1>2, <1>4, <1>5, <1>6

\* Every group is ordered by positive keys.
LEMMA ExportKeys ==
    ASSUME Typed, Tables, NEW p, CutTyped(p)
    PROVE  \A e \in ExportLines(p) : /\ e.phase \in 0..9 /\ e.key \in Nat /\ e.key >= 1
                                     /\ e.phase = 9 => e.key = 1
<1> SUFFICES ASSUME NEW e \in ExportLines(p)
             PROVE  e.phase \in 0..9 /\ e.key \in Nat /\ e.key >= 1 /\ (e.phase = 9 => e.key = 1)
  OBVIOUS
<1>1. CASE \E f \in 0..7 : \E r \in rows : RowLine(p, f, r, e)
  <2>1. PICK f \in 0..7, r \in rows : RowLine(p, f, r, e)
    BY <1>1
  <2>2. /\ r.id \in Nat /\ r.seq \in Nat /\ r.idx \in Nat /\ r.kind \in Kinds
        /\ r.kind \in {"compaction", "part", "record"} => r.id # 0
        /\ r.log # None => r.idx # 0
    BY TypedFacts DEF RowSet, WellNamed
  <2>3. r.kind \in DOMAIN Control => Control[r.kind] \in 1..5
    BY DEF Control
  <2>4. InGroup(p, f, r) /\ e.phase = f /\ e.key = KeyIn(f, r)
    BY <2>1, EntryFields DEF RowLine
  <2>5. CASE f = 0
    BY <2>2, <2>4, <2>5 DEF InGroup, KeyIn
  <2>6. CASE f = 3
    <3>1. r.kind \in DOMAIN Control
      BY <2>4, <2>6 DEF InGroup
    <3>2. PICK c \in 1..5 : c = Control[r.kind]
      BY <2>3, <3>1
    <3>3. e.key = 100 * c + r.id
      BY <2>4, <2>6, <3>2 DEF KeyIn
    <3> QED BY <2>2, <2>4, <2>6, <3>3
  <2>7. CASE f \in {1, 2, 4, 5}
    <3>1. r.kind \in {"compaction", "part", "record"}
      BY <2>4, <2>7 DEF InGroup
    <3>2. e.key = r.id
      BY <2>4, <2>7 DEF KeyIn
    <3> QED BY <2>2, <2>4, <2>7, <3>1, <3>2
  <2>8. CASE f \in {6, 7}
    <3>1. r.log # None \/ r.idx > 0
      BY <2>4, <2>8 DEF InGroup
    <3>2. e.key = r.idx
      BY <2>4, <2>8 DEF KeyIn
    <3> QED BY <2>2, <2>4, <2>8, <3>1, <3>2
  <2> QED BY <2>5, <2>6, <2>7, <2>8
<1>2. CASE \E i \in 1..p.cut.index : e = Entry(8, i, <<8, i>>)
  <2>1. PICK i \in 1..p.cut.index : e = Entry(8, i, <<8, i>>)
    BY <1>2
  <2>2. e.phase = 8 /\ e.key = i
    BY <2>1, EntryFields
  <2> QED BY <2>2 DEF CutTyped
<1>3. CASE e = Entry(9, 1, <<9, 1>>)
  BY <1>3, EntryFields
<1> QED BY <1>1, <1>2, <1>3, ExportShape

\* An export has finitely many lines.
LEMMA ExportFinite ==
    ASSUME Typed, NEW p, CutTyped(p)
    PROVE  IsFiniteSet(ExportLines(p))
<1>1. PICK P : P = (0..7) \X rows
  OBVIOUS
<1>2. IsFiniteSet(P)
  <2>1. IsFiniteSet(0..7)
    <3>1. 0 \in Int /\ 7 \in Int
      OBVIOUS
    <3> QED BY <3>1, FS_Interval
  <2>2. IsFiniteSet(rows)
    BY DEF Typed, RowsTyped
  <2> QED BY <1>1, <2>1, <2>2, FS_Product
<1>3. PICK g : g = [x \in P |-> Entry(x[1], KeyIn(x[1], x[2]), LineIn(p, x[1], x[2]))]
  OBVIOUS
<1>4. PICK h : h = [i \in 1..p.cut.index |-> Entry(8, i, <<8, i>>)]
  OBVIOUS
<1>5. PICK A : A = {g[x] : x \in P}
  OBVIOUS
<1>6. PICK B : B = {h[i] : i \in 1..p.cut.index}
  OBVIOUS
<1>7. PICK C : C = {Entry(9, 1, <<9, 1>>)}
  OBVIOUS
<1>8. IsFiniteSet(A) /\ IsFiniteSet(B) /\ IsFiniteSet(C)
  <2>1. IsFiniteSet(1..p.cut.index)
    <3>1. 1 \in Int /\ p.cut.index \in Int
      BY DEF CutTyped
    <3> QED BY <3>1, FS_Interval
  <2>2. IsFiniteSet(A)
    BY <1>2, <1>5, ImageFinite
  <2>3. IsFiniteSet(B)
    BY <1>6, <2>1, ImageFinite
  <2>4. IsFiniteSet(C)
    BY <1>7, FS_Singleton
  <2> QED BY <2>2, <2>3, <2>4
<1>9. PICK D : D = A \cup B
  OBVIOUS
<1>10. IsFiniteSet(D)
  BY <1>8, <1>9, FS_Union
<1>11. PICK E : E = D \cup C
  OBVIOUS
<1>12. IsFiniteSet(E)
  BY <1>8, <1>10, <1>11, FS_Union
<1>13. ExportLines(p) \in SUBSET E
  <2> SUFFICES ASSUME NEW e \in ExportLines(p) PROVE e \in A \/ e \in B \/ e \in C
    BY <1>9, <1>11
  <2>1. ASSUME NEW f \in 0..7, NEW r \in rows, RowLine(p, f, r, e) PROVE e \in A
    <3>1. e = Entry(f, KeyIn(f, r), LineIn(p, f, r))
      BY <2>1 DEF RowLine
    <3>2. <<f, r>> \in P /\ g[<<f, r>>] = Entry(f, KeyIn(f, r), LineIn(p, f, r))
      BY <1>1, <1>3
    <3> QED BY <1>5, <3>1, <3>2
  <2>2. ASSUME NEW i \in 1..p.cut.index, e = Entry(8, i, <<8, i>>) PROVE e \in B
    BY <1>4, <1>6, <2>2
  <2> QED BY <1>7, <2>1, <2>2, ExportShape
<1> QED BY <1>12, <1>13, FS_Subset

\* What is left are the lines that the cursor has not passed.
LEMMA LeftLines ==
    ASSUME Typed, Tables, NEW p, CutTyped(p), p.phase \in 0..9, p.at \in Nat
    PROVE  Left(p) = {e \in ExportLines(p) : ~Passed(p, e)}
<1>1. ExportLines(p) = UNION {PhaseLines(p, f) : f \in 0..9}
  BY DEF ExportLines, PhaseLines
<1>2. ASSUME NEW f \in 0..9, NEW e \in PhaseLines(p, f) 
      PROVE  e \in ExportLines(p) /\ e.phase = f /\ e.key \in Nat
  <2>1. e \in ExportLines(p)
    BY <1>1
  <2>2. e.phase = f
    BY EntryFields DEF PhaseLines
  <2> QED BY <2>1, <2>2, ExportKeys
<1> DEFINE LeftIn(f) == {[phase |-> f, key |-> x.key, line |-> Written(p, f, x)] :
              x \in {y \in Group(p, f) : (f = p.phase => y.key > p.at) /\ ~Dropped(p, f, y)}}
<1>3. Left(p) = UNION {LeftIn(f) : f \in p.phase..9}
  BY DEF Left
<1>4. \A f \in 0..9 : LeftIn(f) = {e \in PhaseLines(p, f) : f = p.phase => e.key > p.at}
  BY DEF PhaseLines, Entry
<1> HIDE DEF LeftIn
<1>5. ASSUME NEW f \in p.phase..9, NEW e \in LeftIn(f) PROVE e \in ExportLines(p) /\ ~Passed(p, e)
  <2>1. f \in 0..9 /\ f >= p.phase /\ f \in Int /\ p.phase \in Int
    OBVIOUS
  <2>2. e \in PhaseLines(p, f) /\ (f = p.phase => e.key > p.at)
    BY <1>4, <1>5, <2>1
  <2>3. e \in ExportLines(p) /\ e.phase = f /\ e.key \in Nat
    BY <1>2, <2>1, <2>2
  <2> QED BY <2>1, <2>2, <2>3 DEF Passed
<1>6. ASSUME NEW e \in ExportLines(p), ~Passed(p, e) PROVE \E f \in p.phase..9 : e \in LeftIn(f)
  <2>1. PICK f \in 0..9 : e \in PhaseLines(p, f)
    BY <1>1
  <2>2. e.phase = f /\ e.key \in Nat
    BY <1>2, <2>1
  <2>3. f \in p.phase..9 /\ (f = p.phase => e.key > p.at)
    BY <1>6, <2>2 DEF Passed
  <2> QED BY <1>4, <2>1, <2>3
<1> QED BY <1>3, <1>5, <1>6

-----------------------------------------------------------------------------
(* Lexicographic order *)
\* Lines with places.
Ordered(S) == \A x \in S : x.phase \in Int /\ x.key \in Int

\* Finitely many lines have a last one.
LEMMA LexLast ==
    ASSUME NEW S, IsFiniteSet(S), S # {}, Ordered(S)
    PROVE  \E m \in S : \A x \in S : ~Before(m, x)
<1>1. PICK k : k = [x \in S |-> x.phase]
  OBVIOUS
<1>2. PICK m1 \in S : \A x \in S : x.phase <= m1.phase
  <2>1. \A x \in S : k[x] \in Int /\ k[x] = x.phase
    BY <1>1 DEF Ordered
  <2>2. \E m \in S : \A x \in S : k[x] <= k[m]
    BY <2>1, GreatestBy
  <2> QED BY <2>1, <2>2
<1>3. PICK T : T = {x \in S : x.phase = m1.phase}
  OBVIOUS
<1>4. PICK h : h = [x \in T |-> x.key]
  OBVIOUS
<1>5. PICK m \in T : \A x \in T : x.key <= m.key
  <2>1. IsFiniteSet(T) /\ T # {}
    <3>1. T \in SUBSET S /\ m1 \in T
      BY <1>3
    <3> QED BY <3>1, FS_Subset
  <2>2. \A x \in T : h[x] \in Int /\ h[x] = x.key
    BY <1>3, <1>4 DEF Ordered
  <2>3. \E m \in T : \A x \in T : h[x] <= h[m]
    BY <2>1, <2>2, GreatestBy
  <2> QED BY <2>2, <2>3
<1>6. m \in S /\ m.phase = m1.phase
  BY <1>3
<1>7. ASSUME NEW x \in S PROVE ~Before(m, x)
  <2>1. x.phase \in Int /\ x.key \in Int /\ m.phase \in Int /\ m.key \in Int
    BY <1>6 DEF Ordered
  <2>2. x.phase <= m.phase
    BY <1>2, <1>6
  <2>3. x.phase = m.phase => x.key <= m.key
    BY <1>3, <1>5, <1>6
  <2> QED BY <2>1, <2>2, <2>3 DEF Before
<1> QED BY <1>6, <1>7

\* Finitely many lines have a first one.
LEMMA LexFirst ==
    ASSUME NEW S, IsFiniteSet(S), S # {}, Ordered(S)
    PROVE  \E m \in S : \A x \in S : ~Before(x, m)
<1>1. PICK k : k = [x \in S |-> x.phase]
  OBVIOUS
<1>2. PICK m1 \in S : \A x \in S : m1.phase <= x.phase
  <2>1. \A x \in S : k[x] \in Int /\ k[x] = x.phase
    BY <1>1 DEF Ordered
  <2>2. \E m \in S : \A x \in S : k[m] <= k[x]
    BY <2>1, Least
  <2> QED BY <2>1, <2>2
<1>3. PICK T : T = {x \in S : x.phase = m1.phase}
  OBVIOUS
<1>4. PICK h : h = [x \in T |-> x.key]
  OBVIOUS
<1>5. PICK m \in T : \A x \in T : m.key <= x.key
  <2>1. IsFiniteSet(T) /\ T # {}
    <3>1. T \in SUBSET S /\ m1 \in T
      BY <1>3
    <3> QED BY <3>1, FS_Subset
  <2>2. \A x \in T : h[x] \in Int /\ h[x] = x.key
    BY <1>3, <1>4 DEF Ordered
  <2>3. \E m \in T : \A x \in T : h[m] <= h[x]
    BY <2>1, <2>2, Least
  <2> QED BY <2>2, <2>3
<1>6. m \in S /\ m.phase = m1.phase
  BY <1>3
<1>7. ASSUME NEW x \in S PROVE ~Before(x, m)
  <2>1. x.phase \in Int /\ x.key \in Int /\ m.phase \in Int /\ m.key \in Int
    BY <1>6 DEF Ordered
  <2>2. m.phase <= x.phase
    BY <1>2, <1>6
  <2>3. x.phase = m.phase => m.key <= x.key
    BY <1>3, <1>5, <1>6
  <2> QED BY <2>1, <2>2, <2>3 DEF Before
<1> QED BY <1>6, <1>7

\* The first n lines: with a line they have every one before it.
LEMMA FirstLinesShape ==
    ASSUME NEW S, IsFiniteSet(S), S # {}, Ordered(S), NEW n \in Nat \ {0}
    PROVE  /\ FirstLines(S, n) \in SUBSET S
           /\ \A r \in S, q \in FirstLines(S, n) : ~Before(q, r) => r \in FirstLines(S, n)
           /\ FirstLines(S, n) # {}
<1> DEFINE F == FirstLines(S, n)
           Ahead(x) == {y \in S : Before(y, x)}
<1>1. F = {r \in S : Cardinality(Ahead(r)) < n}
  BY DEF FirstLines
<1>2. \A r \in S : Ahead(r) \in SUBSET S /\ IsFiniteSet(Ahead(r))
  BY FS_Subset
<1>3. ASSUME NEW r \in S, NEW q \in F, ~Before(q, r) PROVE r \in F
  <2>1. q \in S /\ Cardinality(Ahead(q)) < n
    BY <1>1
  <2>2. Ahead(r) \in SUBSET Ahead(q)
    <3>1. ASSUME NEW x \in S, Before(x, r) PROVE Before(x, q)
      <4>1. /\ x.phase \in Int /\ x.key \in Int /\ r.phase \in Int /\ r.key \in Int
            /\ q.phase \in Int /\ q.key \in Int
        BY <2>1 DEF Ordered
      <4> QED BY <1>3, <3>1, <4>1 DEF Before
    <3> QED BY <3>1
  <2>3. IsFiniteSet(Ahead(q))
    BY <1>2, <2>1
  <2> HIDE DEF Ahead
  <2>4. Cardinality(Ahead(r)) < n
    BY <2>1, <2>2, <2>3, RankBound
  <2> QED BY <1>1, <2>4
<1>4. F # {}
  <2>1. PICK m \in S : \A x \in S : ~Before(x, m)
    BY LexFirst
  <2>2. Ahead(m) = {}
    BY <2>1
  <2>3. Cardinality(Ahead(m)) = 0
    BY <2>2, FS_EmptySet
  <2> QED BY <1>1, <2>3
<1> QED BY <1>1, <1>3, <1>4

\* Where a chunk ends: at its last line, or at the start of the next phase.
ChunkEnd(last, more, a) ==
    /\ more => a.phase = last.phase /\ a.at = last.key /\ a.st = "paging"
    /\ ~more => /\ a.phase = last.phase + 1 /\ a.at = 0
                /\ last.phase < 9 => a.st = "paging"
                /\ ~(last.phase < 9) => a.st = "done"

\* A chunk ends at its last line or at the start of the next phase.
LEMMA ChunkAnswer ==
    ASSUME NEW left, NEW items, IsFiniteSet(items), items # {}, Ordered(items)
    PROVE  \E last \in items, more \in BOOLEAN :
              /\ \A y \in items : ~Before(last, y)
              /\ more <=> \E y \in left : y.phase = last.phase /\ y.key > last.key
              /\ Chunk(left, items).items = {x.line : x \in items}
              /\ ChunkEnd(last, more, Chunk(left, items))
<1>1. PICK last : last = CHOOSE x \in items : \A y \in items : ~Before(x, y)
  OBVIOUS
<1>2. last \in items /\ \A y \in items : ~Before(last, y)
  BY <1>1, LexLast
<1>3. PICK more : more = (\E y \in left : y.phase = last.phase /\ y.key > last.key)
  OBVIOUS
<1>4. more \in BOOLEAN
  BY <1>3
<1>5. PICK go : go = (more \/ last.phase < 9)
  OBVIOUS
<1>6. PICK its : its = {x.line : x \in items}
  OBVIOUS
<1>7. PICK at, phase : at = (IF more THEN last.key ELSE 0) /\ phase = (IF more THEN last.phase ELSE last.phase + 1)
  OBVIOUS
<1>8. Chunk(left, items) = Answered(its, at, phase, go)
  BY <1>1, <1>3, <1>5, <1>6, <1>7 DEF Chunk
<1>9. go \in BOOLEAN
  BY <1>5
<1>10. PICK a : a = Chunk(left, items)
  OBVIOUS
<1>11. /\ a.items = its /\ a.at = at /\ a.phase = phase
       /\ go => a.st = "paging"
       /\ ~go => a.st = "done"
  BY <1>8, <1>9, <1>10, AnsweredFields
<1>12. ChunkEnd(last, more, a)
  <2>1. CASE more
    <3>1. go /\ at = last.key /\ phase = last.phase
      BY <1>5, <1>7, <2>1
    <3> QED BY <1>11, <2>1, <3>1 DEF ChunkEnd
  <2>2. CASE ~more
    <3>1. at = 0 /\ phase = last.phase + 1
      BY <1>7, <2>2
    <3>2. CASE last.phase < 9
      <4>1. go
        BY <1>5, <3>2
      <4> QED BY <1>11, <2>2, <3>1, <3>2, <4>1 DEF ChunkEnd
    <3>3. CASE ~(last.phase < 9)
      <4>1. ~go
        BY <1>5, <2>2, <3>3
      <4> QED BY <1>11, <2>2, <3>1, <3>3, <4>1 DEF ChunkEnd
    <3> QED BY <3>2, <3>3
  <2> QED BY <1>4, <2>1, <2>2
<1>13. more <=> \E y \in left : y.phase = last.phase /\ y.key > last.key
  BY <1>3
<1>14. Chunk(left, items).items = {x.line : x \in items}
  BY <1>6, <1>10, <1>11
<1> QED BY <1>2, <1>4, <1>10, <1>12, <1>13, <1>14

\* A chunk of an export, when it does not fail, follows from the one before.
LEMMA ExportTurns ==
    ASSUME Typed, Tables, NEW p, CutTyped(p), CursorIn(p), p.res = "export"
    PROVE  \/ \E code : Export(p) = Failed(code)
           \/ p.cut.min >= min /\ Turned(p, Export(p))
<1>1. CASE p.cut.min < min
  <2>1. Export(p) = Failed("LOG_PRUNED")
    BY <1>1 DEF Export
  <2> QED BY <2>1
<1>2. CASE ~(p.cut.min < min)
  <2>1. /\ p.phase \in 0..9 /\ p.at \in Nat /\ (p.phase = 9 => p.at = 0)
        /\ ChunkLimit \in Nat \ {0}
    BY PagingAssumption DEF CursorIn
  <2>01. PICK L : L = Lines(p)
    OBVIOUS
  <2>02. L = ExportLines(p)
    BY <2>01 DEF Lines
  <2>03. PICK left : left = Left(p)
    OBVIOUS
  <2>04. PICK items : items = FirstLines(left, ChunkLimit)
    OBVIOUS
  <2>05. PICK a : a = Export(p)
    OBVIOUS
  <2>2. left = {e \in L : ~Passed(p, e)} /\ IsFiniteSet(L)
    BY <2>02, <2>03, <2>1, LeftLines, ExportFinite
  <2>3. \A e \in L : /\ e.phase \in 0..9 /\ e.key \in Nat /\ e.key >= 1
                     /\ e.phase = 9 => e.key = 1
    BY <2>02, ExportKeys
  <2>4. left # {} /\ IsFiniteSet(left) /\ Ordered(left) /\ left \in SUBSET L
    <3>1. Entry(9, 1, <<9, 1>>) \in L
      BY <2>02, ExportShape
    <3>2. ~Passed(p, Entry(9, 1, <<9, 1>>))
      BY <2>1, EntryFields DEF Passed
    <3>3. left \in SUBSET L
      BY <2>2
    <3>4. Ordered(left)
      BY <2>3, <3>3 DEF Ordered
    <3> QED BY <2>2, <3>1, <3>2, <3>3, <3>4, FS_Subset
  <2>5. /\ items \in SUBSET left /\ items # {}
        /\ \A r \in left, q \in items : ~Before(q, r) => r \in items
    BY <2>04, <2>1, <2>4, FirstLinesShape
  <2>6. IsFiniteSet(items) /\ Ordered(items)
    <3>1. Ordered(items)
      BY <2>4, <2>5 DEF Ordered
    <3> QED BY <2>4, <2>5, <3>1, FS_Subset
  <2>7. a = Chunk(left, items)
    BY <1>2, <2>03, <2>04, <2>05 DEF Export
  <2>8. PICK last \in items, more \in BOOLEAN :
              /\ \A y \in items : ~Before(last, y)
              /\ more <=> \E y \in left : y.phase = last.phase /\ y.key > last.key
              /\ a.items = {x.line : x \in items}
              /\ ChunkEnd(last, more, a)
    BY <2>5, <2>6, <2>7, ChunkAnswer
  <2>9. /\ last \in L /\ ~Passed(p, last) /\ last \in left
        /\ last.phase \in 0..9 /\ last.key \in Nat /\ last.key >= 1
        /\ last.phase = 9 => last.key = 1
    BY <2>2, <2>3, <2>5
  <2>10. ~more => a.phase = last.phase + 1 /\ a.at = 0
    BY <2>8 DEF ChunkEnd
  <2>11. more => a.phase = last.phase /\ a.at = last.key
    BY <2>8 DEF ChunkEnd
  <2>12. ASSUME NEW e \in left PROVE Passed(a, e) <=> e \in items
    <3>1. /\ e.phase \in 0..9 /\ e.key \in Nat /\ e.key >= 1
      BY <2>3, <2>4
    <3>2. e \in items <=> ~Before(last, e)
      BY <2>5, <2>8
    <3>3. CASE more
      <4>1. Passed(a, e) <=> e.phase < last.phase \/ (e.phase = last.phase /\ e.key <= last.key)
        BY <2>11, <3>3 DEF Passed
      <4>2. Before(last, e) <=> last.phase < e.phase \/ (last.phase = e.phase /\ last.key < e.key)
        BY DEF Before
      <4> QED BY <2>9, <3>1, <3>2, <4>1, <4>2
    <3>4. CASE ~more
      <4>1. Passed(a, e) <=> e.phase < last.phase + 1 \/ (e.phase = last.phase + 1 /\ e.key <= 0)
        BY <2>10, <3>4 DEF Passed
      <4>2. Before(last, e) <=> last.phase < e.phase \/ (last.phase = e.phase /\ last.key < e.key)
        BY DEF Before
      <4>3. ~(e.phase = last.phase /\ e.key > last.key)
        BY <2>8, <3>4
      <4> QED BY <2>9, <3>1, <3>2, <4>1, <4>2, <4>3
    <3> QED BY <3>3, <3>4
  <2>13. a.items = {e.line : e \in {f \in Lines(p) : ~Passed(p, f) /\ Passed(a, f)}}
    <3>1. \A f \in L : ~Passed(p, f) /\ Passed(a, f) <=> f \in items
      BY <2>2, <2>5, <2>12
    <3>2. items = {f \in L : ~Passed(p, f) /\ Passed(a, f)}
      BY <2>4, <2>5, <3>1
    <3> QED BY <2>01, <2>8, <3>2
  <2>14. last.phase > p.phase \/ (last.phase = p.phase /\ last.key > p.at)
    BY <2>1, <2>9 DEF Passed
  <2>15. ASSUME NEW e \in Lines(p), Passed(p, e) PROVE Passed(a, e)
    <3>1. /\ e.phase \in 0..9 /\ e.key \in Nat
      BY <2>01, <2>3
    <3>2. e.phase < p.phase \/ (e.phase = p.phase /\ e.key <= p.at)
      BY <2>15 DEF Passed
    <3>3. CASE more
      BY <2>1, <2>9, <2>11, <2>14, <3>1, <3>2, <3>3 DEF Passed
    <3>4. CASE ~more
      BY <2>1, <2>9, <2>10, <2>14, <3>1, <3>2, <3>4 DEF Passed
    <3> QED BY <3>3, <3>4
  <2>16. ASSUME a.st = "done" PROVE \A e \in Lines(p) : Passed(a, e)
    <3>1. ~more /\ ~(last.phase < 9)
      BY <2>8, <2>16 DEF ChunkEnd
    <3>2. a.phase = 10
      BY <2>9, <2>10, <3>1
    <3>3. \A e \in Lines(p) : e.phase \in 0..9
      BY <2>01, <2>3
    <3> QED BY <3>2, <3>3 DEF Passed
  <2>17. more => last.phase < 9
    <3> SUFFICES ASSUME more, ~(last.phase < 9) PROVE FALSE
      OBVIOUS
    <3>1. PICK y \in left : y.phase = last.phase /\ y.key > last.key
      BY <2>8
    <3>2. last.phase = 9 /\ last.key = 1 /\ y.key = 1
      BY <2>3, <2>4, <2>9, <3>1
    <3> QED BY <3>1, <3>2
  <2>18. a.st \in {"paging", "done"}
    BY <2>8 DEF ChunkEnd
  <2>19. a.at \in Nat /\ a.phase \in Int
    BY <2>9, <2>10, <2>11
  <2>20. a.phase > p.phase \/ (a.phase = p.phase /\ a.at > p.at)
    BY <2>1, <2>9, <2>10, <2>11, <2>14
  <2>21. a.st = "paging" => a.phase \in 0..9 /\ (a.phase = 9 => a.at = 0)
    <3>1. ~more /\ ~(last.phase < 9) => a.st # "paging"
      BY <2>8 DEF ChunkEnd
    <3> QED BY <2>9, <2>10, <2>11, <2>17, <3>1
  <2>22. IsFiniteSet(a.items)
    <3>1. PICK g : g = [x \in items |-> x.line]
      OBVIOUS
    <3>2. a.items = {g[x] : x \in items}
      BY <2>8, <3>1
    <3> QED BY <2>6, <3>2, ImageFinite
  <2>23. Turned(p, a)
    BY <2>13, <2>15, <2>16, <2>18, <2>19, <2>20, <2>21, <2>22 DEF Turned
  <2>24. p.cut.min >= min
    BY <1>2, TypedFacts DEF CutTyped
  <2> QED BY <2>05, <2>23, <2>24
<1> QED BY <1>1, <1>2

\* The cut is the chain's, as far as a page needs it to be.
Current(p) == p.cut.log = log /\ (p.res = "export" => p.cut.min = min)

\* Every page follows from the one before it, or fails.
LEMMA RespondTurns ==
    ASSUME Typed, Tables, NEW p, CutTyped(p), p.cut.log = log, CutBehind(p), CursorIn(p)
    PROVE  \/ \E code : Respond(p) = Failed(code)
           \/ Current(p) /\ Turned(p, Respond(p))
<1>0. p.res \in Listings
  BY DEF CutTyped
<1>1. CASE p.res \in {"log", "records"}
  <2>1. Respond(p) = Log(p)
    BY <1>1 DEF Respond, Kind
  <2>2. Current(p)
    BY <1>1 DEF Current
  <2>3. (\E code : Log(p) = Failed(code)) \/ Turned(p, Log(p))
    BY <1>1, LogTurns
  <2> QED BY <2>1, <2>2, <2>3
<1>2. CASE p.res \in {"devices", "epochs", "envelopes"}
  <2>1. Respond(p) = Objects(p)
    BY <1>2 DEF Respond, Kind
  <2>2. Current(p)
    BY <1>2 DEF Current
  <2>3. (\E code : Objects(p) = Failed(code)) \/ Turned(p, Objects(p))
    BY <1>2, EpochsTurn, EnvelopesTurn, DevicesTurn
  <2> QED BY <2>1, <2>2, <2>3
<1>3. CASE p.res = "requests"
  <2>1. Respond(p) = Requests(p)
    BY <1>3 DEF Respond, Kind
  <2>2. Current(p)
    BY <1>3 DEF Current
  <2>3. Turned(p, Requests(p))
    BY <1>3, RequestsTurn
  <2> QED BY <2>1, <2>2, <2>3
<1>4. CASE p.res = "transparency"
  <2>1. Respond(p) = Transparency(p)
    BY <1>4 DEF Respond, Kind
  <2>2. Current(p)
    BY <1>4 DEF Current
  <2>3. Turned(p, Transparency(p))
    BY <1>4, TransparencyTurns
  <2> QED BY <2>1, <2>2, <2>3
<1>5. CASE p.res = "export"
  <2>1. Respond(p) = Export(p)
    BY <1>5 DEF Respond, Kind
  <2>2. \/ \E code : Export(p) = Failed(code)
        \/ p.cut.min >= min /\ Turned(p, Export(p))
    BY <1>5, ExportTurns
  <2>3. p.cut.min >= min => Current(p)
    <3>1. p.cut.min <= min /\ p.cut.min \in Nat /\ min \in Nat
      BY TypedFacts DEF CutBehind, CutTyped
    <3> QED BY <3>1 DEF Current
  <2> QED BY <2>1, <2>2, <2>3
<1> QED BY <1>0, <1>1, <1>2, <1>3, <1>4, <1>5 DEF Listings

-----------------------------------------------------------------------------
(* A line has one place in its listing. *)
\* A line names its row.
LEMMA LineNames ==
    ASSUME Tables, NEW r \in rows, NEW q \in rows, Line(r) = Line(q)
    PROVE  r = q
<1>1. Same(r, q)
  BY DEF Line, Same
<1> QED BY <1>1 DEF Tables, Unique, NoTwins

\* Equal triples.
LEMMA Triples ==
    ASSUME NEW a, NEW b, NEW c, NEW x, NEW y, NEW z, <<a, b, c>> = <<x, y, z>>
    PROVE  a = x /\ b = y /\ c = z
OBVIOUS

\* A line of an export has one place.
LEMMA ExportPlaces ==
    ASSUME Typed, Tables, NEW p, CutTyped(p), NEW e \in ExportLines(p), NEW f \in ExportLines(p), e.line = f.line
    PROVE  e = f
<1>1. \A r \in rows : r.kind \in Kinds /\ r.kind # "omitted"
  BY TypedFacts, RowFields DEF Kinds
<1>2. ASSUME NEW g \in 0..7, NEW r \in rows, NEW d, RowLine(p, g, r, d)
      PROVE  /\ d = Entry(g, KeyIn(g, r), LineIn(p, g, r)) /\ d.line[1] = g
             /\ \/ d.line = <<g, r.kind, r.id>>
                \/ g = 0 /\ d.line = <<0, "omitted", r.seq>> /\ d = Entry(0, r.seq, <<0, "omitted", r.seq>>)
  <2>1. d = Entry(g, KeyIn(g, r), LineIn(p, g, r)) /\ d.line = LineIn(p, g, r)
    BY <1>2, EntryFields DEF RowLine
  <2>2. CASE g = 0 /\ ~p.include /\ IsRecovery(r)
    <3>1. LineIn(p, g, r) = <<0, "omitted", r.seq>> /\ KeyIn(g, r) = r.seq
      BY <2>2 DEF LineIn, KeyIn
    <3> QED BY <2>1, <2>2, <3>1
  <2>3. CASE ~(g = 0 /\ ~p.include /\ IsRecovery(r))
    <3>1. LineIn(p, g, r) = <<g, r.kind, r.id>>
      BY <2>3 DEF LineIn
    <3> QED BY <2>1, <3>1
  <2> QED BY <2>2, <2>3
<1>3. ASSUME NEW g \in 0..7, NEW r \in rows, RowLine(p, g, r, e),
             NEW h \in 0..7, NEW q \in rows, RowLine(p, h, q, f)
      PROVE  e = f
  <2>01. /\ e = Entry(g, KeyIn(g, r), LineIn(p, g, r)) /\ e.line[1] = g
         /\ \/ e.line = <<g, r.kind, r.id>>
            \/ g = 0 /\ e.line = <<0, "omitted", r.seq>> /\ e = Entry(0, r.seq, <<0, "omitted", r.seq>>)
    BY <1>2, <1>3
  <2>02. /\ f = Entry(h, KeyIn(h, q), LineIn(p, h, q)) /\ f.line[1] = h
         /\ \/ f.line = <<h, q.kind, q.id>>
            \/ h = 0 /\ f.line = <<0, "omitted", q.seq>> /\ f = Entry(0, q.seq, <<0, "omitted", q.seq>>)
    BY <1>2, <1>3
  <2>1. g = h
    BY <2>01, <2>02
  <2>2. CASE e.line = <<g, r.kind, r.id>> /\ f.line = <<h, q.kind, q.id>>
    <3>0. <<g, r.kind, r.id>> = <<h, q.kind, q.id>>
      BY <2>2
    <3>1. r.kind = q.kind /\ r.id = q.id
      BY <3>0, Triples
    <3>2. r = q
      BY <3>1, LineNames DEF Line
    <3> QED BY <2>01, <2>02, <2>1, <3>2
  <2>3. CASE /\ e.line = <<0, "omitted", r.seq>> /\ f.line = <<0, "omitted", q.seq>>
             /\ e = Entry(0, r.seq, <<0, "omitted", r.seq>>) /\ f = Entry(0, q.seq, <<0, "omitted", q.seq>>)
    <3>0. <<0, "omitted", r.seq>> = <<0, "omitted", q.seq>>
      BY <2>3
    <3>1. r.seq = q.seq
      BY <3>0, Triples
    <3> QED BY <2>3, <3>1
  <2>4. CASE e.line = <<g, r.kind, r.id>> /\ f.line = <<0, "omitted", q.seq>>
    <3>0. <<g, r.kind, r.id>> = <<0, "omitted", q.seq>>
      BY <2>4
    <3>1. r.kind = "omitted"
      BY <3>0, Triples
    <3> QED BY <1>1, <3>1
  <2>5. CASE f.line = <<h, q.kind, q.id>> /\ e.line = <<0, "omitted", r.seq>>
    <3>0. <<h, q.kind, q.id>> = <<0, "omitted", r.seq>>
      BY <2>5
    <3>1. q.kind = "omitted"
      BY <3>0, Triples
    <3> QED BY <1>1, <3>1
  <2> QED BY <2>01, <2>02, <2>2, <2>3, <2>4, <2>5
<1>4. ASSUME NEW i \in 1..p.cut.index, NEW d, d = Entry(8, i, <<8, i>>) PROVE d.line = <<8, i>> /\ d.line[1] = 8
  BY <1>4, EntryFields
<1>5. ASSUME NEW d, d = Entry(9, 1, <<9, 1>>) PROVE d.line[1] = 9
  BY <1>5, EntryFields
<1>6. ASSUME NEW i \in 1..p.cut.index, e = Entry(8, i, <<8, i>>), NEW j \in 1..p.cut.index, f = Entry(8, j, <<8, j>>)
      PROVE  e = f
  <2>1. <<8, i>> = <<8, j>>
    BY <1>4, <1>6
  <2> QED BY <1>6, <2>1
<1>7. /\ \/ \E g \in 0..7 : \E r \in rows : RowLine(p, g, r, e)
         \/ \E i \in 1..p.cut.index : e = Entry(8, i, <<8, i>>)
         \/ e = Entry(9, 1, <<9, 1>>)
      /\ \/ \E g \in 0..7 : \E r \in rows : RowLine(p, g, r, f)
         \/ \E i \in 1..p.cut.index : f = Entry(8, i, <<8, i>>)
         \/ f = Entry(9, 1, <<9, 1>>)
  BY ExportShape
<1>8. CASE \E g \in 0..7 : \E r \in rows : RowLine(p, g, r, e)
  <2>1. e.line[1] \in 0..7
    BY <1>2, <1>8
  <2>2. \E g \in 0..7 : \E r \in rows : RowLine(p, g, r, f)
    <3>1. f # Entry(9, 1, <<9, 1>>)
      BY <1>5, <2>1
    <3>2. ASSUME NEW i \in 1..p.cut.index, f = Entry(8, i, <<8, i>>) PROVE FALSE
      <4>1. f.line[1] = 8
        BY <1>4, <3>2
      <4> QED BY <2>1, <4>1
    <3> QED BY <1>7, <3>1, <3>2
  <2> QED BY <1>3, <1>8, <2>2
<1>9. CASE \E i \in 1..p.cut.index : e = Entry(8, i, <<8, i>>)
  <2>1. e.line[1] = 8
    BY <1>4, <1>9
  <2>2. ~\E g \in 0..7 : \E r \in rows : RowLine(p, g, r, f)
    <3> SUFFICES ASSUME NEW g \in 0..7, NEW r \in rows, RowLine(p, g, r, f) PROVE FALSE
      OBVIOUS
    <3>1. f.line[1] = g
      BY <1>2
    <3> QED BY <2>1, <3>1
  <2>3. \E i \in 1..p.cut.index : f = Entry(8, i, <<8, i>>)
    BY <1>5, <1>7, <2>1, <2>2
  <2> QED BY <1>6, <1>9, <2>3
<1>10. CASE e = Entry(9, 1, <<9, 1>>)
  <2>1. e.line[1] = 9
    BY <1>5, <1>10
  <2>2. ~\E g \in 0..7 : \E r \in rows : RowLine(p, g, r, f)
    <3> SUFFICES ASSUME NEW g \in 0..7, NEW r \in rows, RowLine(p, g, r, f) PROVE FALSE
      OBVIOUS
    <3>1. f.line[1] = g
      BY <1>2
    <3> QED BY <2>1, <3>1
  <2>3. f = Entry(9, 1, <<9, 1>>)
    <3>1. ASSUME NEW i \in 1..p.cut.index, f = Entry(8, i, <<8, i>>) PROVE FALSE
      <4>1. f.line[1] = 8
        BY <1>4, <3>1
      <4> QED BY <2>1, <4>1
    <3> QED BY <1>7, <2>2, <3>1
  <2> QED BY <1>10, <2>3
<1> QED BY <1>7, <1>8, <1>9, <1>10

\* A line has one place in its listing.
LEMMA Places ==
    ASSUME Typed, Tables, NEW p, CutTyped(p), NEW e \in Lines(p), NEW f \in Lines(p), e.line = f.line
    PROVE  e = f
<1>0. p.res \in Listings
  BY DEF CutTyped
<1>1. CASE p.res \in {"log", "records"}
  <2>1. PICK r \in rows : e = Entry(0, r.seq, Line(r))
    BY <1>1 DEF Lines, LogLines
  <2>2. PICK q \in rows : f = Entry(0, q.seq, Line(q))
    BY <1>1 DEF Lines, LogLines
  <2> QED BY <2>1, <2>2, EntryFields, LineNames
<1>2. CASE p.res = "epochs"
  <2>1. PICK r \in rows : e = Entry(0, r.id, Line(r))
    BY <1>2 DEF Lines, EpochLines
  <2>2. PICK q \in rows : f = Entry(0, q.id, Line(q))
    BY <1>2 DEF Lines, EpochLines
  <2> QED BY <2>1, <2>2, EntryFields, LineNames
<1>3. CASE p.res = "devices"
  <2>1. PICK d, s : e = Entry(0, d, <<d, s>>)
    BY <1>3 DEF Lines, StatusLines
  <2>2. PICK b, t : f = Entry(0, b, <<b, t>>)
    BY <1>3 DEF Lines, StatusLines
  <2>3. <<d, s>> = <<b, t>>
    BY <2>1, <2>2, EntryFields
  <2> QED BY <2>1, <2>2, <2>3
<1>4. CASE p.res = "requests"
  <2>1. PICK x : e = Entry(0, x[1], x)
    BY <1>4 DEF Lines, RequestLines
  <2>2. PICK y : f = Entry(0, y[1], y)
    BY <1>4 DEF Lines, RequestLines
  <2> QED BY <2>1, <2>2, EntryFields
<1>5. CASE p.res = "transparency"
  <2>1. PICK i : e = Entry(0, i, i)
    BY <1>5 DEF Lines, HeadLines
  <2>2. PICK j : f = Entry(0, j, j)
    BY <1>5 DEF Lines, HeadLines
  <2> QED BY <2>1, <2>2, EntryFields
<1>6. CASE p.res = "envelopes"
  <2>1. PICK r \in rows : e = Entry(0, r.id, Line(r))
    BY <1>6 DEF Lines, EnvelopeLines
  <2>2. PICK q \in rows : f = Entry(0, q.id, Line(q))
    BY <1>6 DEF Lines, EnvelopeLines
  <2> QED BY <2>1, <2>2, EntryFields, LineNames
<1>7. CASE p.res = "export"
  <2>1. e \in ExportLines(p) /\ f \in ExportLines(p)
    BY <1>7 DEF Lines
  <2> QED BY <2>1, ExportPlaces
<1> QED BY <1>0, <1>1, <1>2, <1>3, <1>4, <1>5, <1>6, <1>7 DEF Listings

-----------------------------------------------------------------------------
(* What a write of the live log does to a listing that is being read. *)

\* A step that changes no table is the least write.
LEMMA IdleGrows ==
    ASSUME Typed, Tables, UNCHANGED <<chain, tables>>
    PROVE  Typed' /\ Tables' /\ Grown
<1>1. /\ log' = log /\ head' = head /\ index' = index /\ epoch' = epoch /\ min' = min /\ boundary' = boundary
      /\ rows' = rows /\ history' = history /\ offers' = offers /\ expired' = expired
  BY DEF chain, tables
<1>2. Typed'
  BY <1>1 DEF Typed, Counters, RowsTyped
<1>3. \A r \in rows : Worn(r, r)
  BY <1>1 DEF Tables, RowsSound, Lasting, Worn, Kin
<1>4. Grown
  <2>1. RowsGrow
    BY <1>1, <1>3 DEF RowsGrow
  <2>2. Prefix(history, history') /\ Prefix(offers, offers')
    BY <1>1, TypedFacts DEF Prefix
  <2> QED BY <1>1, <2>1, <2>2, TypedFacts DEF Grown
<1>5. Tables'
  <2>1. Unique'
    BY <1>1 DEF Tables, Unique, NoTwins
  <2>2. NewRowsSound
    <3>1. \A s \in rows' : ~Arrived(s)
      BY <1>1 DEF Arrived, Known
    <3>2. (head + 1)..head' = {} /\ (epoch + 1)..epoch' = {} /\ (Len(history) + 1)..Len(history') = {}
      BY <1>1, TypedFacts
    <3> QED BY <3>1, <3>2 DEF NewRowsSound
  <2>3. epoch <= epoch' /\ min' <= head + 1
    BY <1>1, TypedFacts DEF Tables, Bounds
  <2> QED BY <1>2, <1>4, <2>1, <2>2, <2>3, GrownTables
<1> QED BY <1>2, <1>4, <1>5

\* The types of a write to the live log.
LEMMA GrowthFacts ==
    ASSUME Typed, Typed', Grown
    PROVE  /\ log' = log /\ head <= head' /\ index <= index' /\ min <= min' /\ expired \subseteq expired'
           /\ log \in Nat /\ head \in Nat /\ index \in Nat /\ min \in Nat
           /\ head' \in Nat /\ index' \in Nat /\ min' \in Nat /\ None \notin Nat
           /\ \A r \in rows : r \in RowSet
           /\ \A r \in rows' : r \in RowSet
BY PagingAssumption DEF Typed, Counters, RowsTyped, Grown

\* A cut stays a former state of the chain.
LEMMA GrownCut ==
    ASSUME Typed, Typed', Grown, NEW p, CutTyped(p), CutBehind(p)
    PROVE  CutBehind(p)'
<1>1. /\ log' = log /\ head <= head' /\ index <= index' /\ min <= min'
      /\ head \in Nat /\ index \in Nat /\ min \in Nat /\ head' \in Nat /\ index' \in Nat /\ min' \in Nat
  BY GrowthFacts
<1>2. /\ p.cut.head \in Nat /\ p.cut.index \in Nat /\ p.cut.min \in Nat
      /\ p.cut.registry \in Nat /\ p.cut.offers \in Nat
  BY DEF CutTyped
<1>3. /\ p.cut.head <= head /\ p.cut.index <= index /\ p.cut.min <= min
      /\ p.cut.registry <= Len(history) /\ p.cut.offers <= Len(offers)
  BY DEF CutBehind
<1>4. p.cut.head <= head' /\ p.cut.index <= index' /\ p.cut.min <= min'
  <2>1. p.cut.head <= head'
    BY <1>1, <1>2, <1>3
  <2>2. p.cut.index <= index'
    BY <1>1, <1>2, <1>3
  <2>3. p.cut.min <= min'
    BY <1>1, <1>2, <1>3
  <2> QED BY <2>1, <2>2, <2>3
<1>5. p.cut.registry <= Len(history') /\ p.cut.offers <= Len(offers')
  <2>1. Len(history) <= Len(history') /\ Len(offers) <= Len(offers')
    BY DEF Grown, Prefix
  <2>2. Len(history) \in Nat /\ Len(history') \in Nat /\ Len(offers) \in Nat /\ Len(offers') \in Nat
    BY DEF Typed
  <2> QED BY <1>2, <1>3, <2>1, <2>2
<1>6. ASSUME NEW i \in 1..p.cut.registry
      PROVE  \E r \in rows' : Same(r, Device(history'[i].device)) /\ r.log # None /\ WithinCut(r, p)'
  <2>1. PICK r \in rows : Same(r, Device(history[i].device)) /\ r.log # None /\ WithinCut(r, p)
    BY DEF CutBehind
  <2>2. i \in 1..Len(history)
    <3>1. Len(history) \in Nat
      BY DEF Typed
    <3> QED BY <1>2, <1>3, <3>1
  <2>3. history'[i] = history[i]
    BY <2>2 DEF Grown, Prefix
  <2>4. PICK s \in rows' : Worn(r, s)
    BY DEF Grown, RowsGrow
  <2>5. s.kind = r.kind /\ s.id = r.id /\ s.log = r.log /\ s.seq = r.seq
    BY <2>4 DEF Worn, Kin
  <2>6. Same(s, Device(history'[i].device)) /\ s.log # None
    BY <2>1, <2>3, <2>5 DEF Same
  <2>7. WithinCut(s, p)'
    BY <1>1, <2>1, <2>5 DEF WithinCut
  <2> QED BY <2>6, <2>7
<1> QED BY <1>4, <1>5, <1>6 DEF CutBehind

\* Nothing comes before the head of the cut, and no log row goes.
LEMMA LogLinesStay ==
    ASSUME Typed, Typed', Grown, NEW p, CutTyped(p), p.cut.log = log, CutBehind(p)
    PROVE  LogLines(p)' = LogLines(p)
<1>1. /\ log' = log /\ head \in Nat /\ log \in Nat /\ None \notin Nat
      /\ p.cut.head \in Nat /\ p.cut.head <= head
  BY GrowthFacts DEF CutTyped, CutBehind
<1> DEFINE In(q) == q.log = p.cut.log /\ q.seq <= p.cut.head /\ (p.res = "log" \/ q.kind = "record")
<1>2. ASSUME NEW r \in rows, In(r) PROVE \E s \in rows' : In(s) /\ s.seq = r.seq /\ Line(s) = Line(r)
  <2>1. PICK s \in rows' : Worn(r, s)
    BY DEF Grown, RowsGrow
  <2> QED BY <1>2, <2>1 DEF Worn, Kin, Line
<1>3. ASSUME NEW s \in rows', In(s) PROVE \E r \in rows : In(r) /\ s.seq = r.seq /\ Line(s) = Line(r)
  <2>1. Arrived(s) \/ \E r \in rows : Worn(r, s)
    BY DEF Grown, RowsGrow
  <2>2. ~Arrived(s)
    <3>1. s.seq \in Nat
      BY GrowthFacts, RowFields
    <3> QED BY <1>1, <1>3, <3>1 DEF Arrived
  <2>3. PICK r \in rows : Worn(r, s)
    BY <2>1, <2>2
  <2> QED BY <1>3, <2>3 DEF Worn, Kin, Line
<1>4. LogLines(p) = {Entry(0, r.seq, Line(r)) : r \in {q \in rows : In(q)}}
  BY DEF LogLines
<1>5. LogLines(p)' = {Entry(0, r.seq, Line(r)) : r \in {q \in rows' : In(q)}}
  BY DEF LogLines, Entry, Line
<1> HIDE DEF In
<1> QED BY <1>2, <1>3, <1>4, <1>5

\* No epoch comes within the cut.
LEMMA EpochLinesStay ==
    ASSUME Typed, Typed', Tables', Grown, NEW p, CutTyped(p), p.cut.log = log, CutBehind(p)
    PROVE  EpochLines(p)' = EpochLines(p)
<1>1. /\ log' = log /\ head \in Nat /\ log \in Nat /\ None \notin Nat
      /\ p.cut.head \in Nat /\ p.cut.head <= head
  BY GrowthFacts DEF CutTyped, CutBehind
<1> DEFINE In(q) == q.kind = "epoch" /\ (q.log = None \/ q.log # log \/ q.seq <= p.cut.head)
<1>2. ASSUME NEW r \in rows, In(r) PROVE \E s \in rows' : In(s) /\ s.id = r.id /\ Line(s) = Line(r)
  <2>1. PICK s \in rows' : Worn(r, s)
    BY DEF Grown, RowsGrow
  <2> QED BY <1>2, <2>1 DEF Worn, Kin, Line
<1>3. ASSUME NEW s \in rows', In(s) PROVE \E r \in rows : In(r) /\ s.id = r.id /\ Line(s) = Line(r)
  <2>1. Arrived(s) \/ \E r \in rows : Worn(r, s)
    BY DEF Grown, RowsGrow
  <2>2. ~Arrived(s)
    <3>1. s.seq \in Nat
      BY GrowthFacts, RowFields
    <3> QED BY <1>1, <1>3, <3>1 DEF Arrived
  <2>3. PICK r \in rows : Worn(r, s)
    BY <2>1, <2>2
  <2> QED BY <1>3, <2>3 DEF Worn, Kin, Line
<1>4. EpochLines(p) = {Entry(0, r.id, Line(r)) : r \in {q \in rows : In(q)}}
  BY DEF EpochLines, WithinCut
<1>5. EpochLines(p)' = {Entry(0, r.id, Line(r)) : r \in {q \in rows' : In(q)}}
  <2>1. EpochLines(p)' = {Entry(0, r.id, Line(r)) : r \in {q \in rows' :
           q.kind = "epoch" /\ (q.log = None \/ q.log # log' \/ q.seq <= p.cut.head)}}
    BY DEF EpochLines, WithinCut, Entry, Line
  <2> QED BY <1>1, <2>1
<1> HIDE DEF In
<1> QED BY <1>2, <1>3, <1>4, <1>5

\* An earlier version of the registry stays as it was.
LEMMA StatusStays ==
    ASSUME Typed, Typed', Grown, NEW d, NEW v \in Nat, v <= Len(history)
    PROVE  StatusAt(d, v)' = StatusAt(d, v)
<1>1. \A i \in 1..v : history'[i] = history[i]
  <2>1. Len(history) \in Nat
    BY DEF Typed
  <2>2. \A i \in 1..v : i \in 1..Len(history)
    BY <2>1
  <2> QED BY <2>2 DEF Grown, Prefix
<1>2. StatusAt(d, v) = {history[i] : i \in {k \in 1..v : history[k].device = d /\ \A j \in 1..v : history[j].device = d => j <= k}}
  BY DEF StatusAt, LastOf
<1>3. StatusAt(d, v)' = {history'[i] : i \in {k \in 1..v : history'[k].device = d /\ \A j \in 1..v : history'[j].device = d => j <= k}}
  BY DEF StatusAt, LastOf
<1>4. {k \in 1..v : history[k].device = d /\ \A j \in 1..v : history[j].device = d => j <= k}
        = {k \in 1..v : history'[k].device = d /\ \A j \in 1..v : history'[j].device = d => j <= k}
  BY <1>1
<1> QED BY <1>1, <1>2, <1>3, <1>4

\* The statuses of the cut stay.
LEMMA StatusLinesStay ==
    ASSUME Typed, Typed', Grown, NEW p, CutTyped(p), CutBehind(p)
    PROVE  StatusLines(p)' = StatusLines(p)
<1>1. \A d : StatusAt(d, p.cut.registry)' = StatusAt(d, p.cut.registry)
  BY StatusStays DEF CutTyped, CutBehind
<1>2. StatusLines(p)' = {Entry(0, e.device, <<e.device, e.status>>) : e \in UNION {StatusAt(d, p.cut.registry)' : d \in Devices}}
  BY DEF StatusLines, Entry
<1> QED BY <1>1, <1>2 DEF StatusLines

\* An earlier version of the offers stays as it was.
LEMMA OfferStays ==
    ASSUME Typed, Typed', Grown, NEW q, NEW v \in Nat, v <= Len(offers)
    PROVE  OfferAt(q, v)' = OfferAt(q, v)
<1>1. \A i \in 1..v : offers'[i] = offers[i]
  <2>1. Len(offers) \in Nat
    BY DEF Typed
  <2>2. \A i \in 1..v : i \in 1..Len(offers)
    BY <2>1
  <2> QED BY <2>2 DEF Grown, Prefix
<1>2. OfferAt(q, v) = {offers[i] : i \in {k \in 1..v : offers[k].request = q /\ \A j \in 1..v : offers[j].request = q => j <= k}}
  BY DEF OfferAt, LastOf
<1>3. OfferAt(q, v)' = {offers'[i] : i \in {k \in 1..v : offers'[k].request = q /\ \A j \in 1..v : offers'[j].request = q => j <= k}}
  BY DEF OfferAt, LastOf
<1>4. {k \in 1..v : offers[k].request = q /\ \A j \in 1..v : offers[j].request = q => j <= k}
        = {k \in 1..v : offers'[k].request = q /\ \A j \in 1..v : offers'[j].request = q => j <= k}
  BY <1>1
<1> QED BY <1>1, <1>2, <1>3, <1>4

\* The requests of the cut stay.
LEMMA RequestLinesStay ==
    ASSUME Typed, Typed', Grown, NEW p, CutTyped(p), CutBehind(p)
    PROVE  RequestLines(p)' = RequestLines(p)
<1>1. \A q : OfferAt(q, p.cut.offers)' = OfferAt(q, p.cut.offers)
  BY OfferStays DEF CutTyped, CutBehind
<1>2. RequestsOf(p)' =
        UNION {{<<e.request, e.status>> :
                  e \in {o \in OfferAt(q, p.cut.offers)' :
                           o.asked /\ o.generation = log' /\ p.device \in {None, o.by}}} : q \in RequestIds}
        /\ log' = log
  BY DEF RequestsOf, Grown
<1>3. RequestsOf(p)' = RequestsOf(p)
  BY <1>1, <1>2 DEF RequestsOf
<1>4. RequestLines(p)' = {Entry(0, x[1], x) : x \in RequestsOf(p)'}
  BY DEF RequestLines, Entry
<1> QED BY <1>3, <1>4 DEF RequestLines

\* Nothing that a write does shows in a pinned listing.
LEMMA PinnedLines ==
    ASSUME Typed, Typed', Tables', Grown, NEW p, CutTyped(p), p.cut.log = log, CutBehind(p),
           p.res \notin {"envelopes", "export"}
    PROVE  Lines(p)' = Lines(p)
<1>0. p.res \in Listings
  BY DEF CutTyped
<1>1. CASE p.res \in {"log", "records"}
  <2>1. Lines(p) = LogLines(p) /\ Lines(p)' = LogLines(p)'
    BY <1>1 DEF Lines
  <2> QED BY <2>1, LogLinesStay
<1>2. CASE p.res = "epochs"
  <2>1. Lines(p) = EpochLines(p) /\ Lines(p)' = EpochLines(p)'
    BY <1>2 DEF Lines
  <2> QED BY <2>1, EpochLinesStay
<1>3. CASE p.res = "devices"
  <2>1. Lines(p) = StatusLines(p) /\ Lines(p)' = StatusLines(p)'
    BY <1>3 DEF Lines
  <2> QED BY <2>1, StatusLinesStay
<1>4. CASE p.res = "requests"
  <2>1. Lines(p) = RequestLines(p) /\ Lines(p)' = RequestLines(p)'
    BY <1>4 DEF Lines
  <2> QED BY <2>1, RequestLinesStay
<1>5. CASE p.res = "transparency"
  <2>1. Lines(p) = HeadLines(p) /\ Lines(p)' = HeadLines(p)'
    BY <1>5 DEF Lines
  <2>2. HeadLines(p)' = HeadLines(p)
    BY DEF HeadLines, Entry
  <2> QED BY <2>1, <2>2
<1> QED BY <1>0, <1>1, <1>2, <1>3, <1>4, <1>5 DEF Listings

\* The lines that a row can have in a listing p.
LinesBy(p, r) ==
    IF p.res = "envelopes" THEN {Line(r)}
    ELSE {<<phase, r.kind, r.id>> : phase \in {0, 3, 6}} \cup {<<0, "omitted", r.seq>>}
ExpiredLines(p) == UNION {LinesBy(p, r) : r \in {q \in rows : q.kind = "envelope" /\ q.epoch \in expired}}
StagedLines(p) == UNION {LinesBy(p, r) : r \in {q \in rows : q.log = None}}
\* The lines without their places.
LineSet(L) == {e.line : e \in L}

\* A line that no known row has.
Foreign(p, x) == x \notin LineSet(Lines(p)) /\ x \notin ExpiredLines(p) /\ x \notin StagedLines(p)

\* Two versions of a row have the same lines.
LEMMA LinesByKin ==
    ASSUME NEW p, NEW r, NEW s, Kin(r, s)
    PROVE  LinesBy(p, s) = LinesBy(p, r)
BY DEF LinesBy, Line, Kin

\* An expired envelope's row stays, and stays expired.
LEMMA ExpiredLinesGrow ==
    ASSUME Grown, NEW p, NEW x \in ExpiredLines(p)
    PROVE  x \in ExpiredLines(p)'
<1>1. PICK r \in rows : r.kind = "envelope" /\ r.epoch \in expired /\ x \in LinesBy(p, r)
  BY DEF ExpiredLines
<1>2. PICK s \in rows' : Worn(r, s)
  BY DEF Grown, RowsGrow
<1>3. s.kind = "envelope" /\ s.epoch \in expired' /\ x \in LinesBy(p, s)
  BY <1>1, <1>2, LinesByKin DEF Worn, Kin, Grown
<1>4. ExpiredLines(p)' = UNION {LinesBy(p, q) : q \in {t \in rows' : t.kind = "envelope" /\ t.epoch \in expired'}}
  BY DEF ExpiredLines, LinesBy, Line
<1> QED BY <1>3, <1>4

\* Staged objects stay staged until a reseed.
LEMMA StagedLinesGrow ==
    ASSUME Grown, NEW p, NEW x \in StagedLines(p)
    PROVE  x \in StagedLines(p)'
<1>1. PICK r \in rows : r.log = None /\ x \in LinesBy(p, r)
  BY DEF StagedLines
<1>2. PICK s \in rows' : Worn(r, s)
  BY DEF Grown, RowsGrow
<1>3. s.log = None /\ x \in LinesBy(p, s)
  BY <1>1, <1>2, LinesByKin DEF Worn, Kin
<1>4. StagedLines(p)' = UNION {LinesBy(p, q) : q \in {t \in rows' : t.log = None}}
  BY DEF StagedLines, LinesBy, Line
<1> QED BY <1>3, <1>4

\* Lines of the next state, by its rows.
LEMMA ExpiredNext ==
    ASSUME NEW p, NEW s \in rows', s.kind = "envelope", s.epoch \in expired', NEW x \in LinesBy(p, s)
    PROVE  x \in ExpiredLines(p)'
BY DEF ExpiredLines, LinesBy, Line

\* A staged row of the next state has its lines there.
LEMMA StagedNext ==
    ASSUME NEW p, NEW s \in rows', s.log = None, NEW x \in LinesBy(p, s)
    PROVE  x \in StagedLines(p)'
BY DEF StagedLines, LinesBy, Line

\* A listing of envelopes loses what expired and gains what was staged.
LEMMA EnvelopeLinesGrow ==
    ASSUME Typed, Typed', Grown, NEW p, CutTyped(p), p.cut.log = log, CutBehind(p), p.res = "envelopes"
    PROVE  /\ \A e \in Lines(p) : e \in Lines(p)' \/ e.line \in ExpiredLines(p)'
           /\ \A e \in Lines(p)' : e \in Lines(p) \/ (e.line \in StagedLines(p)' /\ Foreign(p, e.line))
<1>1. /\ log' = log /\ head \in Nat /\ log \in Nat /\ None \notin Nat
      /\ p.cut.head \in Nat /\ p.cut.head <= head
  BY GrowthFacts DEF CutTyped, CutBehind
<1> DEFINE In(q) == q.kind = "envelope" /\ q.to = p.device /\ q.body
                      /\ (q.log = None \/ q.log # log \/ q.seq <= p.cut.head)
<1>2. Lines(p) = {Entry(0, r.id, Line(r)) : r \in {q \in rows : In(q)}}
  BY DEF Lines, EnvelopeLines, WithinCut
<1>3. Lines(p)' = {Entry(0, r.id, Line(r)) : r \in {q \in rows' : In(q)}}
  <2>0. Lines(p)' = EnvelopeLines(p)'
    BY DEF Lines
  <2>1. EnvelopeLines(p)' = {Entry(0, r.id, Line(r)) : r \in {q \in rows' :
           q.kind = "envelope" /\ q.to = p.device /\ q.body /\ (q.log = None \/ q.log # log' \/ q.seq <= p.cut.head)}}
    BY DEF EnvelopeLines, WithinCut, Entry, Line
  <2> QED BY <1>1, <2>0, <2>1
<1>4. \A r : LinesBy(p, r) = {Line(r)}
  BY DEF LinesBy
<1>5. ASSUME NEW r \in rows, In(r)
      PROVE  Entry(0, r.id, Line(r)) \in Lines(p)' \/ Line(r) \in ExpiredLines(p)'
  <2>1. PICK s \in rows' : Worn(r, s)
    BY DEF Grown, RowsGrow
  <2>2. Line(s) = Line(r) /\ s.id = r.id /\ s.kind = "envelope" /\ s.epoch = r.epoch
    BY <1>5, <2>1 DEF Worn, Kin, Line
  <2>3. CASE s.body
    <3>1. In(s)
      BY <1>5, <2>1, <2>3 DEF Worn, Kin
    <3> HIDE DEF In
    <3> QED BY <1>3, <2>2, <3>1
  <2>4. CASE ~s.body
    <3>1. s.epoch \in expired'
      BY <1>5, <2>1, <2>2, <2>4 DEF Worn
    <3> QED BY <1>4, <2>2, <3>1, ExpiredNext
  <2> QED BY <2>3, <2>4
<1>6. ASSUME NEW s \in rows', In(s)
      PROVE  \/ Entry(0, s.id, Line(s)) \in Lines(p)
             \/ Line(s) \in StagedLines(p)' /\ Foreign(p, Line(s))
  <2>1. Arrived(s) \/ \E r \in rows : Worn(r, s)
    BY DEF Grown, RowsGrow
  <2>2. CASE Arrived(s)
    <3>1. s.seq \in Nat
      BY GrowthFacts, RowFields
    <3>2. s.log = None
      BY <1>1, <1>6, <2>2, <3>1 DEF Arrived
    <3>3. Line(s) \in StagedLines(p)'
      BY <1>4, <3>2, StagedNext
    <3>4. \A r \in rows : Line(r) # Line(s)
      BY <2>2 DEF Arrived, Known, Line
    <3>5. Foreign(p, Line(s))
      <4>1. Line(s) \notin LineSet(Lines(p))
        <5> SUFFICES ASSUME NEW e \in Lines(p), e.line = Line(s) PROVE FALSE
          BY DEF LineSet
        <5>1. PICK r \in rows : e = Entry(0, r.id, Line(r))
          BY <1>2
        <5> QED BY <3>4, <5>1, EntryFields
      <4>2. Line(s) \notin ExpiredLines(p) /\ Line(s) \notin StagedLines(p)
        BY <1>4, <3>4 DEF ExpiredLines, StagedLines
      <4> QED BY <4>1, <4>2 DEF Foreign
    <3> QED BY <3>3, <3>5
  <2>3. ASSUME NEW r \in rows, Worn(r, s) PROVE Entry(0, s.id, Line(s)) \in Lines(p)
    <3>1. In(r) /\ Line(s) = Line(r) /\ s.id = r.id
      BY <1>6, <2>3 DEF Worn, Kin, Line
    <3> HIDE DEF In
    <3> QED BY <1>2, <3>1
  <2> QED BY <2>1, <2>2, <2>3
<1>7. ASSUME NEW e \in Lines(p) PROVE e \in Lines(p)' \/ e.line \in ExpiredLines(p)'
  <2>1. PICK r \in rows : In(r) /\ e = Entry(0, r.id, Line(r))
    BY <1>2
  <2>2. e.line = Line(r)
    BY <2>1, EntryFields
  <2> HIDE DEF In
  <2> QED BY <1>5, <2>1, <2>2
<1>8. ASSUME NEW e \in Lines(p)' PROVE e \in Lines(p) \/ (e.line \in StagedLines(p)' /\ Foreign(p, e.line))
  <2>1. PICK s \in rows' : In(s) /\ e = Entry(0, s.id, Line(s))
    BY <1>3
  <2>2. e.line = Line(s)
    BY <2>1, EntryFields
  <2> HIDE DEF In
  <2> QED BY <1>6, <2>1, <2>2
<1> QED BY <1>7, <1>8

\* The lines of an export are those of the rows and of the positions.
ExportIsRows(p) ==
    \A e : e \in ExportLines(p) <=>
             \/ \E f \in 0..7 : \E r \in rows : RowLine(p, f, r, e)
             \/ \E i \in 1..p.cut.index : e = Entry(8, i, <<8, i>>)
             \/ e = Entry(9, 1, <<9, 1>>)
ExportsAreRows == \A p : ExportIsRows(p)

\* The lines of an export, for all pages.
LEMMA ExportRows == ExportsAreRows
BY ExportShape DEF ExportIsRows, ExportsAreRows

\* The same of the next state.
LEMMA ExportRowsNext == ExportsAreRows'
BY ExportRows, PTL

\* ExportShape, of the next state.
LEMMA ExportShapeNext ==
    ASSUME NEW p, NEW e
    PROVE  e \in ExportLines(p)' <=>
             \/ \E f \in 0..7 : \E r \in rows' : RowLine(p, f, r, e)
             \/ \E i \in 1..p.cut.index : e = Entry(8, i, <<8, i>>)
             \/ e = Entry(9, 1, <<9, 1>>)
<1>1. ExportIsRows(p)'
  BY ExportRowsNext DEF ExportsAreRows
<1> QED BY <1>1 DEF ExportIsRows, RowLine, Entry, InGroup, Hidden, IsRecovery, KeyIn, LineIn

\* A row's line stays unless the row is an envelope that expires.
LEMMA RowLineStays ==
    ASSUME Typed, Typed', Tables, Grown, min' = min, NEW p, CutTyped(p), p.cut.log = log, p.res = "export",
           NEW f \in 0..7, NEW r \in rows, NEW s \in rows', Worn(r, s), NEW e, RowLine(p, f, r, e)
    PROVE  \/ RowLine(p, f, s, e)
           \/ s.kind = "envelope" /\ s.epoch \in expired' /\ e.line \in LinesBy(p, s)
<1>1. Kin(r, s) /\ r.kind \in Kinds /\ r.body \in BOOLEAN /\ s.body \in BOOLEAN /\ r.entry \in BOOLEAN /\ s.entry \in BOOLEAN
  BY GrowthFacts, RowFields DEF Worn
<1>2. InGroup(p, f, r) /\ ~Hidden(p, f, r) /\ e = Entry(f, KeyIn(f, r), LineIn(p, f, r))
  BY DEF RowLine
<1>3. Hidden(p, f, s) <=> Hidden(p, f, r)
  BY <1>1 DEF Hidden, IsRecovery, Kin
<1>4. KeyIn(f, s) = KeyIn(f, r) /\ LineIn(p, f, s) = LineIn(p, f, r)
  BY <1>1 DEF KeyIn, LineIn, IsRecovery, Kin
<1>5. InGroup(p, f, s) => RowLine(p, f, s, e)
  BY <1>2, <1>3, <1>4 DEF RowLine
<1>6. /\ s.kind = r.kind /\ s.id = r.id /\ s.epoch = r.epoch /\ s.to = r.to
      /\ s.log = r.log /\ s.seq = r.seq /\ s.idx = r.idx
  BY <1>1 DEF Kin
<1>7. r.kind # "envelope" /\ r.entry => s.entry
  <2>1. CASE r.kind = "record" /\ r.log = log
    <3>1. (r.entry <=> r.seq >= min) /\ (s.entry <=> r.seq >= min')
      BY <2>1 DEF Worn, Tables, RowsSound, Lasting
    <3> QED BY <3>1
  <2>2. CASE r.kind = "record" /\ r.log # log
    BY <2>2 DEF Worn
  <2>3. CASE r.kind \notin {"record", "envelope"}
    BY <2>3 DEF Worn
  <2> QED BY <2>1, <2>2, <2>3
<1>8. r.kind \in DOMAIN Control /\ r.kind # "envelope" => s.body
  BY DEF Worn, Control
<1>9. r.kind = "envelope" /\ r.entry /\ ~s.entry => s.epoch \in expired'
  BY <1>6 DEF Worn
<1>10. r.kind = "envelope" /\ r.body /\ ~s.body => s.epoch \in expired'
  BY <1>6 DEF Worn
<1>11. s.body => r.body
  BY DEF Worn
<1>12. CASE f = 0
  <2>1. r.entry /\ r.log = p.cut.log /\ r.seq \in 1..p.cut.head
    BY <1>2, <1>12 DEF InGroup
  <2>2. CASE s.entry
    <3>1. InGroup(p, f, s)
      BY <1>6, <1>12, <2>1, <2>2 DEF InGroup
    <3> QED BY <1>5, <3>1
  <2>3. CASE ~s.entry
    <3>1. s.kind = "envelope" /\ s.epoch \in expired'
      BY <1>6, <1>7, <1>9, <2>1, <2>3
    <3>2. e.line = LineIn(p, 0, s)
      BY <1>2, <1>4, <1>12, EntryFields
    <3>3. LineIn(p, 0, s) = <<0, "omitted", s.seq>> \/ LineIn(p, 0, s) = <<0, s.kind, s.id>>
      BY DEF LineIn
    <3>4. LineIn(p, 0, s) \in LinesBy(p, s)
      BY <3>3 DEF LinesBy
    <3> QED BY <3>1, <3>2, <3>4
  <2> QED BY <1>1, <2>2, <2>3
<1>13. CASE f \in {1, 2, 5, 7}
  <2>1. InGroup(p, f, s)
    BY <1>2, <1>6, <1>13 DEF InGroup
  <2> QED BY <1>5, <2>1
<1>14. CASE f = 3
  <2>1. r.body /\ r.kind \in DOMAIN Control /\ r.log # p.cut.log
    BY <1>2, <1>14 DEF InGroup
  <2>2. CASE s.body
    <3>1. InGroup(p, f, s)
      BY <1>6, <1>14, <2>1, <2>2 DEF InGroup
    <3> QED BY <1>5, <3>1
  <2>3. CASE ~s.body
    <3>1. s.kind = "envelope" /\ s.epoch \in expired'
      BY <1>6, <1>8, <1>10, <2>1, <2>3
    <3>2. e.line = <<3, s.kind, s.id>>
      BY <1>2, <1>4, <1>14, EntryFields DEF LineIn
    <3>3. <<3, s.kind, s.id>> \in LinesBy(p, s)
      BY DEF LinesBy
    <3> QED BY <3>1, <3>2, <3>3
  <2> QED BY <1>1, <2>2, <2>3
<1>15. CASE f = 4
  <2>1. InGroup(p, f, s)
    BY <1>2, <1>6, <1>11, <1>15 DEF InGroup
  <2> QED BY <1>5, <2>1
<1>16. CASE f = 6
  <2>1. r.entry /\ r.log \notin {None, p.cut.log} /\ r.idx <= p.cut.index
    BY <1>2, <1>16 DEF InGroup
  <2>2. CASE s.entry
    <3>1. InGroup(p, f, s)
      BY <1>6, <1>16, <2>1, <2>2 DEF InGroup
    <3> QED BY <1>5, <3>1
  <2>3. CASE ~s.entry
    <3>1. s.kind = "envelope" /\ s.epoch \in expired'
      BY <1>6, <1>7, <1>9, <2>1, <2>3
    <3>2. e.line = <<6, s.kind, s.id>>
      BY <1>2, <1>4, <1>16, EntryFields DEF LineIn
    <3>3. <<6, s.kind, s.id>> \in LinesBy(p, s)
      BY DEF LinesBy
    <3> QED BY <3>1, <3>2, <3>3
  <2> QED BY <1>1, <2>2, <2>3
<1> QED BY <1>12, <1>13, <1>14, <1>15, <1>16

\* A line of a row that was there before was there before.
LEMMA RowLineWas ==
    ASSUME Typed, Typed', Tables, Grown, min' = min, NEW p, CutTyped(p), p.cut.log = log,
           NEW f \in 0..7, NEW r \in rows, NEW s \in rows', Worn(r, s), NEW e, RowLine(p, f, s, e)
    PROVE  RowLine(p, f, r, e)
<1>1. Kin(r, s) /\ r.body \in BOOLEAN /\ s.body \in BOOLEAN
  BY GrowthFacts, RowFields DEF Worn
<1>2. InGroup(p, f, s) /\ ~Hidden(p, f, s) /\ e = Entry(f, KeyIn(f, s), LineIn(p, f, s))
  BY DEF RowLine
<1>3. Hidden(p, f, s) <=> Hidden(p, f, r)
  BY <1>1 DEF Hidden, IsRecovery, Kin
<1>4. KeyIn(f, s) = KeyIn(f, r) /\ LineIn(p, f, s) = LineIn(p, f, r)
  BY <1>1 DEF KeyIn, LineIn, IsRecovery, Kin
<1>6. /\ s.kind = r.kind /\ s.id = r.id /\ s.epoch = r.epoch /\ s.to = r.to
      /\ s.log = r.log /\ s.seq = r.seq /\ s.idx = r.idx
  BY <1>1 DEF Kin
<1>7. (s.body => r.body) /\ (s.entry => r.entry)
  BY DEF Worn
<1>8. r.kind = "record" /\ ~s.body => ~r.body
  <2>1. CASE r.kind = "record" /\ r.log = log
    <3>1. (r.body <=> r.seq >= min) /\ (s.body <=> r.seq >= min')
      BY <2>1 DEF Worn, Tables, RowsSound, Lasting
    <3> QED BY <3>1
  <2>2. CASE r.kind = "record" /\ r.log # log
    BY <2>2 DEF Worn
  <2> QED BY <2>1, <2>2
<1>9. InGroup(p, f, r)
  <2>1. CASE f = 4
    BY <1>2, <1>6, <1>8, <2>1 DEF InGroup
  <2>2. CASE f # 4
    BY <1>2, <1>6, <1>7, <2>2 DEF InGroup
  <2> QED BY <2>1, <2>2
<1> QED BY <1>2, <1>3, <1>4, <1>9 DEF RowLine

\* Of the rows that arrive, an export of an earlier cut shows the staged ones.
LEMMA RowLineNew ==
    ASSUME Typed, Typed', Grown, NEW p, CutTyped(p), CutBehind(p), p.cut.log = log, p.res = "export",
           NEW f \in 0..7, NEW s \in rows', Arrived(s), NEW e, RowLine(p, f, s, e)
    PROVE  e.line = <<3, s.kind, s.id>> /\ s.log = None /\ e.line \in StagedLines(p)'
<1>1. /\ log \in Nat /\ None \notin Nat /\ head \in Nat /\ index \in Nat
      /\ p.cut.head \in Nat /\ p.cut.head <= head /\ p.cut.index \in Nat /\ p.cut.index <= index
      /\ s.seq \in Nat /\ s.idx \in Nat
  BY GrowthFacts, RowFields DEF CutTyped, CutBehind
<1>2. InGroup(p, f, s) /\ e.line = LineIn(p, f, s)
  BY EntryFields DEF RowLine
<1>3. s.idx <= p.cut.index /\ s.idx > 0 => FALSE
  BY <1>1 DEF Arrived
<1>4. s.kind \in {"compaction", "part", "record"} /\ s.idx <= p.cut.index => FALSE
  BY <1>1 DEF Arrived
<1>5. s.log = p.cut.log => s.seq > p.cut.head
  BY <1>1 DEF Arrived
<1>6. s.log \in {None, p.cut.log} /\ s.body
  BY DEF Arrived
<1>7. f = 3
  <2>1. f # 0
    BY <1>1, <1>2, <1>5 DEF InGroup
  <2>2. f \notin {1, 2, 5}
    BY <1>2, <1>4 DEF InGroup
  <2>3. f \notin {4, 6}
    BY <1>2, <1>6 DEF InGroup
  <2>4. f # 7
    BY <1>2, <1>3 DEF InGroup
  <2> QED BY <2>1, <2>2, <2>3, <2>4
<1>8. s.log = None
  BY <1>2, <1>6, <1>7 DEF InGroup
<1>9. e.line = <<3, s.kind, s.id>>
  BY <1>2, <1>7 DEF LineIn
<1>10. <<3, s.kind, s.id>> \in LinesBy(p, s)
  BY DEF LinesBy
<1> QED BY <1>8, <1>9, <1>10, StagedNext

\* A new object's line is not one that the export has had.
LEMMA NewIsForeign ==
    ASSUME Typed, NEW p, p.res = "export", CutTyped(p), NEW s, Arrived(s), s.kind \in Kinds
    PROVE  Foreign(p, <<3, s.kind, s.id>>)
<1>1. PICK x : x = <<3, s.kind, s.id>>
  OBVIOUS
<1>2. ASSUME NEW r \in rows, NEW phase, x = <<phase, r.kind, r.id>> PROVE FALSE
  <2>1. <<3, s.kind, s.id>> = <<phase, r.kind, r.id>>
    BY <1>1, <1>2
  <2>2. r.kind = s.kind /\ r.id = s.id
    BY <2>1, Triples
  <2> QED BY <2>2 DEF Arrived, Known
<1>3. ASSUME NEW n, x = <<0, "omitted", n>> PROVE FALSE
  <2>1. <<3, s.kind, s.id>> = <<0, "omitted", n>>
    BY <1>1, <1>3
  <2>2. 3 = 0
    BY <2>1, Triples
  <2> QED BY <2>2
<1>4. x[1] = 3
  BY <1>1
<1>5. \A r \in rows : x \notin LinesBy(p, r)
  BY <1>2, <1>3 DEF LinesBy
<1>6. x \notin ExpiredLines(p) /\ x \notin StagedLines(p)
  BY <1>5 DEF ExpiredLines, StagedLines
<1>7. x \notin LineSet(Lines(p))
  <2> SUFFICES ASSUME NEW e \in Lines(p), e.line = x PROVE FALSE
    BY DEF LineSet
  <2>1. e \in ExportLines(p)
    BY DEF Lines
  <2>2. ASSUME NEW f \in 0..7, NEW r \in rows, RowLine(p, f, r, e) PROVE FALSE
    <3>1. e.line = LineIn(p, f, r)
      BY <2>2, EntryFields DEF RowLine
    <3>2. LineIn(p, f, r) = <<0, "omitted", r.seq>> \/ LineIn(p, f, r) = <<f, r.kind, r.id>>
      BY DEF LineIn
    <3> QED BY <1>2, <1>3, <3>1, <3>2
  <2>3. ASSUME NEW i \in 1..p.cut.index, e = Entry(8, i, <<8, i>>) PROVE FALSE
    <3>1. e.line = <<8, i>>
      BY <2>3, EntryFields
    <3> QED BY <1>4, <3>1
  <2>4. ASSUME e = Entry(9, 1, <<9, 1>>) PROVE FALSE
    <3>1. e.line = <<9, 1>>
      BY <2>4, EntryFields
    <3> QED BY <1>4, <3>1
  <2> QED BY <2>1, <2>2, <2>3, <2>4, ExportShape
<1> QED BY <1>1, <1>6, <1>7 DEF Foreign

\* While nothing is pruned an export loses lines by expiry and gains lines by staging only.
LEMMA ExportLinesGrow ==
    ASSUME Typed, Typed', Tables, Grown, min' = min, NEW p, CutTyped(p), p.cut.log = log, CutBehind(p), p.res = "export"
    PROVE  /\ \A e \in Lines(p) : e \in Lines(p)' \/ e.line \in ExpiredLines(p)'
           /\ \A e \in Lines(p)' : e \in Lines(p) \/ (e.line \in StagedLines(p)' /\ Foreign(p, e.line))
<1>1. Lines(p) = ExportLines(p) /\ Lines(p)' = ExportLines(p)'
  BY DEF Lines
<1>2. ASSUME NEW e \in Lines(p) PROVE e \in Lines(p)' \/ e.line \in ExpiredLines(p)'
  <2>1. ASSUME NEW f \in 0..7, NEW r \in rows, RowLine(p, f, r, e)
        PROVE  e \in Lines(p)' \/ e.line \in ExpiredLines(p)'
    <3>1. PICK s \in rows' : Worn(r, s)
      BY DEF Grown, RowsGrow
    <3>2. \/ RowLine(p, f, s, e)
          \/ s.kind = "envelope" /\ s.epoch \in expired' /\ e.line \in LinesBy(p, s)
      BY <2>1, <3>1, RowLineStays
    <3>3. RowLine(p, f, s, e) => e \in Lines(p)'
      BY <1>1, ExportShapeNext
    <3> QED BY <3>2, <3>3, ExpiredNext
  <2>2. (\E i \in 1..p.cut.index : e = Entry(8, i, <<8, i>>)) \/ e = Entry(9, 1, <<9, 1>>) => e \in Lines(p)'
    BY <1>1, ExportShapeNext
  <2>3. \/ \E f \in 0..7 : \E r \in rows : RowLine(p, f, r, e)
        \/ \E i \in 1..p.cut.index : e = Entry(8, i, <<8, i>>)
        \/ e = Entry(9, 1, <<9, 1>>)
    BY <1>1, ExportShape
  <2> QED BY <2>1, <2>2, <2>3
<1>3. ASSUME NEW e \in Lines(p)'
      PROVE  e \in Lines(p) \/ (e.line \in StagedLines(p)' /\ Foreign(p, e.line))
  <2>1. ASSUME NEW f \in 0..7, NEW s \in rows', RowLine(p, f, s, e)
        PROVE  e \in Lines(p) \/ (e.line \in StagedLines(p)' /\ Foreign(p, e.line))
    <3>1. Arrived(s) \/ \E r \in rows : Worn(r, s)
      BY DEF Grown, RowsGrow
    <3>2. CASE Arrived(s)
      <4>1. e.line = <<3, s.kind, s.id>> /\ e.line \in StagedLines(p)'
        BY <2>1, <3>2, RowLineNew
      <4>2. s.kind \in Kinds
        BY GrowthFacts, RowFields
      <4>3. Foreign(p, <<3, s.kind, s.id>>)
        BY <3>2, <4>2, NewIsForeign
      <4> QED BY <4>1, <4>3
    <3>3. ASSUME NEW r \in rows, Worn(r, s) PROVE e \in Lines(p)
      <4>1. RowLine(p, f, r, e)
        BY <2>1, <3>3, RowLineWas
      <4> QED BY <1>1, <4>1, ExportShape
    <3> QED BY <3>1, <3>2, <3>3
  <2>2. (\E i \in 1..p.cut.index : e = Entry(8, i, <<8, i>>)) \/ e = Entry(9, 1, <<9, 1>>) => e \in Lines(p)
    BY <1>1, ExportShape
  <2>3. \/ \E f \in 0..7 : \E s \in rows' : RowLine(p, f, s, e)
        \/ \E i \in 1..p.cut.index : e = Entry(8, i, <<8, i>>)
        \/ e = Entry(9, 1, <<9, 1>>)
    BY <1>1, ExportShapeNext
  <2> QED BY <2>1, <2>2, <2>3
<1> QED BY <1>2, <1>3

-----------------------------------------------------------------------------
(* What the reader has *)

\* A pinned listing L: the lines up to the cursor.
PinnedIn(p, L, got, count, want) ==
    /\ IsFiniteSet(got) /\ count = Cardinality(got)
    /\ \E s \in Int :
        /\ \A d \in L : d.key > s \/ Passed(p, d)
        /\ want = {e.line : e \in {d \in L : d.key > s}}
        /\ got = {e.line : e \in {d \in L : d.key > s /\ Passed(p, d)}}
\* A listing L from which the lines X went and to which the lines S came.
TornIn(p, L, X, S, got, count, want) ==
    /\ IsFiniteSet(got) /\ count = Cardinality(got)
    /\ \A x \in got : x \in want \/ x \in S
    /\ \A x \in want : x \in LineSet(L) \/ x \in X
    /\ \A e \in L : /\ e.line \in want \/ e.line \in S
                    /\ Passed(p, e) /\ e.line \in want => e.line \in got
                    /\ e.line \in got => Passed(p, e)
\* What the reader has received is what its listing has up to the cursor.
Followed(p, got, count, want) ==
    /\ p.res \notin {"envelopes", "export"} => PinnedIn(p, Lines(p), got, count, want)
    /\ p.res \in {"envelopes", "export"} =>
         TornIn(p, Lines(p), ExpiredLines(p), StagedLines(p), got, count, want)

\* The inductive invariant of a reader: its cut is a former state of the chain; while the log is
\* that of the cut it has followed its listing, and it is done when the cursor is behind every line.
ReaderOk(q) ==
    q.st \in {"paging", "done"} =>
        /\ CutTyped(q) /\ q.cut.log <= log
        /\ q.cut.log = log => CutBehind(q)
        /\ q.st = "paging" => CursorIn(q)
        /\ Current(q) => Followed(q, q.got, q.count, q.want)
        /\ q.st = "done" => Current(q) /\ \A e \in Lines(q) : Passed(q, e)
ReaderInv == \A q : q = reader => ReaderOk(q)

\* A torn listing stays one when lines go to Y and come from T.
LEMMA TornKept ==
    ASSUME NEW p, NEW L, NEW X, NEW S, NEW M, NEW Y, NEW T, NEW got, NEW count, NEW want,
           TornIn(p, L, X, S, got, count, want),
           \A x \in X : x \in Y, \A x \in S : x \in T,
           \A e \in L : e \in M \/ e.line \in Y,
           \A e \in M : \/ e \in L
                        \/ /\ e.line \in T
                           /\ e.line \notin LineSet(L) /\ e.line \notin X /\ e.line \notin S
    PROVE  TornIn(p, M, Y, T, got, count, want)
<1>1. /\ IsFiniteSet(got) /\ count = Cardinality(got)
      /\ \A x \in got : x \in want \/ x \in S
      /\ \A x \in want : x \in LineSet(L) \/ x \in X
      /\ \A e \in L : /\ e.line \in want \/ e.line \in S
                      /\ Passed(p, e) /\ e.line \in want => e.line \in got
                      /\ e.line \in got => Passed(p, e)
  BY DEF TornIn
<1>2. \A x \in got : x \in want \/ x \in T
  BY <1>1
<1>3. \A x \in want : x \in LineSet(M) \/ x \in Y
  BY <1>1 DEF LineSet
<1>4. ASSUME NEW e \in M
      PROVE  /\ e.line \in want \/ e.line \in T
             /\ Passed(p, e) /\ e.line \in want => e.line \in got
             /\ e.line \in got => Passed(p, e)
  <2>1. CASE e \in L
    BY <1>1, <2>1
  <2>2. CASE e \notin L
    <3>1. e.line \in T /\ e.line \notin want /\ e.line \notin got
      BY <1>1, <2>2
    <3> QED BY <3>1
  <2> QED BY <2>1, <2>2
<1> QED BY <1>1, <1>2, <1>3, <1>4 DEF TornIn

\* A write to the live log leaves what the reader has followed.
LEMMA FollowedGrows ==
    ASSUME Typed, Typed', Tables, Tables', Grown, NEW p, CutTyped(p), p.cut.log = log, CutBehind(p),
           p.res = "export" => min' = min,
           NEW got, NEW count, NEW want, Followed(p, got, count, want)
    PROVE  Followed(p, got, count, want)'
<1>1. CASE p.res \notin {"envelopes", "export"}
  <2>1. Lines(p)' = Lines(p)
    BY <1>1, PinnedLines
  <2>2. PinnedIn(p, Lines(p), got, count, want)
    BY <1>1 DEF Followed
  <2>3. PinnedIn(p, Lines(p)', got, count, want)
    BY <2>1, <2>2
  <2>4. PinnedIn(p, Lines(p), got, count, want)'
    BY <2>3 DEF PinnedIn, Passed
  <2> QED BY <1>1, <2>4 DEF Followed
<1>2. CASE p.res \in {"envelopes", "export"}
  <2>1. PICK L, X, S, M, Y, T : /\ L = Lines(p) /\ X = ExpiredLines(p) /\ S = StagedLines(p)
                                /\ M = Lines(p)' /\ Y = ExpiredLines(p)' /\ T = StagedLines(p)'
    OBVIOUS
  <2>2. TornIn(p, L, X, S, got, count, want)
    BY <1>2, <2>1 DEF Followed
  <2>3. (\A x \in X : x \in Y) /\ (\A x \in S : x \in T)
    BY <2>1, ExpiredLinesGrow, StagedLinesGrow
  <2>4. /\ \A e \in Lines(p) : e \in Lines(p)' \/ e.line \in ExpiredLines(p)'
        /\ \A e \in Lines(p)' : e \in Lines(p) \/ (e.line \in StagedLines(p)' /\ Foreign(p, e.line))
    BY <1>2, EnvelopeLinesGrow, ExportLinesGrow
  <2>5. /\ \A e \in L : e \in M \/ e.line \in Y
        /\ \A e \in M : \/ e \in L
                        \/ /\ e.line \in T
                           /\ e.line \notin LineSet(L) /\ e.line \notin X /\ e.line \notin S
    BY <2>1, <2>4 DEF Foreign
  <2>6. TornIn(p, M, Y, T, got, count, want)
    BY <2>2, <2>3, <2>5, TornKept
  <2>7. TornIn(p, Lines(p), ExpiredLines(p), StagedLines(p), got, count, want)'
    BY <2>1, <2>6 DEF TornIn, Passed, LineSet
  <2> QED BY <1>2, <2>7 DEF Followed
<1> QED BY <1>1, <1>2

\* Current after a write of the live log: then nothing was pruned either.
LEMMA CurrentBefore ==
    ASSUME Typed, Typed', Grown, NEW q, CutTyped(q), q.cut.log = log => CutBehind(q), Current(q)'
    PROVE  Current(q) /\ q.cut.log = log /\ CutBehind(q) /\ (q.res = "export" => min' = min)
<1>1. q.cut.log = log' /\ (q.res = "export" => q.cut.min = min')
  BY DEF Current
<1>2. /\ log' = log /\ min <= min' /\ min \in Nat /\ min' \in Nat /\ q.cut.min \in Nat
  BY GrowthFacts DEF CutTyped
<1>3. q.cut.log = log /\ CutBehind(q)
  BY <1>1, <1>2
<1>4. q.cut.min <= min
  BY <1>3 DEF CutBehind
<1>5. q.res = "export" => min' = min /\ q.cut.min = min
  BY <1>1, <1>2, <1>4
<1> QED BY <1>3, <1>5 DEF Current

\* Every conjunct but the last one.
LEMMA ReaderKeeps ==
    ASSUME Typed, Typed', Tables, Tables', Grown, NEW q, ReaderOk(q), q.st \in {"paging", "done"}
    PROVE  /\ CutTyped(q)' /\ (q.cut.log <= log)'
           /\ (q.cut.log = log => CutBehind(q))'
           /\ (q.st = "paging" => CursorIn(q))'
           /\ (Current(q) => Followed(q, q.got, q.count, q.want))'
<1>1. /\ CutTyped(q) /\ q.cut.log <= log
      /\ q.cut.log = log => CutBehind(q)
      /\ q.st = "paging" => CursorIn(q)
      /\ Current(q) => Followed(q, q.got, q.count, q.want)
  BY DEF ReaderOk
<1>2. CutTyped(q)' /\ (q.st = "paging" => CursorIn(q)')
  BY <1>1 DEF CutTyped, CursorIn
<1>3. q.cut.log <= log' /\ log' = log
  BY <1>1, GrowthFacts
<1>4. q.cut.log = log' => CutBehind(q)'
  BY <1>1, <1>3, GrownCut
<1>5. ASSUME Current(q)' PROVE Followed(q, q.got, q.count, q.want)'
  <2>1. Current(q) /\ q.cut.log = log /\ CutBehind(q) /\ (q.res = "export" => min' = min)
    BY <1>1, <1>5, CurrentBefore
  <2>2. PICK got, count, want : got = q.got /\ count = q.count /\ want = q.want
    OBVIOUS
  <2>3. Followed(q, got, count, want)
    BY <1>1, <2>1, <2>2
  <2>4. Followed(q, got, count, want)'
    BY <1>1, <2>1, <2>3, FollowedGrows
  <2> QED BY <2>2, <2>4
<1> QED BY <1>2, <1>3, <1>4, <1>5

\* A write to the live log keeps the reader's invariant.
LEMMA ReaderGrows ==
    ASSUME Typed, Typed', Tables, Tables', Grown, NEW q, ReaderOk(q), q.st # "done"
    PROVE  ReaderOk(q)'
<1>1. CASE q.st \in {"paging", "done"}
  BY <1>1, ReaderKeeps DEF ReaderOk
<1>2. CASE q.st \notin {"paging", "done"}
  BY <1>2 DEF ReaderOk
<1> QED BY <1>1, <1>2

\* After a reseed the cut is of another log: the next page fails.
LEMMA ReaderReseeded ==
    ASSUME Typed, Typed', log' = log + 1, NEW q, ReaderOk(q), q.st # "done"
    PROVE  ReaderOk(q)'
<1>1. CASE q.st = "paging"
  <2>1. CutTyped(q) /\ q.cut.log <= log /\ CursorIn(q)
    BY <1>1 DEF ReaderOk
  <2>2. CutTyped(q)' /\ CursorIn(q)'
    BY <2>1 DEF CutTyped, CursorIn
  <2>3. q.cut.log <= log' /\ q.cut.log # log'
    <3>1. q.cut.log \in Nat /\ log \in Nat
      BY <2>1, TypedFacts DEF CutTyped
    <3> QED BY <2>1, <3>1
  <2>4. ~Current(q)'
    BY <2>3 DEF Current
  <2> QED BY <1>1, <2>2, <2>3, <2>4 DEF ReaderOk
<1>2. CASE q.st # "paging"
  BY <1>2 DEF ReaderOk
<1> QED BY <1>1, <1>2

\* A step that changes no table keeps the reader's invariant.
LEMMA ReaderIdle ==
    ASSUME Typed, Tables, UNCHANGED <<chain, tables>>, NEW q, ReaderOk(q)
    PROVE  ReaderOk(q)'
<1>0. Typed' /\ Tables' /\ Grown
  BY IdleGrows
<1>1. CASE q.st = "done"
  <2>1. /\ CutTyped(q)' /\ (q.cut.log <= log)'
        /\ (q.cut.log = log => CutBehind(q))'
        /\ (q.st = "paging" => CursorIn(q))'
        /\ (Current(q) => Followed(q, q.got, q.count, q.want))'
    BY <1>0, <1>1, ReaderKeeps
  <2>2. /\ CutTyped(q) /\ q.cut.log <= log /\ Current(q)
        /\ q.cut.log = log => CutBehind(q)
        /\ \A e \in Lines(q) : Passed(q, e)
    BY <1>1 DEF ReaderOk
  <2>3. log' = log /\ min' = min /\ rows' = rows
    BY DEF chain, tables
  <2>4. Current(q)' /\ q.cut.log = log /\ CutBehind(q)
    BY <2>2, <2>3 DEF Current
  <2>5. ASSUME NEW e \in Lines(q)' PROVE e \in Lines(q)
    <3>1. CASE q.res \notin {"envelopes", "export"}
      BY <1>0, <2>2, <2>4, <2>5, <3>1, PinnedLines
    <3>2. CASE q.res \in {"envelopes", "export"}
      <4>1. e \in Lines(q) \/ (e.line \in StagedLines(q)' /\ Foreign(q, e.line))
        BY <1>0, <2>2, <2>3, <2>4, <2>5, <3>2, EnvelopeLinesGrow, ExportLinesGrow
      <4>2. StagedLines(q)' = StagedLines(q)
        BY <2>3 DEF StagedLines, LinesBy, Line
      <4> QED BY <4>1, <4>2 DEF Foreign
    <3> QED BY <3>1, <3>2
  <2>6. \A e \in Lines(q)' : Passed(q, e)'
    BY <2>2, <2>5 DEF Passed
  <2> QED BY <2>1, <2>4, <2>6 DEF ReaderOk
<1>2. CASE q.st # "done"
  BY <1>0, <1>2, ReaderGrows
<1> QED BY <1>1, <1>2

-----------------------------------------------------------------------------
(* A page of a listing *)
\* Two pages of one listing.
Alike(p, q) == q.res = p.res /\ q.cut = p.cut /\ q.device = p.device /\ q.include = p.include

\* The lines of a row depend on the cut, not on the cursor.
LEMMA AlikeRows ==
    ASSUME NEW p, NEW q, Alike(p, q), NEW f, NEW r, NEW e
    PROVE  RowLine(q, f, r, e) <=> RowLine(p, f, r, e)
<1>1. q.res = p.res /\ q.cut = p.cut /\ q.device = p.device /\ q.include = p.include
  BY DEF Alike
<1>2. InGroup(q, f, r) <=> InGroup(p, f, r)
  BY <1>1 DEF InGroup
<1>3. Hidden(q, f, r) <=> Hidden(p, f, r)
  BY <1>1 DEF Hidden
<1>4. LineIn(q, f, r) = LineIn(p, f, r)
  BY <1>1 DEF LineIn
<1> QED BY <1>2, <1>3, <1>4 DEF RowLine

\* The listing depends on the cut, not on the cursor.
LEMMA AlikeLines ==
    ASSUME NEW p, NEW q, Alike(p, q)
    PROVE  /\ Lines(q) = Lines(p) /\ ExpiredLines(q) = ExpiredLines(p) /\ StagedLines(q) = StagedLines(p)
           /\ CutTyped(p) => CutTyped(q)
           /\ CutBehind(p) => CutBehind(q)
           /\ Current(p) => Current(q)
<1>1. q.res = p.res /\ q.cut = p.cut /\ q.device = p.device /\ q.include = p.include
  BY DEF Alike
<1>2. LogLines(q) = LogLines(p)
  BY <1>1 DEF LogLines
<1>3. EpochLines(q) = EpochLines(p)
  BY <1>1 DEF EpochLines, WithinCut
<1>4. StatusLines(q) = StatusLines(p)
  BY <1>1 DEF StatusLines
<1>5. RequestLines(q) = RequestLines(p)
  <2>1. RequestsOf(q) = RequestsOf(p)
    BY <1>1 DEF RequestsOf
  <2> QED BY <2>1 DEF RequestLines
<1>6. HeadLines(q) = HeadLines(p)
  BY <1>1 DEF HeadLines
<1>7. EnvelopeLines(q) = EnvelopeLines(p)
  BY <1>1 DEF EnvelopeLines, WithinCut
<1>8. ExportLines(q) = ExportLines(p)
  <2>1. ASSUME NEW e PROVE e \in ExportLines(q) <=> e \in ExportLines(p)
    <3>1. \A f \in 0..7 : \A r \in rows : RowLine(q, f, r, e) <=> RowLine(p, f, r, e)
      BY AlikeRows
    <3>2. 1..q.cut.index = 1..p.cut.index
      BY <1>1
    <3>3. e \in ExportLines(p) <=>
             \/ \E f \in 0..7 : \E r \in rows : RowLine(p, f, r, e)
             \/ \E i \in 1..p.cut.index : e = Entry(8, i, <<8, i>>)
             \/ e = Entry(9, 1, <<9, 1>>)
      BY ExportShape
    <3>4. e \in ExportLines(q) <=>
             \/ \E f \in 0..7 : \E r \in rows : RowLine(q, f, r, e)
             \/ \E i \in 1..q.cut.index : e = Entry(8, i, <<8, i>>)
             \/ e = Entry(9, 1, <<9, 1>>)
      BY ExportShape
    <3> QED BY <3>1, <3>2, <3>3, <3>4
  <2> QED BY <2>1
<1>9. Lines(q) = Lines(p)
  BY <1>1, <1>2, <1>3, <1>4, <1>5, <1>6, <1>7, <1>8 DEF Lines
<1>10. ExpiredLines(q) = ExpiredLines(p) /\ StagedLines(q) = StagedLines(p)
  <2>1. \A r : LinesBy(q, r) = LinesBy(p, r)
    BY <1>1 DEF LinesBy
  <2> QED BY <2>1 DEF ExpiredLines, StagedLines
<1>11. CutTyped(p) => CutTyped(q)
  BY <1>1 DEF CutTyped
<1>12. CutBehind(p) => CutBehind(q)
  BY <1>1 DEF CutBehind, WithinCut
<1>13. Current(p) => Current(q)
  BY <1>1 DEF Current
<1> QED BY <1>9, <1>10, <1>11, <1>12, <1>13

\* Two disjoint sets of lines.
LEMMA Counted ==
    ASSUME NEW A, IsFiniteSet(A), NEW B, IsFiniteSet(B), A \cap B = {}
    PROVE  IsFiniteSet(A \cup B) /\ Cardinality(A \cup B) = Cardinality(A) + Cardinality(B)
<1>1. /\ IsFiniteSet(A \cup B)
      /\ Cardinality(A \cup B) = Cardinality(A) + Cardinality(B) - Cardinality(A \cap B)
  BY FS_Union
<1>2. Cardinality(A \cap B) = 0
  BY FS_EmptySet
<1>3. Cardinality(A) \in Nat /\ Cardinality(B) \in Nat
  BY FS_CardinalityType
<1> QED BY <1>1, <1>2, <1>3

\* The page a after p, of a listing L whose lines are all different.
Turns(p, a, L, items) ==
    /\ IsFiniteSet(items)
    /\ items = {e.line : e \in {f \in L : ~Passed(p, f) /\ Passed(a, f)}}
    /\ \A e \in L : Passed(p, e) => Passed(a, e)
    /\ \A e, f \in L : e.line = f.line => e = f

\* A page of a pinned listing.
LEMMA PinnedTurn ==
    ASSUME NEW p, NEW a, NEW L, NEW items, Turns(p, a, L, items),
           NEW got, NEW count, NEW want, PinnedIn(p, L, got, count, want)
    PROVE  PinnedIn(a, L, got \cup items, count + Cardinality(items), want)
<1>1. /\ IsFiniteSet(items)
      /\ items = {e.line : e \in {f \in L : ~Passed(p, f) /\ Passed(a, f)}}
      /\ \A e \in L : Passed(p, e) => Passed(a, e)
      /\ \A e, f \in L : e.line = f.line => e = f
  BY DEF Turns
<1>2. IsFiniteSet(got) /\ count = Cardinality(got)
  BY DEF PinnedIn
<1>3. PICK s \in Int : /\ \A d \in L : d.key > s \/ Passed(p, d)
                       /\ want = {e.line : e \in {d \in L : d.key > s}}
                       /\ got = {e.line : e \in {d \in L : d.key > s /\ Passed(p, d)}}
  BY DEF PinnedIn
<1>4. got \cap items = {}
  <2> SUFFICES ASSUME NEW x \in got, x \in items PROVE FALSE
    OBVIOUS
  <2>1. PICK e \in L : Passed(p, e) /\ x = e.line
    BY <1>3
  <2>2. PICK f \in L : ~Passed(p, f) /\ x = f.line
    BY <1>1
  <2> QED BY <1>1, <2>1, <2>2
<1>5. IsFiniteSet(got \cup items) /\ count + Cardinality(items) = Cardinality(got \cup items)
  BY <1>1, <1>2, <1>4, Counted
<1>6. got \cup items = {e.line : e \in {d \in L : d.key > s /\ Passed(a, d)}}
  <2>1. ASSUME NEW e \in L, e.key > s, Passed(a, e) PROVE e.line \in got \cup items
    BY <1>1, <1>3, <2>1
  <2>2. ASSUME NEW x \in got PROVE \E e \in L : e.key > s /\ Passed(a, e) /\ x = e.line
    BY <1>1, <1>3
  <2>3. ASSUME NEW x \in items PROVE \E e \in L : e.key > s /\ Passed(a, e) /\ x = e.line
    BY <1>1, <1>3
  <2> QED BY <2>1, <2>2, <2>3
<1>7. \A d \in L : d.key > s \/ Passed(a, d)
  BY <1>1, <1>3
<1>8. \E t \in Int : /\ \A d \in L : d.key > t \/ Passed(a, d)
                     /\ want = {e.line : e \in {d \in L : d.key > t}}
                     /\ got \cup items = {e.line : e \in {d \in L : d.key > t /\ Passed(a, d)}}
  BY <1>3, <1>6, <1>7
<1> QED BY <1>5, <1>8 DEF PinnedIn

\* A page of a torn listing.
LEMMA TornTurn ==
    ASSUME NEW p, NEW a, NEW L, NEW items, Turns(p, a, L, items), NEW X, NEW S,
           NEW got, NEW count, NEW want, TornIn(p, L, X, S, got, count, want)
    PROVE  TornIn(a, L, X, S, got \cup items, count + Cardinality(items), want)
<1>1. /\ IsFiniteSet(items)
      /\ items = {e.line : e \in {f \in L : ~Passed(p, f) /\ Passed(a, f)}}
      /\ \A e \in L : Passed(p, e) => Passed(a, e)
      /\ \A e, f \in L : e.line = f.line => e = f
  BY DEF Turns
<1>2. /\ IsFiniteSet(got) /\ count = Cardinality(got)
      /\ \A x \in got : x \in want \/ x \in S
      /\ \A x \in want : x \in LineSet(L) \/ x \in X
      /\ \A e \in L : /\ e.line \in want \/ e.line \in S
                      /\ Passed(p, e) /\ e.line \in want => e.line \in got
                      /\ e.line \in got => Passed(p, e)
  BY DEF TornIn
<1>3. \A x \in items : \E f \in L : ~Passed(p, f) /\ Passed(a, f) /\ x = f.line
  BY <1>1
<1>4. got \cap items = {}
  BY <1>2, <1>3
<1>5. IsFiniteSet(got \cup items) /\ count + Cardinality(items) = Cardinality(got \cup items)
  BY <1>1, <1>2, <1>4, Counted
<1>6. \A x \in got \cup items : x \in want \/ x \in S
  BY <1>2, <1>3
<1>7. ASSUME NEW e \in L
      PROVE  /\ Passed(a, e) /\ e.line \in want => e.line \in got \cup items
             /\ e.line \in got \cup items => Passed(a, e)
  <2>1. Passed(a, e) /\ e.line \in want => e.line \in got \cup items
    BY <1>1, <1>2
  <2>2. e.line \in got => Passed(a, e)
    BY <1>1, <1>2
  <2>3. e.line \in items => Passed(a, e)
    BY <1>1, <1>3
  <2> QED BY <2>1, <2>2, <2>3
<1> QED BY <1>2, <1>5, <1>6, <1>7 DEF TornIn

\* The fields of the reader after a page.
LEMMA ReceivedFields ==
    ASSUME NEW p, NEW a, NEW got, NEW count, NEW pages, NEW want, NEW q, q = Received(p, a, got, count, pages, want)
    PROVE  /\ Alike(p, q) /\ q.at = a.at /\ q.phase = a.phase /\ q.st = a.st
           /\ q.got = got \cup a.items /\ q.count = count + Cardinality(a.items) /\ q.want = want
BY DEF Received, Alike

\* A failure is not a page.
LEMMA FailedFields ==
    ASSUME NEW code
    PROVE  Failed(code).st = "failed"
BY DEF Failed

\* Whatever the answer is, the reader goes on as it should.
LEMMA PageTurns ==
    ASSUME Typed, Tables, NEW p, CutTyped(p), p.cut.log = log, CutBehind(p), CursorIn(p),
           NEW got, NEW count, NEW pages, NEW want, Followed(p, got, count, want),
           NEW q, q = Received(p, Respond(p), got, count, pages, want)
    PROVE  /\ ReaderOk(q)
           /\ q.st = "paging" => \/ q.phase > p.phase
                                 \/ q.phase = p.phase /\ q.at > p.at
<1>0. PICK a : a = Respond(p)
  OBVIOUS
<1>1. /\ Alike(p, q) /\ q.at = a.at /\ q.phase = a.phase /\ q.st = a.st
      /\ q.got = got \cup a.items /\ q.count = count + Cardinality(a.items) /\ q.want = want
  BY <1>0, ReceivedFields
<1>2. CASE \E code : Respond(p) = Failed(code)
  <2>1. q.st = "failed"
    BY <1>0, <1>1, <1>2, FailedFields
  <2> QED BY <2>1 DEF ReaderOk
<1>3. CASE Current(p) /\ Turned(p, Respond(p))
  <2>1. Turned(p, a)
    BY <1>0, <1>3
  <2>2. /\ Lines(q) = Lines(p) /\ ExpiredLines(q) = ExpiredLines(p) /\ StagedLines(q) = StagedLines(p)
        /\ CutTyped(q) /\ CutBehind(q) /\ Current(q)
    BY <1>1, <1>3, AlikeLines
  <2>3. \A e : Passed(q, e) <=> Passed(a, e)
    BY <1>1 DEF Passed
  <2>4. PICK L, items : L = Lines(p) /\ items = a.items
    OBVIOUS
  <2>5. Turns(p, q, L, items)
    <3>1. \A e, f \in L : e.line = f.line => e = f
      BY <2>4, Places
    <3>2. /\ IsFiniteSet(items)
          /\ items = {e.line : e \in {f \in L : ~Passed(p, f) /\ Passed(a, f)}}
          /\ \A e \in L : Passed(p, e) => Passed(a, e)
      BY <2>1, <2>4 DEF Turned
    <3>3. {f \in L : ~Passed(p, f) /\ Passed(a, f)} = {f \in L : ~Passed(p, f) /\ Passed(q, f)}
      BY <2>3
    <3>4. \A e \in L : Passed(p, e) => Passed(q, e)
      BY <2>3, <3>2
    <3> QED BY <3>1, <3>2, <3>3, <3>4 DEF Turns
  <2>6. q.res = p.res /\ q.cut = p.cut
    BY <1>1 DEF Alike
  <2>7. Followed(q, q.got, q.count, q.want)
    <3>1. CASE p.res \notin {"envelopes", "export"}
      <4>1. PinnedIn(p, L, got, count, want)
        BY <2>4, <3>1 DEF Followed
      <4>2. PinnedIn(q, L, got \cup items, count + Cardinality(items), want)
        BY <2>5, <4>1, PinnedTurn
      <4> QED BY <1>1, <2>2, <2>4, <2>6, <3>1, <4>2 DEF Followed
    <3>2. CASE p.res \in {"envelopes", "export"}
      <4>0. PICK X, S : X = ExpiredLines(p) /\ S = StagedLines(p)
        OBVIOUS
      <4>1. TornIn(p, L, X, S, got, count, want)
        BY <2>4, <3>2, <4>0 DEF Followed
      <4>2. TornIn(q, L, X, S, got \cup items, count + Cardinality(items), want)
        BY <2>5, <4>1, TornTurn
      <4> QED BY <1>1, <2>2, <2>4, <2>6, <3>2, <4>0, <4>2 DEF Followed
    <3> QED BY <3>1, <3>2
  <2>8. q.st = "paging" => CursorIn(q)
    BY <1>1, <2>1, <2>6 DEF Turned, CursorIn
  <2>9. q.st = "done" => \A e \in Lines(q) : Passed(q, e)
    <3>1. a.st = "done" => \A e \in Lines(p) : Passed(a, e)
      BY <2>1 DEF Turned
    <3> QED BY <1>1, <2>2, <2>3, <3>1
  <2>10. q.cut.log <= log
    BY <2>6, TypedFacts
  <2>11. ReaderOk(q)
    BY <2>2, <2>7, <2>8, <2>9, <2>10 DEF ReaderOk
  <2>12. q.st = "paging" => \/ q.phase > p.phase
                            \/ q.phase = p.phase /\ q.at > p.at
    BY <1>1, <2>1 DEF Turned
  <2> QED BY <2>11, <2>12
<1> QED BY <1>2, <1>3, RespondTurns

-----------------------------------------------------------------------------
(* The first page *)
CutNow == [log |-> log, head |-> head, index |-> index, min |-> min, boundary |-> boundary,
           registry |-> Len(history), offers |-> Len(offers)]
\* Where a listing starts.
Start(res, at) ==
    /\ res \in Listings
    /\ res \in {"log", "records"} => at \in Nat
    /\ res = "epochs" => at = -1
    /\ res \notin {"log", "records", "epochs"} => at = 0
\* The first page.
Opening(p) ==
    /\ Start(p.res, p.at) /\ p.cut = CutNow /\ p.phase = 0
    /\ p.res = "envelopes" => p.device \in 1..9
\* The listing at the first page.
WantOf(p) == IF p.res = "export" THEN {x.line : x \in Left(p)} ELSE Want(p.res, p.device, p.include, p.at)

\* The cut of the first page is the chain.
LEMMA OpeningCut ==
    ASSUME Typed, Tables, NEW p, Opening(p)
    PROVE  /\ CutTyped(p) /\ p.cut.log = log /\ CutBehind(p) /\ CursorIn(p)
           /\ p.cut.head = head /\ p.cut.index = index /\ p.cut.registry = Len(history)
           /\ p.cut.offers = Len(offers)
<1>1. /\ p.cut.log = log /\ p.cut.head = head /\ p.cut.index = index /\ p.cut.min = min
      /\ p.cut.registry = Len(history) /\ p.cut.offers = Len(offers) /\ p.phase = 0
      /\ Start(p.res, p.at)
  BY DEF Opening, CutNow
<1>2. p.res \in Listings
  BY <1>1 DEF Start
<1>3. CutTyped(p)
  BY <1>1, <1>2, TypedFacts DEF CutTyped
<1>4. CursorIn(p)
  BY <1>1 DEF Start, CursorIn
<1>5. \A i \in 1..p.cut.registry : \E r \in rows :
         Same(r, Device(history[i].device)) /\ r.log # None /\ WithinCut(r, p)
  <2>1. \A r \in rows : WithinCut(r, p)
    BY <1>1 DEF Tables, RowsSound, Placed, WithinCut
  <2> QED BY <1>1, <2>1 DEF Tables, Registered, RegisteredAt
<1>6. CutBehind(p)
  BY <1>1, <1>5, TypedFacts DEF CutBehind
<1> QED BY <1>1, <1>3, <1>4, <1>6

\* Before the first page of a pinned listing nothing is received.
LEMMA OpeningPinned ==
    ASSUME NEW p, NEW L, NEW want, p.at \in Int, p.phase = 0, \A e \in L : e.phase = 0 /\ e.key \in Int,
           want = {e.line : e \in {d \in L : d.key > p.at}}
    PROVE  PinnedIn(p, L, {}, 0, want)
<1>1. \A e \in L : Passed(p, e) <=> ~(e.key > p.at)
  BY DEF Passed
<1>2. {e.line : e \in {d \in L : d.key > p.at /\ Passed(p, d)}} = {}
  BY <1>1
<1>3. IsFiniteSet({}) /\ Cardinality({}) = 0
  BY FS_EmptySet
<1>4. \E s \in Int : /\ \A d \in L : d.key > s \/ Passed(p, d)
                     /\ want = {e.line : e \in {d \in L : d.key > s}}
                     /\ {} = {e.line : e \in {d \in L : d.key > s /\ Passed(p, d)}}
  BY <1>1, <1>2
<1> QED BY <1>3, <1>4 DEF PinnedIn

\* Before the first page of a torn listing nothing is received.
LEMMA OpeningTorn ==
    ASSUME NEW p, NEW L, NEW X, NEW S, NEW want, want = LineSet(L), \A e \in L : ~Passed(p, e)
    PROVE  TornIn(p, L, X, S, {}, 0, want)
<1>1. IsFiniteSet({}) /\ Cardinality({}) = 0
  BY FS_EmptySet
<1>2. \A e \in L : e.line \in want
  BY DEF LineSet
<1> QED BY <1>1, <1>2 DEF TornIn

\* The wanted listing is that of the cut: the log and the records,
LEMMA OpeningLog ==
    ASSUME Typed, Tables, NEW p, Opening(p), p.res \in {"log", "records"}
    PROVE  /\ \A e \in Lines(p) : e.phase = 0 /\ e.key \in Int
           /\ WantOf(p) = {e.line : e \in {d \in Lines(p) : d.key > p.at}}
<1>1. p.cut.log = log /\ p.cut.head = head
  BY OpeningCut
<1> DEFINE In(q) == q.log = log /\ (p.res = "log" \/ q.kind = "record")
<1>2. \A r \in rows : r.log = log => r.seq <= p.cut.head
  BY <1>1 DEF Tables, RowsSound, Placed
<1>3. Lines(p) = {Entry(0, r.seq, Line(r)) : r \in {q \in rows : In(q)}}
  <2>1. Lines(p) = LogLines(p)
    BY DEF Lines
  <2> QED BY <1>1, <1>2, <2>1 DEF LogLines
<1>4. WantOf(p) = {Line(r) : r \in {q \in rows : In(q) /\ q.seq > p.at}}
  <2>1. WantOf(p) = Want(p.res, p.device, p.include, p.at)
    BY DEF WantOf
  <2>2. Want(p.res, p.device, p.include, p.at) =
          {Line(r) : r \in {q \in rows : q.log = log /\ q.seq > p.at /\ (p.res = "log" \/ q.kind = "record")}}
    BY DEF Want
  <2> QED BY <2>1, <2>2
<1>5. \A r \in rows : r.seq \in Nat
  BY TypedFacts, RowFields
<1> HIDE DEF In
<1>6. \A e \in Lines(p) : e.phase = 0 /\ e.key \in Int
  BY <1>3, <1>5, EntryFields
<1>7. ASSUME NEW r \in rows, In(r), r.seq > p.at
      PROVE  \E e \in Lines(p) : e.key > p.at /\ e.line = Line(r)
  <2>1. Entry(0, r.seq, Line(r)) \in Lines(p)
    BY <1>3, <1>7
  <2> QED BY <1>7, <2>1, EntryFields
<1>8. ASSUME NEW e \in Lines(p), e.key > p.at
      PROVE  \E r \in rows : In(r) /\ r.seq > p.at /\ e.line = Line(r)
  <2>1. PICK r \in rows : In(r) /\ e = Entry(0, r.seq, Line(r))
    BY <1>3
  <2>2. e.key = r.seq /\ e.line = Line(r)
    BY <2>1, EntryFields
  <2> QED BY <1>8, <2>1, <2>2
<1>9. WantOf(p) = {e.line : e \in {d \in Lines(p) : d.key > p.at}}
  BY <1>4, <1>7, <1>8
<1> QED BY <1>6, <1>9

\* the epochs,
LEMMA OpeningEpochs ==
    ASSUME Typed, Tables, NEW p, Opening(p), p.res = "epochs"
    PROVE  /\ \A e \in Lines(p) : e.phase = 0 /\ e.key \in Int
           /\ WantOf(p) = {e.line : e \in {d \in Lines(p) : d.key > p.at}}
<1>1. p.cut.log = log /\ p.cut.head = head /\ p.at = -1
  BY OpeningCut DEF Opening, Start
<1>2. \A r \in rows : WithinCut(r, p)
  BY <1>1 DEF Tables, RowsSound, Placed, WithinCut
<1>3. Lines(p) = {Entry(0, r.id, Line(r)) : r \in {q \in rows : q.kind = "epoch"}}
  <2>1. Lines(p) = EpochLines(p)
    BY DEF Lines
  <2> QED BY <1>2, <2>1 DEF EpochLines
<1>4. WantOf(p) = {<<"epoch", n>> : n \in 0..epoch}
  <2>1. WantOf(p) = Want(p.res, p.device, p.include, p.at)
    BY DEF WantOf
  <2> QED BY <2>1 DEF Want
<1>5. \A r \in rows : r.id \in Nat /\ (r.kind = "epoch" => r.id \in 0..epoch)
  <2>1. \A r \in rows : r.id \in Nat
    BY TypedFacts, RowFields
  <2>2. \A r \in rows : r.kind = "epoch" => r.id <= epoch
    BY DEF Tables, RowsSound, Numbered
  <2> QED BY <2>1, <2>2, TypedFacts
<1>6. \A e \in Lines(p) : e.phase = 0 /\ e.key \in Int
  BY <1>3, <1>5, EntryFields
<1>7. ASSUME NEW n \in 0..epoch PROVE \E e \in Lines(p) : e.key > p.at /\ e.line = <<"epoch", n>>
  <2>1. PICK r \in rows : r.kind = "epoch" /\ r.id = n
    BY DEF Tables, EpochsStored, Known
  <2>2. Entry(0, r.id, Line(r)) \in Lines(p)
    BY <1>3, <2>1
  <2>3. r.id > p.at
    BY <1>1, <2>1
  <2>4. Line(r) = <<"epoch", n>>
    BY <2>1 DEF Line
  <2> QED BY <2>2, <2>3, <2>4, EntryFields
<1>8. ASSUME NEW e \in Lines(p) PROVE \E n \in 0..epoch : e.line = <<"epoch", n>>
  <2>1. PICK r \in rows : r.kind = "epoch" /\ e = Entry(0, r.id, Line(r))
    BY <1>3
  <2>2. e.line = <<"epoch", r.id>>
    BY <2>1, EntryFields DEF Line
  <2> QED BY <1>5, <2>1, <2>2
<1>9. WantOf(p) = {e.line : e \in {d \in Lines(p) : d.key > p.at}}
  BY <1>4, <1>7, <1>8
<1> QED BY <1>6, <1>9

\* the devices, with their statuses of now,
LEMMA OpeningDevices ==
    ASSUME Typed, Tables, NEW p, Opening(p), p.res = "devices"
    PROVE  /\ \A e \in Lines(p) : e.phase = 0 /\ e.key \in Int
           /\ WantOf(p) = {e.line : e \in {d \in Lines(p) : d.key > p.at}}
<1>1. p.cut.registry = Len(history) /\ p.at = 0
  BY OpeningCut DEF Opening, Start
<1>2. \A d \in Devices : \A e \in StatusAt(d, Len(history)) : e.device = d
  BY StatusEvents
<1>3. Lines(p) = {Entry(0, e.device, <<e.device, e.status>>) : e \in UNION {StatusAt(d, Len(history)) : d \in Devices}}
  <2>1. Lines(p) = StatusLines(p)
    BY DEF Lines
  <2> QED BY <1>1, <2>1 DEF StatusLines
<1>4. WantOf(p) = UNION {{<<d, s>> : s \in Status(d)} : d \in Devices}
  <2>1. WantOf(p) = Want(p.res, p.device, p.include, p.at)
    BY DEF WantOf
  <2> QED BY <2>1 DEF Want
<1>5. \A d \in Devices : d \in Int /\ d > 0
  BY PagingAssumption
<1>6. ASSUME NEW e \in Lines(p)
      PROVE  \E d \in Devices : \E s \in Status(d) : e.phase = 0 /\ e.key = d /\ e.line = <<d, s>>
  <2>1. PICK d \in Devices : \E v \in StatusAt(d, Len(history)) : e = Entry(0, v.device, <<v.device, v.status>>)
    BY <1>3
  <2>2. PICK v \in StatusAt(d, Len(history)) : e = Entry(0, v.device, <<v.device, v.status>>)
    BY <2>1
  <2>3. v.device = d /\ v.status \in Status(d)
    BY <1>2 DEF Status
  <2>4. e = Entry(0, d, <<d, v.status>>)
    BY <2>2, <2>3
  <2>5. e.phase = 0 /\ e.key = d /\ e.line = <<d, v.status>>
    BY <2>4, EntryFields
  <2> QED BY <2>3, <2>5
<1>7. ASSUME NEW d \in Devices, NEW s \in Status(d) PROVE \E e \in Lines(p) : e.key = d /\ e.line = <<d, s>>
  <2>1. PICK v \in StatusAt(d, Len(history)) : s = v.status
    BY DEF Status
  <2>2. v.device = d
    BY <1>2
  <2>3. Entry(0, v.device, <<v.device, v.status>>) \in Lines(p)
    BY <1>3
  <2> QED BY <2>1, <2>2, <2>3, EntryFields
<1>8. \A e \in Lines(p) : e.phase = 0 /\ e.key \in Int /\ e.key > p.at
  BY <1>1, <1>5, <1>6
<1>9. WantOf(p) = {e.line : e \in {d \in Lines(p) : d.key > p.at}}
  <2>1. {d \in Lines(p) : d.key > p.at} = Lines(p)
    BY <1>8
  <2>2. WantOf(p) = {e.line : e \in Lines(p)}
    <3>1. ASSUME NEW x \in WantOf(p) PROVE \E e \in Lines(p) : e.line = x
      <4>1. PICK d \in Devices : \E s \in Status(d) : x = <<d, s>>
        BY <1>4
      <4> QED BY <1>7, <4>1
    <3>2. ASSUME NEW e \in Lines(p) PROVE e.line \in WantOf(p)
      <4>1. PICK d \in Devices : \E s \in Status(d) : e.line = <<d, s>>
        BY <1>6
      <4>2. e.line \in {<<d, s>> : s \in Status(d)}
        BY <4>1
      <4> QED BY <1>4, <4>2
    <3> QED BY <3>1, <3>2
  <2> QED BY <2>1, <2>2
<1> QED BY <1>8, <1>9

\* the requests,
LEMMA OpeningRequests ==
    ASSUME Typed, Tables, NEW p, Opening(p), p.res = "requests"
    PROVE  /\ \A e \in Lines(p) : e.phase = 0 /\ e.key \in Int
           /\ WantOf(p) = {e.line : e \in {d \in Lines(p) : d.key > p.at}}
<1>1. p.cut.offers = Len(offers) /\ p.at = 0 /\ p.cut.offers \in Nat
  BY OpeningCut, TypedFacts DEF Opening, Start
<1>2. Lines(p) = {Entry(0, x[1], x) : x \in RequestsOf(p)}
  BY DEF Lines, RequestLines
<1>3. WantOf(p) = RequestsOf(p)
  <2>1. WantOf(p) = Want(p.res, p.device, p.include, p.at)
    BY DEF WantOf
  <2>2. Want(p.res, p.device, p.include, p.at) =
          {<<o.request, o.status>> : o \in
              {e \in UNION {OfferAt(q, Len(offers)) : q \in RequestIds} :
                 e.asked /\ e.generation = log /\ p.device \in {None, e.by}}}
    BY DEF Want
  <2> QED BY <1>1, <2>1, <2>2 DEF RequestsOf
<1>4. \A x \in RequestsOf(p) : x[1] \in Int /\ x[1] > 0
  <2>1. \A x \in RequestsOf(p) : x[1] \in RequestIds
    BY <1>1, RequestsShape
  <2> QED BY <2>1, PagingAssumption
<1>5. \A e \in Lines(p) : \E x \in RequestsOf(p) : e.phase = 0 /\ e.key = x[1] /\ e.line = x
  BY <1>2, EntryFields
<1>6. \A x \in RequestsOf(p) : \E e \in Lines(p) : e.line = x
  BY <1>2, EntryFields
<1>7. \A e \in Lines(p) : e.phase = 0 /\ e.key \in Int /\ e.key > p.at
  BY <1>1, <1>4, <1>5
<1>8. WantOf(p) = {e.line : e \in {d \in Lines(p) : d.key > p.at}}
  <2>1. {d \in Lines(p) : d.key > p.at} = Lines(p)
    BY <1>7
  <2>2. WantOf(p) = {e.line : e \in Lines(p)}
    BY <1>3, <1>5, <1>6
  <2> QED BY <2>1, <2>2
<1> QED BY <1>7, <1>8

\* the transparency log,
LEMMA OpeningHeads ==
    ASSUME Typed, Tables, NEW p, Opening(p), p.res = "transparency"
    PROVE  /\ \A e \in Lines(p) : e.phase = 0 /\ e.key \in Int
           /\ WantOf(p) = {e.line : e \in {d \in Lines(p) : d.key > p.at}}
<1>1. p.cut.index = index /\ p.at = 0 /\ index \in Nat
  BY OpeningCut, TypedFacts DEF Opening, Start
<1>2. Lines(p) = {Entry(0, i, i) : i \in 1..index}
  <2>1. Lines(p) = HeadLines(p)
    BY DEF Lines
  <2> QED BY <1>1, <2>1 DEF HeadLines
<1>3. WantOf(p) = 1..index
  <2>1. WantOf(p) = Want(p.res, p.device, p.include, p.at)
    BY DEF WantOf
  <2> QED BY <2>1 DEF Want
<1>4. \A e \in Lines(p) : \E i \in 1..index : e.phase = 0 /\ e.key = i /\ e.line = i
  BY <1>2, EntryFields
<1>5. \A i \in 1..index : \E e \in Lines(p) : e.line = i
  BY <1>2, EntryFields
<1>6. \A e \in Lines(p) : e.phase = 0 /\ e.key \in Int /\ e.key > p.at
  BY <1>1, <1>4
<1>7. WantOf(p) = {e.line : e \in {d \in Lines(p) : d.key > p.at}}
  <2>1. {d \in Lines(p) : d.key > p.at} = Lines(p)
    BY <1>6
  <2>2. WantOf(p) = {e.line : e \in Lines(p)}
    BY <1>3, <1>4, <1>5
  <2> QED BY <2>1, <2>2
<1> QED BY <1>6, <1>7

\* the envelopes,
LEMMA OpeningEnvelopes ==
    ASSUME Typed, Tables, NEW p, Opening(p), p.res = "envelopes"
    PROVE  WantOf(p) = LineSet(Lines(p)) /\ \A e \in Lines(p) : ~Passed(p, e)
<1>1. p.cut.log = log /\ p.cut.head = head /\ p.at = 0 /\ p.phase = 0 /\ p.device \in 1..9
  BY OpeningCut DEF Opening, Start
<1> DEFINE In(q) == q.kind = "envelope" /\ q.to = p.device /\ q.body
<1>2. \A r \in rows : WithinCut(r, p)
  BY <1>1 DEF Tables, RowsSound, Placed, WithinCut
<1>3. Lines(p) = {Entry(0, r.id, Line(r)) : r \in {q \in rows : In(q)}}
  <2>1. Lines(p) = EnvelopeLines(p)
    BY DEF Lines
  <2> QED BY <1>2, <2>1 DEF EnvelopeLines
<1>4. WantOf(p) = {Line(r) : r \in {q \in rows : In(q)}}
  <2>1. WantOf(p) = Want(p.res, p.device, p.include, p.at)
    BY DEF WantOf
  <2> QED BY <2>1 DEF Want
<1>5. ASSUME NEW r \in rows, In(r) PROVE r.id \in Nat /\ r.id > 0
  <2>1. r.id = 10 * r.epoch + r.to /\ r.epoch \in Nat /\ r.to \in 1..9
    BY <1>1, <1>5, TypedFacts DEF RowSet, WellNamed
  <2> QED BY <2>1
<1> HIDE DEF In
<1>6. ASSUME NEW e \in Lines(p) PROVE ~Passed(p, e) /\ e.line \in WantOf(p)
  <2>1. PICK r \in rows : In(r) /\ e = Entry(0, r.id, Line(r))
    BY <1>3
  <2>2. e.phase = 0 /\ e.key = r.id /\ e.line = Line(r)
    BY <2>1, EntryFields
  <2>3. r.id \in Nat /\ r.id > 0
    BY <1>5, <2>1
  <2>4. ~Passed(p, e)
    BY <1>1, <2>2, <2>3 DEF Passed
  <2> QED BY <1>4, <2>1, <2>2, <2>4
<1>7. ASSUME NEW r \in rows, In(r) PROVE \E e \in Lines(p) : e.line = Line(r)
  <2>1. Entry(0, r.id, Line(r)) \in Lines(p)
    BY <1>3, <1>7
  <2> QED BY <2>1, EntryFields
<1>8. WantOf(p) = LineSet(Lines(p))
  BY <1>4, <1>6, <1>7 DEF LineSet
<1> QED BY <1>6, <1>8

\* and the export.
LEMMA OpeningExport ==
    ASSUME Typed, Tables, NEW p, Opening(p), p.res = "export"
    PROVE  WantOf(p) = LineSet(Lines(p)) /\ \A e \in Lines(p) : ~Passed(p, e)
<1>1. p.at = 0 /\ p.phase = 0 /\ CutTyped(p)
  BY OpeningCut DEF Opening, Start
<1>2. Lines(p) = ExportLines(p)
  BY DEF Lines
<1>3. \A e \in Lines(p) : ~Passed(p, e)
  <2>1. \A e \in Lines(p) : e.phase \in 0..9 /\ e.key \in Nat /\ e.key >= 1
    BY <1>1, <1>2, ExportKeys
  <2> QED BY <1>1, <2>1 DEF Passed
<1>4. Left(p) = {e \in ExportLines(p) : ~Passed(p, e)}
  BY <1>1, LeftLines
<1>5. Left(p) = Lines(p)
  BY <1>2, <1>3, <1>4
<1> QED BY <1>3, <1>5 DEF WantOf, LineSet

\* The first page of every listing.
LEMMA OpeningFollowed ==
    ASSUME Typed, Tables, NEW p, Opening(p)
    PROVE  Followed(p, {}, 0, WantOf(p))
<1>1. p.res \in Listings /\ p.at \in Int /\ p.phase = 0
  BY DEF Opening, Start
<1>2. PICK L, X, S, want : L = Lines(p) /\ X = ExpiredLines(p) /\ S = StagedLines(p) /\ want = WantOf(p)
  OBVIOUS
<1>3. CASE p.res \notin {"envelopes", "export"}
  <2>1. /\ \A e \in Lines(p) : e.phase = 0 /\ e.key \in Int
        /\ WantOf(p) = {e.line : e \in {d \in Lines(p) : d.key > p.at}}
    <3>1. CASE p.res \in {"log", "records"}
      BY <3>1, OpeningLog
    <3>2. CASE p.res = "epochs"
      BY <3>2, OpeningEpochs
    <3>3. CASE p.res = "devices"
      BY <3>3, OpeningDevices
    <3>4. CASE p.res = "requests"
      BY <3>4, OpeningRequests
    <3>5. CASE p.res = "transparency"
      BY <3>5, OpeningHeads
    <3> QED BY <1>1, <1>3, <3>1, <3>2, <3>3, <3>4, <3>5 DEF Listings
  <2>2. /\ \A e \in L : e.phase = 0 /\ e.key \in Int
        /\ want = {e.line : e \in {d \in L : d.key > p.at}}
    BY <1>2, <2>1
  <2>3. PinnedIn(p, L, {}, 0, want)
    BY <1>1, <2>2, OpeningPinned
  <2> QED BY <1>2, <1>3, <2>3 DEF Followed
<1>4. CASE p.res \in {"envelopes", "export"}
  <2>1. WantOf(p) = LineSet(Lines(p)) /\ \A e \in Lines(p) : ~Passed(p, e)
    BY <1>4, OpeningEnvelopes, OpeningExport
  <2>2. want = LineSet(L) /\ \A e \in L : ~Passed(p, e)
    BY <1>2, <2>1
  <2>3. TornIn(p, L, X, S, {}, 0, want)
    BY <2>2, OpeningTorn
  <2> QED BY <1>2, <1>4, <2>3 DEF Followed
<1> QED BY <1>3, <1>4

-----------------------------------------------------------------------------
(* The specification *)
\* The inductive invariant.
PageInv == Typed /\ Tables /\ ReaderInv
\* The step of MovesOn.
Onward ==
    reader'.st = "paging" /\ reader.st = "paging" =>
        \/ reader'.phase > reader.phase
        \/ reader'.phase = reader.phase /\ reader'.at > reader.at

\* No reader has started.
LEMMA InitPages == Init => PageInv
<1> SUFFICES ASSUME Init PROVE PageInv
  OBVIOUS
<1>1. reader.st = "idle"
  BY DEF Init
<1>2. ReaderInv
  BY <1>1 DEF ReaderInv, ReaderOk
<1> QED BY <1>2, InitTables DEF PageInv

\* A page answered without a change to the tables.
LEMMA ReaderNext ==
    ASSUME Typed, Tables, UNCHANGED <<chain, tables>>, NEW q, q = reader', ReaderOk(q)
    PROVE  PageInv'
<1>1. Typed' /\ Tables'
  BY IdleGrows
<1>2. ReaderOk(q)'
  BY ReaderIdle
<1>3. ReaderInv'
  BY <1>2 DEF ReaderInv
<1> QED BY <1>1, <1>3 DEF PageInv

\* page without a cursor.
LEMMA FirstPages ==
    ASSUME Typed, Tables, NEW res, NEW device, NEW include, NEW after,
           FirstPage(res, device, include, after), Start(res, after), res = "envelopes" => device \in 1..9
    PROVE  PageInv' /\ Onward
<1>1. PICK p : p = [res |-> res, device |-> device, include |-> include, cut |-> CutNow, at |-> after, phase |-> 0]
  OBVIOUS
<1>2. /\ p.res = res /\ p.device = device /\ p.include = include /\ p.cut = CutNow
      /\ p.at = after /\ p.phase = 0
  BY <1>1
<1>3. Opening(p)
  BY <1>2 DEF Opening
<1>4. reader.st = "idle" /\ UNCHANGED <<chain, tables>> /\ reader' = Received(p, Respond(p), {}, 0, 0, WantOf(p))
  <2>1. WantOf(p) = IF res = "export" THEN {x.line : x \in Left(p)} ELSE Want(res, device, include, after)
    BY <1>2 DEF WantOf
  <2> QED BY <1>1, <2>1 DEF FirstPage, CutNow
<1>5. PICK q : q = reader'
  OBVIOUS
<1>6. PICK got, count, pages, want : got = {} /\ count = 0 /\ pages = 0 /\ want = WantOf(p)
  OBVIOUS
<1>7. Followed(p, got, count, want)
  BY <1>3, <1>6, OpeningFollowed
<1>8. q = Received(p, Respond(p), got, count, pages, want)
  BY <1>4, <1>5, <1>6
<1>9. CutTyped(p) /\ p.cut.log = log /\ CutBehind(p) /\ CursorIn(p)
  BY <1>3, OpeningCut
<1>10. ReaderOk(q)
  BY <1>7, <1>8, <1>9, PageTurns
<1>11. PageInv'
  BY <1>4, <1>5, <1>10, ReaderNext
<1> QED BY <1>4, <1>11 DEF Onward

\* Every first page starts where its listing starts.
LEMMA ReadPages ==
    ASSUME Typed, Tables, Read
    PROVE  PageInv' /\ Onward
<1>1. min - 1 \in Nat /\ Creator \in 1..9
  <2>1. min \in Nat /\ 1 <= min
    BY TypedFacts DEF Tables, Bounds
  <2> QED BY <2>1, PagingAssumption
<1>2. ASSUME NEW res \in {"log", "records"}, NEW d, NEW after \in {0, min - 1}, FirstPage(res, d, FALSE, after)
      PROVE  PageInv' /\ Onward
  <2>1. Start(res, after) /\ res # "envelopes"
    BY <1>1 DEF Start, Listings
  <2> QED BY <1>2, <2>1, FirstPages
<1>3. ASSUME NEW res \in {"devices", "epochs", "transparency"},
             FirstPage(res, None, FALSE, IF res = "epochs" THEN -1 ELSE 0)
      PROVE  PageInv' /\ Onward
  <2>1. PICK after : after = IF res = "epochs" THEN -1 ELSE 0
    OBVIOUS
  <2>2. Start(res, after) /\ res # "envelopes" /\ FirstPage(res, None, FALSE, after)
    BY <1>3, <2>1 DEF Start, Listings
  <2> QED BY <2>2, FirstPages
<1>4. ASSUME FirstPage("envelopes", Creator, FALSE, 0) PROVE PageInv' /\ Onward
  <2>1. Start("envelopes", 0)
    BY DEF Start, Listings
  <2> QED BY <1>1, <1>4, <2>1, FirstPages
<1>5. ASSUME NEW include \in BOOLEAN, FirstPage("export", None, include, 0) PROVE PageInv' /\ Onward
  <2>1. Start("export", 0)
    BY DEF Start, Listings
  <2> QED BY <1>5, <2>1, FirstPages
<1>6. CASE \E d \in {None, Creator}, after \in {0, min - 1} : "log" \in Resources /\ FirstPage("log", d, FALSE, after)
  <2>1. "log" \in {"log", "records"}
    OBVIOUS
  <2> QED BY <1>2, <1>6, <2>1
<1>7. CASE \E after \in {0, min - 1} : "records" \in Resources /\ FirstPage("records", None, FALSE, after)
  <2>1. "records" \in {"log", "records"}
    OBVIOUS
  <2> QED BY <1>2, <1>7, <2>1
<1>8. CASE \E res \in Resources \cap {"devices", "epochs", "transparency"} :
             FirstPage(res, None, FALSE, IF res = "epochs" THEN -1 ELSE 0)
  BY <1>3, <1>8
<1>9. CASE "envelopes" \in Resources /\ FirstPage("envelopes", Creator, FALSE, 0)
  BY <1>4, <1>9
<1>10. CASE \E include \in BOOLEAN : "export" \in Resources /\ FirstPage("export", None, include, 0)
  BY <1>5, <1>10
<1>11. CASE \E d \in {None, Creator} : "requests" \in Resources /\ FirstPage("requests", d, FALSE, 0)
  <2>1. PICK d : FirstPage("requests", d, FALSE, 0)
    BY <1>11
  <2>2. Start("requests", 0) /\ "requests" # "envelopes"
    BY DEF Start, Listings
  <2> QED BY <2>1, <2>2, FirstPages
<1> QED BY <1>6, <1>7, <1>8, <1>9, <1>10, <1>11 DEF Read

\* page with a cursor, of the live log or of an older one.
LEMMA NextPages ==
    ASSUME PageInv, NextPage
    PROVE  PageInv' /\ Onward
<1>0. Typed /\ Tables /\ ReaderInv
  BY DEF PageInv
<1>1. PICK p : p = reader
  OBVIOUS
<1>2. PICK q : q = reader'
  OBVIOUS
<1>3. ReaderOk(p) /\ p.st = "paging" /\ UNCHANGED <<chain, tables>>
  BY <1>0, <1>1 DEF ReaderInv, NextPage
<1>4. /\ CutTyped(p) /\ CursorIn(p)
      /\ p.cut.log = log => CutBehind(p)
      /\ Current(p) => Followed(p, p.got, p.count, p.want)
  BY <1>3 DEF ReaderOk
<1>5. CASE p.cut.log # log
  <2>1. q = Received(p, Failed("LOG_ID_MISMATCH"), p.got, p.count, p.pages, p.want)
    BY <1>1, <1>2, <1>5 DEF NextPage
  <2>2. q.st = "failed"
    BY <2>1 DEF Received, Failed
  <2>3. ReaderOk(q)
    BY <2>2 DEF ReaderOk
  <2>4. PageInv'
    BY <1>0, <1>2, <1>3, <2>3, ReaderNext
  <2> QED BY <1>2, <2>2, <2>4 DEF Onward
<1>6. CASE p.cut.log = log
  <2>1. q = Received(p, Respond(p), p.got, p.count, p.pages, p.want)
    BY <1>1, <1>2, <1>6 DEF NextPage
  <2>2. CASE Current(p)
    <3>1. PICK got, count, pages, want : got = p.got /\ count = p.count /\ pages = p.pages /\ want = p.want
      OBVIOUS
    <3>2. Followed(p, got, count, want) /\ q = Received(p, Respond(p), got, count, pages, want)
      BY <1>4, <2>1, <2>2, <3>1
    <3>3. /\ ReaderOk(q)
          /\ q.st = "paging" => \/ q.phase > p.phase
                                \/ q.phase = p.phase /\ q.at > p.at
      BY <1>0, <1>4, <1>6, <3>2, PageTurns
    <3>4. PageInv'
      BY <1>0, <1>2, <1>3, <3>3, ReaderNext
    <3> QED BY <1>1, <1>2, <3>3, <3>4 DEF Onward
  <2>3. CASE ~Current(p)
    <3>1. \E code : Respond(p) = Failed(code)
      BY <1>0, <1>4, <1>6, <2>3, RespondTurns
    <3>2. q.st = "failed"
      BY <2>1, <3>1 DEF Received, Failed
    <3>3. ReaderOk(q)
      BY <3>2 DEF ReaderOk
    <3>4. PageInv'
      BY <1>0, <1>2, <1>3, <3>3, ReaderNext
    <3> QED BY <1>2, <3>2, <3>4 DEF Onward
  <2> QED BY <2>2, <2>3
<1> QED BY <1>5, <1>6

\* An expired cursor ends the listing.
LEMMA ExpiresPages ==
    ASSUME PageInv, CursorExpires
    PROVE  PageInv' /\ Onward
<1>1. Typed /\ Tables /\ UNCHANGED <<chain, tables>>
  BY DEF PageInv, CursorExpires
<1>2. PICK q : q = reader'
  OBVIOUS
<1>3. q.st = "failed"
  BY <1>2 DEF CursorExpires, Received, Failed
<1>4. ReaderOk(q)
  BY <1>3 DEF ReaderOk
<1>5. PageInv'
  BY <1>1, <1>2, <1>4, ReaderNext
<1> QED BY <1>2, <1>3, <1>5 DEF Onward

\* Every write, while a listing is read.
LEMMA WritePages ==
    ASSUME PageInv, Write, reader.st \in {"idle", "paging"}
    PROVE  PageInv' /\ reader' = reader
<1>1. Typed /\ Tables /\ ReaderInv
  BY DEF PageInv
<1>2. Typed' /\ Tables' /\ (Grown \/ log' = log + 1) /\ reader' = reader
  BY <1>1, WriteTables
<1>3. PICK q : q = reader
  OBVIOUS
<1>4. ReaderOk(q) /\ q.st # "done"
  BY <1>1, <1>3 DEF ReaderInv
<1>5. ReaderOk(q)'
  BY <1>1, <1>2, <1>4, ReaderGrows, ReaderReseeded
<1>6. ReaderInv'
  BY <1>2, <1>3, <1>5 DEF ReaderInv
<1> QED BY <1>2, <1>6 DEF PageInv

\* A stutter.
LEMMA IdlePages ==
    ASSUME PageInv, UNCHANGED vars
    PROVE  PageInv'
<1>1. Typed /\ Tables /\ ReaderInv /\ UNCHANGED <<chain, tables>> /\ reader' = reader
  BY DEF PageInv, vars
<1>2. PICK q : q = reader
  OBVIOUS
<1>3. ReaderOk(q) /\ q = reader'
  BY <1>1, <1>2 DEF ReaderInv
<1> QED BY <1>1, <1>3, ReaderNext

\* Every step.
LEMMA StepPages == PageInv /\ [Next]_vars => PageInv' /\ [Onward]_reader
<1> SUFFICES ASSUME PageInv, [Next]_vars PROVE PageInv' /\ [Onward]_reader
  OBVIOUS
<1>1. CASE reader.st \in {"idle", "paging"} /\ Write
  BY <1>1, WritePages
<1>2. CASE Read
  BY <1>2, ReadPages DEF PageInv
<1>3. CASE NextPage
  BY <1>3, NextPages
<1>4. CASE CursorExpires
  BY <1>4, ExpiresPages
<1>5. CASE UNCHANGED vars
  BY <1>5, IdlePages DEF vars
<1> QED BY <1>1, <1>2, <1>3, <1>4, <1>5 DEF Next

\* A finished listing.
LEMMA DonePinned ==
    ASSUME PageInv
    PROVE  PagesArePinned
<1>1. PICK q : q = reader
  OBVIOUS
<1>2. ReaderOk(q)
  BY <1>1 DEF PageInv, ReaderInv
<1> SUFFICES ASSUME q.st = "done", q.res \notin {"envelopes", "export"}
             PROVE  q.got = q.want /\ q.count = Cardinality(q.want)
  BY <1>1 DEF PagesArePinned
<1>3. PinnedIn(q, Lines(q), q.got, q.count, q.want) /\ \A e \in Lines(q) : Passed(q, e)
  BY <1>2 DEF ReaderOk, Followed
<1>4. PICK L : L = Lines(q)
  OBVIOUS
<1>5. PICK s \in Int : /\ q.want = {e.line : e \in {d \in L : d.key > s}}
                       /\ q.got = {e.line : e \in {d \in L : d.key > s /\ Passed(q, d)}}
  BY <1>3, <1>4 DEF PinnedIn
<1>6. {d \in L : d.key > s /\ Passed(q, d)} = {d \in L : d.key > s}
  BY <1>3, <1>4
<1>7. q.count = Cardinality(q.got)
  BY <1>3 DEF PinnedIn
<1> QED BY <1>5, <1>6, <1>7

\* A finished export or list of envelopes.
LEMMA DoneTorn ==
    ASSUME PageInv
    PROVE  TornOnlyByExpiryAndStaging
<1>1. PICK q : q = reader
  OBVIOUS
<1>2. ReaderOk(q)
  BY <1>1 DEF PageInv, ReaderInv
<1>3. \A r : LinesOf(r) = LinesBy(q, r)
  BY <1>1 DEF LinesOf, LinesBy
<1>4. /\ UNION {LinesOf(r) : r \in {t \in rows : t.kind = "envelope" /\ t.epoch \in expired}} = ExpiredLines(q)
      /\ UNION {LinesOf(r) : r \in {t \in rows : t.log = None}} = StagedLines(q)
  BY <1>3 DEF ExpiredLines, StagedLines
<1> SUFFICES ASSUME q.st = "done", q.res \in {"envelopes", "export"}
             PROVE  /\ q.count = Cardinality(q.got)
                    /\ q.want \ q.got \subseteq ExpiredLines(q)
                    /\ q.got \ q.want \subseteq StagedLines(q)
  BY <1>1, <1>4 DEF TornOnlyByExpiryAndStaging
<1>5. TornIn(q, Lines(q), ExpiredLines(q), StagedLines(q), q.got, q.count, q.want)
  BY <1>2 DEF ReaderOk, Followed
<1>6. \A e \in Lines(q) : Passed(q, e)
  BY <1>2 DEF ReaderOk
<1>7. PICK L, X, S : L = Lines(q) /\ X = ExpiredLines(q) /\ S = StagedLines(q)
  OBVIOUS
<1>8. TornIn(q, L, X, S, q.got, q.count, q.want) /\ \A e \in L : Passed(q, e)
  BY <1>5, <1>6, <1>7
<1>9. /\ q.count = Cardinality(q.got)
      /\ \A x \in q.got : x \in q.want \/ x \in S
      /\ \A x \in q.want : x \in LineSet(L) \/ x \in X
      /\ \A e \in L : Passed(q, e) /\ e.line \in q.want => e.line \in q.got
  BY <1>8 DEF TornIn
<1>10. \A x \in q.want : x \in q.got \/ x \in X
  BY <1>8, <1>9 DEF LineSet
<1> QED BY <1>7, <1>9, <1>10

\* The invariant holds, and every page moves on.
LEMMA PagesFollow == Spec => []PageInv /\ [][Onward]_reader
<1>1. Init => PageInv
  BY InitPages
<1>2. PageInv /\ [Next]_vars => PageInv' /\ [Onward]_reader
  BY StepPages
<1> QED BY <1>1, <1>2, PTL DEF Spec

\* Every log, record, epoch, device, request and transparency listing that is read to
\* its end is the listing at its first page: each item once, with its status of then
\* (log, objects, requests, transparency and the cursor of page).
THEOREM PagesStayPinned == Spec => []PagesArePinned
<1>1. PageInv => PagesArePinned
  BY DonePinned
<1> QED BY <1>1, PagesFollow, PTL

\* A finished export or list of own envelopes lacks of its cut only envelopes that have
\* expired and has besides it only staged objects, and no line twice (export, group,
\* objects).
THEOREM TornOnlyThatWay == Spec => []TornOnlyByExpiryAndStaging
<1>1. PageInv => TornOnlyByExpiryAndStaging
  BY DoneTorn
<1> QED BY <1>1, PagesFollow, PTL

\* Every page of every listing moves the cursor on, also when all of its rows are
\* filtered (log, objects, requests, transparency, export).
THEOREM PagesMoveOn == Spec => MovesOn
<1>1. MovesOn <=> [][Onward]_reader
  BY PTL DEF MovesOn, Onward
<1> QED BY <1>1, PagesFollow, PTL
=============================================================================
