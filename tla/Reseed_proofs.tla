---------------------------- MODULE Reseed_proofs ----------------------------
(***************************************************************************)
(* Proofs about the generations of a chain: staging, the commit of the next  *)
(* generation and the operations in between keep one sequence of evidence,   *)
(* and only devices of the current generation act.                           *)
(*                                                                         *)
(* The argument: every append lists objects without a receipt, each once,    *)
(* behind the head of a log in which nothing has a later position.  For the  *)
(* commit the log is the one announced by the staging, which differs from    *)
(* the live one and has held parts only, and the objects are the staged ones  *)
(* and those of the next generation, none of which is stored yet.            *)
(***************************************************************************)
EXTENDS Reseed, FiniteSetTheorems, TLAPS

ControlKinds == {"parameters", "epoch", "device", "compaction"}

\* The types of the rows.  Every receipt is of a stored object.
Typed ==
    /\ mode \in {"none", "staged", "live"}
    /\ gen \in Nat /\ epoch \in Nat /\ logId \in Nat /\ head \in Nat
    /\ index \in Nat /\ nextLog \in Nat
    /\ IsFiniteSet(objects)
    /\ receipts \subseteq [object : objects, log : Nat, seq : Nat, index : 1..index]
    /\ registry \in [Devices -> {None} \cup RegistryRows]
    /\ imports \in {None} \cup [log : Nat, gen : Nat, epoch : Nat]

\* Before the first staging a replacement relay has nothing of the chain.
NothingStored == mode = "none" => /\ gen = 0 /\ head = 0 /\ imports = None
                                  /\ objects = {} /\ receipts = {}

\* No control object but a device record is of a later generation than the chain,
\* and no epoch is later than the chain's.
ControlObjects ==
    \A o \in objects :
        /\ o.kind \in ControlKinds => o.gen \in Nat
        /\ o.kind \in ControlKinds \ {"device"} => o.gen \in 0..gen
        /\ o.kind = "epoch" => o.id \in 0..epoch

\* A log id is used once: the staged one is not the live one, and of its log
\* only parts have receipts.
LogIds ==
    /\ logId < nextLog /\ \A r \in receipts : r.log < nextLog
    /\ imports # None => /\ imports.log < nextLog
                         /\ mode = "live" => imports.log # logId
                         /\ \A r \in receipts : r.log = imports.log => r.seq = 0

\* A member is of the current generation, and its device record is stored.
MemberRecords ==
    \A d \in Members : registry[d].gen = gen /\ Device(d, gen) \in objects

Inv ==
    /\ Typed
    /\ NothingStored
    /\ ControlObjects
    /\ LogIds
    /\ MemberRecords
    /\ EvidenceIsOneSequence
    /\ OneReceipt
    /\ AuthorOfGeneration

-----------------------------------------------------------------------------
\* The sequence s lists the set S: every element once and nothing else.
Lists(s, S) ==
    /\ s \in Seq(S)
    /\ \A i, j \in 1..Len(s) : s[i] = s[j] => i = j
    /\ S = {s[k] : k \in 1..Len(s)}

\* SetToSeq lists a finite set.
LEMMA SetListed ==
  ASSUME NEW S, IsFiniteSet(S)
  PROVE  Lists(SetToSeq(S), S)
<1> DEFINE n == Cardinality(S)
           f == SetToSeq(S)
<1>1. n \in Nat /\ ExistsBijection(1..n, S)
  BY FS_CardinalityType
<1>2. PICK g : g \in Bijection(1..n, S)
  BY <1>1 DEF ExistsBijection
<1>3. g \in [1..n -> S] /\ IsInjective(g)
  BY <1>2 DEF Bijection, Injection, IsInjective
<1>4. f \in [1..n -> S] /\ IsInjective(f)
  BY <1>3 DEF SetToSeq
<1>5. f \in Injection(1..n, S)
  BY <1>4 DEF Injection, IsInjective
<1>6. Cardinality(1..n) = n
  BY <1>1, FS_Interval
<1>7. f \in Surjection(1..n, S)
  BY <1>5, <1>6, FS_Injection
<1>8. \A x \in S : \E k \in 1..n : f[k] = x
  BY <1>7 DEF Surjection
<1> HIDE DEF f, n
<1>9. f \in Seq(S) /\ Len(f) = n
  BY <1>1, <1>4
<1>10. Lists(f, S)
  BY <1>4, <1>8, <1>9 DEF Lists, IsInjective
<1> QED BY <1>10 DEF f

\* The lists of two disjoint sets make up the list of their union.
LEMMA ListsTogether ==
  ASSUME NEW s, NEW S, Lists(s, S), NEW t, NEW T, Lists(t, T), S \cap T = {}
  PROVE  Lists(s \o t, S \cup T)
<1>1. s \in Seq(S \cup T) /\ t \in Seq(S \cup T)
  BY DEF Lists
<1>2. PICK c : c = s \o t
  OBVIOUS
<1>3. /\ c \in Seq(S \cup T) /\ Len(c) = Len(s) + Len(t)
      /\ \A k \in 1..Len(s) : c[k] = s[k]
      /\ \A k \in 1..Len(t) : c[Len(s) + k] = t[k]
  BY <1>1, <1>2
<1>4. /\ Len(s) \in Nat /\ Len(t) \in Nat
      /\ \A k \in 1..Len(s) : s[k] \in S
      /\ \A k \in 1..Len(t) : t[k] \in T
  BY <1>1 DEF Lists
<1>5. ASSUME NEW k \in 1..Len(c)
      PROVE  \/ k \in 1..Len(s) /\ c[k] = s[k] /\ c[k] \in S
             \/ k - Len(s) \in 1..Len(t) /\ c[k] = t[k - Len(s)] /\ c[k] \in T
  <2>1. CASE k <= Len(s)
    <3>1. k \in 1..Len(s)
      BY <1>3, <1>4, <2>1
    <3> QED BY <1>3, <1>4, <3>1
  <2>2. CASE k > Len(s)
    <3>0. Len(c) \in Nat /\ Len(c) = Len(s) + Len(t) /\ k \in Int /\ k >= 1 /\ k <= Len(c)
      BY <1>3, <1>4
    <3>1. k - Len(s) \in 1..Len(t) /\ Len(s) + (k - Len(s)) = k
      BY <1>4, <2>2, <3>0
    <3> QED BY <1>3, <1>4, <3>1
  <2>3. k \in Int /\ Len(s) \in Int
    BY <1>4
  <2> QED BY <2>1, <2>2, <2>3
<1>6. ASSUME NEW i \in 1..Len(c), NEW j \in 1..Len(c), c[i] = c[j]
      PROVE  i = j
  <2>1. CASE i \in 1..Len(s) /\ j \in 1..Len(s) /\ c[i] = s[i] /\ c[j] = s[j]
    BY <1>6, <2>1 DEF Lists
  <2>2. CASE i - Len(s) \in 1..Len(t) /\ j - Len(s) \in 1..Len(t)
             /\ c[i] = t[i - Len(s)] /\ c[j] = t[j - Len(s)]
    <3>1. i - Len(s) = j - Len(s)
      BY <1>6, <2>2 DEF Lists
    <3>2. i \in Int /\ j \in Int
      OBVIOUS
    <3> QED BY <1>4, <3>1, <3>2
  <2> QED BY <1>5, <1>6, <2>1, <2>2
<1>7. ASSUME NEW x \in S \cup T
      PROVE  \E k \in 1..Len(c) : c[k] = x
  <2>1. CASE x \in S
    <3>1. PICK k \in 1..Len(s) : s[k] = x
      BY <2>1 DEF Lists
    <3>2. k \in 1..Len(c)
      BY <1>3, <1>4
    <3> QED BY <1>3, <3>1, <3>2
  <2>2. CASE x \in T
    <3>1. PICK k \in 1..Len(t) : t[k] = x
      BY <2>2 DEF Lists
    <3>2. Len(s) + k \in 1..Len(c)
      BY <1>3, <1>4
    <3> QED BY <1>3, <3>1, <3>2
  <2> QED BY <2>1, <2>2
<1>8. S \cup T = {c[k] : k \in 1..Len(c)}
  BY <1>5, <1>7
<1>9. Lists(c, S \cup T)
  BY <1>3, <1>6, <1>8 DEF Lists
<1> QED BY <1>2, <1>9

LEMMA OneListed ==
  ASSUME NEW x
  PROVE  Lists(<<x>>, {x})
  BY DEF Lists

\* A listed set is finite.
LEMMA ListedFinite ==
  ASSUME NEW s, NEW S, Lists(s, S)
  PROVE  IsFiniteSet(S)
<1> DEFINE f == [k \in 1..Len(s) |-> s[k]]
<1>1. Len(s) \in Nat
  BY DEF Lists
<1>2. f \in Surjection(1..Len(s), S)
  BY DEF Lists, Surjection
<1>3. IsFiniteSet(1..Len(s))
  BY <1>1, FS_Interval
<1> QED BY <1>2, <1>3, FS_Surjection

-----------------------------------------------------------------------------
\* An append behind the end n of the log l, of objects that have no receipt, keeps
\* the evidence one sequence, and l is then the log of the chain (append).
LEMMA Appended ==
  ASSUME Typed, EvidenceIsOneSequence, OneReceipt,
         NEW os, NEW S, Lists(os, S), \A r \in receipts : r.object \notin S,
         NEW l \in Nat, NEW n \in Nat,
         {r.seq : r \in {q \in receipts : q.log = l /\ q.seq # 0}} = 1..n,
         objects' = objects \cup S,
         receipts' = receipts \cup ReceiptsOf(os, l, n, index),
         index' = index + Len(os), logId' = l, head' = n + Len(os)
  PROVE  /\ head' \in Nat /\ index' \in Nat /\ IsFiniteSet(objects')
         /\ receipts' \subseteq [object : objects', log : Nat, seq : Nat, index : 1..index']
         /\ \A r \in receipts' : r \in receipts \/ r.log = l
         /\ EvidenceIsOneSequence'
         /\ OneReceipt'
<1>1. /\ Len(os) \in Nat /\ index \in Nat
      /\ \A k \in 1..Len(os) : os[k] \in S
      /\ \A i, j \in 1..Len(os) : os[i] = os[j] => i = j
  <2>1. os \in Seq(S) /\ \A i, j \in 1..Len(os) : os[i] = os[j] => i = j
    BY DEF Lists
  <2>2. Len(os) \in Nat /\ \A k \in 1..Len(os) : os[k] \in S
    BY <2>1
  <2>3. index \in Nat
    BY DEF Typed
  <2> QED BY <2>1, <2>2, <2>3
<1>2. /\ head' \in Nat /\ index' \in Nat /\ IsFiniteSet(objects')
  <2>1. IsFiniteSet(S)
    BY ListedFinite
  <2>2. IsFiniteSet(objects)
    BY DEF Typed
  <2>3. IsFiniteSet(objects \cup S)
    BY <2>1, <2>2, FS_Union
  <2> QED BY <1>1, <2>3
<1>3. \A r \in receipts : /\ r.object \in objects /\ r.log \in Nat /\ r.seq \in Nat
                          /\ r.index \in Nat /\ r.index >= 1 /\ r.index <= index
                          /\ r = [object |-> r.object, log |-> r.log, seq |-> r.seq, index |-> r.index]
                          /\ r.object \notin S
                          /\ r.log = l => r.seq <= n
  <2>1. \A r \in receipts : r.log = l /\ r.seq # 0 => r.seq \in 1..n
    OBVIOUS
  <2>2. \A r \in receipts : r \in [object : objects, log : Nat, seq : Nat, index : 1..index]
    BY DEF Typed
  <2>3. \A r \in receipts : r.log = l => r.seq <= n
    BY <2>1, <2>2
  <2>4. \A r \in [object : objects, log : Nat, seq : Nat, index : 1..index] :
            /\ r.object \in objects /\ r.log \in Nat /\ r.seq \in Nat
            /\ r.index \in Nat /\ r.index >= 1 /\ r.index <= index
            /\ r = [object |-> r.object, log |-> r.log, seq |-> r.seq, index |-> r.index]
    BY <1>1
  <2> QED BY <2>2, <2>3, <2>4
<1>4. ASSUME NEW r \in receipts'
      PROVE  \/ r \in receipts
             \/ \E k \in 1..Len(os) :
                   r = [object |-> os[k], log |-> l, seq |-> n + k, index |-> index + k]
  BY DEF ReceiptsOf
<1>5. receipts' \subseteq [object : objects', log : Nat, seq : Nat, index : 1..index']
  <2> SUFFICES ASSUME NEW r \in receipts'
               PROVE  r \in [object : objects', log : Nat, seq : Nat, index : 1..index']
    OBVIOUS
  <2>1. CASE r \in receipts
    <3>1. r.object \in objects' /\ r.index \in 1..index' /\ r.log \in Nat /\ r.seq \in Nat
      BY <1>1, <1>3, <2>1
    <3>2. r = [object |-> r.object, log |-> r.log, seq |-> r.seq, index |-> r.index]
      BY <1>3, <2>1
    <3> QED BY <3>1, <3>2
  <2>2. ASSUME NEW k \in 1..Len(os),
               r = [object |-> os[k], log |-> l, seq |-> n + k, index |-> index + k]
        PROVE  r \in [object : objects', log : Nat, seq : Nat, index : 1..index']
    BY <1>1, <2>2
  <2> QED BY <1>4, <2>1, <2>2
<1>6. \A r \in receipts' : r \in receipts \/ r.log = l
  BY <1>4
\* Two receipts of which one is old, and two new ones.
<1>7. ASSUME NEW r \in receipts, NEW k \in 1..Len(os)
      PROVE  /\ r.index # index + k /\ (r.log = l => r.seq # n + k) /\ r.object # os[k]
  BY <1>1, <1>3
<1>8. EvidenceIsOneSequence'
  <2> SUFFICES ASSUME NEW r \in receipts', NEW q \in receipts', r # q
               PROVE  r.index # q.index /\ (r.log = q.log /\ r.seq # 0 => r.seq # q.seq)
    BY DEF EvidenceIsOneSequence
  <2>1. CASE r \in receipts /\ q \in receipts
    BY <2>1 DEF EvidenceIsOneSequence
  <2>2. ASSUME NEW k \in 1..Len(os), r \in receipts,
               q = [object |-> os[k], log |-> l, seq |-> n + k, index |-> index + k]
        PROVE  r.index # q.index /\ (r.log = q.log => r.seq # q.seq)
    BY <1>7, <2>2
  <2>3. ASSUME NEW k \in 1..Len(os), q \in receipts,
               r = [object |-> os[k], log |-> l, seq |-> n + k, index |-> index + k]
        PROVE  r.index # q.index /\ (r.log = q.log => r.seq # q.seq)
    BY <1>7, <2>3
  <2>4. ASSUME NEW i \in 1..Len(os), NEW k \in 1..Len(os),
               r = [object |-> os[i], log |-> l, seq |-> n + i, index |-> index + i],
               q = [object |-> os[k], log |-> l, seq |-> n + k, index |-> index + k]
        PROVE  r.index # q.index /\ r.seq # q.seq
    <3>1. i # k /\ i \in Int /\ k \in Int
      BY <2>4
    <3>2. index + i # index + k /\ n + i # n + k
      BY <1>1, <3>1
    <3> QED BY <2>4, <3>2
  <2> QED BY <1>4, <2>1, <2>2, <2>3, <2>4
<1>9. ASSUME NEW r \in receipts', NEW q \in receipts', r.object = q.object
      PROVE  r = q
  <2>1. CASE r \in receipts /\ q \in receipts
    BY <1>9, <2>1 DEF OneReceipt
  <2>2. ASSUME NEW k \in 1..Len(os), r \in receipts,
               q = [object |-> os[k], log |-> l, seq |-> n + k, index |-> index + k]
        PROVE  FALSE
    BY <1>7, <1>9, <2>2
  <2>3. ASSUME NEW k \in 1..Len(os), q \in receipts,
               r = [object |-> os[k], log |-> l, seq |-> n + k, index |-> index + k]
        PROVE  FALSE
    BY <1>7, <1>9, <2>3
  <2>4. ASSUME NEW i \in 1..Len(os), NEW k \in 1..Len(os),
               r = [object |-> os[i], log |-> l, seq |-> n + i, index |-> index + i],
               q = [object |-> os[k], log |-> l, seq |-> n + k, index |-> index + k]
        PROVE  r = q
    BY <1>1, <1>9, <2>4
  <2> QED BY <1>4, <2>1, <2>2, <2>3, <2>4
<1>10. {r.seq : r \in {q \in receipts' : q.log = logId' /\ q.seq # 0}} = 1..head'
  <2>1. ASSUME NEW r \in receipts', r.log = l, r.seq # 0
        PROVE  r.seq \in 1..(n + Len(os))
    <3>1. CASE r \in receipts
      BY <1>1, <1>3, <2>1, <3>1
    <3>2. ASSUME NEW k \in 1..Len(os),
                 r = [object |-> os[k], log |-> l, seq |-> n + k, index |-> index + k]
          PROVE  r.seq \in 1..(n + Len(os))
      BY <1>1, <3>2
    <3> QED BY <1>4, <3>1, <3>2
  <2>2. ASSUME NEW k \in 1..(n + Len(os))
        PROVE  \E r \in receipts' : r.log = l /\ r.seq # 0 /\ r.seq = k
    <3>1. CASE k <= n
      <4>1. k \in 1..n
        BY <1>1, <3>1
      <4>2. PICK r \in receipts : r.log = l /\ r.seq # 0 /\ r.seq = k
        BY <4>1
      <4> QED BY <4>2
    <3>2. CASE k > n
      <4>1. k - n \in 1..Len(os) /\ n + (k - n) = k /\ k # 0
        BY <1>1, <3>2
      <4>2. [object |-> os[k - n], log |-> l, seq |-> n + (k - n), index |-> index + (k - n)] \in receipts'
        BY <4>1 DEF ReceiptsOf
      <4> QED BY <4>1, <4>2
    <3>3. k \in Int /\ n \in Int
      BY <1>1
    <3> QED BY <3>1, <3>2, <3>3
  <2> QED BY <2>1, <2>2
<1> QED BY <1>2, <1>5, <1>6, <1>8, <1>9, <1>10 DEF OneReceipt

\* A live chain appends to its own log, which is not the staged one.
LEMMA LiveAppendAll ==
  ASSUME Inv, mode = "live", NEW os, NEW S, Lists(os, S), S \cap objects = {}, AppendAll(os),
         UNCHANGED <<mode, logId, imports, nextLog>>
  PROVE  /\ head' \in Nat /\ index' \in Nat /\ IsFiniteSet(objects')
         /\ receipts' \subseteq [object : objects', log : Nat, seq : Nat, index : 1..index']
         /\ objects' = objects \cup S
         /\ NothingStored' /\ LogIds'
         /\ EvidenceIsOneSequence'
         /\ OneReceipt'
<1>1. {os[k] : k \in 1..Len(os)} = S
  BY DEF Lists
<1>2. /\ objects' = objects \cup S
      /\ receipts' = receipts \cup ReceiptsOf(os, logId, head, index)
      /\ head' = head + Len(os) /\ index' = index + Len(os)
  BY <1>1 DEF AppendAll
<1>3. Typed /\ EvidenceIsOneSequence /\ OneReceipt /\ LogIds
  BY DEF Inv
<1>4. \A r \in receipts : r.object \notin S
  BY <1>3 DEF Typed
<1>5. {r.seq : r \in {q \in receipts : q.log = logId /\ q.seq # 0}} = 1..head
  BY <1>3 DEF OneReceipt
<1>6. logId \in Nat /\ head \in Nat /\ logId' = logId
  BY <1>3 DEF Typed
<1>7. /\ head' \in Nat /\ index' \in Nat /\ IsFiniteSet(objects')
      /\ receipts' \subseteq [object : objects', log : Nat, seq : Nat, index : 1..index']
      /\ \A r \in receipts' : r \in receipts \/ r.log = logId
      /\ EvidenceIsOneSequence'
      /\ OneReceipt'
  BY <1>2, <1>3, <1>4, <1>5, <1>6, Appended
<1>8. LogIds'
  BY <1>3, <1>7 DEF LogIds
<1>9. NothingStored'
  BY DEF NothingStored
<1> QED BY <1>2, <1>7, <1>8, <1>9

LEMMA LiveAppend ==
  ASSUME Inv, mode = "live", NEW x, x \notin objects, AppendAll(<<x>>),
         UNCHANGED <<mode, logId, imports, nextLog>>
  PROVE  /\ head' \in Nat /\ index' \in Nat /\ IsFiniteSet(objects')
         /\ receipts' \subseteq [object : objects', log : Nat, seq : Nat, index : 1..index']
         /\ objects' = objects \cup {x}
         /\ NothingStored' /\ LogIds'
         /\ EvidenceIsOneSequence'
         /\ OneReceipt'
<1>1. Lists(<<x>>, {x}) /\ {x} \cap objects = {}
  BY OneListed
<1> QED BY <1>1, LiveAppendAll

\* The records of the devices D, each once.
LEMMA RecordsListed ==
  ASSUME NEW D \in SUBSET Devices, NEW g
  PROVE  Lists(DeviceRecords(D, g), {Device(d, g) : d \in D})
<1> DEFINE F == {Device(d, g) : d \in D}
           f == [d \in D |-> Device(d, g)]
<1>1. IsFiniteSet(D)
  BY ReseedAssumption, FS_Subset
<1>2. f \in Surjection(D, F)
  BY DEF Surjection
<1>3. IsFiniteSet(F)
  BY <1>1, <1>2, FS_Surjection
<1> HIDE DEF F
<1>4. Lists(SetToSeq(F), F)
  BY <1>3, SetListed
<1> QED BY <1>4 DEF DeviceRecords, F

\* What a step of the current generation leaves alone: nothing is removed from the
\* stored objects, and nobody but a device whose record is stored becomes a member.
LEMMA SameGeneration ==
  ASSUME Inv, gen' = gen, objects \subseteq objects',
         \A d \in Devices : registry'[d] = registry[d] \/ (d \in Members /\ registry'[d].status = "revoked")
  PROVE  MemberRecords'
<1> SUFFICES ASSUME NEW d \in Members'
             PROVE  registry'[d].gen = gen /\ Device(d, gen) \in objects'
  BY DEF MemberRecords, Device
<1>1. d \in Devices /\ registry'[d] # None /\ registry'[d].status # "revoked"
  BY DEF Members
<1>2. registry'[d] = registry[d]
  BY <1>1
<1>3. d \in Members
  BY <1>1, <1>2 DEF Members
<1> QED BY <1>2, <1>3 DEF Inv, MemberRecords

\* What is stored keeps its author's record and its parts, which are never removed.
LEMMA AuthorsStay ==
  ASSUME AuthorOfGeneration, NEW N, objects' = objects \cup N, \A o \in N : Authored(o)'
  PROVE  AuthorOfGeneration'
<1>1. ASSUME NEW o \in objects PROVE Authored(o)'
  <2>1. Authored(o) /\ objects \subseteq objects'
    BY DEF AuthorOfGeneration
  <2> QED BY <2>1 DEF Authored, Device, Epoch
<1> QED BY <1>1 DEF AuthorOfGeneration

\* Control objects but the compaction have no author.
LEMMA NoAuthor == ASSUME NEW o, o.kind \notin {"record", "compaction"} PROVE Authored(o)'
  BY DEF Authored

-----------------------------------------------------------------------------
\* The operations of a live chain.
LEMMA EnrollInv == ASSUME Inv, NEW d \in Devices, Enroll(d) PROVE Inv'
<1>1. /\ Typed /\ ControlObjects /\ MemberRecords /\ AuthorOfGeneration
  BY DEF Inv
<1>2. PICK x : x = Device(d, gen)
  OBVIOUS
<1>3. x.kind = "device" /\ x.gen = gen /\ x.id = d
  BY <1>2 DEF Device
<1>4. x \notin objects
  BY <1>3 DEF Enroll
<1>5. AppendAll(<<x>>)
  BY <1>2 DEF Enroll
<1>6. /\ mode = "live" /\ UNCHANGED <<mode, gen, epoch, logId, imports, payloadNonces, nextLog>>
      /\ registry' = [registry EXCEPT ![d] = [gen |-> gen, status |-> "pending_keys"]]
  BY DEF Enroll
<1>7. /\ head' \in Nat /\ index' \in Nat /\ IsFiniteSet(objects')
      /\ receipts' \subseteq [object : objects', log : Nat, seq : Nat, index : 1..index']
      /\ objects' = objects \cup {x}
      /\ NothingStored' /\ LogIds' /\ EvidenceIsOneSequence' /\ OneReceipt'
  BY <1>4, <1>5, <1>6, LiveAppend
<1>8. Typed'
  BY <1>1, <1>6, <1>7 DEF Typed, RegistryRows
<1>9. ControlObjects'
  BY <1>1, <1>3, <1>6, <1>7 DEF ControlObjects, Typed
<1>10. MemberRecords'
  <2> SUFFICES ASSUME NEW m \in Members'
               PROVE  registry'[m].gen = gen /\ Device(m, gen) \in objects'
    BY <1>6 DEF MemberRecords, Device
  <2>1. CASE m = d
    BY <1>1, <1>2, <1>6, <1>7, <2>1 DEF Typed
  <2>2. CASE m # d
    <3>1. registry'[m] = registry[m] /\ m \in Members
      BY <1>1, <1>6, <2>2 DEF Typed, Members
    <3> QED BY <1>1, <1>7, <3>1 DEF MemberRecords
  <2> QED BY <2>1, <2>2
<1>11. AuthorOfGeneration'
  <2>1. PICK N : N = {x}
    OBVIOUS
  <2>2. objects' = objects \cup N /\ \A o \in N : Authored(o)'
    BY <1>3, <1>7, <2>1, NoAuthor
  <2> QED BY <1>1, <2>2, AuthorsStay
<1> QED BY <1>7, <1>8, <1>9, <1>10, <1>11 DEF Inv

LEMMA AckInv == ASSUME Inv, NEW d \in Devices, Ack(d) PROVE Inv'
<1>1. /\ Typed /\ MemberRecords
  BY DEF Inv
<1>2. /\ UNCHANGED <<mode, gen, epoch, logId, head, index, objects, receipts, imports, nextLog>>
      /\ registry[d] = [gen |-> gen, status |-> "pending_keys"]
      /\ registry' = [registry EXCEPT ![d].status = "active"]
  BY DEF Ack, chainRow
<1>3. registry'[d] = [gen |-> gen, status |-> "active"]
  BY <1>1, <1>2 DEF Typed
<1>4. registry' = [registry EXCEPT ![d] = [gen |-> gen, status |-> "active"]]
  BY <1>1, <1>2, <1>3 DEF Typed
<1>5. Typed'
  BY <1>1, <1>2, <1>4 DEF Typed, RegistryRows
<1>6. MemberRecords'
  <2>1. registry[d] \in RegistryRows /\ registry[d].status # "revoked"
    BY <1>1, <1>2 DEF RegistryRows, Typed
  <2>2. d \in Members
    BY <2>1, AbsentRowAssumption DEF Members
  <2>3. \A m \in Members' : m \in Members
    BY <1>1, <1>4, <2>2 DEF Members, Typed
  <2>4. \A m \in Members' : registry'[m].gen = gen
    BY <1>1, <1>3, <1>4, <2>3 DEF Members, Typed, MemberRecords
  <2> QED BY <1>1, <1>2, <2>3, <2>4 DEF MemberRecords, Device
<1>7. NothingStored' /\ ControlObjects' /\ LogIds'
  BY <1>2 DEF Inv, NothingStored, ControlObjects, LogIds
<1>8. EvidenceIsOneSequence' /\ OneReceipt' /\ AuthorOfGeneration'
  BY <1>2 DEF Inv, EvidenceIsOneSequence, OneReceipt, AuthorOfGeneration, Authored, Device, Epoch
<1> QED BY <1>5, <1>6, <1>7, <1>8 DEF Inv

\* The next epoch is not stored, not even staged: NoConflict would let it pass.
LEMMA RotateInv == ASSUME Inv, NEW R \in SUBSET Devices, NEW D \in SUBSET Devices, Rotate(R, D) PROVE Inv'
<1>1. /\ Typed /\ ControlObjects /\ MemberRecords /\ AuthorOfGeneration
  BY DEF Inv
<1>2. PICK x, V, vs : x = Epoch(epoch + 1, gen) /\ V = {Device(d, gen) : d \in D} /\ vs = DeviceRecords(D, gen)
  OBVIOUS
<1>3. /\ x.kind = "epoch" /\ x.gen = gen /\ x.id = epoch + 1
      /\ \A o \in V : o.kind = "device" /\ o.gen = gen /\ o.id \in D
  BY <1>2 DEF Epoch, Device
<1>4. (V \cup {x}) \cap objects = {}
  <2>1. epoch \in Nat /\ epoch + 1 \notin 0..epoch
    BY <1>1 DEF Typed
  <2>2. x \notin objects
    BY <1>1, <1>3, <2>1 DEF ControlObjects
  <2>3. \A o \in V : o \notin objects
    BY <1>3 DEF Rotate
  <2> QED BY <2>2, <2>3
<1>5. Lists(vs \o <<x>>, V \cup {x}) /\ AppendAll(vs \o <<x>>)
  <2>1. Lists(vs, V)
    BY <1>2, RecordsListed
  <2>2. V \cap {x} = {}
    BY <1>3
  <2>3. AppendAll(vs \o <<x>>)
    BY <1>2 DEF Rotate
  <2> QED BY <2>1, <2>2, <2>3, OneListed, ListsTogether
<1>6. /\ mode = "live" /\ R \subseteq Members /\ epoch' = epoch + 1
      /\ UNCHANGED <<mode, gen, logId, imports, payloadNonces, nextLog>>
      /\ registry' = [d \in Devices |->
                        IF d \in R THEN [registry[d] EXCEPT !.status = "revoked"]
                        ELSE IF d \in D THEN [gen |-> gen, status |-> "pending_keys"]
                        ELSE registry[d]]
  BY DEF Rotate
<1>7. /\ head' \in Nat /\ index' \in Nat /\ IsFiniteSet(objects')
      /\ receipts' \subseteq [object : objects', log : Nat, seq : Nat, index : 1..index']
      /\ objects' = objects \cup (V \cup {x})
      /\ NothingStored' /\ LogIds' /\ EvidenceIsOneSequence' /\ OneReceipt'
  BY <1>4, <1>5, <1>6, LiveAppendAll
<1>8. \A d \in R : registry[d] \in RegistryRows /\ [registry[d] EXCEPT !.status = "revoked"] \in RegistryRows
  BY <1>1, <1>6 DEF Typed, Members, RegistryRows
<1>9. registry' \in [Devices -> {None} \cup RegistryRows]
  <2>1. [gen |-> gen, status |-> "pending_keys"] \in RegistryRows
    BY <1>1 DEF Typed, RegistryRows
  <2> QED BY <1>1, <1>6, <1>8, <2>1 DEF Typed
<1>10. Typed'
  BY <1>1, <1>6, <1>7, <1>9 DEF Typed
<1>11. ControlObjects'
  <2>1. 0..epoch \subseteq 0..epoch' /\ epoch + 1 \in 0..epoch' /\ gen \in 0..gen /\ gen \in Nat
    BY <1>1, <1>6 DEF Typed
  <2>2. \A o \in objects' : o \in objects \/ o \in V \/ o = x
    BY <1>7
  <2> QED BY <1>1, <1>3, <1>6, <2>1, <2>2 DEF ControlObjects
<1>12. MemberRecords'
  <2> SUFFICES ASSUME NEW m \in Members'
               PROVE  registry'[m].gen = gen /\ Device(m, gen) \in objects'
    BY <1>6 DEF MemberRecords, Device
  <2>1. m \in Devices /\ registry'[m] # None /\ registry'[m].status # "revoked"
    BY DEF Members
  <2>2. \A d \in R : [registry[d] EXCEPT !.status = "revoked"].status = "revoked"
    BY <1>8 DEF RegistryRows
  <2>3. m \notin R
    BY <1>6, <2>1, <2>2
  <2>4. CASE m \in D
    <3>1. registry'[m] = [gen |-> gen, status |-> "pending_keys"]
      BY <1>6, <2>1, <2>3, <2>4
    <3> QED BY <1>2, <1>7, <2>4, <3>1
  <2>5. CASE m \notin D
    <3>1. registry'[m] = registry[m] /\ m \in Members
      BY <1>6, <2>1, <2>3, <2>5 DEF Members
    <3> QED BY <1>1, <1>7, <3>1 DEF MemberRecords
  <2> QED BY <2>4, <2>5
<1>13. AuthorOfGeneration'
  <2>1. \A o \in V \cup {x} : Authored(o)'
    BY <1>3, NoAuthor
  <2> QED BY <1>1, <1>7, <2>1, AuthorsStay
<1> QED BY <1>7, <1>10, <1>11, <1>12, <1>13 DEF Inv

LEMMA RecordType ==
  /\ \A r \in Records : r.kind = "record" /\ r.by \in Devices
  /\ \A r \in Parts : r.kind = "part" /\ r.by \in Devices
  BY DEF Records, Parts, Record

LEMMA UploadRecordInv == ASSUME Inv, NEW r \in Records, UploadRecord(r) PROVE Inv'
<1>1. /\ Typed /\ ControlObjects /\ MemberRecords /\ AuthorOfGeneration
  BY DEF Inv
<1>2. r.kind = "record" /\ r.by \in Devices
  BY RecordType
<1>3. /\ mode = "live" /\ r \notin objects /\ OfCurrentMember(r) /\ AppendAll(<<r>>)
      /\ UNCHANGED <<mode, gen, epoch, logId, registry, imports, nextLog>>
  BY DEF UploadRecord
<1>4. /\ head' \in Nat /\ index' \in Nat /\ IsFiniteSet(objects')
      /\ receipts' \subseteq [object : objects', log : Nat, seq : Nat, index : 1..index']
      /\ objects' = objects \cup {r}
      /\ NothingStored' /\ LogIds' /\ EvidenceIsOneSequence' /\ OneReceipt'
  BY <1>3, LiveAppend
<1>5. Typed'
  BY <1>1, <1>3, <1>4 DEF Typed
<1>6. ControlObjects'
  BY <1>1, <1>2, <1>3, <1>4 DEF ControlObjects, ControlKinds
<1>7. MemberRecords'
  <2>1. \A d \in Devices : registry'[d] = registry[d]
    BY <1>3
  <2>2. gen' = gen /\ objects \subseteq objects'
    BY <1>3, <1>4
  <2> QED BY <2>1, <2>2, SameGeneration
<1>8. AuthorOfGeneration'
  <2>1. registry[r.by] = [gen |-> gen, status |-> "active"] /\ r.gen = gen
    BY <1>3 DEF OfCurrentMember, IsActive
  <2>2. registry[r.by] \in RegistryRows /\ registry[r.by].status # "revoked"
    BY <1>1, <2>1 DEF Typed, RegistryRows
  <2>3. r.by \in Members
    BY <1>2, <2>2, AbsentRowAssumption DEF Members
  <2>4. Device(r.by, r.gen) \in objects
    BY <1>1, <2>1, <2>3 DEF MemberRecords
  <2>5. PICK N : N = {r}
    OBVIOUS
  <2>6. Authored(r)'
    BY <1>2, <1>4, <2>4 DEF Authored, Device
  <2>7. objects' = objects \cup N /\ \A o \in N : Authored(o)'
    BY <1>4, <2>5, <2>6
  <2> QED BY <1>1, <2>7, AuthorsStay
<1> QED BY <1>4, <1>5, <1>6, <1>7, <1>8 DEF Inv

\* A part has a receipt without a position, so the log stays as it is.
LEMMA UploadPartInv ==
  ASSUME Inv, NEW r \in Parts, NEW p \in Devices \cup {Admin}, UploadPart(p, r)
  PROVE  Inv'
<1>1. /\ Typed /\ ControlObjects /\ LogIds /\ AuthorOfGeneration
      /\ EvidenceIsOneSequence /\ OneReceipt
  BY DEF Inv
<1>2. r.kind = "part"
  BY RecordType
<1>3. PICK n : n = [object |-> r, log |-> logId, seq |-> 0, index |-> index + 1]
  OBVIOUS
<1>4. /\ mode # "none" /\ r \notin objects
      /\ objects' = objects \cup {r} /\ receipts' = receipts \cup {n} /\ index' = index + 1
      /\ UNCHANGED <<mode, gen, epoch, logId, head, registry, imports, nextLog>>
  BY <1>3 DEF UploadPart
<1>5. \A q \in receipts : /\ q \in [object : objects, log : Nat, seq : Nat, index : 1..index]
                          /\ q.object # r /\ q.index # index + 1
  BY <1>1, <1>4 DEF Typed
<1>6. Typed'
  <2>1. index \in Nat /\ IsFiniteSet(objects) /\ logId \in Nat
    BY <1>1 DEF Typed
  <2>2. IsFiniteSet(objects')
    BY <1>4, <2>1, FS_AddElement
  <2>3. \A q \in receipts : q \in [object : objects', log : Nat, seq : Nat, index : 1..index']
    BY <1>4, <1>5, <2>1
  <2>4. n \in [object : objects', log : Nat, seq : Nat, index : 1..index']
    BY <1>3, <1>4, <2>1
  <2> QED BY <1>1, <1>4, <2>1, <2>2, <2>3, <2>4 DEF Typed
<1>7. NothingStored' /\ ControlObjects' /\ LogIds'
  <2>1. n.log = logId /\ n.seq = 0
    BY <1>3
  <2> QED BY <1>1, <1>2, <1>4, <2>1 DEF NothingStored, ControlObjects, LogIds, ControlKinds
<1>8. MemberRecords'
  <2>1. \A d \in Devices : registry'[d] = registry[d]
    BY <1>4
  <2>2. gen' = gen /\ objects \subseteq objects'
    BY <1>4
  <2> QED BY <2>1, <2>2, SameGeneration
<1>9. EvidenceIsOneSequence'
  <2>1. n.seq = 0 /\ n.index = index + 1
    BY <1>3
  <2> QED BY <1>1, <1>4, <1>5, <2>1 DEF EvidenceIsOneSequence
<1>10. OneReceipt'
  <2>1. n.object = r /\ n.seq = 0
    BY <1>3
  <2>2. {q \in receipts' : q.log = logId' /\ q.seq # 0} = {q \in receipts : q.log = logId /\ q.seq # 0}
    BY <1>4, <2>1
  <2> QED BY <1>1, <1>4, <1>5, <2>1, <2>2 DEF OneReceipt
<1>11. AuthorOfGeneration'
  <2>1. PICK N : N = {r}
    OBVIOUS
  <2>2. objects' = objects \cup N /\ \A o \in N : Authored(o)'
    BY <1>2, <1>4, <2>1, NoAuthor
  <2> QED BY <1>1, <2>2, AuthorsStay
<1> QED BY <1>6, <1>7, <1>8, <1>9, <1>10, <1>11 DEF Inv

\* The signed history is finite, and of another generation it has device records only.
LEMMA HistoryType ==
  ASSUME NEW D \in SUBSET Devices, NEW A \in SUBSET Devices, NEW g \in Nat, NEW e \in Nat
  PROVE  /\ IsFiniteSet(History(g, e, D, A))
         /\ \A o \in History(g, e, D, A) :
                /\ o.kind \in {"parameters", "epoch", "device"} /\ o.gen \in Nat
                /\ o.kind # "device" => o.gen = g
                /\ o.kind = "epoch" => o.id \in 0..e
<1> DEFINE E == {Epoch(i, g) : i \in 0..e}
           V == {Device(d, g) : d \in D}
           W == {Device(d, g + 1) : d \in A}
           fE == [i \in 0..e |-> Epoch(i, g)]
<1>1. IsFiniteSet(0..e)
  BY FS_Interval
<1>2. fE \in Surjection(0..e, E)
  BY DEF Surjection
<1>3. IsFiniteSet(E) /\ IsFiniteSet(V) /\ IsFiniteSet(W)
  <2>1. IsFiniteSet(E)
    BY <1>1, <1>2, FS_Surjection
  <2>2. Lists(DeviceRecords(D, g), V) /\ Lists(DeviceRecords(A, g + 1), W)
    BY RecordsListed
  <2> HIDE DEF E, V, W
  <2> QED BY <2>1, <2>2, ListedFinite
<1>4. IsFiniteSet({Parameters(g), Epoch(e, g)})
  <2>1. {Parameters(g), Epoch(e, g)} = {Parameters(g)} \cup {Epoch(e, g)}
    OBVIOUS
  <2>2. IsFiniteSet({Parameters(g)}) /\ IsFiniteSet({Epoch(e, g)})
    BY FS_Singleton
  <2>3. IsFiniteSet({Parameters(g)} \cup {Epoch(e, g)})
    BY <2>2, FS_Union
  <2> QED BY <2>1, <2>3
<1>5. IsFiniteSet(IF mode = "live" THEN {} ELSE E)
  BY <1>3, FS_EmptySet
<1>6. IsFiniteSet({Parameters(g), Epoch(e, g)} \cup (IF mode = "live" THEN {} ELSE E))
  BY <1>4, <1>5, FS_Union
<1>7. IsFiniteSet(History(g, e, D, A))
  <2>1. IsFiniteSet(({Parameters(g), Epoch(e, g)} \cup (IF mode = "live" THEN {} ELSE E)) \cup V)
    BY <1>3, <1>6, FS_Union
  <2> QED BY <1>3, <2>1, FS_Union DEF History
<1>8. \A o \in History(g, e, D, A) :
          \/ o = Parameters(g)
          \/ o \in {Device(d, g) : d \in D} \/ o \in {Device(d, g + 1) : d \in A}
          \/ \E i \in 0..e : o = Epoch(i, g)
  BY DEF History
<1>9. ASSUME NEW o \in History(g, e, D, A)
      PROVE  /\ o.kind \in {"parameters", "epoch", "device"} /\ o.gen \in Nat
             /\ o.kind # "device" => o.gen = g
             /\ o.kind = "epoch" => o.id \in 0..e
  BY <1>8 DEF Parameters, Device, Epoch
<1> QED BY <1>7, <1>9

LEMMA StageInv ==
  ASSUME Inv, NEW D \in SUBSET Devices, NEW A \in SUBSET Devices, NEW g \in Nat, NEW e \in Nat,
         mode = "none" => g = 0, Stage(History(g, e, D, A), g, e)
  PROVE  Inv'
<1>1. /\ Typed /\ NothingStored /\ ControlObjects /\ LogIds /\ AuthorOfGeneration
      /\ EvidenceIsOneSequence /\ OneReceipt
  BY DEF Inv
<1>2. PICK H : H = History(g, e, D, A)
  OBVIOUS
<1>3. /\ IsFiniteSet(H)
      /\ \A o \in H : /\ o.kind \in {"parameters", "epoch", "device"} /\ o.gen \in Nat
                      /\ o.kind # "device" => o.gen = g
                      /\ o.kind = "epoch" => o.id \in 0..e
  BY <1>2, HistoryType
<1>4. /\ objects' = objects \cup H
      /\ imports' = ImportRow(g, e)
      /\ nextLog' = IF imports = None THEN nextLog + 1 ELSE nextLog
      /\ UNCHANGED <<receipts, registry, head, index>>
  BY <1>2 DEF Stage, chainRow
<1>5. gen' = gen /\ gen' = g /\ epoch' = e
  BY <1>1 DEF Stage, HeadMatches, chainRow, NothingStored
<1>6. mode = "none" => mode' = "staged" /\ logId' = imports'.log
  BY DEF Stage
<1>7. mode # "none" => mode' = mode /\ logId' = logId
  BY DEF Stage, chainRow
<1>8. ASSUME imports = None PROVE Typed' /\ LogIds'
  <2>1. imports' = [log |-> nextLog, gen |-> g, epoch |-> e] /\ nextLog' = nextLog + 1
    BY <1>4, <1>8 DEF ImportRow
  <2>2. imports'.log = nextLog /\ nextLog \in Nat
    BY <1>1, <2>1 DEF Typed
  <2>3. Typed'
    <3>1. IsFiniteSet(objects')
      <4>1. IsFiniteSet(objects)
        BY <1>1 DEF Typed
      <4> QED BY <1>3, <1>4, <4>1, FS_Union
    <3>2. receipts' \subseteq [object : objects', log : Nat, seq : Nat, index : 1..index']
      BY <1>1, <1>4 DEF Typed
    <3>3. logId' \in Nat /\ mode' \in {"none", "staged", "live"}
      BY <1>1, <1>6, <1>7, <2>2 DEF Typed
    <3>4. imports' \in {None} \cup [log : Nat, gen : Nat, epoch : Nat] /\ nextLog' \in Nat
      BY <2>1, <2>2
    <3> QED BY <1>1, <1>4, <1>5, <3>1, <3>2, <3>3, <3>4 DEF Typed
  <2>4. LogIds'
    <3>1. logId \in Nat /\ \A r \in receipts : r.log \in Nat
      BY <1>1 DEF Typed
    <3>2. logId' < nextLog' /\ \A r \in receipts' : r.log < nextLog' /\ r.log # imports'.log
      BY <1>1, <1>4, <1>6, <1>7, <2>1, <2>2, <3>1 DEF LogIds
    <3>3. mode' = "live" => imports'.log # logId'
      BY <1>1, <1>6, <1>7, <2>2, <3>1 DEF LogIds, Typed
    <3> QED BY <2>1, <2>2, <3>2, <3>3 DEF LogIds
  <2> QED BY <2>3, <2>4
<1>9. ASSUME imports # None PROVE Typed' /\ LogIds'
  <2>1. imports' = imports /\ nextLog' = nextLog /\ mode # "none"
    BY <1>1, <1>4, <1>9 DEF ImportRow, NothingStored
  <2>2. Typed'
    <3>1. IsFiniteSet(objects')
      <4>1. IsFiniteSet(objects)
        BY <1>1 DEF Typed
      <4> QED BY <1>3, <1>4, <4>1, FS_Union
    <3>2. receipts' \subseteq [object : objects', log : Nat, seq : Nat, index : 1..index']
      BY <1>1, <1>4 DEF Typed
    <3> QED BY <1>1, <1>4, <1>5, <1>7, <2>1, <3>1, <3>2 DEF Typed
  <2>3. LogIds'
    BY <1>1, <1>4, <1>7, <2>1 DEF LogIds
  <2> QED BY <2>2, <2>3
<1>10. Typed' /\ LogIds'
  BY <1>8, <1>9
<1>11. NothingStored'
  BY <1>6, <1>7 DEF NothingStored
<1>12. ControlObjects'
  <2>1. ASSUME NEW o \in objects
        PROVE  /\ o.kind \in ControlKinds => o.gen \in Nat
               /\ o.kind \in ControlKinds \ {"device"} => o.gen \in 0..gen'
               /\ o.kind = "epoch" => o.id \in 0..epoch'
    <3>1. gen' = gen /\ epoch' = epoch
      BY <1>1, <2>1, <1>5 DEF NothingStored, Stage, HeadMatches
    <3> QED BY <1>1, <3>1 DEF ControlObjects
  <2>2. g \in 0..gen' /\ 0..e = 0..epoch'
    BY <1>5
  <2> QED BY <1>3, <1>4, <2>1, <2>2, Zenon DEF ControlObjects
<1>13. MemberRecords'
  <2>1. \A d \in Devices : registry'[d] = registry[d]
    BY <1>4
  <2>2. gen' = gen /\ objects \subseteq objects'
    BY <1>4, <1>5
  <2> QED BY <2>1, <2>2, SameGeneration
<1>14. EvidenceIsOneSequence'
  BY <1>1, <1>4 DEF EvidenceIsOneSequence
<1>15. OneReceipt'
  <2>1. CASE mode = "none"
    <3>1. receipts' = {} /\ head' = 0
      BY <1>1, <1>4, <2>1 DEF NothingStored
    <3> QED BY <3>1 DEF OneReceipt
  <2>2. CASE mode # "none"
    BY <1>1, <1>4, <1>7, <2>2 DEF OneReceipt
  <2> QED BY <2>1, <2>2
<1>16. AuthorOfGeneration'
  <2>1. \A o \in H : Authored(o)'
    BY <1>3, NoAuthor
  <2> QED BY <1>1, <1>4, <2>1, AuthorsStay
<1> QED BY <1>10, <1>11, <1>12, <1>13, <1>14, <1>15, <1>16 DEF Inv

-----------------------------------------------------------------------------
\* What the commit of the next generation appends: the staged objects and those of
\* the new generation, each once and none of them with a receipt.
NewObjects(D, Q) ==
    {Parameters(gen + 1)} \cup {Device(d, gen + 1) : d \in D}
      \cup {Epoch(epoch + 1, gen + 1), Compaction(gen + 1, Q)}

LEMMA NewObjectsType ==
  ASSUME Inv, NEW D \in SUBSET Devices, NEW Q, \A o \in objects : ~(o.kind = "device" /\ o.id \in D)
  PROVE  \A o \in NewObjects(D, Q) :
            /\ o.kind \in ControlKinds /\ o.gen = gen + 1 /\ o \notin objects
            /\ o.kind = "epoch" => o.id = epoch + 1
<1>1. gen \in Nat /\ gen + 1 \notin 0..gen /\ ControlObjects
  BY DEF Inv, Typed
<1>2. ASSUME NEW o \in NewObjects(D, Q)
      PROVE  /\ o.kind \in ControlKinds /\ o.gen = gen + 1
             /\ o.kind = "epoch" => o.id = epoch + 1
             /\ o.kind = "device" => o.id \in D
  <2>1. CASE o = Parameters(gen + 1)
    BY <2>1 DEF Parameters, ControlKinds
  <2>2. CASE \E d \in D : o = Device(d, gen + 1)
    BY <2>2 DEF Device, ControlKinds
  <2>3. CASE o = Epoch(epoch + 1, gen + 1)
    BY <2>3 DEF Epoch, ControlKinds
  <2>4. CASE o = Compaction(gen + 1, Q)
    BY <2>4 DEF Compaction, ControlKinds
  <2> QED BY <2>1, <2>2, <2>3, <2>4 DEF NewObjects
<1> QED BY <1>1, <1>2 DEF ControlObjects

LEMMA CommitLists ==
  ASSUME Inv, NEW D \in SUBSET Devices, NEW Q, \A o \in objects : ~(o.kind = "device" /\ o.id \in D)
  PROVE  Lists(StagedInOrder \o <<Parameters(gen + 1)>> \o DeviceRecords(D, gen + 1)
                 \o <<Epoch(epoch + 1, gen + 1), Compaction(gen + 1, Q)>>,
               Staged \cup NewObjects(D, Q))
<1> DEFINE Kind(k) == {o \in Staged : o.kind = k}
<1>1. PICK A1, A2, A3, F : /\ A1 = Kind("parameters") /\ A2 = Kind("device") /\ A3 = Kind("epoch")
                           /\ F = {Device(d, gen + 1) : d \in D}
  OBVIOUS
<1>2. PICK P, E, C : P = Parameters(gen + 1) /\ E = Epoch(epoch + 1, gen + 1) /\ C = Compaction(gen + 1, Q)
  OBVIOUS
<1>3. IsFiniteSet(A1) /\ IsFiniteSet(A2) /\ IsFiniteSet(A3)
  <2>1. IsFiniteSet(objects)
    BY DEF Inv, Typed
  <2>2. A1 \in SUBSET objects /\ A2 \in SUBSET objects /\ A3 \in SUBSET objects
    BY <1>1 DEF Staged
  <2> QED BY <2>1, <2>2, FS_Subset
<1>5. /\ Lists(InOrder("parameters"), A1) /\ Lists(InOrder("device"), A2)
      /\ Lists(InOrder("epoch"), A3) /\ Lists(DeviceRecords(D, gen + 1), F)
  BY <1>1, <1>3, SetListed, RecordsListed DEF InOrder
<1>6. /\ A1 \cup A2 \cup A3 = Staged
      /\ A1 \cap A2 = {} /\ (A1 \cup A2) \cap A3 = {}
  BY <1>1 DEF Staged
<1>7. NewObjects(D, Q) = ({P} \cup F) \cup {E, C}
  BY <1>1, <1>2 DEF NewObjects
<1>8. Staged \cap NewObjects(D, Q) = {}
  <2>1. \A o \in NewObjects(D, Q) : o \notin objects
    BY NewObjectsType
  <2> QED BY <2>1 DEF Staged
<1>9. /\ P.kind = "parameters" /\ E.kind = "epoch" /\ C.kind = "compaction"
      /\ \A o \in F : o.kind = "device"
  BY <1>1, <1>2 DEF Parameters, Epoch, Compaction, Device
<1>10. Lists(StagedInOrder, Staged)
  <2>1. Lists(InOrder("parameters") \o InOrder("device"), A1 \cup A2)
    BY <1>5, <1>6, ListsTogether
  <2>2. Lists((InOrder("parameters") \o InOrder("device")) \o InOrder("epoch"), (A1 \cup A2) \cup A3)
    BY <1>5, <1>6, <2>1, ListsTogether
  <2> QED BY <1>6, <2>2 DEF StagedInOrder
<1>11. Lists(StagedInOrder \o <<P>>, Staged \cup {P})
  <2>1. Staged \cap {P} = {}
    BY <1>7, <1>8
  <2> QED BY <1>10, <2>1, OneListed, ListsTogether
<1>12. Lists((StagedInOrder \o <<P>>) \o DeviceRecords(D, gen + 1), (Staged \cup {P}) \cup F)
  <2>1. (Staged \cup {P}) \cap F = {}
    BY <1>7, <1>8, <1>9
  <2> QED BY <1>5, <1>11, <2>1, ListsTogether
<1>13. Lists(<<E, C>>, {E, C})
  <2>1. PICK t : t = <<E, C>>
    OBVIOUS
  <2>2. t \in Seq({E, C}) /\ Len(t) = 2 /\ t[1] = E /\ t[2] = C
    BY <2>1
  <2>3. \A i \in 1..2 : i = 1 \/ i = 2
    OBVIOUS
  <2>4. \A i, j \in 1..2 : t[i] = t[j] => i = j
    BY <1>9, <2>2, <2>3
  <2>5. {E, C} = {t[k] : k \in 1..2}
    BY <2>2, <2>3
  <2>6. Lists(t, {E, C})
    BY <2>2, <2>4, <2>5 DEF Lists
  <2> QED BY <2>1, <2>6
<1>14. Lists(((StagedInOrder \o <<P>>) \o DeviceRecords(D, gen + 1)) \o <<E, C>>, ((Staged \cup {P}) \cup F) \cup {E, C})
  <2>1. ((Staged \cup {P}) \cup F) \cap {E, C} = {}
    BY <1>7, <1>8, <1>9
  <2> QED BY <1>12, <1>13, <2>1, ListsTogether
<1>15. ((Staged \cup {P}) \cup F) \cup {E, C} = Staged \cup NewObjects(D, Q)
  BY <1>7
<1> QED BY <1>2, <1>14, <1>15

\* The registry after the commit: nobody but the new devices is a member.
LEMMA RetiredType ==
  ASSUME Inv, NEW D \in SUBSET Devices
  PROVE  /\ MembersRetired(D) \in [Devices -> {None} \cup RegistryRows]
         /\ \A d \in D : MembersRetired(D)[d] = [gen |-> gen + 1, status |-> "pending_keys"]
         /\ \A d \in Devices \ D :
               MembersRetired(D)[d] = None \/ MembersRetired(D)[d].status = "revoked"
<1>1. Typed /\ ControlObjects
  BY DEF Inv
<1> DEFINE Row(d) ==
        IF d \in D THEN [gen |-> gen + 1, status |-> "pending_keys"]
        ELSE IF registry[d] # None THEN [registry[d] EXCEPT !.status = "revoked"]
        ELSE IF \E o \in Staged : o.kind = "device" /\ o.id = d
               THEN [gen |-> (CHOOSE o \in Staged : o.kind = "device" /\ o.id = d).gen,
                     status |-> "revoked"]
        ELSE None
<1>2. MembersRetired(D) = [d \in Devices |-> Row(d)]
  BY DEF MembersRetired
<1>3. ASSUME NEW d \in Devices
      PROVE  /\ Row(d) \in {None} \cup RegistryRows
             /\ d \in D => Row(d) = [gen |-> gen + 1, status |-> "pending_keys"]
             /\ d \notin D => Row(d) = None \/ Row(d).status = "revoked"
  <2>1. CASE d \in D
    BY <1>1, <2>1 DEF Typed, RegistryRows
  <2>2. CASE d \notin D /\ registry[d] # None
    <3>1. registry[d] \in RegistryRows
      BY <1>1, <2>2 DEF Typed
    <3>2. PICK row : row = [registry[d] EXCEPT !.status = "revoked"]
      OBVIOUS
    <3>3. row \in RegistryRows /\ row.status = "revoked"
      BY <3>1, <3>2 DEF RegistryRows
    <3>4. Row(d) = row
      BY <2>2, <3>2
    <3> HIDE DEF Row
    <3> QED BY <2>2, <3>3, <3>4
  <2>3. CASE d \notin D /\ registry[d] = None /\ \E o \in Staged : o.kind = "device" /\ o.id = d
    <3>1. PICK o : o = CHOOSE q \in Staged : q.kind = "device" /\ q.id = d
      OBVIOUS
    <3>2. o \in Staged /\ o.kind = "device"
      BY <2>3, <3>1
    <3>3. o.gen \in Nat
      BY <1>1, <3>2 DEF Staged, ControlObjects, ControlKinds, Typed
    <3>4. Row(d) = [gen |-> o.gen, status |-> "revoked"]
      BY <2>3, <3>1
    <3>5. [gen |-> o.gen, status |-> "revoked"] \in RegistryRows
      BY <3>3 DEF RegistryRows
    <3> HIDE DEF Row
    <3> QED BY <2>3, <3>4, <3>5
  <2>4. CASE d \notin D /\ registry[d] = None /\ ~\E o \in Staged : o.kind = "device" /\ o.id = d
    <3>1. Row(d) = None
      BY <2>4
    <3> HIDE DEF Row
    <3> QED BY <2>4, <3>1
  <2> HIDE DEF Row
  <2> QED BY <2>1, <2>2, <2>3, <2>4
<1> HIDE DEF Row
<1> QED BY <1>2, <1>3

LEMMA ReseedInv ==
  ASSUME Inv, NEW D \in SUBSET Devices, NEW Q, Reseed(D, Q)
  PROVE  Inv'
<1>1. /\ Typed /\ ControlObjects /\ LogIds /\ AuthorOfGeneration
      /\ EvidenceIsOneSequence /\ OneReceipt
  BY DEF Inv
<1>2. PICK os : os = StagedInOrder \o <<Parameters(gen + 1)>> \o DeviceRecords(D, gen + 1)
                       \o <<Epoch(epoch + 1, gen + 1), Compaction(gen + 1, Q)>>
  OBVIOUS
<1>3. PICK S, N : S = Staged \cup N /\ N = NewObjects(D, Q)
  OBVIOUS
<1>4. Lists(os, S)
  <2>1. \A o \in objects : ~(o.kind = "device" /\ o.id \in D)
    BY DEF Reseed
  <2> QED BY <1>2, <1>3, <2>1, CommitLists
<1>5. \A o \in N : /\ o.kind \in ControlKinds /\ o.gen = gen + 1 /\ o \notin objects
                   /\ o.kind = "epoch" => o.id = epoch + 1
  <2>1. \A o \in objects : ~(o.kind = "device" /\ o.id \in D)
    BY DEF Reseed
  <2> QED BY <1>3, <2>1, NewObjectsType
<1>6. /\ objects' = objects \cup {os[k] : k \in 1..Len(os)}
      /\ receipts' = receipts \cup ReceiptsOf(os, imports.log, 0, index)
      /\ head' = Len(os) /\ index' = index + Len(os)
      /\ mode' = "live" /\ gen' = gen + 1 /\ epoch' = epoch + 1 /\ logId' = imports.log
      /\ imports' = None /\ nextLog' = nextLog /\ registry' = MembersRetired(D)
      /\ imports # None
  BY <1>2 DEF Reseed, LogStaged, CompareAndSwap
<1>7. objects' = objects \cup S /\ objects' = objects \cup N
  BY <1>3, <1>4, <1>6 DEF Lists, Staged
<1>8. imports.log \in Nat /\ gen \in Nat /\ epoch \in Nat
  BY <1>1, <1>6 DEF Typed
<1>9. \A r \in receipts : r.object \notin S
  <2>1. \A r \in receipts : r.object \in objects
    BY <1>1 DEF Typed
  <2> QED BY <1>3, <1>5, <2>1 DEF Staged, Receipted
<1>10. {r.seq : r \in {q \in receipts : q.log = imports.log /\ q.seq # 0}} = 1..0
  <2>1. {q \in receipts : q.log = imports.log /\ q.seq # 0} = {}
    BY <1>1, <1>6 DEF LogIds
  <2> QED BY <2>1
<1>11. head' = 0 + Len(os)
  BY <1>4, <1>6 DEF Lists
<1>12. /\ head' \in Nat /\ index' \in Nat /\ IsFiniteSet(objects')
       /\ receipts' \subseteq [object : objects', log : Nat, seq : Nat, index : 1..index']
       /\ \A r \in receipts' : r \in receipts \/ r.log = imports.log
       /\ EvidenceIsOneSequence'
       /\ OneReceipt'
  BY <1>1, <1>4, <1>6, <1>7, <1>8, <1>9, <1>10, <1>11, Appended
<1>13. Typed'
  <2>1. registry' \in [Devices -> {None} \cup RegistryRows]
    BY <1>6, RetiredType
  <2>2. nextLog' \in Nat
    BY <1>1, <1>6 DEF Typed
  <2> QED BY <1>6, <1>8, <1>12, <2>1, <2>2 DEF Typed
<1>14. NothingStored'
  BY <1>6 DEF NothingStored
<1>15. ControlObjects'
  <2>1. /\ 0..gen \subseteq 0..gen' /\ gen + 1 \in 0..gen' /\ gen + 1 \in Nat
        /\ 0..epoch \subseteq 0..epoch' /\ epoch + 1 \in 0..epoch'
    BY <1>6, <1>8
  <2> QED BY <1>1, <1>5, <1>7, <2>1 DEF ControlObjects
<1>16. LogIds'
  BY <1>1, <1>6, <1>12 DEF LogIds
<1>17. MemberRecords'
  <2> SUFFICES ASSUME NEW d \in Members'
               PROVE  registry'[d].gen = gen + 1 /\ Device(d, gen + 1) \in objects'
    BY <1>6 DEF MemberRecords, Device
  <2>1. d \in Devices /\ registry'[d] # None /\ registry'[d].status # "revoked"
    BY DEF Members
  <2>2. d \in D /\ registry'[d] = [gen |-> gen + 1, status |-> "pending_keys"]
    BY <1>6, <2>1, RetiredType
  <2>3. Device(d, gen + 1) \in N
    BY <1>3, <2>2 DEF NewObjects
  <2> QED BY <1>7, <2>2, <2>3
<1>18. AuthorOfGeneration'
  <2>1. ASSUME NEW o \in N PROVE Authored(o)'
    <3>1. CASE o = Compaction(gen + 1, Q)
      <4>1. o.kind = "compaction" /\ o.gen = gen + 1 /\ o.parts = Q
        BY <3>1 DEF Compaction
      <4>2. \A q \in Q : q \in objects /\ q.epoch = epoch + 1 /\ q.by \in D
        BY DEF Reseed, SnapshotOf
      <4>3. Epoch(epoch + 1, gen + 1) \in N /\ \A d \in D : Device(d, gen + 1) \in N
        BY <1>3 DEF NewObjects
      <4> QED BY <1>7, <4>1, <4>2, <4>3 DEF Authored, Epoch, Device
    <3>2. CASE o # Compaction(gen + 1, Q)
      <4>1. o.kind \notin {"record", "compaction"}
        BY <1>3, <3>2 DEF NewObjects, Parameters, Epoch, Device
      <4> QED BY <4>1, NoAuthor
    <3> QED BY <3>1, <3>2
  <2> QED BY <1>1, <1>7, <2>1, AuthorsStay
<1> QED BY <1>12, <1>13, <1>14, <1>15, <1>16, <1>17, <1>18 DEF Inv

-----------------------------------------------------------------------------
LEMMA InitInv == Init => Inv
<1> SUFFICES ASSUME Init PROVE Inv
  OBVIOUS
<1>1. gen = 0 /\ imports = None /\ nextLog = 1 /\ epoch = 0 /\ logId = 0
  BY DEF Init
<1>2. CASE mode = "live"
  <2>1. PICK os : os = Genesis
    OBVIOUS
  <2>2. PICK P, V, E : P = Parameters(0) /\ V = Device(Creator, 0) /\ E = Epoch(0, 0)
    OBVIOUS
  <2>3. /\ P.kind = "parameters" /\ P.gen = 0 /\ V.kind = "device" /\ V.gen = 0
        /\ E.kind = "epoch" /\ E.gen = 0 /\ E.id = 0
    BY <2>2 DEF Parameters, Device, Epoch
  <2>4. Len(os) = 3 /\ os[1] = P /\ os[2] = V /\ os[3] = E
    BY <2>1, <2>2 DEF Genesis
  <2>5. \A k \in 1..3 : k = 1 \/ k = 2 \/ k = 3
    OBVIOUS
  <2>6. /\ head = 3 /\ index = 3
        /\ objects = {os[k] : k \in 1..3}
        /\ receipts = ReceiptsOf(os, 0, 0, 0)
        /\ registry = [d \in Devices |-> IF d = Creator THEN [gen |-> 0, status |-> "active"] ELSE None]
    BY <1>2, <2>1, <2>4 DEF Init
  <2>7. objects = {P, V, E}
    BY <2>4, <2>5, <2>6
  <2>8. receipts = {[object |-> os[k], log |-> 0, seq |-> k, index |-> k] : k \in 1..3}
    <3>1. \A k \in 1..3 : 0 + k = k
      OBVIOUS
    <3> QED BY <2>4, <2>6, <3>1 DEF ReceiptsOf
  <2>9. \A r \in receipts : \E k \in 1..3 : r = [object |-> os[k], log |-> 0, seq |-> k, index |-> k]
    BY <2>8
  <2>10. Typed
    <3>1. IsFiniteSet(objects)
      <4>1. IsFiniteSet({P}) /\ IsFiniteSet({V}) /\ IsFiniteSet({E})
        BY FS_Singleton
      <4>2. IsFiniteSet({P} \cup {V})
        BY <4>1, FS_Union
      <4>3. IsFiniteSet(({P} \cup {V}) \cup {E})
        BY <4>1, <4>2, FS_Union
      <4>4. objects = ({P} \cup {V}) \cup {E}
        BY <2>7
      <4> QED BY <4>3, <4>4
    <3>2. receipts \subseteq [object : objects, log : Nat, seq : Nat, index : 1..index]
      BY <2>6, <2>9
    <3>3. registry \in [Devices -> {None} \cup RegistryRows]
      BY <2>6 DEF RegistryRows
    <3> QED BY <1>1, <1>2, <2>6, <3>1, <3>2, <3>3 DEF Typed
  <2>11. NothingStored /\ LogIds
    BY <1>1, <1>2, <2>9 DEF NothingStored, LogIds
  <2>12. ControlObjects
    BY <1>1, <2>3, <2>7 DEF ControlObjects
  <2>13. MemberRecords
    <3>1. \A d \in Members : d = Creator
      BY <2>6 DEF Members
    <3>2. registry[Creator] = [gen |-> 0, status |-> "active"]
      BY <2>6, ReseedAssumption
    <3> QED BY <1>1, <2>2, <2>7, <3>1, <3>2 DEF MemberRecords
  <2>14. EvidenceIsOneSequence
    BY <2>9 DEF EvidenceIsOneSequence
  <2>15. OneReceipt
    <3>1. \A i, j \in 1..3 : os[i] = os[j] => i = j
      BY <2>3, <2>4, <2>5
    <3>2. \A r, q \in receipts : r.object = q.object => r = q
      BY <2>9, <3>1
    <3>3. {r.seq : r \in {q \in receipts : q.log = logId /\ q.seq # 0}} = 1..head
      <4>1. \A r \in receipts : r.seq \in 1..3
        BY <2>9
      <4>2. ASSUME NEW k \in 1..3
            PROVE  \E r \in receipts : r.log = 0 /\ r.seq # 0 /\ r.seq = k
        <5>1. PICK r : r = [object |-> os[k], log |-> 0, seq |-> k, index |-> k]
          OBVIOUS
        <5>2. r \in receipts /\ r.log = 0 /\ r.seq = k /\ k # 0
          BY <2>8, <5>1
        <5> QED BY <5>2
      <4> QED BY <1>1, <2>6, <4>1, <4>2
    <3> QED BY <3>2, <3>3 DEF OneReceipt
  <2>16. AuthorOfGeneration
    BY <2>3, <2>7 DEF AuthorOfGeneration, Authored
  <2> QED BY <2>10, <2>11, <2>12, <2>13, <2>14, <2>15, <2>16 DEF Inv
<1>3. CASE mode = "none"
  <2>1. /\ head = 0 /\ index = 0 /\ objects = {} /\ receipts = {}
        /\ registry = [d \in Devices |-> None]
    BY <1>3 DEF Init
  <2>2. Typed
    BY <1>1, <1>3, <2>1, FS_EmptySet DEF Typed
  <2>3. MemberRecords
    BY <2>1 DEF MemberRecords, Members
  <2>4. NothingStored /\ ControlObjects /\ LogIds
    BY <1>1, <2>1 DEF NothingStored, ControlObjects, LogIds
  <2>5. EvidenceIsOneSequence /\ OneReceipt /\ AuthorOfGeneration
    BY <2>1 DEF EvidenceIsOneSequence, OneReceipt, AuthorOfGeneration
  <2> QED BY <2>2, <2>3, <2>4, <2>5 DEF Inv
<1> QED BY <1>2, <1>3 DEF Init

LEMMA StutterInv == ASSUME Inv, UNCHANGED vars PROVE Inv'
<1>1. UNCHANGED <<mode, gen, epoch, logId, head, index, objects, receipts, registry, imports, nextLog>>
  BY DEF vars
<1>2. Typed' /\ NothingStored' /\ ControlObjects' /\ LogIds'
  BY <1>1 DEF Inv, Typed, NothingStored, ControlObjects, LogIds
<1>3. MemberRecords' /\ EvidenceIsOneSequence' /\ OneReceipt' /\ AuthorOfGeneration'
  BY <1>1 DEF Inv, MemberRecords, Members, EvidenceIsOneSequence, OneReceipt, AuthorOfGeneration, Authored, Device, Epoch
<1> QED BY <1>2, <1>3 DEF Inv

LEMMA NextInv == Inv /\ [Next]_vars => Inv'
<1> SUFFICES ASSUME Inv, [Next]_vars PROVE Inv'
  OBVIOUS
<1>1. ASSUME NEW d \in Devices, Enroll(d) \/ Ack(d) PROVE Inv'
  BY <1>1, EnrollInv, AckInv
<1>2. ASSUME NEW R \in SUBSET Devices, NEW D \in SUBSET Devices, Rotate(R, D) PROVE Inv'
  BY <1>2, RotateInv
<1>3. ASSUME NEW r \in Records, UploadRecord(r) PROVE Inv'
  BY <1>3, UploadRecordInv
<1>4. ASSUME NEW r \in Parts, NEW p \in Devices \cup {Admin}, UploadPart(p, r) PROVE Inv'
  BY <1>4, UploadPartInv
<1>5. ASSUME NEW D \in SUBSET Devices, NEW A \in SUBSET Devices,
             mode = "none", Stage(History(0, SourceEpoch, D, A), 0, SourceEpoch)
      PROVE  Inv'
  BY <1>5, StageInv, ReseedAssumption
<1>6. ASSUME NEW D \in SUBSET Devices, NEW A \in SUBSET Devices,
             mode # "none", Stage(History(gen, epoch, D, A), gen, epoch)
      PROVE  Inv'
  <2>1. gen \in Nat /\ epoch \in Nat
    BY DEF Inv, Typed
  <2> QED BY <1>6, <2>1, StageInv
<1>7. ASSUME NEW D \in SUBSET Devices, NEW Q \in SUBSET {o \in objects : o.kind = "part"}, Reseed(D, Q)
      PROVE  Inv'
  BY <1>7, ReseedInv
<1>8. ASSUME UNCHANGED vars PROVE Inv'
  BY <1>8, StutterInv
<1> QED BY <1>1, <1>2, <1>3, <1>4, <1>5, <1>6, <1>7, <1>8, Zenon DEF Next

LEMMA Invariance == Spec => []Inv
  BY InitInv, NextInv, PTL DEF Spec

\* Whoever may act on a chain belongs to its current generation, through any
\* number of generations on any number of devices (reseed, bundle, commit_epoch).
THEOREM OldGenerationsAreRetired == Spec => []MembersOfCurrentGeneration
<1>1. Inv => MembersOfCurrentGeneration
  BY DEF Inv, MemberRecords, MembersOfCurrentGeneration
<1> QED BY <1>1, Invariance, PTL

\* The evidence of all generations is one sequence: no index and no position of a
\* log is given twice (reseed, stage, append).
THEOREM EvidenceStaysOneSequence == Spec => []EvidenceIsOneSequence
<1>1. Inv => EvidenceIsOneSequence
  BY DEF Inv
<1> QED BY <1>1, Invariance, PTL

\* No object gets a second receipt when a generation is committed over staged
\* history, and the log of the current generation is gapless (append, reseed).
THEOREM NothingIsAppendedTwice == Spec => []OneReceipt
<1>1. Inv => OneReceipt
  BY DEF Inv
<1> QED BY <1>1, Invariance, PTL

\* Every record was written by a device of the record's own generation, and every part
\* of a committed snapshot by a device and in an epoch of the snapshot's generation
\* (record, active_device, compaction, reseed).
THEOREM AuthorsAreOfTheirGeneration == Spec => []AuthorOfGeneration
<1>1. Inv => AuthorOfGeneration
  BY DEF Inv
<1> QED BY <1>1, Invariance, PTL
=============================================================================
