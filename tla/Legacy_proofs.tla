--------------------------- MODULE Legacy_proofs ----------------------------
(***************************************************************************)
(* The frozen v2 chain, for any devices, tokens, records and limits: replay   *)
(* of its tokens, the completeness of its pages, and the restoration of its   *)
(* parameters.                                                                *)
(***************************************************************************)
EXTENDS Legacy, FiniteSetTheorems, TLAPS

\* The types of the rows.  A request is handled on a chain that is not deleted.
Typed ==
    /\ clock \in Nat /\ position \in Nat
    /\ deleted \in BOOLEAN /\ more \in BOOLEAN
    /\ used \in [Tokens -> Nat]
    /\ request # None => ~deleted /\ request.token \in Tokens

\* Records are never written: the table is as it was, or empty.
RowsFrozen == rows = IF deleted THEN {} ELSE Sequences

\* The row of an accepted token is there until its expiry or the chain's deletion.
AcceptedIsBlocked ==
    \A k \in Tokens : used[k] > 0 => Row(k) \in nonces \/ clock >= k.expires \/ deleted

Inv == Typed /\ RowsFrozen /\ AcceptedIsBlocked /\ ReadIsComplete

\* A finite set of numbers has a greatest one: of the sets of what is not below an
\* element, one is minimal.
LEMMA MaxOfFinite ==
  ASSUME NEW S \in SUBSET Nat, IsFiniteSet(S), S # {}
  PROVE  Max(S) \in S /\ \A y \in S : Max(S) >= y
<1> DEFINE Above(x) == {y \in S : y >= x}
           T == {Above(x) : x \in S}
<1>1. T \subseteq FiniteSubsetsOf(S) /\ T # {}
  <2>1. \A x \in S : Above(x) \in SUBSET S /\ IsFiniteSet(Above(x))
    BY FS_Subset
  <2> HIDE DEF Above
  <2> QED BY <2>1 DEF FiniteSubsetsOf
<1>2. IsWellFoundedOn(StrictSubsetOrdering(S), FiniteSubsetsOf(S))
  BY FS_StrictSubsetOrderingWellFounded
<1>3. PICK A \in T : \A B \in T : ~(<<B, A>> \in StrictSubsetOrdering(S))
  <2> HIDE DEF T
  <2> QED BY <1>1, <1>2, WFMin
<1>4. PICK x \in S : A = Above(x)
  OBVIOUS
<1>5. ASSUME NEW y \in S, y > x PROVE FALSE
  <2>1. Above(y) \subseteq A /\ Above(y) # A
    <3>1. x \in Nat /\ y \in Nat /\ \A z \in S : z \in Nat
      OBVIOUS
    <3>2. x \in A /\ x \notin Above(y)
      BY <1>4, <1>5, <3>1
    <3>3. \A z \in Above(y) : z \in S /\ z >= x
      BY <1>5, <3>1
    <3> QED BY <1>4, <3>2, <3>3
  <2>2. Above(y) \in T /\ Above(y) \in SUBSET S /\ A \in SUBSET S
    BY <1>4
  <2>3. <<Above(y), A>> \in StrictSubsetOrdering(S)
    BY <2>1, <2>2 DEF StrictSubsetOrdering
  <2> QED BY <1>3, <2>2, <2>3
<1>6. \A y \in S : x >= y
  BY <1>5
<1> QED BY <1>6 DEF Max

\* An accepted token is fresh or its expiry has passed: its own row blocks it.
LEMMA ReplayAtExpiry ==
  ASSUME Inv, NEW op, Accept(op)
  PROVE  used[request.token] > 0 => clock >= request.token.expires
<1> SUFFICES ASSUME used[request.token] > 0, ~(clock >= request.token.expires) PROVE FALSE
  OBVIOUS
<1>1. PICK k : k = request.token
  OBVIOUS
<1>2. k \in Tokens /\ ~deleted /\ ~Taken(k)
  BY <1>1 DEF Inv, Typed, Accept
<1>3. Row(k) \in nonces
  BY <1>1, <1>2 DEF Inv, AcceptedIsBlocked
<1>4. k.expires \in Nat /\ clock \in Nat
  BY <1>2, LegacyAssumption DEF Tokens, Inv, Typed
<1>5. Row(k).until > clock /\ Row(k).device = k.device /\ Row(k).nonce = k.nonce
  BY <1>1, <1>4 DEF Row
<1> QED BY <1>2, <1>3, <1>5 DEF Taken, Unpurged

\* What the end of a request does to the accepted tokens.
LEMMA AcceptInv ==
  ASSUME Inv, NEW op, Accept(op),
         nonces' = Reserved(request.token) \/ deleted'
  PROVE  AcceptedIsBlocked' /\ used' \in [Tokens -> Nat]
<1>1. PICK k : k = request.token
  OBVIOUS
<1>2. k \in Tokens /\ used \in [Tokens -> Nat] /\ used' = [used EXCEPT ![k] = @ + 1] /\ clock' = clock
  BY <1>1 DEF Inv, Typed, Accept
<1>3. ASSUME NEW j \in Tokens, used'[j] > 0
      PROVE  Row(j) \in nonces' \/ clock' >= j.expires \/ deleted'
  <2>1. CASE deleted'
    BY <2>1
  <2>2. CASE j = k /\ nonces' = Reserved(k)
    BY <2>2 DEF Reserved
  <2>3. CASE j # k /\ nonces' = Reserved(k)
    <3>1. used[j] > 0
      BY <1>2, <1>3, <2>3
    <3>2. ~deleted
      BY DEF Accept, Inv, Typed
    <3>3. Row(j) \in nonces \/ clock >= j.expires
      BY <3>1, <3>2 DEF Inv, AcceptedIsBlocked
    <3>4. clock \in Nat /\ j.expires \in Nat /\ Row(j).until = j.expires
      BY LegacyAssumption DEF Inv, Typed, Tokens, Row
    <3>5. Row(j) \in Unpurged \/ clock >= j.expires
      BY <3>3, <3>4 DEF Unpurged
    <3> QED BY <1>2, <2>3, <3>5 DEF Reserved
  <2> QED BY <1>1, <2>1, <2>2, <2>3
<1>4. used' \in [Tokens -> Nat]
  BY <1>2
<1> QED BY <1>3, <1>4 DEF AcceptedIsBlocked, Row

\* A page continues what was read: no record between the cursors is left out.
LEMMA PageContinues ==
  ASSUME Inv, NEW limit \in PageLimits, ReadRecords(limit)
  PROVE  ReadIsComplete' /\ position' \in Nat /\ more' \in BOOLEAN
<1>1. PICK page : /\ page = Admitted(position, limit) /\ ~TooLarge(page, position)
                  /\ got' = got \cup page /\ position' = Cursor(page, position)
                  /\ more' = MoreAfter(page, position, limit)
  BY DEF ReadRecords
<1>2. deleted' = deleted /\ ~deleted /\ rows = Sequences
  BY DEF ReadRecords, Accept, Inv, Typed, RowsFrozen
<1>3. /\ position \in Nat /\ Sequences \subseteq Nat /\ IsFiniteSet(Sequences)
      /\ got = {s \in Sequences : s <= position}
  BY LegacyAssumption DEF Inv, Typed, ReadIsComplete
<1>4. page \subseteq After(position) /\ After(position) = {s \in Sequences : s > position}
  BY <1>1, <1>2 DEF Admitted, After
<1>5. CASE page = {}
  <2>1. After(position) = {}
    BY <1>1, <1>5 DEF TooLarge
  <2>2. position' = position /\ got' = got
    BY <1>1, <1>5 DEF Cursor
  <2>3. got = Sequences
    <3>1. \A s \in Sequences : s \in Nat /\ ~(s > position)
      BY <1>3, <1>4, <2>1
    <3>2. \A s \in Sequences : s <= position
      BY <1>3, <3>1
    <3>3. \A s : s \in got <=> s \in Sequences
      BY <1>3, <3>2
    <3> QED BY <3>3
  <2>4. more' \in BOOLEAN
    BY <1>1 DEF MoreAfter
  <2> QED BY <1>3, <2>2, <2>3, <2>4 DEF ReadIsComplete
<1>6. CASE page # {}
  <2>1. page \in SUBSET Sequences /\ page \in SUBSET Nat
    BY <1>3, <1>4
  <2>2. IsFiniteSet(page)
    BY <1>3, <2>1, FS_Subset
  <2>3. PICK m : m = Max(page)
    OBVIOUS
  <2>4. m \in page /\ \A s \in page : m >= s
    BY <1>6, <2>1, <2>2, <2>3, MaxOfFinite
  <2>5. position' = m /\ m \in Nat /\ m > position
    BY <1>1, <1>3, <1>4, <1>6, <2>1, <2>3, <2>4 DEF Cursor
  <2>6. ASSUME NEW s \in Sequences, s > position, s <= m
        PROVE  s \in page
    <3>1. s \in After(position) /\ s \in Nat
      BY <1>3, <1>4, <2>6
    <3>2. Prefix(position, s) \subseteq Prefix(position, m)
      <4>1. \A t \in After(position) : t \in Nat /\ (t <= s => t <= m)
        BY <1>3, <1>4, <2>5, <2>6, <3>1
      <4> QED BY <4>1 DEF Prefix
    <3>3. \A t \in Prefix(position, m) : Fits(position, t, limit)
      BY <1>1, <2>4 DEF Admitted
    <3> QED BY <1>1, <3>1, <3>2, <3>3 DEF Admitted
  <2>7. got' = {s \in Sequences : s <= position'}
    <3>1. ASSUME NEW s \in got' PROVE s \in Sequences /\ s <= m
      BY <1>1, <1>3, <2>1, <2>4, <2>5, <3>1
    <3>2. ASSUME NEW s \in Sequences, s <= m PROVE s \in got'
      BY <1>1, <1>3, <2>6, <3>2
    <3> QED BY <2>5, <3>1, <3>2
  <2>8. more' \in BOOLEAN /\ (~more' => After(position) = page)
    BY <1>1 DEF MoreAfter
  <2>9. ~more' => got' = Sequences
    <3>1. ASSUME After(position) = page, NEW s \in Sequences PROVE s \in got'
      BY <1>1, <1>3, <1>4, <3>1
    <3> QED BY <2>7, <2>8, <3>1
  <2> QED BY <2>5, <2>7, <2>8, <2>9 DEF ReadIsComplete
<1> QED BY <1>5, <1>6

LEMMA LegacyInit == Init => Inv
<1> SUFFICES ASSUME Init PROVE Inv
  OBVIOUS
<1>1. \A s \in Sequences : s \in Nat /\ ~(s <= 0)
  BY LegacyAssumption
<1>2. Typed /\ RowsFrozen
  BY DEF Init, Typed, RowsFrozen
<1>3. AcceptedIsBlocked
  BY DEF Init, AcceptedIsBlocked
<1>4. ReadIsComplete
  BY <1>1 DEF Init, ReadIsComplete
<1> QED BY <1>2, <1>3, <1>4 DEF Inv

LEMMA LegacyNext == Inv /\ [Next]_vars => Inv'
<1> SUFFICES ASSUME Inv, [Next]_vars PROVE Inv'
  OBVIOUS
<1>i. Typed /\ RowsFrozen /\ AcceptedIsBlocked /\ ReadIsComplete
  BY DEF Inv
<1>t. \A k \in Tokens : k.expires \in Nat
  BY LegacyAssumption DEF Tokens
<1>1. CASE Tick
  <2>1. Typed' /\ RowsFrozen' /\ ReadIsComplete'
    BY <1>i, <1>1 DEF Tick, store, reader, Typed, RowsFrozen, ReadIsComplete
  <2>2. AcceptedIsBlocked'
    BY <1>i, <1>t, <1>1 DEF Tick, store, reader, Typed, AcceptedIsBlocked, Row
  <2> QED BY <2>1, <2>2 DEF Inv
<1>2. ASSUME NEW k \in Tokens, NEW op, Begin(k, op) PROVE Inv'
  <2>1. request'.token = k /\ ~deleted /\ UNCHANGED <<clock, deleted, rows, nonces, used, position, got, more>>
    BY <1>2 DEF Begin, store, reader
  <2> QED BY <1>i, <2>1 DEF Inv, Typed, RowsFrozen, AcceptedIsBlocked, ReadIsComplete, Row
<1>3. CASE ListDevices
  <2>1. /\ Accept("devices") /\ nonces' = Reserved(request.token)
        /\ UNCHANGED <<deleted, rows, position, got, more, clock>> /\ request' = None
    BY <1>3 DEF ListDevices, Accept, reader
  <2>2. AcceptedIsBlocked' /\ used' \in [Tokens -> Nat]
    BY <2>1, AcceptInv
  <2> QED BY <1>i, <2>1, <2>2 DEF Inv, Typed, RowsFrozen, ReadIsComplete
<1>4. CASE Delete
  <2>1. /\ Accept("delete") /\ deleted' = TRUE /\ rows' = {} /\ request' = None
        /\ UNCHANGED <<position, got, more, clock>>
    BY <1>4 DEF Delete, Accept, reader
  <2>2. AcceptedIsBlocked' /\ used' \in [Tokens -> Nat]
    BY <2>1, AcceptInv
  <2> QED BY <1>i, <2>1, <2>2 DEF Inv, Typed, RowsFrozen, ReadIsComplete
<1>5. CASE Abort
  BY <1>i, <1>5 DEF Abort, store, reader, Inv, Typed, RowsFrozen, AcceptedIsBlocked, ReadIsComplete, Row
<1>6. ASSUME NEW limit \in PageLimits, ReadRecords(limit) PROVE Inv'
  <2>1. /\ Accept("records") /\ nonces' = Reserved(request.token)
        /\ UNCHANGED <<deleted, rows, clock>> /\ request' = None
    BY <1>6 DEF ReadRecords, Accept
  <2>2. AcceptedIsBlocked' /\ used' \in [Tokens -> Nat]
    BY <2>1, AcceptInv
  <2>3. ReadIsComplete' /\ position' \in Nat /\ more' \in BOOLEAN
    BY <1>6, PageContinues
  <2> QED BY <1>i, <2>1, <2>2, <2>3 DEF Inv, Typed, RowsFrozen
<1>7. ASSUME NEW v \in Originals, RetainParameters(v) PROVE Inv'
  BY <1>i, <1>7 DEF RetainParameters, reader, Inv, Typed, RowsFrozen, AcceptedIsBlocked, ReadIsComplete, Row
<1>8. CASE UNCHANGED vars
  BY <1>i, <1>8 DEF vars, store, reader, Inv, Typed, RowsFrozen, AcceptedIsBlocked, ReadIsComplete, Row
<1> QED BY <1>1, <1>2, <1>3, <1>4, <1>5, <1>6, <1>7, <1>8, Zenon DEF Next

\* A client that follows the cursor has every record up to it, and all of them at the
\* end, for any limits, sizes and byte bound (records).
THEOREM ReadsAreComplete == Spec => []ReadIsComplete
<1>1. Inv => ReadIsComplete
  BY DEF Inv
<1> QED BY <1>1, LegacyInit, LegacyNext, PTL DEF Spec

\* A v2 token is accepted again only by a request that finds its expiry passed at the
\* purge (authenticate).
THEOREM ReplaysAreAtExpiry == Spec => ReplayOnlyAtExpiry
<1>1. ASSUME Inv, [Next]_vars
      PROVE  [\A k \in Tokens : used'[k] > used[k] /\ used[k] > 0 => clock >= k.expires]_vars
  <2> SUFFICES ASSUME NEW k \in Tokens, used'[k] > used[k], used[k] > 0
               PROVE  clock >= k.expires
    OBVIOUS
  <2>1. used[k] \in Nat /\ used \in [Tokens -> Nat]
    BY <1>1 DEF Inv, Typed
  <2>2. used' # used
    BY <2>1
  <2>3. PICK op : Accept(op)
    BY <1>1, <2>2 DEF Next, vars, Tick, Begin, ListDevices, Delete, Abort, ReadRecords, RetainParameters
  <2>4. k = request.token
    BY <2>1, <2>3 DEF Accept
  <2> QED BY <1>1, <2>3, <2>4, ReplayAtExpiry
<1> QED BY <1>1, LegacyInit, LegacyNext, PTL DEF Spec, ReplayOnlyAtExpiry

\* Parameters are restored once and go with the chain for good (run,
\* retain_parameters).
THEOREM ParametersAreRestoredOnce == Spec => RestoredOnce
<1>1. ASSUME [Next]_vars
      PROVE  [evidence' # evidence => IF deleted' THEN evidence' = None ELSE evidence = None]_vars
  <2> SUFFICES ASSUME evidence' # evidence
               PROVE  IF deleted' THEN evidence' = None ELSE evidence = None
    OBVIOUS
  <2>1. CASE Delete
    BY <2>1 DEF Delete
  <2>2. CASE \E v \in Originals : RetainParameters(v)
    BY <2>2 DEF RetainParameters
  <2> QED BY <1>1, <2>1, <2>2 DEF Next, vars, store, Tick, Begin, ListDevices, Abort, ReadRecords
<1> QED BY <1>1, PTL DEF Spec, RestoredOnce
=============================================================================
