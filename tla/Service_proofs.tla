--------------------------- MODULE Service_proofs ---------------------------
(***************************************************************************)
(* What a relay keeps to over its starts.  Capacity, for any number of        *)
(* chains, quotas and notices: no chain is above the quota in force, and a    *)
(* relay that ran starts again as it ran.  Operator, for any disclosures,     *)
(* texts and clients: no client ever sees a rollback, an equivocation or      *)
(* another key.                                                               *)
(***************************************************************************)
EXTENDS Capacity, Operator, TLAPS

(***************************************************************************)
(* Capacity.  That the relay starts again needs that every live chain        *)
(* carries the notice of the configuration, which only genesis and the start  *)
(* of the relay establish.                                                    *)
(***************************************************************************)
Noticed == \A c \in Chains : state[c] = "live" => notice[c] = configured

IInv == TypeOK /\ WithinQuota /\ Noticed

\* What the requests that concern one chain have in common: they leave the chains other
\* than c alone, keep the configuration, and end with quota(c).
OneChain(c) ==
    /\ UNCHANGED <<max, configured>>
    /\ \A d \in Chains \ {c} :
           /\ state'[d] = state[d] /\ notice'[d] = notice[d]
           /\ records'[d] = records[d] /\ kept'[d] = kept[d] /\ envelopes'[d] = envelopes[d]
    /\ quota(c)
    /\ state'[c] = "live" => notice'[c] = configured

\* Such a request preserves the two parts of the invariant that relate chains to the
\* configuration.
LEMMA OneChainKeeps ==
    ASSUME IInv, NEW c \in Chains, OneChain(c)
    PROVE  WithinQuota' /\ Noticed'
<1>1. WithinQuota'
    BY DEF IInv, OneChain, WithinQuota, used, quota
<1>2. Noticed'
    BY DEF IInv, OneChain, Noticed
<1> QED BY <1>1, <1>2

\* The requests of clients keep types and fit the pattern of OneChain.
LEMMA RequestKeeps ==
    ASSUME IInv, NEW c \in Chains,
           \/ Create(c) \/ Upload(c) \/ AuditReject(c) \/ ReadPage(c)
           \/ Snapshot(c) \/ Prune(c) \/ Delete(c)
    PROVE  IInv'
<1> USE CapacityAssumption
<1>1. CASE Create(c)
    <2>1. TypeOK'
        BY <1>1 DEF IInv, TypeOK, Create, Published, config
    <2>2. OneChain(c)
        BY <1>1 DEF IInv, TypeOK, Create, OneChain, config
    <2> QED BY <2>1, <2>2, OneChainKeeps DEF IInv
<1>2. CASE Upload(c)
    <2>1. TypeOK'
        BY <1>2 DEF IInv, TypeOK, Upload, config
    <2>2. OneChain(c)
        BY <1>2 DEF IInv, TypeOK, Noticed, Upload, OneChain, config
    <2> QED BY <2>1, <2>2, OneChainKeeps DEF IInv
<1>3. CASE AuditReject(c)
    <2>1. TypeOK'
        BY <1>3 DEF IInv, TypeOK, AuditReject, config
    <2>2. OneChain(c)
        BY <1>3 DEF IInv, TypeOK, Noticed, AuditReject, OneChain, config
    <2> QED BY <2>1, <2>2, OneChainKeeps DEF IInv
<1>4. CASE ReadPage(c)
    <2>1. TypeOK'
        BY <1>4 DEF IInv, TypeOK, ReadPage, config
    <2>2. OneChain(c)
        BY <1>4 DEF IInv, TypeOK, Noticed, ReadPage, CursorQuota, OneChain, config
    <2> QED BY <2>1, <2>2, OneChainKeeps DEF IInv
<1>5. CASE Snapshot(c)
    <2>1. TypeOK'
        BY <1>5 DEF IInv, TypeOK, Snapshot, config
    <2>2. OneChain(c)
        BY <1>5 DEF IInv, TypeOK, Noticed, Snapshot, OneChain, config
    <2> QED BY <2>1, <2>2, OneChainKeeps DEF IInv
<1>6. CASE Prune(c)
    <2>1. TypeOK'
        BY <1>6 DEF IInv, TypeOK, Prune, config
    <2>2. OneChain(c)
        BY <1>6 DEF IInv, TypeOK, Noticed, Prune, OneChain, config
    <2> QED BY <2>1, <2>2, OneChainKeeps DEF IInv
<1>7. CASE Delete(c)
    <2>1. TypeOK'
        BY <1>7 DEF IInv, TypeOK, Delete, config
    <2>2. OneChain(c)
        BY <1>7 DEF IInv, TypeOK, Delete, OneChain, config
    <2> QED BY <2>1, <2>2, OneChainKeeps DEF IInv
<1> QED BY <1>1, <1>2, <1>3, <1>4, <1>5, <1>6, <1>7

\* The timer frees bodies and erases chains that were deleted.
LEMMA TimerKeeps ==
    ASSUME IInv, Maintenance \/ Complete
    PROVE  IInv'
<1> USE CapacityAssumption
<1>1. CASE Maintenance
    <2>1. TypeOK'
        BY <1>1 DEF IInv, TypeOK, Maintenance, config
    <2>2. \A c \in Chains : envelopes'[c] <= envelopes[c]
        BY <1>1 DEF IInv, TypeOK, Maintenance
    <2>3. WithinQuota'
        BY <1>1, <2>1, <2>2 DEF IInv, TypeOK, Maintenance, WithinQuota, used, config
    <2>4. Noticed'
        BY <1>1 DEF IInv, Maintenance, Noticed, config
    <2> QED BY <2>1, <2>3, <2>4 DEF IInv
<1>2. CASE Complete
    <2>1. TypeOK'
        BY <1>2 DEF IInv, TypeOK, Complete, Erased, config
    <2>2. \A c \in Chains : state'[c] \in {"live", "deleting"} =>
              state[c] = state'[c] /\ records'[c] = records[c] /\ envelopes'[c] = envelopes[c]
        BY <1>2 DEF IInv, TypeOK, Complete, Erased, Deleting
    <2>3. WithinQuota'
        BY <1>2, <2>2 DEF IInv, Complete, WithinQuota, used, config
    <2>4. Noticed'
        BY <1>2, <2>2 DEF IInv, Complete, Noticed, config
    <2> QED BY <2>1, <2>3, <2>4 DEF IInv
<1> QED BY <1>1, <1>2

\* The start of the relay, which puts a configuration in force or leaves the old one.
LEMMA StartKeeps ==
    ASSUME IInv, NEW m \in Limits, NEW n \in Notices, Start(m, n) \/ StartFails(m, n)
    PROVE  IInv'
<1> USE CapacityAssumption
<1>1. \A c \in Chains : state'[c] \in {"live", "deleting"} =>
          /\ Live(c) /\ state'[c] = "live"
          /\ records'[c] = records[c] /\ envelopes'[c] = envelopes[c]
    BY DEF IInv, TypeOK, Start, StartFails, Erased, Deleting, Live
<1>2. CASE Start(m, n)
    <2>1. TypeOK'
        BY <1>2 DEF IInv, TypeOK, Start, Erased, Published, config
    <2>2. WithinQuota'
        BY <1>1, <1>2 DEF Start, AllWithin, WithinQuota, used
    <2>3. Noticed'
        BY <1>1, <1>2 DEF Start, Noticed
    <2> QED BY <2>1, <2>2, <2>3 DEF IInv
<1>3. CASE StartFails(m, n)
    <2>1. TypeOK'
        BY <1>3 DEF IInv, TypeOK, StartFails, Erased, config
    <2>2. WithinQuota'
        BY <1>1, <1>3 DEF IInv, StartFails, WithinQuota, used, Live, config
    <2>3. Noticed'
        BY <1>1, <1>3 DEF IInv, StartFails, Noticed, Live, config
    <2> QED BY <2>1, <2>2, <2>3 DEF IInv
<1> QED BY <1>2, <1>3

\* Every step of the relay preserves the invariant.
LEMMA StepKeeps == IInv /\ [Next]_vars => IInv'
<1> SUFFICES ASSUME IInv, [Next]_vars PROVE IInv'
    OBVIOUS
<1> USE CapacityAssumption
<1>1. ASSUME NEW c \in Chains, BecomesDue(c) PROVE IInv'
    BY <1>1 DEF IInv, TypeOK, WithinQuota, used, Noticed, BecomesDue, sizes, config
<1>2. CASE Stop
    <2>0. restarts' \in 0..MaxRestarts
        BY <1>2 DEF IInv, TypeOK, Stop
    <2>1. TypeOK'
        BY <1>2, <2>0, Zenon DEF IInv, TypeOK, Stop, sizes, config
    <2> QED BY <1>2, <2>1 DEF IInv, WithinQuota, used, Noticed, Stop, sizes, config
<1>3. CASE UNCHANGED vars
    BY <1>3 DEF IInv, TypeOK, WithinQuota, used, Noticed, vars, sizes, config
<1> QED BY <1>1, <1>2, <1>3, RequestKeeps, TimerKeeps, StartKeeps DEF Next

\* The invariant holds of every behaviour.
LEMMA Invariant == Spec => []IInv
<1>1. Init => IInv
    <2> SUFFICES ASSUME Init PROVE IInv
        OBVIOUS
    <2>0. restarts \in 0..MaxRestarts /\ max \in Limits /\ configured \in Notices
        BY CapacityAssumption DEF Init
    <2>3. /\ records \in [Chains -> Nat] /\ kept \in [Chains -> Nat]
          /\ envelopes \in [Chains -> Nat] /\ notice \in [Chains -> Notices]
        BY CapacityAssumption DEF Init
    <2>4. up \in BOOLEAN /\ covered \in [Chains -> BOOLEAN]
        BY Zenon DEF Init
    <2>5. /\ state \in [Chains -> {"absent", "live", "deleting", "erased"}]
          /\ handoff \in [Chains -> {"none", "recorded", "due", "expired"}]
        BY DEF Init
    <2>1. TypeOK
        BY <2>0, <2>3, <2>4, <2>5 DEF TypeOK
    <2>2. \A c \in Chains : state[c] = "absent"
        BY DEF Init
    <2> QED BY <2>1, <2>2 DEF IInv, WithinQuota, Noticed
<1> QED BY <1>1, StepKeeps, PTL DEF Spec

\* The counters and rows have their types (used, v3_chains, v3_handoffs, v3_notices).
THEOREM TypeCorrect == Spec => []TypeOK
BY Invariant, PTL DEF IInv

\* No chain is above the quota in force: not by uploads, refused objects, cursors,
\* deletion, a notice or a start with another configuration (quota, cursor, save).
THEOREM QuotaHolds == Spec => []WithinQuota
BY Invariant, PTL DEF IInv

\* A relay that ran can be started with the configuration it ran with (AppState::new).
THEOREM RelayStartsAgain == Spec => []StartsAgain
<1>1. IInv => StartsAgain
    BY DEF IInv, WithinQuota, used, Noticed, StartsAgain, AllWithin, Published, Live
<1> QED BY <1>1, Invariant, PTL

(***************************************************************************)
(* Operator.  The invariant: the pin covers what every client has verified    *)
(* and has in hand, and a process past its first transaction has the pinned   *)
(* disclosure.                                                                *)
(***************************************************************************)
\* Disclosure d may follow s without contradicting it.
Covers(d, s) ==
    s # None =>
        /\ d # None
        /\ d.relay = s.relay
        /\ d.revision >= s.revision
        /\ d.revision = s.revision => d = s

\* A process that has pinned its disclosure has the one of the database.
ServesPinned == phase \in {"pinned", "up"} => pin = loaded.disclosure

\* The pin covers what each client has verified or fetched, and what it fetched covers
\* what it has verified.
ClientsCovered ==
    \A c \in Clients :
        /\ Covers(pin, seen[c])
        /\ Covers(pin, got[c].disclosure)
        /\ got[c].disclosure # None => Covers(got[c].disclosure, seen[c])

OperatorInv == OperatorTypeOK /\ ServesPinned /\ ClientsCovered /\ NoAlarm

-----------------------------------------------------------------------------
\* What may follow a disclosure that may follow s may follow s.
LEMMA CoversTransitive ==
    ASSUME NEW a \in Disclosures \cup {None}, NEW b \in Disclosures \cup {None},
           NEW s \in Disclosures \cup {None},
           Covers(a, b), Covers(b, s)
    PROVE  Covers(a, s)
<1> SUFFICES ASSUME s # None PROVE Covers(a, s)
  BY DEF Covers
<1>1. b # None /\ a # None
  BY DEF Covers
<1>2. a \in Disclosures /\ b \in Disclosures /\ s \in Disclosures
  BY <1>1
<1>3. a.revision \in Nat /\ b.revision \in Nat /\ s.revision \in Nat
  BY <1>2, OperatorAssumption
<1> QED
  BY <1>1, <1>3 DEF Covers

\* A disclosure the start accepts covers the pin.
LEMMA AcceptedCovers ==
    ASSUME NEW d \in Disclosures, Accepts(d)
    PROVE  Covers(d, pin)
BY OperatorAssumption DEF Accepts, Covers

\* Every disclosure covers itself.
LEMMA CoversSelf ==
    ASSUME NEW d \in Disclosures \cup {None}
    PROVE  Covers(d, d)
<1>1. CASE d = None
  BY <1>1 DEF Covers
<1>2. CASE d \in Disclosures
  BY <1>2, OperatorAssumption DEF Covers
<1> QED
  BY <1>1, <1>2

\* A disclosure that covers s does not contradict it.
LEMMA CoveredIsConsistent ==
    ASSUME NEW d \in Disclosures, NEW s \in Disclosures \cup {None}, Covers(d, s)
    PROVE  ~Contradicts(d, s)
<1> SUFFICES ASSUME s # None PROVE ~Contradicts(d, s)
  BY DEF Contradicts
<1>1. d.revision \in Nat /\ s.revision \in Nat
  BY OperatorAssumption
<1> QED
  BY <1>1 DEF Covers, Contradicts

-----------------------------------------------------------------------------
\* Every step keeps the types.
LEMMA OperatorTypeStep == OperatorTypeOK /\ [OperatorNext]_operatorVars => OperatorTypeOK'
<1> SUFFICES ASSUME OperatorTypeOK, [OperatorNext]_operatorVars PROVE OperatorTypeOK'
  OBVIOUS
<1> USE OperatorAssumption DEF OperatorTypeOK, Pairs, Nothing, process, clients
<1>1. CASE Tick
  BY <1>1 DEF Tick
<1>2. ASSUME NEW d \in Disclosures, NEW text \in Markdowns, New(d, text) PROVE OperatorTypeOK'
  <2>1. loaded' \in Pairs /\ loaded'.disclosure = d /\ loaded'.markdown = text
    BY <1>2 DEF New
  <2> QED
    BY <1>2, <2>1 DEF New
<1>3. CASE PinDisclosure
  BY <1>3 DEF PinDisclosure
<1>4. CASE FailedStart \/ Crash
  BY <1>4 DEF FailedStart, Crash, EndProcess
<1>5. CASE Started
  BY <1>5 DEF Started
<1>6. ASSUME NEW c \in Clients, GetMarkdown(c) PROVE OperatorTypeOK'
  <2>1. got' \in [Clients -> Pairs]
    BY <1>6 DEF GetMarkdown
  <2> QED
    BY <1>6, <2>1 DEF GetMarkdown
<1>7. ASSUME NEW c \in Clients, GetDisclosure(c) PROVE OperatorTypeOK'
  <2>1. got' \in [Clients -> Pairs]
    BY <1>7 DEF GetDisclosure
  <2> QED
    BY <1>7, <2>1 DEF GetDisclosure
<1>8. ASSUME NEW c \in Clients, Verify(c) PROVE OperatorTypeOK'
  <2>1. got' \in [Clients -> Pairs]
    BY <1>8 DEF Verify
  <2>2. seen' \in [Clients -> Disclosures \cup {None}] /\ alarmed' \in SUBSET Clients
    BY <1>8 DEF Verify
  <2> QED
    BY <1>8, <2>1, <2>2 DEF Verify
<1>9. CASE UNCHANGED operatorVars
  BY <1>9 DEF operatorVars
<1> QED
  BY <1>1, <1>2, <1>3, <1>4, <1>5, <1>6, <1>7, <1>8, <1>9 DEF OperatorNext

\* Every step keeps the invariant.
LEMMA OperatorStep == OperatorInv /\ [OperatorNext]_operatorVars => OperatorInv'
<1> SUFFICES ASSUME OperatorInv, [OperatorNext]_operatorVars PROVE OperatorInv'
  OBVIOUS
<1>t. OperatorTypeOK'
  BY OperatorTypeStep DEF OperatorInv
<1> USE DEF OperatorInv
<1>1. CASE Tick \/ Started \/ UNCHANGED operatorVars
  BY <1>1, <1>t DEF Tick, Started, operatorVars, process, clients, ServesPinned, ClientsCovered,
     NoAlarm, Covers
<1>2. ASSUME NEW d \in Disclosures, NEW text \in Markdowns, New(d, text) PROVE OperatorInv'
  BY <1>2, <1>t DEF New, clients, ServesPinned, ClientsCovered, NoAlarm, Covers
<1>3. CASE PinDisclosure
  <2>1. loaded.disclosure \in Disclosures /\ pin \in Disclosures \cup {None}
    BY <1>3 DEF PinDisclosure, OperatorTypeOK, Pairs
  <2>2. Covers(pin', pin)
    BY <1>3, <2>1, AcceptedCovers DEF PinDisclosure
  <2>3. ASSUME NEW c \in Clients
        PROVE  Covers(pin', seen[c]) /\ Covers(pin', got[c].disclosure)
    <3>1. seen[c] \in Disclosures \cup {None} /\ got[c].disclosure \in Disclosures \cup {None}
      BY DEF OperatorTypeOK, Pairs
    <3>2. pin' \in Disclosures \cup {None}
      BY <1>t DEF OperatorTypeOK
    <3> QED
      BY <2>1, <2>2, <3>1, <3>2, CoversTransitive DEF ClientsCovered
  <2> QED
    BY <1>3, <1>t, <2>3 DEF PinDisclosure, clients, ServesPinned, ClientsCovered, NoAlarm
<1>4. CASE FailedStart \/ Crash
  BY <1>4, <1>t DEF FailedStart, Crash, EndProcess, clients, ServesPinned, ClientsCovered,
     NoAlarm, Covers
<1>5. ASSUME NEW c \in Clients, GetMarkdown(c) PROVE OperatorInv'
  <2>1. \A x \in Clients : got'[x].disclosure = got[x].disclosure
    BY <1>5 DEF GetMarkdown, OperatorTypeOK, Pairs
  <2> QED
    BY <1>5, <1>t, <2>1 DEF GetMarkdown, process, ServesPinned, ClientsCovered, NoAlarm
<1>6. ASSUME NEW c \in Clients, GetDisclosure(c) PROVE OperatorInv'
  <2>1. \A x \in Clients \ {c} : got'[x] = got[x]
    BY <1>6 DEF GetDisclosure, OperatorTypeOK
  <2>2. got'[c].disclosure = pin /\ pin \in Disclosures
    BY <1>6 DEF GetDisclosure, OperatorTypeOK, Pairs, ServesPinned
  <2>3. Covers(pin, pin)
    BY <2>2, CoversSelf
  <2> QED
    BY <1>6, <1>t, <2>1, <2>2, <2>3
    DEF GetDisclosure, process, ServesPinned, ClientsCovered, NoAlarm
<1>7. ASSUME NEW c \in Clients, Verify(c) PROVE OperatorInv'
  <2>1. /\ \A x \in Clients \ {c} : got'[x] = got[x]
        /\ got'[c].disclosure = None
    BY <1>7 DEF Verify, OperatorTypeOK, Nothing
  <2>2. got[c].disclosure \in Disclosures /\ seen[c] \in Disclosures \cup {None}
    BY <1>7 DEF Verify, OperatorTypeOK, Pairs
  <2>3. ~Contradicts(got[c].disclosure, seen[c])
    BY <1>7, <2>2, CoveredIsConsistent DEF Verify, ClientsCovered
  <2>4. alarmed' = alarmed
    BY <1>7, <2>3 DEF Verify
  <2>5. \A x \in Clients \ {c} : seen'[x] = seen[x]
    BY <1>7, <2>3 DEF Verify, OperatorTypeOK
  <2>6. seen'[c] = seen[c] \/ seen'[c] = got[c].disclosure
    BY <1>7, <2>3 DEF Verify, OperatorTypeOK
  <2>7. ASSUME NEW x \in Clients
        PROVE  /\ Covers(pin, seen'[x])
               /\ Covers(pin, got'[x].disclosure)
               /\ got'[x].disclosure # None => Covers(got'[x].disclosure, seen'[x])
    <3>1. CASE x # c
      BY <3>1, <2>1, <2>5 DEF ClientsCovered
    <3>2. CASE x = c
      <4>1. Covers(pin, seen'[c])
        BY <2>6 DEF ClientsCovered
      <4> QED
        BY <3>2, <4>1, <2>1 DEF Covers
    <3> QED
      BY <3>1, <3>2
  <2> QED
    BY <1>7, <1>t, <2>4, <2>7 DEF Verify, process, ServesPinned, ClientsCovered, NoAlarm
<1> QED
  BY <1>1, <1>2, <1>3, <1>4, <1>5, <1>6, <1>7 DEF OperatorNext

\* The state of the relay and of its clients has its types.
THEOREM OperatorTypeCorrect == OperatorSpec => []OperatorTypeOK
<1>1. OperatorInit => OperatorTypeOK
  BY OperatorAssumption DEF OperatorInit, OperatorTypeOK, Pairs, Nothing
<1> QED
  BY <1>1, OperatorTypeStep, PTL DEF OperatorSpec

\* No client ever sees a rollback, an equivocation or another key, whatever the operator
\* configures and wherever starts fail or the process ends (AppState::new).
THEOREM ClientsNeverAlarmed == OperatorSpec => []NoAlarm
<1>1. OperatorInit => OperatorInv
  BY OperatorAssumption DEF OperatorInit, OperatorInv, OperatorTypeOK, Pairs, Nothing, ServesPinned,
     ClientsCovered, Covers, NoAlarm
<1>2. OperatorInv => NoAlarm
  BY DEF OperatorInv
<1> QED
  BY <1>1, <1>2, OperatorStep, PTL DEF OperatorSpec
=============================================================================
