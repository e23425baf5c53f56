--------------------------- MODULE Restart_proofs ---------------------------
(***************************************************************************)
(* What crashes and restarts of the relay leave intact: the erasure of        *)
(* deleted chains (Deletion), for every set of chains and any number of       *)
(* crashes, and the single use of tokens (TokenReplay), for every skew,       *)
(* lifetime and set of tokens.                                                *)
(***************************************************************************)
EXTENDS Deletion, TokenReplay, TLAPS

(***************************************************************************)
(* Deletion                                                                *)
(***************************************************************************)
\* From its erase transaction on, the chains a worker found have a ledger row and
\* no rows; after its checkpoint they are in no file either.
SeenAreErased ==
    \A w \in Workers : \A c \in seen[w] :
        /\ ledger[c] # "none" /\ ~rows[c]
        /\ pc[w] = "complete" => ~files[c]

Inv == TypeOK /\ SeenAreErased

LEMMA InitInv == Init => Inv
  BY WorkersAssumption DEF Init, Inv, TypeOK, SeenAreErased

\* A chain with a ledger row keeps it, and gets neither a row nor a file copy.
Stays(c) ==
    /\ ledger'[c] # "none"
    /\ ~rows[c] => ~rows'[c]
    /\ ~files[c] => ~files'[c]

LEMMA DeletedStaysDeleted ==
    ASSUME TypeOK, [Next]_vars, NEW c \in Chains, ledger[c] # "none"
    PROVE  Stays(c)
<1> USE DEF TypeOK, Stays
<1>1. ASSUME NEW x \in Chains, BeginWrite(x) \/ WriteRefused(x) PROVE Stays(c)
  BY <1>1 DEF BeginWrite, WriteRefused
<1>2. ASSUME NEW x \in Chains, Write(x) PROVE Stays(c)
  <2>1. x # c
    BY <1>2 DEF Write, NotDeleted
  <2> QED BY <1>2, <2>1 DEF Write
<1>3. ASSUME NEW x \in Chains, Delete(x) PROVE Stays(c)
  BY <1>3 DEF Delete
<1>4. ASSUME NEW w \in Workers, Erase(w) \/ CheckpointBusy(w) PROVE Stays(c)
  BY <1>4 DEF Erase, CheckpointBusy
<1>5. ASSUME NEW w \in Workers, CheckpointDone(w) PROVE Stays(c)
  BY <1>5 DEF CheckpointDone, Truncated
<1>6. ASSUME NEW w \in Workers, Complete(w) PROVE Stays(c)
  BY <1>6 DEF Complete, Completed
<1>7. CASE Tick \/ Crash \/ Start \/ UNCHANGED vars
  BY <1>7 DEF Tick, Crash, Start, vars
<1> QED BY <1>1, <1>2, <1>3, <1>4, <1>5, <1>6, <1>7 DEF Next

LEMMA NextType == TypeOK /\ [Next]_vars => TypeOK'
<1> SUFFICES ASSUME TypeOK, [Next]_vars PROVE TypeOK'
  OBVIOUS
<1> USE DEF TypeOK
<1>w. Chains \subseteq Workers /\ Timer \in Workers /\ Startup \in Workers
  BY DEF Workers
<1>1. ASSUME NEW c \in Chains, BeginWrite(c) \/ Write(c) \/ WriteRefused(c) PROVE TypeOK'
  BY <1>1 DEF BeginWrite, Write, WriteRefused
<1>2. ASSUME NEW c \in Chains, Delete(c) PROVE TypeOK'
  BY <1>2, <1>w DEF Delete
<1>3. ASSUME NEW w \in Workers, Erase(w) PROVE TypeOK'
  <2>1. Deleting \subseteq Chains
    BY DEF Deleting
  <2>2. rows' \in [Chains -> BOOLEAN]
    BY <1>3 DEF Erase
  <2> QED BY <1>3, <2>1, <2>2 DEF Erase
<1>4. ASSUME NEW w \in Workers, CheckpointDone(w) \/ CheckpointBusy(w) PROVE TypeOK'
  <2>1. files' \in [Chains -> BOOLEAN]
    BY <1>4 DEF CheckpointDone, CheckpointBusy, Truncated
  <2> QED BY <1>4, <2>1 DEF CheckpointDone, CheckpointBusy
<1>5. ASSUME NEW w \in Workers, Complete(w) PROVE TypeOK'
  <2>1. ledger' \in [Chains -> {"none", "deleting", "completed"}]
    BY <1>5 DEF Complete, Completed
  <2>2. running' \in BOOLEAN
    BY <1>5 DEF Complete
  <2> QED BY <1>5, <2>1, <2>2 DEF Complete
<1>6. CASE Tick \/ Start
  BY <1>6, <1>w DEF Tick, Start
<1>7. CASE Crash
  <2>1. crashes' \in Nat
    BY <1>7 DEF Crash
  <2>2. pc' \in [Workers -> {"idle", "erase", "checkpoint", "complete"}]
    BY <1>7 DEF Crash
  <2> QED BY <1>7, <2>1, <2>2, Zenon DEF Crash
<1>8. CASE UNCHANGED vars
  BY <1>8 DEF vars
<1> QED BY <1>1, <1>2, <1>3, <1>4, <1>5, <1>6, <1>7, <1>8 DEF Next

LEMMA NextInv == Inv /\ [Next]_vars => Inv'
<1> SUFFICES ASSUME Inv, [Next]_vars PROVE Inv'
  OBVIOUS
<1>i. TypeOK /\ SeenAreErased
  BY DEF Inv
<1>t. TypeOK'
  BY <1>i, NextType
<1>s. ASSUME NEW c \in Chains, ledger[c] # "none" PROVE Stays(c)
  BY <1>i, <1>s, DeletedStaysDeleted
<1> SUFFICES ASSUME NEW w \in Workers, NEW c \in seen'[w]
             PROVE  /\ ledger'[c] # "none" /\ ~rows'[c]
                    /\ pc'[w] = "complete" => ~files'[c]
  BY <1>t DEF Inv, SeenAreErased
<1>c. c \in Chains
  BY <1>t DEF TypeOK
<1>1. CASE c \in seen[w] /\ (pc'[w] = "complete" => pc[w] = "complete")
  BY <1>i, <1>c, <1>s, <1>1 DEF SeenAreErased, Stays
<1>2. CASE Erase(w)
  <2>1. ledger[c] = "deleting" /\ c \in Deleting
    BY <1>i, <1>2 DEF Erase, Deleting, TypeOK
  <2>2. ledger'[c] = "deleting" /\ ~rows'[c] /\ pc'[w] = "checkpoint"
    BY <1>i, <1>2, <1>c, <2>1 DEF Erase, TypeOK
  <2> QED BY <2>2
<1>3. CASE CheckpointDone(w)
  <2>1. c \in seen[w]
    BY <1>3 DEF CheckpointDone
  <2>2. ledger[c] # "none" /\ ~rows[c]
    BY <1>i, <2>1 DEF SeenAreErased
  <2> QED BY <1>3, <1>c, <2>2 DEF CheckpointDone, Truncated
<1>4. ASSUME ~Erase(w), ~CheckpointDone(w)
      PROVE  c \in seen[w] /\ (pc'[w] = "complete" => pc[w] = "complete")
  <2> USE <1>i DEF TypeOK
  <2>1. ASSUME NEW x \in Chains, BeginWrite(x) \/ Write(x) \/ WriteRefused(x) \/ Delete(x)
        PROVE  c \in seen[w] /\ (pc'[w] = "complete" => pc[w] = "complete")
    BY <2>1 DEF BeginWrite, Write, WriteRefused, Delete
  <2>2. ASSUME NEW x \in Workers, x # w, Erase(x) \/ CheckpointDone(x)
        PROVE  c \in seen[w] /\ (pc'[w] = "complete" => pc[w] = "complete")
    BY <2>2 DEF Erase, CheckpointDone
  <2>3. ASSUME NEW x \in Workers, CheckpointBusy(x) \/ Complete(x)
        PROVE  c \in seen[w] /\ (pc'[w] = "complete" => pc[w] = "complete")
    BY <2>3 DEF CheckpointBusy, Complete
  <2>4. CASE Tick \/ Crash \/ Start \/ UNCHANGED vars
    BY <2>4 DEF Tick, Crash, Start, vars
  <2> QED BY <1>4, <2>1, <2>2, <2>3, <2>4 DEF Next
<1> QED BY <1>1, <1>2, <1>3, <1>4

\* complete() never completes a deletion that its own erase transaction found
\* before the chain's ciphertext is out of the tables and of the files.
THEOREM CheckedErased == Spec => []CheckedChainsAreErased
<1>1. Spec => []Inv
  BY InitInv, NextInv, PTL DEF Spec
<1>2. Inv => CheckedChainsAreErased
  BY DEF Inv, SeenAreErased, CheckedChainsAreErased
<1> QED BY <1>1, <1>2, PTL

\* A deleted chain's rows do not come back once they are erased.
THEOREM DeletionIsFinal == Spec => NoResurrection
<1>1. Spec => []TypeOK
  <2>1. Init => TypeOK
    BY InitInv DEF Inv
  <2> QED BY <2>1, NextType, PTL DEF Spec
<1>2. TypeOK /\ [Next]_vars =>
        [\A c \in Chains : ledger[c] # "none" /\ ~rows[c] => ~rows'[c]]_vars
  BY DeletedStaysDeleted DEF Stays
<1> QED BY <1>1, <1>2, PTL DEF Spec, NoResurrection

(***************************************************************************)
(* TokenReplay                                                             *)
(***************************************************************************)
TokenInv == TokenTypeOK /\ SingleUse /\ ConsumedIsBlocked

\* A token that is still acceptable and was consumed before is refused: with
\* ConsumedIsBlocked, the checks of authenticate meet its nonce row or the barrier.
LEMMA ConsumedIsRefused ==
    ASSUME TokenInv, NEW k \in Tokens, up, Fresh(k),
           mode = "restart_barrier" => k.issued >= barrier,
           \A n \in Unpurged : n.nonce # k.nonce
    PROVE  used[k] = 0
<1> SUFFICES ASSUME used[k] > 0 PROVE FALSE
  BY DEF TokenInv, TokenTypeOK
<1>1. k.issued \in Nat /\ k.expires \in Nat
  BY TimesAssumption DEF Tokens
<1>2. Blocked(k)
  BY DEF TokenInv, ConsumedIsBlocked
<1>3. CASE Row(k) \in nonces
  <2>1. Row(k).until >= now
    BY <1>1, TimesAssumption DEF Fresh, Row, TokenInv, TokenTypeOK
  <2>2. Row(k) \in Unpurged /\ Row(k).nonce = k.nonce
    BY <1>3, <2>1 DEF Unpurged, Row
  <2> QED BY <2>2
<1>4. CASE Row(k) \notin nonces
  BY <1>1, <1>2, <1>4, TimesAssumption DEF Blocked, Fresh, TokenInv, TokenTypeOK
<1> QED BY <1>3, <1>4

LEMMA TokenInvInit == TokenInit => TokenInv
<1> SUFFICES ASSUME TokenInit PROVE TokenInv
  OBVIOUS
<1>1. TokenTypeOK
  BY TimesAssumption DEF TokenInit, TokenTypeOK
<1>2. SingleUse /\ ConsumedIsBlocked
  BY DEF TokenInit, SingleUse, ConsumedIsBlocked
<1> QED BY <1>1, <1>2 DEF TokenInv

LEMMA TokenInvNext == TokenInv /\ [TokenNext]_tokenVars => TokenInv'
<1> SUFFICES ASSUME TokenInv, [TokenNext]_tokenVars PROVE TokenInv'
  OBVIOUS
<1> USE TimesAssumption
<1>t. \A k \in Tokens : /\ k.issued \in Nat /\ k.expires \in Nat
                        /\ k.nonce \in TokenNonces
                        /\ Row(k) \in [nonce: TokenNonces, until: Nat]
  <2> TAKE k \in Tokens
  <2>1. k.issued \in Nat /\ k.expires \in Nat /\ k.nonce \in TokenNonces
    BY DEF Tokens
  <2>2. k.expires + Skew \in Nat
    BY <2>1
  <2> QED BY <2>1, <2>2 DEF Row
<1>i. TokenTypeOK /\ SingleUse /\ ConsumedIsBlocked
  BY DEF TokenInv
<1>1. CASE ClockTick
  <2>1. TokenTypeOK' /\ SingleUse'
    BY <1>i, <1>1 DEF ClockTick, TokenTypeOK, SingleUse
  <2>2. ConsumedIsBlocked'
    BY <1>i, <1>t, <1>1 DEF ClockTick, TokenTypeOK, ConsumedIsBlocked, Blocked, Row
  <2> QED BY <2>1, <2>2 DEF TokenInv
<1>2. ASSUME NEW k \in Tokens, Consume(k) PROVE TokenInv'
  <2>1. used[k] = 0
    BY <1>2, ConsumedIsRefused DEF Consume
  <2>2. TokenTypeOK'
    BY <1>i, <1>t, <1>2 DEF Consume, TokenTypeOK, Unpurged
  <2>3. SingleUse'
    BY <1>i, <1>2, <2>1 DEF Consume, TokenTypeOK, SingleUse
  <2>4. ASSUME NEW j \in Tokens, used'[j] > 0
        PROVE  Blocked(j)' /\ j.issued <= now' + Skew
    <3>1. CASE j = k
      BY <1>2, <3>1 DEF Consume, Blocked, Row, Fresh
    <3>2. CASE j # k
      <4>1. used[j] > 0
        BY <1>i, <1>2, <2>4, <3>2 DEF Consume, TokenTypeOK
      <4>2. Blocked(j) /\ j.issued <= now + Skew
        BY <1>i, <4>1 DEF ConsumedIsBlocked
      <4>3. CASE Row(j) \in nonces
        <5>1. Row(j) \in Unpurged \/ now > j.expires + Skew
          BY <1>i, <1>t, <4>3 DEF Unpurged, Row, TokenTypeOK
        <5> QED BY <1>2, <4>2, <5>1 DEF Consume, Blocked, Row
      <4>4. CASE Row(j) \notin nonces
        BY <1>2, <4>2, <4>4 DEF Consume, Blocked
      <4> QED BY <4>3, <4>4
    <3> QED BY <3>1, <3>2
  <2> QED BY <2>2, <2>3, <2>4 DEF TokenInv, ConsumedIsBlocked
<1>3. ASSUME NEW k \in Tokens, Replayed(k) PROVE TokenInv'
  <2>1. TokenTypeOK' /\ SingleUse'
    BY <1>i, <1>3 DEF Replayed, TokenTypeOK, SingleUse, Unpurged
  <2>2. ASSUME NEW j \in Tokens, used'[j] > 0
        PROVE  Blocked(j)' /\ j.issued <= now' + Skew
    <3>1. Blocked(j) /\ j.issued <= now + Skew
      BY <1>i, <1>3, <2>2 DEF ConsumedIsBlocked, Replayed
    <3>2. Row(j) \in nonces => Row(j) \in Unpurged \/ now > j.expires + Skew
      BY <1>i, <1>t DEF Unpurged, Row, TokenTypeOK
    <3> QED BY <1>3, <3>1, <3>2 DEF Replayed, Blocked, Row
  <2> QED BY <2>1, <2>2 DEF TokenInv, ConsumedIsBlocked
<1>4. ASSUME NEW kept \in SUBSET nonces, ProcessStops(kept) PROVE TokenInv'
  <2>1. TokenTypeOK' /\ SingleUse'
    BY <1>i, <1>4 DEF ProcessStops, TokenTypeOK, SingleUse
  <2>2. ConsumedIsBlocked'
    BY <1>i, <1>t, <1>4 DEF ProcessStops, TokenTypeOK, ConsumedIsBlocked, Blocked, Row
  <2> QED BY <2>1, <2>2 DEF TokenInv
<1>5. CASE Restart
  <2>1. TokenTypeOK' /\ SingleUse'
    BY <1>i, <1>5 DEF Restart, TokenTypeOK, SingleUse, NewBarrier
  <2>2. ConsumedIsBlocked'
    BY <1>i, <1>t, <1>5 DEF Restart, TokenTypeOK, ConsumedIsBlocked, Blocked, Row, NewBarrier
  <2> QED BY <2>1, <2>2 DEF TokenInv
<1>6. CASE UNCHANGED tokenVars
  BY <1>i, <1>6 DEF tokenVars, TokenInv, TokenTypeOK, SingleUse, ConsumedIsBlocked, Blocked, Row
<1> QED BY <1>1, <1>2, <1>3, <1>4, <1>5, <1>6 DEF TokenNext

\* No capability token is accepted twice by authenticate, for every clock skew,
\* lifetime limit and set of tokens, through purges and restarts.
THEOREM TokensAreSingleUse == TokenSpec => []SingleUse
<1>1. TokenInit => TokenInv
  BY TokenInvInit
<1>2. TokenInv /\ [TokenNext]_tokenVars => TokenInv'
  BY TokenInvNext
<1>3. TokenInv => SingleUse
  BY DEF TokenInv
<1> QED BY <1>1, <1>2, <1>3, PTL DEF TokenSpec
=============================================================================
