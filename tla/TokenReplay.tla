---------------------------- MODULE TokenReplay -----------------------------
(***************************************************************************)
(* Single use of capability tokens: the freshness window, the durable       *)
(* nonce table with its purge, and the restart barrier that stands in for   *)
(* the table where it may be lost.  One nonce namespace (chain, signer) is  *)
(* modelled; binding and signature checks decide which tokens are in Tokens.*)
(*                                                                         *)
(* The clock is the relay's wall clock in milliseconds.  It never runs       *)
(* backwards here: docs/v3.0.md 6.3 asks for a trusted clock.               *)
(***************************************************************************)
EXTENDS Integers

CONSTANTS
    TokenNonces, Times,   \* values of the fields of the tokens that clients sign
    Skew,                 \* clock skew allowance, 60000 ms in the code
    MaxTTL,               \* 300000 ms in the code
    MaxTime               \* bound of the model: last clock value

ASSUME TimesAssumption ==
    /\ Times \subseteq Nat
    /\ Skew \in Nat /\ MaxTTL \in Nat /\ MaxTime \in Nat

Tokens == [nonce: TokenNonces, issued: Times, expires: Times]

VARIABLES
    mode,       \* replay_protection.mode of the signed disclosure
    now,        \* the clock
    nonces,     \* v3_nonces: nonce and expires_at_ms
    barrier,    \* v3_restart_barrier.barrier_ms; 0 is no row
    up,         \* the process runs
    downSince,  \* the clock when it last stopped
    used        \* history: the tokens that were consumed, and how often

tokenVars == <<mode, now, nonces, barrier, up, downSince, used>>

TokenInit ==
    /\ mode \in {"durable", "restart_barrier"}
    /\ now = 0
    /\ nonces = {}
    /\ barrier = IF mode = "restart_barrier" THEN now + Skew ELSE 0
    /\ up = TRUE /\ downSince = 0
    /\ used = [k \in Tokens |-> 0]

ClockTick ==
    /\ now < MaxTime
    /\ now' = now + 1
    /\ UNCHANGED <<mode, nonces, barrier, up, downSince, used>>

\* authenticate: the freshness checks on a token.
Fresh(k) ==
    /\ k.issued < k.expires
    /\ k.expires - k.issued <= MaxTTL
    /\ k.issued <= now + Skew
    /\ now <= k.expires + Skew

\* The nonces that survive the purge.
PurgedEarly == {n \in nonces : n.until > now}
Unpurged == {n \in nonces : n.until >= now}

\* The row an accepted token leaves.
Row(k) == [nonce |-> k.nonce, until |-> k.expires + Skew]

\* authenticate reserves the nonce; the purge and the reservation commit even if
\* the operation of the request fails later.
Consume(k) ==
    /\ up
    /\ Fresh(k)
    /\ mode = "restart_barrier" => k.issued >= barrier
    /\ \A n \in Unpurged : n.nonce # k.nonce
    /\ nonces' = Unpurged \cup {Row(k)}
    /\ used' = [used EXCEPT ![k] = @ + 1]
    /\ UNCHANGED <<mode, now, barrier, up, downSince>>

\* TOKEN_REPLAYED: the purge commits, the nonce is not reserved again.
Replayed(k) ==
    /\ up
    /\ Fresh(k)
    /\ mode = "restart_barrier" => k.issued >= barrier
    /\ \E n \in Unpurged : n.nonce = k.nonce
    /\ nonces' = Unpurged
    /\ UNCHANGED <<mode, now, barrier, up, downSince, used>>

\* The process stops.  Committed rows survive in durable mode; an operator chooses
\* restart_barrier where they may not, and any of them may be lost then.
ProcessStops(kept) ==
    /\ up
    /\ mode = "durable" => kept = nonces
    /\ nonces' = kept
    /\ up' = FALSE
    /\ downSince' = now
    /\ UNCHANGED <<mode, now, barrier, used>>

\* AppState::new records the barrier before anything is served.  Starting takes
\* at least one tick of the clock.
NewBarrier(t) == t + Skew
Restart ==
    /\ ~up /\ now > downSince
    /\ up' = TRUE
    /\ barrier' = IF mode = "restart_barrier" /\ NewBarrier(now) > barrier
                    THEN NewBarrier(now) ELSE barrier
    /\ UNCHANGED <<mode, now, nonces, downSince, used>>

TokenNext ==
    \/ ClockTick
    \/ \E k \in Tokens : Consume(k) \/ Replayed(k)
    \/ \E kept \in SUBSET nonces : ProcessStops(kept)
    \/ Restart

TokenSpec == TokenInit /\ [][TokenNext]_tokenVars

-----------------------------------------------------------------------------
\* Types of the rows (schema.sql v3_nonces, v3_restart_barrier).
TokenTypeOK ==
    /\ mode \in {"durable", "restart_barrier"}
    /\ now \in Nat /\ barrier \in Nat /\ downSince \in Nat
    /\ nonces \subseteq [nonce: TokenNonces, until: Nat]
    /\ up \in BOOLEAN
    /\ used \in [Tokens -> Nat]

\* No token is accepted twice, across the purge of its nonce, restarts and the
\* loss of the nonce table in restart_barrier mode (docs/v3.0.md P-5; authenticate,
\* AppState::new).
SingleUse == \A k \in Tokens : used[k] <= 1

\* Why it holds: a consumed token is blocked by its nonce row, by its age, or by
\* the barrier of the restart that is over or still to come.
Blocked(k) ==
    \/ Row(k) \in nonces
    \/ now > k.expires + Skew
    \/ mode = "restart_barrier" /\ k.issued < barrier
    \/ mode = "restart_barrier" /\ ~up /\ k.issued <= downSince + Skew
ConsumedIsBlocked ==
    \A k \in Tokens : used[k] > 0 => Blocked(k) /\ k.issued <= now + Skew
=============================================================================
