------------------------------- MODULE Legacy -------------------------------
(***************************************************************************)
(* The frozen v2 chain: its records and devices are read and may be deleted, *)
(* never written, and the operator may restore its signed parameters.         *)
(*                                                                         *)
(* A request is one write transaction, nonce and operation together; an error *)
(* rolls both back.  Within it the clock is read several times and may move   *)
(* on between the expiry check of the token and the purge of the nonces.      *)
(* Format, binding and signature checks decide which tokens are in Tokens.    *)
(***************************************************************************)
EXTENDS Integers, FiniteSets, FiniteSetsExt

CONSTANTS
    Devices, Active,   \* the registered devices, and the ones with status active
    TokenNonces, Times,
    Sequences,         \* server_sequence of the records
    Size(_),           \* bytes of a record in a page
    PageBytes,         \* max_request_bytes less the outer object
    PageLimits,        \* values of the limit query
    Originals,         \* signed parameter objects an operator may bring
    Genuine,           \* the ones that agree with the preserved authority fields
    None,
    MaxTime            \* bound on the clock

ASSUME LegacyAssumption ==
    /\ Active \subseteq Devices /\ Genuine \subseteq Originals
    /\ Times \subseteq Nat /\ MaxTime \in Nat
    /\ Sequences \subseteq Nat \ {0} /\ IsFiniteSet(Sequences)
    /\ PageLimits \subseteq Nat \ {0}
    /\ PageBytes \in Nat /\ \A s \in Sequences : Size(s) \in Nat

Tokens == [device : Devices, nonce : TokenNonces, issued : Times, expires : Times]

VARIABLES
    clock,
    deleted,   \* chains.deleted_at_ms is set
    rows,      \* sync_records
    evidence,  \* v2_parameter_evidence
    nonces,    \* replay_nonces
    request,   \* the request in its transaction, or None
    used,      \* how often a token was accepted
    position,  \* a client that reads all records: the cursor it follows
    got,       \* the records it has
    more       \* pallasync-has-more of its last page

store == <<deleted, rows, evidence, nonces>>
reader == <<position, got, more>>
vars == <<clock, store, request, used, reader>>

Init ==
    /\ clock = 0
    /\ deleted = FALSE /\ rows = Sequences /\ evidence = None /\ nonces = {}
    /\ request = None
    /\ used = [k \in Tokens |-> 0]
    /\ position = 0 /\ got = {} /\ more = TRUE

Tick ==
    /\ clock < MaxTime
    /\ clock' = clock + 1
    /\ UNCHANGED <<store, request, used, reader>>

\* run and the first half of authenticate: a deleted chain is gone, and the token of an
\* active device is within its lifetime.
Fresh(k) == k.issued <= clock /\ clock < k.expires
Begin(k, op) ==
    /\ request = None /\ ~deleted
    /\ Fresh(k) /\ k.device \in Active
    /\ request' = [token |-> k, op |-> op]
    /\ UNCHANGED <<clock, store, used, reader>>

\* authenticate, its second half: purge and reservation of the nonce.
PurgedEarly == {n \in nonces : n.until > clock + 1}
Unpurged == {n \in nonces : n.until > clock}
Row(k) == [device |-> k.device, nonce |-> k.nonce, until |-> k.expires]
Taken(k) == \E n \in Unpurged : n.device = k.device /\ n.nonce = k.nonce
Reserved(k) == Unpurged \cup {Row(k)}

\* The end of a request: the token counts as used when its transaction commits.
Accept(op) ==
    /\ request # None /\ request.op = op
    /\ ~Taken(request.token)
    /\ used' = [used EXCEPT ![request.token] = @ + 1]
    /\ request' = None
    /\ UNCHANGED clock

\* GET devices.
ListDevices ==
    /\ Accept("devices")
    /\ nonces' = Reserved(request.token)
    /\ UNCHANGED <<deleted, rows, evidence, reader>>

\* records: rows after the cursor, in order, while limit and bytes admit the next one.
After(p) == {s \in rows : s > p}
Prefix(p, s) == {t \in After(p) : t <= s}
Fits(p, s, limit) ==
    Cardinality(Prefix(p, s)) <= limit /\ MapThenSumSet(Size, Prefix(p, s)) <= PageBytes
Admitted(p, limit) == {s \in After(p) : \A t \in Prefix(p, s) : Fits(p, t, limit)}
MoreByCount(page, p, limit) == Cardinality(page) = limit
MoreAfter(page, p, limit) == After(p) # page
Cursor(page, p) == IF page = {} THEN p ELSE Max(page)
TooLarge(page, p) == page = {} /\ After(p) # {}
ReadRecords(limit) ==
    /\ more
    /\ Accept("records")
    /\ \E page \in {Admitted(position, limit)} :
        /\ ~TooLarge(page, position)
        /\ got' = got \cup page
        /\ position' = Cursor(page, position)
        /\ more' = MoreAfter(page, position, limit)
    /\ nonces' = Reserved(request.token)
    /\ UNCHANGED <<deleted, rows, evidence>>

\* DELETE: the tables of the chain are emptied, its nonces with them.
Delete ==
    /\ Accept("delete")
    /\ deleted' = TRUE /\ rows' = {} /\ evidence' = None /\ nonces' = {}
    /\ UNCHANGED reader

\* An error of authenticate, rate or the operation rolls the transaction back.
Abort ==
    /\ request # None
    /\ request' = None
    /\ UNCHANGED <<clock, store, used, reader>>

\* retain_parameters, an offline command with a transaction of its own: it keeps what is
\* stored and fails when that differs.
RetainAnyway(v) ==
    /\ request = None /\ v \in Genuine
    /\ evidence \in {None, v}
    /\ evidence' = v
    /\ UNCHANGED <<clock, deleted, rows, nonces, request, used, reader>>
RetainParameters(v) ==
    /\ request = None /\ ~deleted /\ v \in Genuine
    /\ evidence \in {None, v}
    /\ evidence' = v
    /\ UNCHANGED <<clock, deleted, rows, nonces, request, used, reader>>

Next ==
    \/ Tick
    \/ \E k \in Tokens, op \in {"devices", "records", "delete"} : Begin(k, op)
    \/ ListDevices \/ Delete \/ Abort
    \/ \E limit \in PageLimits : ReadRecords(limit)
    \/ \E v \in Originals : RetainParameters(v)
Spec == Init /\ [][Next]_vars

-----------------------------------------------------------------------------
\* A token is accepted a second time only when its purge already runs at its expiry:
\* before that, its nonce row blocks it (authenticate).
ReplayOnlyAtExpiry ==
    [][\A k \in Tokens : used'[k] > used[k] /\ used[k] > 0 => clock >= k.expires]_vars

\* A client that follows the cursor has every record up to it, and all of them when the
\* relay says that there are no more, unless the chain was deleted meanwhile, whatever
\* limit and byte size ended each page (records).
ReadIsComplete ==
    /\ got = {s \in Sequences : s <= position}
    /\ ~more /\ ~deleted => got = Sequences

\* The parameters of a chain are restored at most once, are then kept although others
\* would agree with the preserved fields too, and go with the chain for good: no order of
\* restorations and deletions brings any back (run, retain_parameters).
RestoredOnce ==
    [][evidence' # evidence => IF deleted' THEN evidence' = None ELSE evidence = None]_vars

(***************************************************************************)
(* What documents and comments say and the code does not do: as an INVARIANT *)
(* of the run TLC refutes it.                                                *)
(***************************************************************************)
\* No token is accepted twice ("Capability tokens are single-use within their lifetime",
\* docs/v3.0.md:205; authenticate).
LegacySingleUse == \A k \in Tokens : used[k] <= 1
=============================================================================
