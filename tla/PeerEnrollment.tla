--------------------------- MODULE PeerEnrollment ---------------------------
(***************************************************************************)
(* Enrollment of new devices: by the admin, and by a peer through an offer,  *)
(* an unauthenticated enrollment request and an approval or rejection.      *)
(* Every handler is one transaction of one chain and generation, after the  *)
(* token was consumed; check_state has let the requester through.  Clients   *)
(* retry at will: a retry that is answered from v3_outcomes changes nothing *)
(* and is a stuttering step, and so is every refused request.               *)
(***************************************************************************)
EXTENDS Integers, FiniteSets

CONSTANTS
    Offers,               \* request_id values
    Devices, Creator,     \* device ids; the device of the genesis
    Admin,
    Requests,             \* EnrollmentRequest objects that devices sign
    Bodies,               \* bodies of approve and enroll that clients send
    NoOffer, NoRequest, NoRecord, NoDevice,
    AllowPeer,            \* policy allow_peer_enrollment
    Immediate,            \* policy epoch_retention is "immediate"
    MaxDevices,
    Skew,                 \* 60000 ms in the code
    OfferTTL,             \* 300000 ms in the code
    MaxTime, MaxEpoch     \* bounds of the model

Principals == Devices \cup {Admin}

\* The fields of a request, and of a body, that the handlers tell apart.
\* A body's op says whether it carries an admin_operation, which is bound to the
\* body's epoch; its envelopes are for that epoch.
RequestFields == [id: Offers, device: Devices, created: Nat, expires: Nat]
BodyFields ==
    [device: Devices, request: Requests \cup {NoRequest}, signer: Principals,
     op: BOOLEAN, epoch: Nat]

ASSUME ConstantsAssumption ==
    /\ Creator \in Devices /\ Admin \notin Devices /\ NoDevice \notin Devices
    /\ Requests \subseteq RequestFields
    /\ Bodies \subseteq BodyFields
    /\ NoRequest \notin Requests
    /\ AllowPeer \in BOOLEAN /\ Immediate \in BOOLEAN
    /\ Skew \in Nat /\ OfferTTL \in Nat /\ MaxTime \in Nat /\ MaxEpoch \in Nat
    /\ MaxDevices \in Nat

OfferRows ==
    [offering: Devices, expires: Nat, request: Requests \cup {NoRequest},
     status: {"awaiting_approval", "approved", "rejected"}]
Records == [body: BodyFields, at: Nat]

ASSUME AbsentRowsAssumption == NoOffer \notin OfferRows /\ NoRecord \notin Records

VARIABLES
    now,        \* the relay's clock
    epoch,      \* number of the current epoch
    status,     \* v3_registry, with "absent" for devices that have no row
    record,     \* the device object: the body that enrolled it, and when
    offers,     \* v3_offers
    outcomes,   \* v3_outcomes: scope, operation id and payload
    handoffs    \* v3_handoffs: epochs handed off

vars == <<now, epoch, status, record, offers, outcomes, handoffs>>

\* The admin's own records: genesis and emergency epochs.
AdminBody(d, e) ==
    [device |-> d, request |-> NoRequest, signer |-> Admin, op |-> TRUE, epoch |-> e]

Init ==
    /\ now = 0 /\ epoch = 0
    /\ status = [d \in Devices |-> IF d = Creator THEN "active" ELSE "absent"]
    /\ record = [d \in Devices |-> IF d = Creator THEN [body |-> AdminBody(d, 0), at |-> 0]
                                                  ELSE NoRecord]
    /\ offers = [o \in Offers |-> NoOffer]
    /\ outcomes = {} /\ handoffs = {}

Registered == {d \in Devices : status[d] \in {"active", "pending_keys"}}

(***************************************************************************)
(* store.rs outcomes, outcome                                              *)
(***************************************************************************)
Outcome(scope, id, payload) == [scope |-> scope, id |-> id, payload |-> payload]
Retried(scope, id, payload) == Outcome(scope, id, payload) \in outcomes
Unused(scope, id) == \A w \in outcomes : ~(w.scope = scope /\ w.id = id)

(***************************************************************************)
(* Offers and requests.                                                    *)
(***************************************************************************)
Offer(d, o, expires) ==
    /\ status[d] = "active"
    /\ AllowPeer
    /\ Unused("offer", o)
    /\ now < expires /\ expires <= now + OfferTTL
    /\ offers' = [offers EXCEPT ![o] =
         [offering |-> d, expires |-> expires, request |-> NoRequest,
          status |-> "awaiting_approval"]]
    /\ outcomes' = outcomes \cup {Outcome("offer", o, expires)}
    /\ UNCHANGED <<now, epoch, status, record, handoffs>>

\* enrollment_request: which requests an offer takes.
ExpiryUnbounded(v, offer) == v.created <= now + Skew
ExpiryInOffer(v, offer) ==
    /\ v.created < v.expires /\ v.expires - v.created <= OfferTTL
    /\ now <= offer.expires + Skew
    /\ v.expires <= offer.expires
    /\ v.created <= now + Skew
    /\ now <= v.expires + Skew
EnrollmentRequest(v) ==
    /\ offers[v.id] # NoOffer
    /\ offers[v.id].status = "awaiting_approval"
    /\ ExpiryInOffer(v, offers[v.id])
    /\ status[offers[v.id].offering] = "active"
    /\ offers[v.id].request = NoRequest
    /\ offers' = [offers EXCEPT ![v.id].request = v]
    /\ UNCHANGED <<now, epoch, status, record, outcomes, handoffs>>

(***************************************************************************)
(* enroll, called by the admin route and by approve.                       *)
(***************************************************************************)
\* Under immediate retention the previous epoch must be handed off first.
HandoffEstablished == Immediate /\ epoch > 0 => epoch - 1 \in handoffs

\* domain.rs device: the certificate names the stored request, or none.
CertificateOfAnyRequest(b, r) == r # NoRequest => b.device = r.device
CertificateMatches(b, r) ==
    /\ b.request = r
    /\ r # NoRequest => b.device = r.device
    /\ b.signer # Admin => /\ AllowPeer /\ r # NoRequest
                           /\ b.signer # b.device
                           /\ status[b.signer] = "active"

\* The checks of enroll on a body that no outcome answers.
Admissible(p, b, r) ==
    /\ HandoffEstablished
    /\ Unused("enroll", b.device)
    /\ CertificateMatches(b, r)
    /\ record[b.device] = NoRecord
    /\ r = NoRequest => b.signer = Admin
    /\ p # Admin => AllowPeer /\ b.signer = p
    /\ Cardinality(Registered) < MaxDevices
    /\ b.op = (p = Admin)
    /\ b.epoch = epoch

Register(b) ==
    /\ status' = [status EXCEPT ![b.device] = "pending_keys"]
    /\ record' = [record EXCEPT ![b.device] = [body |-> b, at |-> now]]

Enroll(b) ==
    /\ Admissible(Admin, b, NoRequest)
    /\ Register(b)
    /\ outcomes' = outcomes \cup {Outcome("enroll", b.device, b)}
    /\ UNCHANGED <<now, epoch, offers, handoffs>>

(***************************************************************************)
(* approve, reject                                                         *)
(***************************************************************************)
AnyActiveMember(p, offer) == p # Admin => status[p] = "active"
Owns(p, offer) ==
    /\ p # Admin => status[p] = "active"
    /\ p \in {Admin, offer.offering}

\* An offer that waits for p's decision.
DecidedTwice(p, o, scope) ==
    /\ offers[o] # NoOffer /\ offers[o].request # NoRequest
    /\ Owns(p, offers[o])
    /\ Unused(scope, o)
    /\ now <= offers[o].request.expires + Skew
Decidable(p, o, scope) ==
    /\ offers[o] # NoOffer /\ offers[o].request # NoRequest
    /\ Owns(p, offers[o])
    /\ Unused(scope, o)
    /\ offers[o].status = "awaiting_approval"
    /\ now <= offers[o].request.expires + Skew

\* The body enrolls the requester, or enroll answers it from an earlier outcome.
Approve(p, o, b) ==
    /\ Decidable(p, o, "approve_request")
    /\ AllowPeer
    /\ \/ /\ Admissible(p, b, offers[o].request)
          /\ Register(b)
       \/ /\ HandoffEstablished
          /\ Retried("enroll", b.device, b)
          /\ UNCHANGED <<status, record>>
    /\ offers' = [offers EXCEPT ![o].status = "approved"]
    /\ outcomes' = outcomes \cup {Outcome("enroll", b.device, b), Outcome("approve_request", o, b)}
    /\ UNCHANGED <<now, epoch, handoffs>>

Reject(p, o) ==
    /\ Decidable(p, o, "reject_request")
    /\ offers' = [offers EXCEPT ![o].status = "rejected"]
    /\ outcomes' = outcomes \cup {Outcome("reject_request", o, offers[o].request)}
    /\ UNCHANGED <<now, epoch, status, record, handoffs>>

(***************************************************************************)
(* What else moves the registry, the epoch and the clock.                  *)
(***************************************************************************)
Ack(d) ==
    /\ status[d] = "pending_keys"
    /\ status' = [status EXCEPT ![d] = "active"]
    /\ UNCHANGED <<now, epoch, record, offers, outcomes, handoffs>>

\* epoch, revoke: a rotation that revokes R; S are the devices of an admin's
\* emergency bundle.
Rotate(R, S) ==
    /\ epoch < MaxEpoch
    /\ R \subseteq Registered /\ \A d \in S : record[d] = NoRecord
    /\ (Registered \ R) \cup S # {}
    /\ Cardinality((Registered \ R) \cup S) <= MaxDevices
    /\ epoch' = epoch + 1
    /\ status' = [d \in Devices |-> IF d \in R THEN "revoked"
                                    ELSE IF d \in S THEN "pending_keys" ELSE status[d]]
    /\ record' = [d \in Devices |-> IF d \in S THEN [body |-> AdminBody(d, epoch + 1), at |-> now]
                                    ELSE record[d]]
    /\ UNCHANGED <<now, offers, outcomes, handoffs>>

\* A prune hands off old epochs; which ones is RelayChain's concern.
HandoffCurrent(E) ==
    /\ Immediate
    /\ handoffs' = handoffs \cup E \cup {epoch}
    /\ UNCHANGED <<now, epoch, status, record, offers, outcomes>>
Handoff(E) ==
    /\ Immediate
    /\ E # {} /\ E \cap handoffs = {}
    /\ handoffs' = handoffs \cup E
    /\ UNCHANGED <<now, epoch, status, record, offers, outcomes>>

Tick ==
    /\ now < MaxTime
    /\ now' = now + 1
    /\ UNCHANGED <<epoch, status, record, offers, outcomes, handoffs>>

Next ==
    \/ \E d \in Devices, o \in Offers, expires \in 0..(MaxTime + OfferTTL) : Offer(d, o, expires)
    \/ \E v \in Requests : EnrollmentRequest(v)
    \/ \E b \in Bodies : Enroll(b)
    \/ \E p \in Principals, o \in Offers, b \in Bodies : Approve(p, o, b)
    \/ \E p \in Principals, o \in Offers : Reject(p, o)
    \/ \E d \in Devices : Ack(d)
    \/ \E R, S \in SUBSET Devices : Rotate(R, S)
    \/ \E E \in SUBSET (0..(epoch - 1)) : Handoff(E)
    \/ Tick

Spec == Init /\ [][Next]_vars

-----------------------------------------------------------------------------
\* Types of the rows (schema.sql v3_registry, v3_offers, v3_outcomes).
Outcomes ==
    [scope: {"offer"}, id: Offers, payload: Nat]
      \cup [scope: {"enroll"}, id: Devices, payload: Bodies]
      \cup [scope: {"approve_request"}, id: Offers, payload: Bodies]
      \cup [scope: {"reject_request"}, id: Offers, payload: Requests]
TypeOK ==
    /\ now \in Nat /\ epoch \in Nat
    /\ status \in [Devices -> {"absent", "pending_keys", "active", "revoked"}]
    /\ record \in [Devices -> Records \cup {NoRecord}]
    /\ offers \in [Offers -> OfferRows \cup {NoOffer}]
    /\ outcomes \subseteq Outcomes
    /\ handoffs \subseteq 0..(epoch - 1)

PeerEnrolled(d) == record[d] # NoRecord /\ record[d].body.request # NoRequest
OfferOf(d) == offers[record[d].body.request.id]

\* A device that a peer enrolled answered an offer, which holds that very request
\* and stays approved: no rejected, replaced or foreign request enrolls anybody
\* (enrollment_request, approve, device).
PeerMembersWereInvited ==
    \A d \in Devices : PeerEnrolled(d) =>
        /\ OfferOf(d) # NoOffer
        /\ OfferOf(d).status = "approved"
        /\ OfferOf(d).request = record[d].body.request
        /\ record[d].body.request.device = d

\* Without the admin's operation, the device that vouches for a new one is the
\* device that made the offer (approve's ownership check, enroll's signer check).
VouchedByOffering ==
    \A d \in Devices : PeerEnrolled(d) =>
        record[d].body.op \/ record[d].body.signer = OfferOf(d).offering

\* No device is enrolled by an offer after the offer's end: the request can not
\* outlive the offer, nor the approval the request (enrollment_request, approve).
EnrolledInTime ==
    \A d \in Devices : PeerEnrolled(d) => record[d].at <= OfferOf(d).expires + Skew

\* Every reader of the registry sees each offer decided as the abstract
\* specification has it.
offerPhase ==
    [o \in Offers |->
        IF offers[o] = NoOffer THEN "none"
        ELSE IF offers[o].status # "awaiting_approval" THEN offers[o].status
        ELSE IF offers[o].request = NoRequest THEN "open" ELSE "requested"]
offerSubject ==
    [o \in Offers |-> IF offers[o] = NoOffer \/ offers[o].request = NoRequest
                        THEN NoDevice ELSE offers[o].request.device]
admitted == {d \in Devices : record[d] # NoRecord}

I == INSTANCE Invitations WITH
       phase <- offerPhase, subject <- offerSubject, members <- admitted

\* The relay implements the invitation protocol: decisions are final, one subject
\* per offer, and an approval admits nobody else (offer ... approve).
ImplementsInvitations == I!Spec

(***************************************************************************)
(* What documents and comments say and the code does not do: as an INVARIANT *)
(* of the run TLC refutes each.                                              *)
(***************************************************************************)
\* An approved offer has enrolled its requester ("Verify request hash/certificate,
\* policy and current epoch", docs/v3.0.md 10.7; approve).
ApprovedIsEnrolled ==
    \A o \in Offers : offers[o] # NoOffer /\ offers[o].status = "approved" =>
        \E d \in Devices : PeerEnrolled(d) /\ record[d].body.request = offers[o].request

\* The exact retry of an accepted enrollment is answered from its outcome ("Duplicate exact retry
\* returns `200`", docs/v3.0.md 10.4; enroll).
EnrollAnswered(b) == HandoffEstablished /\ Retried("enroll", b.device, b)
RetriesAnswered == \A w \in outcomes : w.scope = "enroll" => EnrollAnswered(w.payload)
=============================================================================
