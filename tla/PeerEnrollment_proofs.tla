------------------------ MODULE PeerEnrollment_proofs -----------------------
(* The invitations theorem and the safety of peer enrollment for every set of
   offers, devices, requests and bodies and any clock. *)
EXTENDS PeerEnrollment, TLAPS

LEMMA AdminBodyType == \A d \in Devices, e \in Nat : AdminBody(d, e) \in BodyFields
  BY DEF AdminBody, BodyFields, Principals

LEMMA InitType == Init => TypeOK
<1> SUFFICES ASSUME Init PROVE TypeOK
  OBVIOUS
<1>1. \A d \in Devices : [body |-> AdminBody(d, 0), at |-> 0] \in Records
  BY AdminBodyType DEF Records
<1>2. record \in [Devices -> Records \cup {NoRecord}]
  BY <1>1 DEF Init
<1> QED BY <1>2 DEF Init, TypeOK

LEMMA RegisterType ==
    ASSUME TypeOK, NEW b \in Bodies, Register(b)
    PROVE  /\ status' \in [Devices -> {"absent", "pending_keys", "active", "revoked"}]
           /\ record' \in [Devices -> Records \cup {NoRecord}]
<1>1. b \in BodyFields
  BY ConstantsAssumption
<1>2. [body |-> b, at |-> now] \in Records
  BY <1>1 DEF Records, TypeOK
<1> QED BY <1>2 DEF Register, TypeOK

LEMMA NextType == TypeOK /\ [Next]_vars => TypeOK'
<1> SUFFICES ASSUME TypeOK, [Next]_vars PROVE TypeOK'
  OBVIOUS
<1> USE ConstantsAssumption DEF TypeOK
<1>1. ASSUME NEW d \in Devices, NEW o \in Offers, NEW x \in 0..(MaxTime + OfferTTL), Offer(d, o, x)
      PROVE TypeOK'
  <2>1. x \in Nat
    OBVIOUS
  <2>2. [offering |-> d, expires |-> x, request |-> NoRequest, status |-> "awaiting_approval"]
          \in OfferRows
    BY <2>1 DEF OfferRows
  <2>3. Outcome("offer", o, x) \in Outcomes
    BY <2>1 DEF Outcome, Outcomes
  <2> QED BY <1>1, <2>2, <2>3 DEF Offer
<1>2. ASSUME NEW v \in Requests, EnrollmentRequest(v) PROVE TypeOK'
  <2>1. v.id \in Offers
    BY DEF RequestFields
  <2>2. offers[v.id] \in OfferRows
    BY <1>2, <2>1 DEF EnrollmentRequest
  <2>3. [offers[v.id] EXCEPT !.request = v] \in OfferRows
    BY <2>2 DEF OfferRows
  <2>4. offers' = [offers EXCEPT ![v.id] = [offers[v.id] EXCEPT !.request = v]]
    BY <1>2, <2>1 DEF EnrollmentRequest
  <2> QED BY <1>2, <2>1, <2>3, <2>4 DEF EnrollmentRequest
<1>3. ASSUME NEW b \in Bodies, Enroll(b) PROVE TypeOK'
  <2>1. Outcome("enroll", b.device, b) \in Outcomes
    BY DEF Outcome, Outcomes, BodyFields
  <2> QED BY <1>3, <2>1, RegisterType DEF Enroll
<1>4. ASSUME NEW p \in Principals, NEW o \in Offers, NEW b \in Bodies, Approve(p, o, b)
      PROVE TypeOK'
  <2>1. offers[o] \in OfferRows
    BY <1>4 DEF Approve, Decidable
  <2>2. [offers[o] EXCEPT !.status = "approved"] \in OfferRows
    BY <2>1 DEF OfferRows
  <2>3. offers' = [offers EXCEPT ![o] = [offers[o] EXCEPT !.status = "approved"]]
    BY <1>4 DEF Approve
  <2>4. Outcome("enroll", b.device, b) \in Outcomes /\ Outcome("approve_request", o, b) \in Outcomes
    BY DEF Outcome, Outcomes, BodyFields
  <2>5. /\ status' \in [Devices -> {"absent", "pending_keys", "active", "revoked"}]
        /\ record' \in [Devices -> Records \cup {NoRecord}]
    BY <1>4, RegisterType DEF Approve
  <2> QED BY <1>4, <2>2, <2>3, <2>4, <2>5 DEF Approve
<1>5. ASSUME NEW p \in Principals, NEW o \in Offers, Reject(p, o) PROVE TypeOK'
  <2>1. offers[o] \in OfferRows /\ offers[o].request # NoRequest
    BY <1>5 DEF Reject, Decidable
  <2>2. [offers[o] EXCEPT !.status = "rejected"] \in OfferRows /\ offers[o].request \in Requests
    BY <2>1 DEF OfferRows
  <2>3. offers' = [offers EXCEPT ![o] = [offers[o] EXCEPT !.status = "rejected"]]
    BY <1>5 DEF Reject
  <2>4. Outcome("reject_request", o, offers[o].request) \in Outcomes
    BY <2>2 DEF Outcome, Outcomes
  <2> QED BY <1>5, <2>2, <2>3, <2>4 DEF Reject
<1>6. ASSUME NEW d \in Devices, Ack(d) PROVE TypeOK'
  BY <1>6 DEF Ack
<1>7. ASSUME NEW R \in SUBSET Devices, NEW S \in SUBSET Devices, Rotate(R, S) PROVE TypeOK'
  <2>1. \A d \in Devices : [body |-> AdminBody(d, epoch + 1), at |-> now] \in Records
    BY AdminBodyType DEF Records
  <2>2. record' \in [Devices -> Records \cup {NoRecord}]
    BY <1>7, <2>1 DEF Rotate
  <2>3. epoch' \in Nat /\ handoffs' \subseteq 0..(epoch' - 1)
    BY <1>7 DEF Rotate
  <2>4. status' \in [Devices -> {"absent", "pending_keys", "active", "revoked"}]
    BY <1>7 DEF Rotate
  <2> QED BY <1>7, <2>2, <2>3, <2>4 DEF Rotate
<1>8. ASSUME NEW E \in SUBSET (0..(epoch - 1)), Handoff(E) PROVE TypeOK'
  BY <1>8 DEF Handoff
<1>9. CASE Tick
  BY <1>9 DEF Tick
<1>10. CASE UNCHANGED vars
  BY <1>10 DEF vars
<1> QED BY <1>1, <1>2, <1>3, <1>4, <1>5, <1>6, <1>7, <1>8, <1>9, <1>10 DEF Next

\* Every row of every table has its type, in every reachable state
\* (schema.sql v3_registry, v3_offers, v3_outcomes, v3_handoffs).
THEOREM EnrollmentTypeCorrect == Spec => []TypeOK
  BY InitType, NextType, PTL DEF Spec

-----------------------------------------------------------------------------
\* What the safety properties rest on: an offer row has an outcome, so its id is
\* never offered again, and the request it holds names it and ends before it.
OfferRecorded ==
    \A o \in Offers : offers[o] # NoOffer => ~Unused("offer", o)
RequestFitsOffer ==
    \A o \in Offers : offers[o] # NoOffer /\ offers[o].request # NoRequest =>
        /\ offers[o].request.id = o
        /\ offers[o].request.expires <= offers[o].expires
Inv ==
    /\ TypeOK
    /\ OfferRecorded
    /\ RequestFitsOffer
    /\ PeerMembersWereInvited
    /\ VouchedByOffering
    /\ EnrolledInTime

LEMMA InitInv == Init => Inv
<1> SUFFICES ASSUME Init PROVE Inv
  OBVIOUS
<1>1. \A d \in Devices : ~PeerEnrolled(d)
  BY DEF Init, PeerEnrolled, AdminBody
<1> QED BY <1>1, InitType
      DEF Init, Inv, OfferRecorded, RequestFitsOffer, PeerMembersWereInvited,
          VouchedByOffering, EnrolledInTime

\* A step that keeps outcomes and offers' rows of used ids keeps OfferRecorded.
LEMMA OfferRecordedKept ==
    ASSUME TypeOK, OfferRecorded, outcomes \subseteq outcomes',
           \A o \in Offers : offers[o] = NoOffer =>
               offers'[o] = NoOffer \/ (\E x \in Nat : Outcome("offer", o, x) \in outcomes')
    PROVE  OfferRecorded'
<1> SUFFICES ASSUME NEW o \in Offers, offers'[o] # NoOffer PROVE ~Unused("offer", o)'
  BY DEF OfferRecorded
<1>1. CASE offers[o] = NoOffer
  <2>1. PICK x \in Nat : Outcome("offer", o, x) \in outcomes'
    BY <1>1
  <2> QED BY <2>1 DEF Unused, Outcome
<1>2. CASE offers[o] # NoOffer
  BY <1>2 DEF OfferRecorded, Unused
<1> QED BY <1>1, <1>2

\* The three properties of a device depend on its record and on the decided
\* offer of its request; a step that keeps both keeps them.
LEMMA PeersKept ==
    ASSUME Inv, NEW d \in Devices,
           record'[d] # NoRecord /\ record'[d].body.request # NoRequest => record'[d] = record[d],
           \A o \in Offers : offers[o] # NoOffer /\ offers[o].status = "approved"
                               => offers'[o] = offers[o]
    PROVE  PeerEnrolled(d)' =>
             /\ OfferOf(d)' # NoOffer
             /\ OfferOf(d)'.status = "approved"
             /\ OfferOf(d)'.request = record'[d].body.request
             /\ record'[d].body.request.device = d
             /\ record'[d].body.op \/ record'[d].body.signer = OfferOf(d)'.offering
             /\ record'[d].at <= OfferOf(d)'.expires + Skew
<1> SUFFICES ASSUME PeerEnrolled(d)'
             PROVE  /\ OfferOf(d)' # NoOffer
                    /\ OfferOf(d)'.status = "approved"
                    /\ OfferOf(d)'.request = record'[d].body.request
                    /\ record'[d].body.request.device = d
                    /\ record'[d].body.op \/ record'[d].body.signer = OfferOf(d)'.offering
                    /\ record'[d].at <= OfferOf(d)'.expires + Skew
  OBVIOUS
<1>1. record'[d] = record[d] /\ PeerEnrolled(d)
  BY DEF PeerEnrolled
<1>2. record[d] \in Records /\ record[d].body.request \in Requests
  BY <1>1 DEF PeerEnrolled, Inv, TypeOK, Records, BodyFields
<1>3. record[d].body.request.id \in Offers
  BY <1>2, ConstantsAssumption DEF RequestFields
<1>4. OfferOf(d) # NoOffer /\ OfferOf(d).status = "approved"
  BY <1>1 DEF Inv, PeerMembersWereInvited
<1>5. OfferOf(d)' = OfferOf(d)
  BY <1>1, <1>3, <1>4 DEF OfferOf
<1> QED BY <1>1, <1>4, <1>5 DEF Inv, PeerMembersWereInvited, VouchedByOffering, EnrolledInTime

LEMMA NextInv == Inv /\ [Next]_vars => Inv'
<1> SUFFICES ASSUME Inv, [Next]_vars PROVE Inv'
  OBVIOUS
<1> USE ConstantsAssumption
<1>t. TypeOK /\ TypeOK'
  BY NextType DEF Inv
<1> DEFINE Safe(d) ==
      PeerEnrolled(d)' =>
             /\ OfferOf(d)' # NoOffer
             /\ OfferOf(d)'.status = "approved"
             /\ OfferOf(d)'.request = record'[d].body.request
             /\ record'[d].body.request.device = d
             /\ record'[d].body.op \/ record'[d].body.signer = OfferOf(d)'.offering
             /\ record'[d].at <= OfferOf(d)'.expires + Skew
<1>q. ASSUME OfferRecorded', RequestFitsOffer', \A d \in Devices : Safe(d)
      PROVE Inv'
  BY <1>q, <1>t DEF Inv, PeerMembersWereInvited, VouchedByOffering, EnrolledInTime
<1>f. RequestFitsOffer /\ OfferRecorded
  BY DEF Inv
<1>1. ASSUME NEW d \in Devices, NEW o \in Offers, NEW x \in 0..(MaxTime + OfferTTL), Offer(d, o, x)
      PROVE Inv'
  <2>1. offers[o] = NoOffer
    BY <1>1, <1>f DEF Offer, OfferRecorded
  <2>2. OfferRecorded'
    <3>1. x \in Nat /\ Outcome("offer", o, x) \in outcomes' /\ outcomes \subseteq outcomes'
      BY <1>1 DEF Offer
    <3>2. \A q \in Offers : q # o => offers'[q] = offers[q]
      BY <1>1, <1>t DEF Offer, TypeOK
    <3> QED BY <3>1, <3>2, <1>t, <1>f, OfferRecordedKept
  <2>3. RequestFitsOffer'
    BY <1>1, <1>t, <1>f DEF Offer, TypeOK, RequestFitsOffer
  <2>4. \A q \in Offers : offers[q] # NoOffer => offers'[q] = offers[q]
    BY <1>1, <2>1, <1>t DEF Offer, TypeOK
  <2>5. \A e \in Devices : Safe(e)
    BY <1>1, <2>4, PeersKept DEF Offer
  <2> QED BY <2>2, <2>3, <2>5, <1>q
<1>2. ASSUME NEW v \in Requests, EnrollmentRequest(v) PROVE Inv'
  <2>1. v.id \in Offers /\ offers[v.id] \in OfferRows
    BY <1>2, <1>t DEF EnrollmentRequest, TypeOK, RequestFields
  <2>2. /\ \A q \in Offers : q # v.id => offers'[q] = offers[q]
        /\ offers'[v.id] = [offers[v.id] EXCEPT !.request = v]
    BY <1>2, <1>t, <2>1 DEF EnrollmentRequest, TypeOK
  <2>3. OfferRecorded'
    <3>1. offers[v.id] # NoOffer /\ outcomes \subseteq outcomes'
      BY <1>2 DEF EnrollmentRequest
    <3> QED BY <3>1, <2>2, <1>t, <1>f, OfferRecordedKept
  <2>4. RequestFitsOffer'
    <3>1. /\ offers'[v.id].request = v /\ offers'[v.id].expires = offers[v.id].expires
          /\ v.expires <= offers[v.id].expires
      BY <1>2, <2>1, <2>2 DEF OfferRows, EnrollmentRequest, ExpiryInOffer
    <3> QED BY <2>2, <3>1, <1>f DEF RequestFitsOffer
  <2>5. \A q \in Offers : offers[q] # NoOffer /\ offers[q].status = "approved"
                            => offers'[q] = offers[q]
    BY <1>2, <2>2 DEF EnrollmentRequest
  <2>6. \A e \in Devices : Safe(e)
    BY <1>2, <2>5, PeersKept DEF EnrollmentRequest
  <2> QED BY <2>3, <2>4, <2>6, <1>q
<1>3. ASSUME NEW b \in Bodies, Enroll(b) PROVE Inv'
  <2>1. b.device \in Devices /\ b.request = NoRequest
    BY <1>3 DEF BodyFields, Enroll, Admissible, CertificateMatches
  <2>2. offers' = offers /\ outcomes \subseteq outcomes'
    BY <1>3 DEF Enroll
  <2>3. OfferRecorded' /\ RequestFitsOffer'
    BY <2>2, <1>f DEF OfferRecorded, RequestFitsOffer, Unused
  <2>4. \A e \in Devices : record'[e] # NoRecord /\ record'[e].body.request # NoRequest
                             => record'[e] = record[e]
    BY <1>3, <2>1, <1>t DEF Enroll, Register, TypeOK
  <2>5. \A e \in Devices : Safe(e)
    BY <2>2, <2>4, PeersKept
  <2> QED BY <2>3, <2>5, <1>q
<1>4. ASSUME NEW p \in Principals, NEW o \in Offers, NEW b \in Bodies, Approve(p, o, b)
      PROVE Inv'
  <2>1. /\ offers[o] \in OfferRows /\ offers[o].status = "awaiting_approval"
        /\ offers[o].request # NoRequest /\ offers[o] # NoOffer
    BY <1>4, <1>t DEF Approve, Decidable, TypeOK
  <2>2. /\ \A q \in Offers : q # o => offers'[q] = offers[q]
        /\ offers'[o] = [offers[o] EXCEPT !.status = "approved"]
        /\ outcomes \subseteq outcomes'
    BY <1>4, <1>t DEF Approve, TypeOK
  <2>3. /\ offers'[o].status = "approved" /\ offers'[o].request = offers[o].request
        /\ offers'[o].offering = offers[o].offering /\ offers'[o].expires = offers[o].expires
        /\ offers'[o] \in OfferRows
    BY <2>1, <2>2 DEF OfferRows
  <2>4. OfferRecorded'
    BY <2>1, <2>2, <1>t, <1>f, OfferRecordedKept
  <2>5. RequestFitsOffer'
    <3>1. \A q \in Offers : q # o => offers'[q] = offers[q]
      BY <2>2
    <3> QED BY <3>1, <2>1, <2>3, <1>f DEF RequestFitsOffer
  <2>6. \A q \in Offers : offers[q] # NoOffer /\ offers[q].status = "approved"
                            => offers'[q] = offers[q]
    BY <2>1, <2>2
  <2>7. CASE UNCHANGED <<status, record>>
    <3>1. \A e \in Devices : Safe(e)
      BY <2>6, <2>7, PeersKept
    <3> QED BY <3>1, <2>4, <2>5, <1>q
  <2>8. CASE Admissible(p, b, offers[o].request) /\ Register(b)
    <3>1. b.device \in Devices /\ b \in BodyFields
      BY DEF BodyFields
    <3>2. /\ \A e \in Devices : e # b.device => record'[e] = record[e]
          /\ record'[b.device] = [body |-> b, at |-> now]
      BY <2>8, <3>1, <1>t DEF Register, TypeOK
    <3>3. ASSUME NEW e \in Devices, e # b.device PROVE Safe(e)
      BY <3>2, <3>3, <2>6, PeersKept
    <3>4. Safe(b.device)
      <4>1. record'[b.device].body = b /\ record'[b.device].at = now
        BY <3>2
      <4>2. b.request = offers[o].request /\ b.request.id = o /\ b.device = b.request.device
        BY <2>1, <2>8, <1>f DEF Admissible, CertificateMatches, RequestFitsOffer
      <4>3. OfferOf(b.device)' = offers'[o]
        BY <4>1, <4>2 DEF OfferOf
      <4>4. b.op \/ b.signer = offers[o].offering
        BY <1>4, <2>8 DEF Admissible, Approve, Decidable, Owns
      <4>5. now <= offers[o].expires + Skew
        <5>1. now <= offers[o].request.expires + Skew
          BY <1>4 DEF Approve, Decidable
        <5>2. offers[o].request.expires <= offers[o].expires
          BY <2>1, <1>f DEF RequestFitsOffer
        <5>3. offers[o].request \in Requests /\ offers[o].expires \in Nat
          BY <2>1 DEF OfferRows
        <5>4. offers[o].request.expires \in Nat /\ now \in Nat
          BY <5>3, <1>t DEF RequestFields, TypeOK
        <5> QED BY <5>1, <5>2, <5>3, <5>4
      <4> QED BY <4>1, <4>2, <4>3, <4>4, <4>5, <2>3, AbsentRowsAssumption
    <3> QED BY <3>3, <3>4, <2>4, <2>5, <1>q
  <2> QED BY <1>4, <2>7, <2>8 DEF Approve
<1>5. ASSUME NEW p \in Principals, NEW o \in Offers, Reject(p, o) PROVE Inv'
  <2>1. /\ offers[o] \in OfferRows /\ offers[o].status = "awaiting_approval"
        /\ offers[o].request # NoRequest /\ offers[o] # NoOffer
    BY <1>5, <1>t DEF Reject, Decidable, TypeOK
  <2>2. /\ \A q \in Offers : q # o => offers'[q] = offers[q]
        /\ offers'[o] = [offers[o] EXCEPT !.status = "rejected"]
        /\ outcomes \subseteq outcomes'
    BY <1>5, <1>t DEF Reject, TypeOK
  <2>3. OfferRecorded'
    BY <2>1, <2>2, <1>t, <1>f, OfferRecordedKept
  <2>4. RequestFitsOffer'
    BY <2>1, <2>2, <1>f DEF RequestFitsOffer, OfferRows
  <2>5. \A e \in Devices : Safe(e)
    BY <1>5, <2>1, <2>2, PeersKept DEF Reject
  <2> QED BY <2>3, <2>4, <2>5, <1>q
<1>6. ASSUME offers' = offers, outcomes' = outcomes, record' = record PROVE Inv'
  <2>1. OfferRecorded' /\ RequestFitsOffer'
    BY <1>6, <1>f DEF OfferRecorded, RequestFitsOffer, Unused
  <2>2. \A e \in Devices : Safe(e)
    BY <1>6, PeersKept
  <2> QED BY <2>1, <2>2, <1>q
<1>7. ASSUME NEW R \in SUBSET Devices, NEW S \in SUBSET Devices, Rotate(R, S) PROVE Inv'
  <2>1. offers' = offers /\ outcomes' = outcomes
    BY <1>7 DEF Rotate
  <2>2. OfferRecorded' /\ RequestFitsOffer'
    BY <2>1, <1>f DEF OfferRecorded, RequestFitsOffer, Unused
  <2>3. \A e \in Devices : record'[e] # NoRecord /\ record'[e].body.request # NoRequest
                             => record'[e] = record[e]
    BY <1>7 DEF Rotate, AdminBody
  <2>4. \A e \in Devices : Safe(e)
    BY <2>1, <2>3, PeersKept
  <2> QED BY <2>2, <2>4, <1>q
<1>8. CASE Tick \/ (\E d \in Devices : Ack(d)) \/ (\E E \in SUBSET (0..(epoch - 1)) : Handoff(E))
           \/ UNCHANGED vars
  BY <1>6, <1>8 DEF Tick, Ack, Handoff, vars
<1> QED BY <1>1, <1>2, <1>3, <1>4, <1>5, <1>7, <1>8 DEF Next

\* A device that a peer enrolled answered an approved offer with that very
\* request (offer, enrollment_request, approve, enroll).
THEOREM InvitedOnly == Spec => []PeerMembersWereInvited
<1>1. Inv => PeerMembersWereInvited
  BY DEF Inv
<1> QED BY <1>1, InitInv, NextInv, PTL DEF Spec

\* Only the offering device or the admin brings a device in (approve, enroll).
THEOREM VouchedByItsOffer == Spec => []VouchedByOffering
<1>1. Inv => VouchedByOffering
  BY DEF Inv
<1> QED BY <1>1, InitInv, NextInv, PTL DEF Spec

\* Nobody is enrolled by an offer after the offer's end, beyond the skew the clock
\* comparisons allow (enrollment_request, approve).
THEOREM OffersEndInTime == Spec => []EnrolledInTime
<1>1. Inv => EnrolledInTime
  BY DEF Inv
<1> QED BY <1>1, InitInv, NextInv, PTL DEF Spec

-----------------------------------------------------------------------------
LEMMA InitRefines == Init => I!Init
  BY DEF Init, I!Init, offerPhase, offerSubject, admitted

LEMMA NextRefines == Inv /\ [Next]_vars => [I!Next]_(I!ivars)
<1> SUFFICES ASSUME Inv, [Next]_vars PROVE [I!Next]_(I!ivars)
  OBVIOUS
<1> USE ConstantsAssumption
<1>t. TypeOK
  BY DEF Inv
<1>1. ASSUME NEW d \in Devices, NEW o \in Offers, NEW x \in 0..(MaxTime + OfferTTL), Offer(d, o, x)
      PROVE I!Invite(o)
  <2> DEFINE row == [offering |-> d, expires |-> x, request |-> NoRequest,
                     status |-> "awaiting_approval"]
  <2>1. offers[o] = NoOffer
    BY <1>1 DEF Offer, Inv, OfferRecorded
  <2>2. offers' = [offers EXCEPT ![o] = row] /\ record' = record
    BY <1>1 DEF Offer
  <2>3. row # NoOffer
    <3>1. row \in OfferRows
      BY DEF OfferRows
    <3> QED BY <3>1, AbsentRowsAssumption
  <2>4. offerPhase[o] = "none" /\ offerPhase' = [offerPhase EXCEPT ![o] = "open"]
    BY <2>1, <2>2, <2>3, <1>t DEF offerPhase, TypeOK
  <2>5. offerSubject' = offerSubject
    BY <2>1, <2>2, <2>3, <1>t DEF offerSubject, TypeOK
  <2> QED BY <2>2, <2>4, <2>5 DEF I!Invite, admitted
<1>2. ASSUME NEW v \in Requests, EnrollmentRequest(v) PROVE I!Answer(v.id, v.device)
  <2> DEFINE row == [offers[v.id] EXCEPT !.request = v]
  <2>1. v.id \in Offers /\ offers[v.id] \in OfferRows
    BY <1>2, <1>t DEF EnrollmentRequest, TypeOK, RequestFields
  <2>2. offers' = [offers EXCEPT ![v.id] = row] /\ record' = record
    BY <1>2, <1>t, <2>1 DEF EnrollmentRequest, TypeOK
  <2>3. /\ row # NoOffer /\ row.request = v /\ row.status = offers[v.id].status
        /\ v # NoRequest
    <3>1. row \in OfferRows /\ row.request = v /\ row.status = offers[v.id].status
      BY <2>1 DEF OfferRows
    <3> QED BY <3>1, AbsentRowsAssumption
  <2>4. offerPhase[v.id] = "open" /\ offerPhase' = [offerPhase EXCEPT ![v.id] = "requested"]
    BY <1>2, <2>1, <2>2, <2>3, <1>t DEF EnrollmentRequest, offerPhase, TypeOK
  <2>5. offerSubject' = [offerSubject EXCEPT ![v.id] = v.device]
    <3>1. offers'[v.id] # NoOffer /\ offers'[v.id].request = v
      BY <2>1, <2>2, <2>3, <1>t DEF TypeOK
    <3>2. \A q \in Offers : q # v.id => offers'[q] = offers[q]
      BY <2>1, <2>2, <1>t DEF TypeOK
    <3>3. \A q \in Offers : offerSubject'[q] = IF q = v.id THEN v.device ELSE offerSubject[q]
      BY <2>1, <2>3, <3>1, <3>2 DEF offerSubject
    <3> QED BY <2>1, <3>3 DEF offerSubject
  <2> QED BY <2>2, <2>4, <2>5 DEF I!Answer, admitted
<1>3. ASSUME NEW p \in Principals, NEW o \in Offers, Decidable(p, o, "approve_request"),
             offers' = [offers EXCEPT ![o].status = "approved"]
      PROVE /\ offerPhase[o] = "requested" /\ offerPhase' = [offerPhase EXCEPT ![o] = "approved"]
            /\ offerSubject' = offerSubject /\ offerSubject[o] = offers[o].request.device
  <2> DEFINE row == [offers[o] EXCEPT !.status = "approved"]
  <2>1. offers[o] \in OfferRows /\ offers' = [offers EXCEPT ![o] = row]
    BY <1>3, <1>t DEF Decidable, TypeOK
  <2>2. row \in OfferRows /\ row.status = "approved" /\ row.request = offers[o].request
    BY <2>1 DEF OfferRows
  <2>3. row # NoOffer
    BY <2>2, AbsentRowsAssumption
  <2> QED BY <1>3, <2>1, <2>2, <2>3, <1>t DEF Decidable, offerPhase, offerSubject, TypeOK
<1>4. ASSUME NEW p \in Principals, NEW o \in Offers, NEW b \in Bodies, Approve(p, o, b)
      PROVE I!Approve(o)
  <2>1. /\ offerPhase[o] = "requested" /\ offerPhase' = [offerPhase EXCEPT ![o] = "approved"]
        /\ offerSubject' = offerSubject /\ offerSubject[o] = offers[o].request.device
    BY <1>3, <1>4 DEF Approve
  <2>2. CASE UNCHANGED <<status, record>>
    BY <2>1, <2>2 DEF I!Approve, admitted
  <2>3. CASE Admissible(p, b, offers[o].request) /\ Register(b)
    <3>1. b.device = offerSubject[o] /\ b.device \in Devices
      BY <1>4, <2>1, <2>3 DEF Admissible, CertificateMatches, Approve, Decidable, BodyFields
    <3>2. [body |-> b, at |-> now] # NoRecord
      <4>1. [body |-> b, at |-> now] \in Records
        BY <1>t DEF Records, TypeOK
      <4> QED BY <4>1, AbsentRowsAssumption
    <3>3. admitted' = admitted \cup {offerSubject[o]}
      BY <2>3, <3>1, <3>2, <1>t DEF Register, admitted, TypeOK
    <3> QED BY <2>1, <3>3 DEF I!Approve
  <2> QED BY <1>4, <2>2, <2>3 DEF Approve
<1>5. ASSUME NEW p \in Principals, NEW o \in Offers, Reject(p, o) PROVE I!Reject(o)
  <2> DEFINE row == [offers[o] EXCEPT !.status = "rejected"]
  <2>1. offers[o] \in OfferRows /\ offers' = [offers EXCEPT ![o] = row]
    BY <1>5, <1>t DEF Reject, Decidable, TypeOK
  <2>2. row \in OfferRows /\ row.status = "rejected" /\ row.request = offers[o].request
    BY <2>1 DEF OfferRows
  <2>3. row # NoOffer
    BY <2>2, AbsentRowsAssumption
  <2>4. /\ offerPhase[o] = "requested" /\ offerPhase' = [offerPhase EXCEPT ![o] = "rejected"]
        /\ offerSubject' = offerSubject
    BY <1>5, <2>1, <2>2, <2>3, <1>t DEF Reject, Decidable, offerPhase, offerSubject, TypeOK
  <2> QED BY <1>5, <2>4 DEF Reject, I!Reject, admitted
<1>6. ASSUME NEW S \in SUBSET Devices, offers' = offers, admitted' = admitted \cup S
      PROVE I!Admit(S)
  BY <1>6 DEF I!Admit, offerPhase, offerSubject
<1>7. ASSUME NEW b \in Bodies, Enroll(b) PROVE I!Admit({b.device})
  <2>1. b.device \in Devices /\ [body |-> b, at |-> now] \in Records
    BY <1>t DEF BodyFields, Records, TypeOK
  <2>2. admitted' = admitted \cup {b.device}
    BY <1>7, <2>1, <1>t, AbsentRowsAssumption DEF Enroll, Register, admitted, TypeOK
  <2> QED BY <1>6, <1>7, <2>1, <2>2 DEF Enroll
<1>8. ASSUME NEW R \in SUBSET Devices, NEW S \in SUBSET Devices, Rotate(R, S) PROVE I!Admit(S)
  <2>1. \A d \in Devices : [body |-> AdminBody(d, epoch + 1), at |-> now] \in Records
    BY AdminBodyType, <1>t DEF Records, TypeOK
  <2>2. admitted' = admitted \cup S
    BY <1>8, <2>1, AbsentRowsAssumption DEF Rotate, admitted
  <2> QED BY <1>6, <1>8, <2>2 DEF Rotate
<1>9. CASE Tick \/ (\E d \in Devices : Ack(d)) \/ (\E E \in SUBSET (0..(epoch - 1)) : Handoff(E))
           \/ UNCHANGED vars
  <2>1. offers' = offers /\ record' = record
    BY <1>9 DEF Tick, Ack, Handoff, vars
  <2> QED BY <2>1 DEF I!ivars, offerPhase, offerSubject, admitted
<1>10. \A b \in Bodies : {b.device} \in SUBSET Devices
  BY DEF BodyFields
<1>11. \A v \in Requests : v.id \in Offers /\ v.device \in Devices
  BY DEF RequestFields
<1> QED BY <1>1, <1>2, <1>4, <1>5, <1>7, <1>8, <1>9, <1>10, <1>11 DEF Next, I!Next

\* Peer enrollment implements the invitation protocol: one subject per offer, one
\* final decision, nobody but the subject admitted (mutation.rs offer ... approve).
THEOREM EnrollmentImplementsInvitations == Spec => ImplementsInvitations
<1> QED BY InitInv, NextInv, InitRefines, NextRefines, PTL DEF Spec, ImplementsInvitations, I!Spec
=============================================================================
