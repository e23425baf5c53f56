-------------------------- MODULE MCPeerEnrollment --------------------------
(* Instances of PeerEnrollment for TLC: two offers, requests of two subjects,
   one of which tries to outlive its offer, and the bodies that peers and the
   admin send for them. *)
EXTENDS PeerEnrollment

CONSTANTS o1, o2, a, b, c

Request(o, d, t) == [id |-> o, device |-> d, created |-> t - 1, expires |-> t]
Body(d, r, s, x, e) == [device |-> d, request |-> r, signer |-> s, op |-> x, epoch |-> e]

MCRequests == {Request(o1, b, 1), Request(o1, c, 2), Request(o2, b, 1)}
MCBodies ==
    {Body(r.device, r, a, FALSE, 0) : r \in MCRequests}
      \cup {Body(c, Request(o1, c, 2), b, FALSE, 0),
            Body(b, Request(o1, b, 1), a, TRUE, 0),
            Body(b, NoRequest, Admin, TRUE, 0),
            Body(c, NoRequest, Admin, TRUE, 1)}
=============================================================================
