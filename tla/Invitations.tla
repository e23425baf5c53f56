---------------------------- MODULE Invitations -----------------------------
(***************************************************************************)
(* What peer enrollment promises, without clocks, policies, payloads and    *)
(* retries: an invitation is offered, answered by one subject and then      *)
(* approved or rejected once and for all, and an approval admits nobody but *)
(* the subject that answered.  PeerEnrollment implements it.                *)
(***************************************************************************)
CONSTANTS Offers, Devices, NoDevice

VARIABLES
    phase,      \* of each offer
    subject,    \* the device that answered it
    members     \* every device that was ever admitted

ivars == <<phase, subject, members>>

Init ==
    /\ phase = [o \in Offers |-> "none"]
    /\ subject = [o \in Offers |-> NoDevice]
    /\ members \in SUBSET Devices

Invite(o) ==
    /\ phase[o] = "none"
    /\ phase' = [phase EXCEPT ![o] = "open"]
    /\ UNCHANGED <<subject, members>>

Answer(o, d) ==
    /\ phase[o] = "open"
    /\ phase' = [phase EXCEPT ![o] = "requested"]
    /\ subject' = [subject EXCEPT ![o] = d]
    /\ UNCHANGED members

\* The approver may find that somebody is already admitted.
Approve(o) ==
    /\ phase[o] = "requested"
    /\ phase' = [phase EXCEPT ![o] = "approved"]
    /\ members' \in {members, members \cup {subject[o]}}
    /\ UNCHANGED subject

Reject(o) ==
    /\ phase[o] = "requested"
    /\ phase' = [phase EXCEPT ![o] = "rejected"]
    /\ UNCHANGED <<subject, members>>

\* The admin admits devices without an invitation.
Admit(S) ==
    /\ members' = members \cup S
    /\ UNCHANGED <<phase, subject>>

Next ==
    \/ \E o \in Offers : Invite(o) \/ Approve(o) \/ Reject(o)
    \/ \E o \in Offers, d \in Devices : Answer(o, d)
    \/ \E S \in SUBSET Devices : Admit(S)

Spec == Init /\ [][Next]_ivars
=============================================================================
