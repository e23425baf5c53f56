---------------------------- MODULE MCRelayChain ----------------------------
(* Instances of RelayChain for TLC: device ids are small numbers, so that their
   ascending enumeration is the one of the numbers. *)
EXTENDS RelayChain

MCDevices == {1, 2}
MCOneDevice == {1}
MCCreator == 1

\* The ascending sequence of a set of at most two numbers.
Ascending(S) ==
    CHOOSE s \in UNION {[1..n -> S] : n \in 0..Cardinality(S)} :
        /\ {s[i] : i \in DOMAIN s} = S
        /\ \A i, j \in DOMAIN s : i < j => s[i] < s[j]
MCSortedIds == [S \in SUBSET Devices |-> Ascending(S)]
=============================================================================
