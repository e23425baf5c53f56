----------------------------- MODULE MCOperator -----------------------------
(* Disclosures of one relay, two of them of one revision, and one of another key. *)
EXTENDS Operator

Disclosure(r, n, m, e, s) ==
    [relay |-> r, revision |-> n, markdown |-> m, effective |-> e, sound |-> s]

MCMarkdowns == {"text", "changed"}
MCDisclosures == {
    Disclosure("relay", 1, "text", 0, TRUE),
    Disclosure("relay", 2, "text", 0, TRUE),
    Disclosure("relay", 2, "changed", 0, TRUE),
    Disclosure("relay", 3, "changed", 1, TRUE),
    Disclosure("relay", 4, "text", 0, FALSE),
    Disclosure("other", 3, "text", 0, TRUE)}
=============================================================================
