------------------------------ MODULE Operator ------------------------------
(***************************************************************************)
(* The operator's signed disclosure over starts, failed starts and crashes of *)
(* the relay: what a configuration is checked for, the pin the database keeps *)
(* of it, the two public documents, and the clients that fetch them, each in  *)
(* a request of its own, and never accept less than the highest revision they *)
(* have verified.                                                             *)
(*                                                                         *)
(* A disclosure stands for its complete signed document: equal disclosures    *)
(* have equal hashes.  `relay` is its origin and key, `markdown` the hash of  *)
(* the policy text it is bound to, `sound` that its values pass the checks    *)
(* that depend on nothing else.                                               *)
(***************************************************************************)
EXTENDS Integers

CONSTANTS
    Disclosures,  \* [relay, revision, markdown, effective, sound] records
    Markdowns,    \* policy texts
    Clients,
    None,
    MaxTime       \* bound of the clock

ASSUME OperatorAssumption ==
    /\ MaxTime \in Nat
    /\ None \notin Disclosures /\ None \notin Markdowns
    /\ \A d \in Disclosures :
        /\ d.revision \in Nat \ {0} /\ d.effective \in Nat
        /\ d.markdown \in Markdowns /\ d.sound \in BOOLEAN

VARIABLES
    clock,
    phase,    \* of the process: "down", "checked", "pinned", "up"
    loaded,   \* the disclosure and policy text of the process
    pin,      \* v3_operator
    got,      \* what each client has fetched: text and disclosure
    seen,     \* the highest revision each client has verified
    alarmed   \* clients that saw a rollback, an equivocation or another key

process == <<phase, loaded>>
clients == <<got, seen, alarmed>>
operatorVars == <<clock, process, pin, clients>>

Nothing == [markdown |-> None, disclosure |-> None]

OperatorInit ==
    /\ clock = 0
    /\ phase = "down" /\ loaded = Nothing
    /\ pin = None
    /\ got = [c \in Clients |-> Nothing]
    /\ seen = [c \in Clients |-> None]
    /\ alarmed = {}

Tick ==
    /\ clock < MaxTime
    /\ clock' = clock + 1
    /\ UNCHANGED <<process, pin, clients>>

\* RelayConfig::new: the disclosure is sound, in effect, and bound to the given text.
ValidUnbound(d, text) == d.sound /\ d.effective <= clock
Valid(d, text) ==
    /\ d.sound
    /\ d.markdown = text
    /\ d.effective <= clock

\* The process is started with a disclosure and a text; other ones it does not load.
New(d, text) ==
    /\ phase = "down" /\ Valid(d, text)
    /\ phase' = "checked"
    /\ loaded' = [markdown |-> text, disclosure |-> d]
    /\ UNCHANGED <<clock, pin, clients>>

\* AppState::new: origin and key are the pinned ones, the revision is not lower, and an
\* equal revision is the same document.
AcceptsEqual(d) ==
    pin # None => d.relay = pin.relay /\ d.revision >= pin.revision
Accepts(d) ==
    pin # None =>
        /\ d.relay = pin.relay
        /\ d.revision >= pin.revision
        /\ d.revision = pin.revision => d = pin

\* The first transaction of the start.
PinDisclosure ==
    /\ phase = "checked" /\ Accepts(loaded.disclosure)
    /\ phase' = "pinned"
    /\ pin' = loaded.disclosure
    /\ UNCHANGED <<clock, loaded, clients>>

EndProcess == phase' = "down" /\ loaded' = Nothing

\* A refused disclosure, or a failure in what the start does after the first transaction
\* (pending deletions, notices, quotas): the process ends, and the pin stays.
FailedStart ==
    /\ phase = "checked" \/ phase = "pinned"
    /\ phase = "checked" => ~Accepts(loaded.disclosure)
    /\ EndProcess
    /\ UNCHANGED <<clock, pin, clients>>

Started ==
    /\ phase = "pinned"
    /\ phase' = "up"
    /\ UNCHANGED <<clock, loaded, pin, clients>>

\* The process ends at any point.
Crash ==
    /\ phase # "down"
    /\ EndProcess
    /\ UNCHANGED <<clock, pin, clients>>

\* GET /privacy.md and GET /privacy.json: the documents of the process.
GetMarkdown(c) ==
    /\ phase = "up" /\ c \notin alarmed /\ got[c].markdown = None
    /\ got' = [got EXCEPT ![c].markdown = loaded.markdown]
    /\ UNCHANGED <<clock, process, pin, seen, alarmed>>

GetDisclosure(c) ==
    /\ phase = "up" /\ c \notin alarmed
    /\ got[c].markdown # None /\ got[c].disclosure = None
    /\ got' = [got EXCEPT ![c].disclosure = loaded.disclosure]
    /\ UNCHANGED <<clock, process, pin, seen, alarmed>>

\* A client verifies the pair; one that does not belong together, as it happens when the
\* relay restarts between the two requests, is fetched again (docs/v3.0.md:905).
Coherent(p) == p.disclosure.markdown = p.markdown
Contradicts(d, s) ==
    /\ s # None
    /\ \/ d.relay # s.relay
       \/ d.revision < s.revision
       \/ d.revision = s.revision /\ d # s

Verify(c) ==
    /\ got[c].disclosure # None
    /\ got' = [got EXCEPT ![c] = Nothing]
    /\ LET d == got[c].disclosure
           refused == Contradicts(d, seen[c]) IN
        /\ seen' = IF Coherent(got[c]) /\ ~refused THEN [seen EXCEPT ![c] = d] ELSE seen
        /\ alarmed' = IF Coherent(got[c]) /\ refused THEN alarmed \cup {c} ELSE alarmed
    /\ UNCHANGED <<clock, process, pin>>

OperatorNext ==
    \/ Tick
    \/ \E d \in Disclosures, text \in Markdowns : New(d, text)
    \/ PinDisclosure \/ FailedStart \/ Started \/ Crash
    \/ \E c \in Clients : GetMarkdown(c) \/ GetDisclosure(c) \/ Verify(c)

OperatorSpec == OperatorInit /\ [][OperatorNext]_operatorVars

\* Clients fetch before each request and the running relay answers them.
ClientFairness == \A c \in Clients :
    /\ WF_operatorVars(GetMarkdown(c))
    /\ WF_operatorVars(GetDisclosure(c))
    /\ WF_operatorVars(Verify(c))
OperatorFairSpec == OperatorSpec /\ ClientFairness

-----------------------------------------------------------------------------
\* The process, the pin and the clients' documents have their types.
Pairs == [markdown : Markdowns \cup {None}, disclosure : Disclosures \cup {None}]
OperatorTypeOK ==
    /\ clock \in 0..MaxTime
    /\ phase \in {"down", "checked", "pinned", "up"}
    /\ loaded \in Pairs
    /\ phase # "down" => loaded.disclosure # None /\ loaded.markdown # None
    /\ pin \in Disclosures \cup {None}
    /\ got \in [Clients -> Pairs]
    /\ seen \in [Clients -> Disclosures \cup {None}]
    /\ alarmed \in SUBSET Clients

\* Whatever the operator configures, and wherever starts fail or the process ends, no
\* client ever sees a rollback, an equivocation or another key: each would suspend the
\* relay for good (AppState::new, RelayConfig::new).
NoAlarm == alarmed = {}

\* While the relay keeps running, every client comes to the disclosure it serves, also one
\* that fetched its first half from an earlier process: the relay never serves a pair that
\* does not belong together (RelayConfig::new, handle).
ClientsSettle ==
    \A c \in Clients : <>[](phase = "up") => <>[](seen[c] = loaded.disclosure)
=============================================================================
