------------------------------ MODULE Deletion ------------------------------
(***************************************************************************)
(* Chain deletion across the chains of one database.  A deletion is first a *)
(* row in the ledger, which denies further operations; then the rows that  *)
(* hold ciphertext are erased, the write-ahead log is truncated, and a last *)
(* transaction completes the ledger row.  Those are three separate steps of *)
(* deletion.rs complete(), which runs in the request that deleted, on a     *)
(* one-second timer and when the process starts.                            *)
(***************************************************************************)
EXTENDS Naturals, FiniteSets

CONSTANTS
    Chains,
    Timer, Startup,   \* callers of complete() besides the delete requests
    MaxCrashes        \* bound of the model: crashes in one behaviour

ASSUME WorkersAssumption ==
    /\ Timer \notin Chains /\ Startup \notin Chains /\ Timer # Startup
    /\ MaxCrashes \in Nat

\* The request that deletes chain c is worker c.
Workers == Chains \cup {Timer, Startup}

VARIABLES
    ledger,    \* v3_deletions: no row, completed_at_ms null, completed_at_ms set
    rows,      \* the chain has rows in the tables that erase() empties
    files,     \* the database file or its WAL holds ciphertext of the chain
    writing,   \* chains with an authenticated write that has not committed
    pc,        \* where each worker is in complete()
    seen,      \* erase()'s local: the chains its transaction found uncompleted
    running,   \* the process serves requests and the timer runs
    crashes

vars == <<ledger, rows, files, writing, pc, seen, running, crashes>>

Deleting == {c \in Chains : ledger[c] = "deleting"}

Init ==
    /\ ledger = [c \in Chains |-> "none"]
    /\ rows = [c \in Chains |-> FALSE]
    /\ files = [c \in Chains |-> FALSE]
    /\ writing = {}
    /\ pc = [w \in Workers |-> "idle"]
    /\ seen = [w \in Workers |-> {}]
    /\ running = TRUE
    /\ crashes = 0

\* A write is authenticated in one transaction, while there is no ledger row ...
BeginWrite(c) ==
    /\ running
    /\ c \notin writing /\ ledger[c] = "none"
    /\ writing' = writing \cup {c}
    /\ UNCHANGED <<ledger, rows, files, pc, seen, running, crashes>>

\* ... and runs in another, which looks the ledger row up again.
LedgerCheckedOnce(c) == TRUE
NotDeleted(c) == ledger[c] = "none"
Write(c) ==
    /\ c \in writing
    /\ NotDeleted(c)
    /\ rows' = [rows EXCEPT ![c] = TRUE]
    /\ files' = [files EXCEPT ![c] = TRUE]
    /\ writing' = writing \ {c}
    /\ UNCHANGED <<ledger, pc, seen, running, crashes>>

\* The write meets the ledger row or fails another check.
WriteRefused(c) ==
    /\ c \in writing
    /\ writing' = writing \ {c}
    /\ UNCHANGED <<ledger, rows, files, pc, seen, running, crashes>>

\* delete: the ledger row; its request goes on to complete().
Delete(c) ==
    /\ running
    /\ rows[c] /\ NotDeleted(c)
    /\ ledger' = [ledger EXCEPT ![c] = "deleting"]
    /\ pc' = [pc EXCEPT ![c] = "erase"]
    /\ UNCHANGED <<rows, files, writing, seen, running, crashes>>

\* The interval timer ticks.
NoTimer == FALSE /\ UNCHANGED vars
Tick ==
    /\ running /\ pc[Timer] = "idle"
    /\ pc' = [pc EXCEPT ![Timer] = "erase"]
    /\ UNCHANGED <<ledger, rows, files, writing, seen, running, crashes>>

\* erase's transaction.  With no uncompleted deletion it returns at once, and
\* complete() goes on without a checkpoint.
Erase(w) ==
    /\ pc[w] = "erase"
    /\ seen' = [seen EXCEPT ![w] = Deleting]
    /\ rows' = [c \in Chains |-> rows[c] /\ c \notin Deleting]
    /\ pc' = [pc EXCEPT ![w] = IF Deleting = {} THEN "complete" ELSE "checkpoint"]
    /\ UNCHANGED <<ledger, files, writing, running, crashes>>

\* PRAGMA wal_checkpoint(TRUNCATE), secure_delete on: with no other reader or
\* writer in the way, what is not in a row is in no file.
BusyIgnored == files
Truncated == [c \in Chains |-> files[c] /\ rows[c]]
CheckpointDone(w) ==
    /\ pc[w] = "checkpoint"
    /\ files' = Truncated
    /\ pc' = [pc EXCEPT ![w] = "complete"]
    /\ UNCHANGED <<ledger, rows, writing, seen, running, crashes>>

\* The checkpoint reports busy: complete() returns the error.  The timer tries
\* again at its next tick; at startup the process exits.
CheckpointBusy(w) ==
    /\ pc[w] = "checkpoint"
    /\ pc' = [pc EXCEPT ![w] = "idle"]
    /\ UNCHANGED <<ledger, rows, files, writing, seen, running, crashes>>

\* complete's transaction: every deletion that is uncompleted now.
Completed(S) == [c \in Chains |-> IF c \in S THEN "completed" ELSE ledger[c]]
Complete(w) ==
    /\ pc[w] = "complete"
    /\ ledger' = Completed(Deleting)
    /\ pc' = [pc EXCEPT ![w] = "idle"]
    /\ running' = (running \/ w = Startup)
    /\ UNCHANGED <<rows, files, writing, seen, crashes>>

\* The process dies: the files stay, requests and workers are gone.
Crash ==
    /\ running \/ pc[Startup] # "idle"
    /\ crashes < MaxCrashes
    /\ crashes' = crashes + 1
    /\ running' = FALSE
    /\ pc' = [w \in Workers |-> "idle"]
    /\ writing' = {}
    /\ UNCHANGED <<ledger, rows, files, seen>>

\* AppState::new runs complete() before anything is served.
Start ==
    /\ ~running /\ pc[Startup] = "idle"
    /\ pc' = [pc EXCEPT ![Startup] = "erase"]
    /\ UNCHANGED <<ledger, rows, files, writing, seen, running, crashes>>

Next ==
    \/ \E c \in Chains : BeginWrite(c) \/ Write(c) \/ WriteRefused(c) \/ Delete(c)
    \/ \E w \in Workers : Erase(w) \/ CheckpointDone(w) \/ CheckpointBusy(w) \/ Complete(w)
    \/ Tick \/ Crash \/ Start

Spec == Init /\ [][Next]_vars

\* The timer keeps ticking, the process is restarted when it exits, a transaction
\* that has begun ends, and a checkpoint that is tried forever is not busy forever.
Fairness ==
    /\ WF_vars(Tick) /\ WF_vars(Start)
    /\ \A w \in Workers : WF_vars(Erase(w)) /\ WF_vars(Complete(w))
    /\ \A w \in Workers : SF_vars(CheckpointDone(w))

FairSpec == Spec /\ Fairness

-----------------------------------------------------------------------------
\* Types of the rows and of complete()'s locals.
TypeOK ==
    /\ ledger \in [Chains -> {"none", "deleting", "completed"}]
    /\ rows \in [Chains -> BOOLEAN] /\ files \in [Chains -> BOOLEAN]
    /\ writing \subseteq Chains
    /\ pc \in [Workers -> {"idle", "erase", "checkpoint", "complete"}]
    /\ seen \in [Workers -> SUBSET Chains]
    /\ running \in BOOLEAN
    /\ crashes \in Nat

\* When complete()'s last transaction is next, the chains that its own erase
\* transaction found are gone from the tables and from the files, whatever
\* writes, other workers and crashes ran in between (erase, handle's ledger check).
CheckedChainsAreErased ==
    \A w \in Workers : pc[w] = "complete" =>
        \A c \in seen[w] : ~rows[c] /\ ~files[c]

\* No row of a chain appears once erase has removed them: a deleted chain is not
\* revived by a request that was authenticated before the deletion (deletion::proof).
NoResurrection ==
    [][\A c \in Chains : ledger[c] # "none" /\ ~rows[c] => ~rows'[c]]_vars

\* A deletion is completed in the end, through crashes and busy checkpoints (main's
\* timer, AppState::new).
DeletionCompletes ==
    \A c \in Chains : ledger[c] = "deleting" ~> ledger[c] = "completed"

\* deletion.rs, on erase: "A completion receipt is never fabricated before the
\* storage checks succeed": a completed chain is erased from tables and files.
CompletedMeansErased ==
    \A c \in Chains : ledger[c] = "completed" => ~rows[c] /\ ~files[c]
=============================================================================
