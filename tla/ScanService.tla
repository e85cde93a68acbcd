----------------------------- MODULE ScanService -----------------------------
(***************************************************************************)
(* What the storage analyzer's Runner promises to the rest of the program: *)
(* a result that clients reset and that every scan, once begun, overwrites *)
(* in a single step when it ends, however late that is.  Installing ncdu,  *)
(* running it, cancelling contexts and reading its output are invisible.   *)
(***************************************************************************)
CONSTANTS
    Paths,      \* directories
    Scans,      \* slots for scans at work
    NoPath      \* no directory

VARIABLES
    status,     \* of the result: "idle", "running", "done" or "error"
    path,       \* of the result
    work        \* work[s]: the directory that scan s reads, NoPath if none

service == <<status, path, work>>

Joins(p) == status = "running" /\ path = p

Init ==
    /\ status = "idle" /\ path = NoPath
    /\ work = [s \in Scans |-> NoPath]

\* A new scan replaces the result, but not the scans at work.
Begin(p, s) ==
    /\ work[s] = NoPath /\ ~ Joins(p)
    /\ status' = "running" /\ path' = p
    /\ work' = [work EXCEPT ![s] = p]

Cancel ==
    /\ status' = "idle"
    /\ UNCHANGED <<path, work>>

\* A scan ends with its tree, with an error, or because it was cancelled.
Complete(s) ==
    /\ work[s] # NoPath
    /\ work' = [work EXCEPT ![s] = NoPath]
    /\ \/ status' = "done" /\ path' = work[s]
       \/ status' \in {"error", "idle"} /\ UNCHANGED path

Next ==
    \/ Cancel
    \/ \E s \in Scans : Complete(s) \/ \E p \in Paths : Begin(p, s)

Spec == Init /\ [][Next]_service
=============================================================================
