---------------------------- MODULE ExportPromise ----------------------------
(***************************************************************************)
(* What the export pipeline promises about each export, seen through its   *)
(* row, its object in storage and whether its job is still open: work      *)
(* happens only while the job is open, a completed export has its object,  *)
(* and once the job is closed the outcome never changes again.             *)
(***************************************************************************)
CONSTANT Exports

VARIABLES
    status,     \* status of the export's row
    delivered,  \* exports whose object is in storage
    open        \* exports whose job is in the queue or being worked on

vars == <<status, delivered, open>>

Init ==
    /\ status = [e \in Exports |-> "none"]
    /\ delivered = {}
    /\ open = {}

\* The request is recorded ...
Request(e) ==
    /\ status[e] = "none"
    /\ status' = [status EXCEPT ![e] = "pending"]
    /\ UNCHANGED <<delivered, open>>

\* ... and its job is submitted.
Submit(e) ==
    /\ status[e] = "pending" /\ e \notin open
    /\ open' = open \cup {e}
    /\ UNCHANGED <<status, delivered>>

\* Work begins, goes on or begins again after a crash.
Work(e) ==
    /\ e \in open
    /\ status' = [status EXCEPT ![e] = "processing"]
    /\ UNCHANGED <<delivered, open>>

Deliver(e) ==
    /\ e \in open
    /\ delivered' = delivered \cup {e}
    /\ UNCHANGED <<status, open>>

Complete(e) ==
    /\ e \in open /\ e \in delivered
    /\ status[e] = "processing"
    /\ status' = [status EXCEPT ![e] = "completed"]
    /\ UNCHANGED <<delivered, open>>

Fail(e) ==
    /\ e \in open
    /\ status[e] = "processing"
    /\ status' = [status EXCEPT ![e] = "failed"]
    /\ UNCHANGED <<delivered, open>>

\* The job is acknowledged: nothing of this export changes any more.
Close(e) ==
    /\ e \in open
    /\ status[e] \in {"completed", "failed"}
    /\ open' = open \ {e}
    /\ UNCHANGED <<status, delivered>>

Next ==
    \E e \in Exports : \/ Request(e) \/ Submit(e) \/ Work(e) \/ Deliver(e)
                       \/ Complete(e) \/ Fail(e) \/ Close(e)

Spec == Init /\ [][Next]_vars
=============================================================================
