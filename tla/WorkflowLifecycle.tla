-------------------------- MODULE WorkflowLifecycle --------------------------
(***************************************************************************)
(* What the DTU promises a client of the GitHub API about workflow runs,   *)
(* without handlers, claims, locks or processes: a run is requested,       *)
(* executed at most once, cancelled or not, and concluded once, and every  *)
(* change of status is announced by one webhook event, in order.           *)
(***************************************************************************)
EXTENDS Naturals, Sequences

CONSTANTS Runs, Conclusions

VARIABLES
    runs,      \* run -> status, conclusion and cancellation intent
    log,       \* the workflow_run events, oldest first
    executed   \* the runs that were given to a runner

vars == <<runs, log, executed>>

Absent == [Status |-> "absent", Conclusion |-> "none", CancellationRequested |-> FALSE]

Move(r, status, conclusion) ==
    /\ runs' = [runs EXCEPT ![r].Status = status, ![r].Conclusion = conclusion]
    /\ log' = Append(log, [run |-> r, action |-> status, conclusion |-> conclusion])

Request(r) ==
    /\ runs[r].Status = "absent"
    /\ runs' = [runs EXCEPT ![r] = [Absent EXCEPT !.Status = "queued"]]
    /\ log' = Append(log, [run |-> r, action |-> "requested", conclusion |-> "none"])
    /\ UNCHANGED executed

\* A runner is started for a run once, and never after the run was cancelled.
Execute(r) ==
    /\ runs[r].Status = "queued"
    /\ ~runs[r].CancellationRequested
    /\ Move(r, "in_progress", "none")
    /\ executed' = executed \cup {r}

\* A script decides what happens to a run that was not given to a runner.
Script(r) ==
    /\ r \notin executed
    /\ \/ runs[r].Status = "queued" /\ Move(r, "in_progress", "none")
       \/ /\ runs[r].Status \in {"queued", "in_progress"}
          /\ \E c \in Conclusions : Move(r, "completed", c)
    /\ UNCHANGED executed

\* The runner's exit decides what becomes of a run that was; a cancelled conclusion takes
\* cancellation intent, which in turn also concludes a queued run without a runner.
Finish(r) ==
    /\ \/ /\ r \in executed
          /\ runs[r].Status = "in_progress"
          /\ \E c \in {"success", "failure"} : Move(r, "completed", c)
       \/ /\ runs[r].Status = IF r \in executed THEN "in_progress" ELSE "queued"
          /\ runs[r].CancellationRequested
          /\ Move(r, "completed", "cancelled")
    /\ UNCHANGED executed

Cancel(r) ==
    /\ runs[r].Status \in {"queued", "in_progress"}
    /\ runs' = [runs EXCEPT ![r].CancellationRequested = TRUE]
    /\ UNCHANGED <<log, executed>>

Init ==
    /\ runs = [r \in Runs |-> Absent]
    /\ log = <<>>
    /\ executed = {}

Next == \E r \in Runs : Request(r) \/ Execute(r) \/ Script(r) \/ Finish(r) \/ Cancel(r)

Spec == Init /\ [][Next]_vars
=============================================================================
