------------------------------- MODULE Claims -------------------------------
(***************************************************************************)
(* What the comments and documents of the repository say of scheduling and  *)
(* the code does not keep.  Each property below is violated by a behaviour  *)
(* of Scheduler; the README tells the shortest one.                         *)
(***************************************************************************)
EXTENDS Scheduler

\* Nobody is at work on the store and no report is under way.
Quiet ==
    /\ eng.pc = "idle" /\ cancel.pc = "idle" /\ unreg.pc = "idle"
    /\ \A n \in Nodes : rep[n].pc = "idle" /\ reports[n] = <<>> /\ pull[n].pc = "idle"

\* CancelJob cancels all units of the job: once it is done, none of them waits or runs.
CancelCascades ==
    \A u \in Units : job[UnitJob(u)] = "Cancelled" /\ Quiet
                       => units[u].status \notin Unfinished

\* A reclaimed unit "then goes through the normal retry mechanism and is reassigned":
\* while its stage is open, a failed unit has a retry left.
ReclaimedUnitIsRetried ==
    \A u \in Units :
       /\ units[u].status = "Failed"
       /\ job[UnitJob(u)] \in JobActive
       /\ stage[StageOf[u]] \notin StageFinal
       /\ Quiet
       => units[u].retry < MaxRetries
=============================================================================
