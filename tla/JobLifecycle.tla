---------------------------- MODULE JobLifecycle ----------------------------
(***************************************************************************)
(* What the durable job queue promises to whoever enqueues a job, with     *)
(* neither leases, owners, clocks nor an audit log.  A job waits, is       *)
(* worked on, and ends in exactly one of three outcomes that never         *)
(* changes.  It is worked on at most budget times.  Once somebody has      *)
(* asked a job in progress to stop, the only outcome left is "cancelled"   *)
(* and it is never put back in the queue.                                  *)
(*                                                                         *)
(* One step may move several jobs, as one transaction of the queue does.   *)
(***************************************************************************)
EXTENDS Naturals

CONSTANT Jobs

Outcomes == {"succeeded", "failed", "cancelled"}
Phases   == {"none", "waiting", "working"} \cup Outcomes

VARIABLES
  phase,    \* where each job is
  runs,     \* how many times each job has been taken up
  budget,   \* how many times it may be
  asked     \* has somebody asked the job in progress to stop?

vars == <<phase, runs, budget, asked>>

Init ==
  /\ phase  = [j \in Jobs |-> "none"]
  /\ runs   = [j \in Jobs |-> 0]
  /\ budget = [j \in Jobs |-> 0]
  /\ asked  = [j \in Jobs |-> FALSE]

Same(j) ==
  /\ phase'[j] = phase[j]
  /\ runs'[j] = runs[j]
  /\ budget'[j] = budget[j]
  /\ asked'[j] = asked[j]

Move(j, from, to) == phase[j] = from /\ phase'[j] = to

Submit(j) ==
  /\ Move(j, "none", "waiting")
  /\ runs'[j] = 0
  /\ budget'[j] \in Nat \ {0}
  /\ asked'[j] = FALSE

TakeUp(j) ==
  /\ Move(j, "waiting", "working")
  /\ runs[j] < budget[j]
  /\ runs'[j] = runs[j] + 1
  /\ UNCHANGED budget[j]
  /\ asked[j] = FALSE /\ asked'[j] = FALSE

PutBack(j) ==
  /\ Move(j, "working", "waiting")
  /\ runs[j] < budget[j]
  /\ asked[j] = FALSE /\ asked'[j] = FALSE
  /\ UNCHANGED <<runs[j], budget[j]>>

\* Only "cancelled" is left to a job that was asked to stop.
End(j) ==
  /\ \/ phase[j] = "working" /\ phase'[j] \in Outcomes
     \/ Move(j, "waiting", "cancelled")
  /\ asked[j] => phase'[j] = "cancelled"
  /\ UNCHANGED <<runs[j], budget[j], asked[j]>>

AskToStop(j) ==
  /\ Move(j, "working", "working")
  /\ asked[j] = FALSE /\ asked'[j] = TRUE
  /\ UNCHANGED <<runs[j], budget[j]>>

JobStep(j) == Submit(j) \/ TakeUp(j) \/ PutBack(j) \/ End(j) \/ AskToStop(j)

Next == \A j \in Jobs : JobStep(j) \/ Same(j)

Spec == Init /\ [][Next]_vars
=============================================================================
