--------------------------- MODULE ProviderInvoke ---------------------------
(***************************************************************************)
(* The job kind "provider-invoke" on top of JobScheduler                   *)
(* (src/server/src/agents/provider-invoke-job.ts with                      *)
(* provider-invoke-coordinator.ts and provider-run-transitions.ts).        *)
(*                                                                         *)
(* A job's handler inserts a provider run, calls the provider and reports  *)
(* the outcome to an in-memory map; the terminal hook, in the transaction  *)
(* that ends the job, takes the outcome and ends the run with it.  Jobs    *)
(* that end without the hook, in recoverExpired, are reconciled in         *)
(* transactions of their own afterwards, so a crash may come first; a      *)
(* process that starts reconciles every terminal job.                      *)
(*                                                                         *)
(* Every action is one of JobScheduler, with what the handler or the hook  *)
(* does in it.  One process at a time works on a database, as index.ts     *)
(* has it; every kind is handled here; a job's run id is its own.          *)
(***************************************************************************)
EXTENDS JobScheduler

VARIABLES
  run,       \* status of each job's provider run, "none" before its row exists
  outcome,   \* ProviderInvokeCoordinator.pending of each process
  call,      \* where the handler of each attempt stands
  pending    \* terminal jobs each process has still to reconcile

runVars  == <<run, outcome, call, pending>>
allVars  == <<vars, runVars>>

Outcomes == {"succeeded", "failed", "cancelled"}

InvokeInit ==
  /\ SchedulerInit
  /\ run     = [j \in Jobs |-> "none"]
  /\ outcome = [p \in Owners |-> [j \in Jobs |-> "absent"]]
  /\ call    = [j \in Jobs |-> [n \in AttemptNumbers |-> "none"]]
  /\ pending = [p \in Owners |-> {}]

\* report: an outcome nobody has registered for is dropped.
Report(o, result) == IF o = "absent" THEN o ELSE result

\* Mutant: the job's end is not looked at.
TerminalFor_Outcome(jobState, o) == IF o \in Outcomes THEN o ELSE "failed"

\* terminalFor: which status the run ends with.
TerminalFor(jobState, o) ==
  CASE jobState = "cancelled" -> "cancelled"
    [] jobState = "succeeded" /\ o = "succeeded" -> "succeeded"
    [] OTHER -> "failed"

\* Mutant: the outcome is read and not taken.
Complete_Peek(p, j, jobState) ==
  /\ UNCHANGED outcome
  /\ run' = IF run[j] # "running" THEN run
            ELSE [run EXCEPT ![j] = TerminalFor(jobState, outcome[p][j])]

\* complete, for a job that is in jobState from this step on.
Complete(p, j, jobState) ==
  /\ outcome' = [outcome EXCEPT ![p][j] = "absent"]
  /\ run' = IF run[j] # "running" THEN run
            ELSE [run EXCEPT ![j] = TerminalFor(jobState, outcome[p][j])]

\* The terminal hook runs in the steps that end a job through terminal().
Hook(p, j) ==
  IF state'[j] \in Terminal /\ state[j] \notin Terminal
  THEN Complete(p, j, state'[j]) ELSE UNCHANGED <<run, outcome>>

-----------------------------------------------------------------------------
Free(p) == pending[p] = {}

\* Jobs that recoverExpired has just ended.
JustEnded == {j \in Jobs : state[j] \notin Terminal /\ state'[j] \in Terminal}

\* Mutant: a starting process reconciles only what it recovers itself.
InvokeStartUp_RecoveredOnly(p) ==
  /\ \A q \in Owners : ~Alive(q)
  /\ StartUp(p)
  /\ pending' = [pending EXCEPT ![p] = JustEnded]
  /\ UNCHANGED <<run, outcome, call>>

InvokeStartUp(p) ==
  /\ \A q \in Owners : ~Alive(q)
  /\ StartUp(p)
  /\ pending' = [pending EXCEPT ![p] = {j \in Jobs : state'[j] \in Terminal}]
  /\ UNCHANGED <<run, outcome, call>>

InvokePump(p) ==
  /\ Free(p) /\ Pump(p)
  /\ pending' = [pending EXCEPT ![p] = JustEnded]
  /\ UNCHANGED <<run, outcome, call>>

ReconcileRun(p, j) ==
  /\ Alive(p) /\ j \in pending[p]
  /\ Complete(p, j, state[j])
  /\ pending' = [pending EXCEPT ![p] = @ \ {j}]
  /\ UNCHANGED <<vars, call>>

\* The handler up to its first await: it registers (an entry without an
\* outcome is "null"), inserts the run and either calls the provider or, for
\* want of a descriptor, a request or a consent, reports a failure and raises.
\* A run that is there already makes the insert raise.
Invoke(p, j, n, granted) ==
  /\ Free(p) /\ Launch(p, j, n)
  /\ LET calls == granted /\ run[j] = "none" IN
     IF CanStart(j, p)
     THEN /\ run' = [run EXCEPT ![j] = IF @ = "none" THEN "running" ELSE @]
          /\ outcome' = [outcome EXCEPT ![p][j] = IF granted \/ run[j] # "none" THEN "null"
                                                  ELSE "failed"]
          /\ call' = [call EXCEPT ![j][n] = IF calls THEN "calling" ELSE "refused"]
     ELSE UNCHANGED <<run, outcome, call>>
  /\ UNCHANGED pending

Refused(p, j, n) ==
  /\ Free(p) /\ call[j][n] = "refused"
  /\ HandlerEnds(p, j, n, "failed")
  /\ call' = [call EXCEPT ![j][n] = "over"]
  /\ UNCHANGED <<run, outcome, pending>>

\* The provider's stream is over: progress events first, which raise when
\* the job has ended meanwhile, then the report.  A cancelled result does not
\* make the handler fail.
Answer(p, j, n, result) ==
  LET heard == state[j] \notin Terminal IN
  /\ Free(p) /\ Serving(p) /\ call[j][n] = "calling" /\ att[j][n].by = p
  /\ IF att[j][n].phase = "running"
     THEN HandlerEnds(p, j, n, IF heard /\ result # "failed" THEN "succeeded" ELSE "failed")
     ELSE UNCHANGED vars
  /\ outcome' = IF heard THEN [outcome EXCEPT ![p][j] = Report(@, result)] ELSE outcome
  /\ call' = [call EXCEPT ![j][n] = "over"]
  /\ UNCHANGED <<run, pending>>

InvokeConclude(p, j, n) ==
  /\ Free(p) /\ Conclude(p, j, n) /\ Hook(p, j)
  /\ UNCHANGED <<call, pending>>

InvokeForce(p, j) ==
  /\ Free(p) /\ ForceInterrupt(p, j) /\ Hook(p, j)
  /\ UNCHANGED <<call, pending>>

\* A process takes its map and its handlers with it.
Forget(p) ==
  /\ outcome' = [outcome EXCEPT ![p] = [j \in Jobs |-> "absent"]]
  /\ pending' = [pending EXCEPT ![p] = {}]
  /\ call' = [j \in Jobs |-> [n \in AttemptNumbers |->
                IF att[j][n].by = p /\ call[j][n] # "none" THEN "over" ELSE call[j][n]]]
  /\ UNCHANGED run

\* Steps that touch neither runs nor outcomes.
Plain(p) ==
  /\ Free(p)
  /\ \/ PumpEnds(p) \/ Stop(p) \/ GraceEnds(p)
     \/ \E j \in Jobs : ClaimNext(p, j) \/ CancelAt(p, j)
     \/ \E j \in Jobs, n \in AttemptNumbers : HeartbeatFires(p, j, n) \/ TimeoutFires(p, j, n)
  /\ UNCHANGED runVars

InvokeStep(p) ==
  \/ InvokeStartUp(p) \/ InvokePump(p) \/ Plain(p)
  \/ \E j \in Jobs : ReconcileRun(p, j) \/ InvokeForce(p, j)
  \/ \E j \in Jobs, n \in AttemptNumbers :
       \/ \E granted \in BOOLEAN : Invoke(p, j, n, granted)
       \/ Refused(p, j, n) \/ InvokeConclude(p, j, n)
       \/ \E result \in Outcomes : Answer(p, j, n, result)
  \/ Free(p) /\ Exit(p) /\ Forget(p)
  \/ Crash(p) /\ Forget(p)

InvokeNext ==
  \/ \E p \in Owners : InvokeStep(p)
  \/ \E j \in Jobs, k \in Kinds : Submit(j, k) /\ UNCHANGED runVars
  \/ TimePasses /\ UNCHANGED runVars

\* As in JobScheduler; what the process has to reconcile comes first.
InvokeCallbacks(p) ==
  \/ InvokeStartUp(p) \/ InvokePump(p)
  \/ Free(p) /\ (PumpEnds(p) \/ GraceEnds(p)) /\ UNCHANGED runVars
  \/ Free(p) /\ Exit(p) /\ Forget(p)
  \/ \E j \in Jobs : \/ ReconcileRun(p, j) \/ InvokeForce(p, j)
                     \/ Free(p) /\ ClaimNext(p, j) /\ UNCHANGED runVars
  \/ \E j \in Jobs, n \in AttemptNumbers :
       \/ \E granted \in BOOLEAN : Invoke(p, j, n, granted)
       \/ Refused(p, j, n) \/ InvokeConclude(p, j, n)

InvokeFairness ==
  /\ WF_allVars(TimePasses /\ UNCHANGED runVars)
  /\ \A p \in Owners :
       /\ WF_allVars(InvokeCallbacks(p))
       /\ \A j \in Jobs, n \in AttemptNumbers :
            /\ WF_allVars(Free(p) /\ TimeoutFires(p, j, n) /\ UNCHANGED runVars)
            /\ WF_allVars(Free(p) /\ HeartbeatFires(p, j, n) /\ UNCHANGED runVars)

InvokeSpec == InvokeInit /\ [][InvokeNext]_allVars /\ InvokeFairness

-----------------------------------------------------------------------------
(***************************************************************************)
(* Correctness.                                                            *)
(***************************************************************************)

InvokeTypeOK ==
  /\ run \in [Jobs -> {"none", "running"} \cup Outcomes]
  /\ outcome \in [Owners -> [Jobs -> {"absent", "null"} \cup Outcomes]]
  /\ call \in [Jobs -> [AttemptNumbers -> {"none", "calling", "refused", "over"}]]
  /\ pending \in [Owners -> SUBSET Jobs]

\* A run that has ended belongs to a job that has ended, and agrees with it:
\* whatever the provider answered, cancelled jobs have cancelled runs and
\* only a job that succeeded has a run that did.
RunAgrees ==
  \A j \in Jobs :
    run[j] \in Outcomes =>
      /\ state[j] \in Terminal
      /\ run[j] = "cancelled" <=> state[j] = "cancelled"
      /\ run[j] = "succeeded" => state[j] = "succeeded"

\* The coordinator keeps nothing for a job that is over, even when the
\* provider answers after the job was cancelled, timed out or recovered.
NoStrayOutcome ==
  \A p \in Owners, j \in Jobs :
    outcome[p][j] # "absent" /\ state[j] \in Terminal => j \in pending[p]

\* Every provider run ends, although the provider may never answer and the
\* process may crash at any moment, between recovery and reconciliation too.
RunEnds == \A j \in Jobs : run[j] = "running" ~> run[j] \in Outcomes
=============================================================================
