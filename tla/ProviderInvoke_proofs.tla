----------------------- MODULE ProviderInvoke_proofs -----------------------
(***************************************************************************)
(* Proofs about the runs of providers beside any number of jobs: that each *)
(* step of a process is one of its scheduler, so that all that is proved   *)
(* of schedulers holds here; that a run which has ended agrees with its    *)
(* job; and that no outcome is kept for a job that is over.  Then about    *)
(* what jobs call: the fetch of a page, the texts of a prompt, the preview *)
(* of a file; the call of a provider, the model behind it, and the agents  *)
(* of this machine.                                                        *)
(***************************************************************************)
EXTENDS MCProviderInvoke, JobScheduler_proofs, SequenceTheorems, WellFoundedInduction

-----------------------------------------------------------------------------
(***************************************************************************)
(* Each step is one of the scheduler.                                      *)
(***************************************************************************)

LEMMA InvokeSchedules == InvokeNext => [SchedulerNext]_vars
<1>1. ASSUME NEW p \in Owners, InvokeStep(p) PROVE [SchedulerNext]_vars
  <2>1. CASE InvokeStartUp(p) \/ InvokePump(p) \/ Plain(p) \/ (Exit(p) /\ Forget(p)) \/ (Crash(p) /\ Forget(p))
    BY <2>1 DEF InvokeStartUp, InvokePump, Plain, SchedulerNext, ProcessStep, AttemptStep
  <2>2. ASSUME NEW j \in Jobs, ReconcileRun(p, j) \/ InvokeForce(p, j) PROVE [SchedulerNext]_vars
    BY <2>2 DEF ReconcileRun, InvokeForce, SchedulerNext, ProcessStep
  <2>3. ASSUME NEW j \in Jobs, NEW n \in AttemptNumbers,
               \/ \E granted \in BOOLEAN : Invoke(p, j, n, granted)
               \/ Refused(p, j, n) \/ InvokeConclude(p, j, n)
               \/ \E how \in Outcomes : Answer(p, j, n, how)
        PROVE  [SchedulerNext]_vars
    <3>1. UNCHANGED vars \/ AttemptStep(p, j, n)
      BY <2>3 DEF Invoke, Refused, InvokeConclude, Answer, AttemptStep
    <3> QED BY <3>1 DEF SchedulerNext
  <2> QED BY <1>1, <2>1, <2>2, <2>3 DEF InvokeStep
<1>2. CASE \E j \in Jobs, k \in Kinds : Submit(j, k) /\ UNCHANGED runVars
  BY <1>2 DEF SchedulerNext
<1>3. CASE TimePasses /\ UNCHANGED runVars
  BY <1>3 DEF SchedulerNext
<1> QED BY <1>1, <1>2, <1>3 DEF InvokeNext

LEMMA SchedulerBelow == InvokeSpec => []SchedulerInv
<1>1. InvokeInit => SchedulerInit
  BY DEF InvokeInit
<1>2. [InvokeNext]_allVars => [SchedulerNext]_vars
  BY InvokeSchedules DEF allVars
<1> QED BY <1>1, <1>2, SchedulerStarts, SchedulerKeeps, PTL DEF InvokeSpec

LEMMA RowsBelow ==
  ASSUME SchedulerInv, InvokeNext
  PROVE  /\ SafetyInv /\ [Next]_jobVars
         /\ \A j \in Jobs : state[j] \in Terminal => state'[j] = state[j]
<1>1. SafetyInv
  BY DEF SchedulerInv
<1>2. [Next]_jobVars
  BY InvokeSchedules, SchedulerMoves DEF vars
<1> QED BY <1>1, <1>2, TerminalStays

-----------------------------------------------------------------------------
(***************************************************************************)
(* Runs.                                                                   *)
(***************************************************************************)

\* A step leaves a run alone, starts it, or ends it with its job.
RunMoves(i) ==
  \/ run'[i] = run[i]
  \/ run[i] = "none" /\ run'[i] = "running"
  \/ /\ run[i] = "running" /\ state'[i] \in Terminal
     /\ \E o : run'[i] = TerminalFor(state'[i], o)

\* What is reconciled is over already.
RunInv ==
  /\ InvokeTypeOK /\ RunAgrees
  /\ \A p \in Owners : \A j \in pending[p] : state[j] \in Terminal

Agrees(j) ==
  /\ state[j] \in Terminal
  /\ run[j] = "cancelled" <=> state[j] = "cancelled"
  /\ run[j] = "succeeded" => state[j] = "succeeded"

LEMMA OutcomeType ==
  ASSUME NEW s, NEW o PROVE TerminalFor(s, o) \in Outcomes
BY DEF TerminalFor, Outcomes

LEMMA OutcomeAgrees ==
  ASSUME NEW s \in Terminal, NEW o
  PROVE  /\ TerminalFor(s, o) = "cancelled" <=> s = "cancelled"
         /\ TerminalFor(s, o) = "succeeded" => s = "succeeded"
BY DEF TerminalFor, Terminal

LEMMA CompleteMoves ==
  ASSUME InvokeTypeOK, NEW p \in Owners, NEW j \in Jobs, Complete(p, j, state'[j]), state'[j] \in Terminal
  PROVE  /\ \A i \in Jobs : RunMoves(i)
         /\ run' \in [Jobs -> {"none", "running"} \cup Outcomes]
         /\ outcome' \in [Owners -> [Jobs -> {"absent", "null"} \cup Outcomes]]
<1>1. run \in [Jobs -> {"none", "running"} \cup Outcomes]
  BY DEF InvokeTypeOK
<1>2. outcome \in [Owners -> [Jobs -> {"absent", "null"} \cup Outcomes]]
  BY DEF InvokeTypeOK
<1>3. outcome' = [outcome EXCEPT ![p][j] = "absent"]
  BY DEF Complete
<1>4. outcome' \in [Owners -> [Jobs -> {"absent", "null"} \cup Outcomes]]
  BY <1>2, <1>3
<1>5. CASE run[j] # "running"
  <2>1. run' = run
    BY <1>5 DEF Complete
  <2> QED BY <1>1, <1>4, <2>1 DEF RunMoves
<1>6. CASE run[j] = "running"
  <2> DEFINE end == TerminalFor(state'[j], outcome[p][j])
  <2>1. run' = [run EXCEPT ![j] = end]
    BY <1>6 DEF Complete
  <2>2. end \in Outcomes
    BY OutcomeType
  <2>3. \E o : end = TerminalFor(state'[j], o)
    OBVIOUS
  <2> HIDE DEF end
  <2>4. ASSUME NEW i \in Jobs PROVE RunMoves(i)
    BY <1>1, <1>6, <2>1, <2>3 DEF RunMoves
  <2>5. run' \in [Jobs -> {"none", "running"} \cup Outcomes]
    BY <1>1, <2>1, <2>2
  <2> QED BY <1>4, <2>4, <2>5
<1> QED BY <1>5, <1>6


RunStep ==
  /\ \A i \in Jobs : RunMoves(i)
  /\ InvokeTypeOK'
  /\ \A q \in Owners : \A i \in pending'[q] : i \in pending[q] \/ state'[i] \in Terminal

LEMMA HookMoves ==
  ASSUME InvokeTypeOK, NEW p \in Owners, NEW j \in Jobs, Hook(p, j), UNCHANGED <<call, pending>>
  PROVE  RunStep
<1>1. CASE state'[j] \in Terminal /\ state[j] \notin Terminal
  <2>1. Complete(p, j, state'[j])
    BY <1>1 DEF Hook
  <2> QED BY <1>1, <2>1, CompleteMoves DEF RunStep, InvokeTypeOK
<1>2. CASE ~(state'[j] \in Terminal /\ state[j] \notin Terminal)
  BY <1>2 DEF Hook, RunStep, InvokeTypeOK, RunMoves
<1> QED BY <1>1, <1>2

\* What a handler does to its run, its outcome and its place.
CallStep(p, j, n) ==
  /\ run' = run \/ (run[j] = "none" /\ run' = [run EXCEPT ![j] = "running"])
  /\ \/ outcome' = outcome
     \/ \E o \in {"absent", "null"} \cup Outcomes : outcome' = [outcome EXCEPT ![p][j] = o]
  /\ \/ call' = call
     \/ \E c \in {"calling", "refused", "over"} : call' = [call EXCEPT ![j][n] = c]
  /\ UNCHANGED pending

LEMMA CallMoves ==
  ASSUME InvokeTypeOK, NEW p \in Owners, NEW j \in Jobs, NEW n \in AttemptNumbers,
         \/ \E granted \in BOOLEAN : Invoke(p, j, n, granted)
         \/ Refused(p, j, n)
         \/ \E how \in Outcomes : Answer(p, j, n, how)
  PROVE  RunStep
<1>1. /\ run \in [Jobs -> {"none", "running"} \cup Outcomes]
      /\ outcome \in [Owners -> [Jobs -> {"absent", "null"} \cup Outcomes]]
      /\ call \in [Jobs -> [AttemptNumbers -> {"none", "calling", "refused", "over"}]]
      /\ pending \in [Owners -> SUBSET Jobs]
  BY DEF InvokeTypeOK
<1>2. CallStep(p, j, n)
  <2> USE DEF CallStep
  <2>1. ASSUME NEW granted \in BOOLEAN, Invoke(p, j, n, granted), CanStart(j, p) PROVE CallStep(p, j, n)
    <3> DEFINE o == IF granted \/ run[j] # "none" THEN "null" ELSE "failed"
               c == IF granted /\ run[j] = "none" THEN "calling" ELSE "refused"
    <3>1. /\ run' = [run EXCEPT ![j] = IF @ = "none" THEN "running" ELSE @]
          /\ outcome' = [outcome EXCEPT ![p][j] = o]
          /\ call' = [call EXCEPT ![j][n] = c]
          /\ UNCHANGED pending
      BY <2>1 DEF Invoke
    <3>2. o \in {"absent", "null"} \cup Outcomes /\ c \in {"calling", "refused", "over"}
      BY DEF Outcomes
    <3> HIDE DEF o, c
    <3>3. run' = run \/ (run[j] = "none" /\ run' = [run EXCEPT ![j] = "running"])
      BY <1>1, <3>1
    <3> QED BY <3>1, <3>2, <3>3
  <2>2. ASSUME NEW granted \in BOOLEAN, Invoke(p, j, n, granted), ~CanStart(j, p) PROVE CallStep(p, j, n)
    BY <2>2 DEF Invoke
  <2>3. CASE Refused(p, j, n)
    BY <2>3 DEF Refused
  <2>4. ASSUME NEW how \in Outcomes, Answer(p, j, n, how) PROVE CallStep(p, j, n)
    <3> DEFINE o == Report(outcome[p][j], how)
    <3>1. /\ outcome' = [outcome EXCEPT ![p][j] = o] \/ outcome' = outcome
          /\ call' = [call EXCEPT ![j][n] = "over"]
          /\ UNCHANGED <<run, pending>>
      BY <2>4 DEF Answer
    <3>2. o \in {"absent", "null"} \cup Outcomes
      BY <1>1 DEF Report
    <3> HIDE DEF o
    <3> QED BY <3>1, <3>2
  <2> QED BY <2>1, <2>2, <2>3, <2>4
<1>3. \A i \in Jobs : RunMoves(i)
  BY <1>1, <1>2 DEF RunMoves, CallStep
<1>4. run' \in [Jobs -> {"none", "running"} \cup Outcomes]
  BY <1>1, <1>2 DEF CallStep
<1>5. outcome' \in [Owners -> [Jobs -> {"absent", "null"} \cup Outcomes]]
  <2>1. CASE outcome' = outcome
    BY <1>1, <2>1
  <2>2. ASSUME NEW o \in {"absent", "null"} \cup Outcomes, outcome' = [outcome EXCEPT ![p][j] = o]
        PROVE  outcome' \in [Owners -> [Jobs -> {"absent", "null"} \cup Outcomes]]
    BY <1>1, <2>2
  <2> QED BY <1>2, <2>1, <2>2 DEF CallStep
<1>6. call' \in [Jobs -> [AttemptNumbers -> {"none", "calling", "refused", "over"}]]
  <2>1. CASE call' = call
    BY <1>1, <2>1
  <2>2. ASSUME NEW c \in {"calling", "refused", "over"}, call' = [call EXCEPT ![j][n] = c]
        PROVE  call' \in [Jobs -> [AttemptNumbers -> {"none", "calling", "refused", "over"}]]
    BY <1>1, <2>2
  <2> QED BY <1>2, <2>1, <2>2 DEF CallStep
<1> QED BY <1>1, <1>2, <1>3, <1>4, <1>5, <1>6 DEF RunStep, InvokeTypeOK, CallStep

LEMMA InvokeMoves ==
  ASSUME RunInv, SchedulerInv, InvokeNext
  PROVE  RunStep
<1> USE DEF RunInv
<1>0. RunStep \/ ~UNCHANGED runVars
  BY DEF RunStep, InvokeTypeOK, RunMoves, runVars
<1>1. ASSUME NEW p \in Owners, InvokeStartUp(p) \/ InvokePump(p) PROVE RunStep
  <2>1. /\ pending' = [pending EXCEPT ![p] = pending'[p]]
        /\ pending'[p] \subseteq {j \in Jobs : state'[j] \in Terminal}
        /\ UNCHANGED <<run, outcome, call>>
    BY <1>1 DEF InvokeStartUp, InvokePump, JustEnded, InvokeTypeOK
  <2> QED BY <2>1 DEF RunStep, InvokeTypeOK, RunMoves
<1>2. ASSUME NEW p \in Owners, Plain(p) PROVE RunStep
  BY <1>0, <1>2 DEF Plain
<1>3. ASSUME NEW p \in Owners, NEW j \in Jobs, ReconcileRun(p, j) PROVE RunStep
  <2>1. state[j] \in Terminal /\ UNCHANGED state
    BY <1>3 DEF ReconcileRun, vars, jobVars
  <2>2. Complete(p, j, state'[j])
    BY <1>3, <2>1 DEF ReconcileRun
  <2>3. pending' = [pending EXCEPT ![p] = @ \ {j}] /\ UNCHANGED call
    BY <1>3 DEF ReconcileRun
  <2> QED BY <2>1, <2>2, <2>3, CompleteMoves DEF RunStep, InvokeTypeOK
<1>4. ASSUME NEW p \in Owners, NEW j \in Jobs,
             InvokeForce(p, j) \/ \E n \in AttemptNumbers : InvokeConclude(p, j, n)
      PROVE  RunStep
  BY <1>4, HookMoves DEF InvokeForce, InvokeConclude
<1>5. ASSUME NEW p \in Owners, Forget(p) PROVE RunStep
  <2>1. outcome' \in [Owners -> [Jobs -> {"absent", "null"} \cup Outcomes]]
    BY <1>5 DEF Forget, InvokeTypeOK
  <2>2. call' \in [Jobs -> [AttemptNumbers -> {"none", "calling", "refused", "over"}]]
    BY <1>5 DEF Forget, InvokeTypeOK
  <2>3. pending' = [pending EXCEPT ![p] = {}] /\ UNCHANGED run
    BY <1>5 DEF Forget
  <2> QED BY <2>1, <2>2, <2>3 DEF RunStep, InvokeTypeOK, RunMoves
<1>6. ASSUME UNCHANGED runVars PROVE RunStep
  BY <1>0, <1>6
<1> QED BY <1>1, <1>2, <1>3, <1>4, <1>5, <1>6, CallMoves DEF InvokeNext, InvokeStep

LEMMA RunStarts == InvokeInit => RunInv
BY DEF InvokeInit, RunInv, InvokeTypeOK, RunAgrees, Outcomes

LEMMA RunKept == SchedulerInv /\ RunInv /\ [InvokeNext]_allVars => RunInv'
<1>1. ASSUME SchedulerInv, RunInv, InvokeNext PROVE RunInv'
  <2>1. RunStep
    BY <1>1, InvokeMoves
  <2>2. \A j \in Jobs : state[j] \in Terminal => state'[j] = state[j]
    BY <1>1, RowsBelow
  <2>3. ASSUME NEW j \in Jobs, run'[j] \in Outcomes PROVE Agrees(j)'
    <3> USE DEF Agrees
    <3>1. CASE run'[j] = run[j]
      BY <1>1, <2>2, <2>3, <3>1 DEF RunInv, RunAgrees
    <3>2. ASSUME NEW o, state'[j] \in Terminal, run'[j] = TerminalFor(state'[j], o)
          PROVE  Agrees(j)'
      BY <3>2, OutcomeAgrees
    <3> QED BY <2>1, <2>3, <3>1, <3>2 DEF RunStep, RunMoves, Outcomes
  <2>4. RunAgrees'
    BY <2>3 DEF RunAgrees, Agrees
  <2>5. \A p \in Owners : pending[p] \subseteq Jobs
    BY <1>1 DEF RunInv, InvokeTypeOK
  <2>6. \A p \in Owners : \A j \in pending'[p] : state'[j] \in Terminal
    BY <1>1, <2>1, <2>2, <2>5 DEF RunInv, RunStep
  <2>7. InvokeTypeOK'
    BY <2>1 DEF RunStep
  <2> QED BY <2>4, <2>6, <2>7 DEF RunInv
<1>2. ASSUME RunInv, UNCHANGED allVars PROVE RunInv'
  BY <1>2 DEF RunInv, RunAgrees, InvokeTypeOK, allVars, vars, jobVars, runVars
<1> QED BY <1>1, <1>2

LEMMA RunInvariant == InvokeSpec => [](SchedulerInv /\ RunInv)
BY SchedulerBelow, RunStarts, RunKept, PTL DEF InvokeSpec

-----------------------------------------------------------------------------
(***************************************************************************)
(* Outcomes.  A job of an external kind is not put back once it runs, so   *)
(* what has an outcome runs, or has been ended by recovery and waits to be *)
(* reconciled.                                                             *)
(***************************************************************************)

AllExternal == \A k \in Kinds : RetryClass[k] = "external"

\* One process at a time works on a database.
OneAlive == \A p, q \in Owners : Alive(p) /\ Alive(q) => p = q

OutcomeOK(q, i) ==
  outcome[q][i] # "absent" =>
    /\ Alive(q)
    /\ state[i] = "running" \/ (state[i] \in Terminal /\ i \in pending[q])

OutcomeInv == OneAlive /\ \A q \in Owners, i \in Jobs : OutcomeOK(q, i)

\* A step of the queue that ends no running job.
Runs(i) == state[i] = "running" => state'[i] = "running"

LEMMA ExternalEnds ==
  ASSUME AllExternal, SafetyInv, [Next]_jobVars, NEW i \in Jobs, state[i] = "running"
  PROVE  state'[i] = "running" \/ state'[i] \in Terminal
<1> USE DEF SafetyInv, TypeInv, TypeOK, Known, Terminal
<1>0. RetryClass[kind[i]] = "external" /\ FailureState(i) \in Terminal
  BY DEF AllExternal, FailureState, ShouldRetry, States, Held
<1>1. ASSUME NEW j \in Jobs, NEW k \in Kinds, Enqueue(j, k) PROVE state'[i] = "running"
  BY <1>1 DEF Enqueue, Enter
<1>2. ASSUME NEW j \in Jobs, NEW o \in Owners, OwnerStep(j, o)
      PROVE  state'[i] = "running" \/ state'[i] \in Terminal
  BY <1>0, <1>2 DEF OwnerStep, Claim, Claimable, Start, CanStart, Heartbeat, Succeed, Succeeded,
     Cancelled, Fail, FinishCancellation, Interrupt, ResolveFailures, Enter
<1>3. ASSUME NEW j \in Jobs, Cancel(j) PROVE state'[i] = "running" \/ state'[i] \in Terminal
  BY <1>3 DEF Cancel, Cancelled, RequestCancellation, Enter
<1>4. CASE RecoverExpired
  BY <1>0, <1>4 DEF RecoverExpired, ResolveFailures
<1>5. CASE Tick \/ UNCHANGED jobVars
  BY <1>5 DEF Tick, jobVars
<1> QED BY <1>1, <1>2, <1>3, <1>4, <1>5 DEF Next

\* Only a process that starts comes to life, and then it is alone.
LEMMA LifeOfSteps ==
  ASSUME SchedulerInv, NEW p \in Owners, InvokeStep(p)
  PROVE  \/ Alive(p) /\ UNCHANGED proc
         \/ Alive(p) /\ \E s : proc' = [proc EXCEPT ![p] = s]
         \/ /\ \A q \in Owners : ~Alive(q)
            /\ InvokeStartUp(p) /\ proc' = [proc EXCEPT ![p] = "up"]
<1> DEFINE Goal ==
      \/ Alive(p) /\ UNCHANGED proc
      \/ Alive(p) /\ \E s : proc' = [proc EXCEPT ![p] = s]
      \/ /\ \A q \in Owners : ~Alive(q)
         /\ InvokeStartUp(p) /\ proc' = [proc EXCEPT ![p] = "up"]
<1>1. ASSUME InvokeStartUp(p) PROVE Goal
  BY <1>1 DEF InvokeStartUp, StartUp
<1>2. ASSUME InvokePump(p) PROVE Goal
  BY <1>2 DEF InvokePump, Pump, Alive
<1>3. ASSUME Plain(p) PROVE Goal
  <2>1. CASE PumpEnds(p)
    BY <2>1 DEF PumpEnds, Claiming
  <2>2. CASE Stop(p)
    BY <2>2 DEF Stop, Alive
  <2>3. CASE GraceEnds(p)
    BY <2>3 DEF GraceEnds, Alive
  <2>4. ASSUME NEW j \in Jobs, ClaimNext(p, j) \/ CancelAt(p, j) PROVE Goal
    BY <2>4 DEF ClaimNext, CancelAt, Claiming, Serving, Alive
  <2>5. ASSUME NEW j \in Jobs, NEW n \in AttemptNumbers,
               HeartbeatFires(p, j, n) \/ TimeoutFires(p, j, n)
        PROVE  Goal
    BY <2>5 DEF HeartbeatFires, TimeoutFires, Quiet, Serving, Alive
  <2> QED BY <1>3, <2>1, <2>2, <2>3, <2>4, <2>5 DEF Plain
<1>4. ASSUME Exit(p) \/ Crash(p) PROVE Goal
  BY <1>4 DEF Exit, Crash, Die, Alive
<1>5. ASSUME NEW j \in Jobs, ReconcileRun(p, j) \/ InvokeForce(p, j) PROVE Goal
  BY <1>5 DEF ReconcileRun, InvokeForce, ForceInterrupt, vars, schedVars, Alive
<1>6. ASSUME NEW j \in Jobs, NEW n \in AttemptNumbers,
             \/ \E granted \in BOOLEAN : Invoke(p, j, n, granted)
             \/ Refused(p, j, n) \/ InvokeConclude(p, j, n)
             \/ \E how \in Outcomes : Answer(p, j, n, how)
      PROVE  Goal
  BY <1>6 DEF Invoke, Refused, InvokeConclude, Answer, Launch, HandlerEnds, Conclude, Serving,
     vars, schedVars, Alive
<1> HIDE DEF Goal
<1>7. Goal
  BY <1>1, <1>2, <1>3, <1>4, <1>5, <1>6 DEF InvokeStep
<1> QED BY <1>7 DEF Goal

LEMMA AliveStays ==
  ASSUME SchedulerInv, NEW p \in Owners, InvokeStep(p), NEW q \in Owners \ {p}
  PROVE  Alive(q)' <=> Alive(q)
<1>1. proc \in [Owners -> {"new", "up", "stopping", "forcing", "exited", "crashed"}]
  BY DEF SchedulerInv, SchedulerTypeOK
<1>2. proc'[q] = proc[q]
  BY <1>1, LifeOfSteps
<1> QED BY <1>2 DEF Alive

LEMMA OneAliveKept ==
  ASSUME SchedulerInv, OneAlive, InvokeNext PROVE OneAlive'
<1>1. ASSUME NEW p \in Owners, InvokeStep(p) PROVE OneAlive'
  <2>1. Alive(p) \/ \A q \in Owners : ~Alive(q)
    BY <1>1, LifeOfSteps
  <2>2. \A q \in Owners \ {p} : ~Alive(q)
    BY <2>1 DEF OneAlive
  <2>3. \A q \in Owners \ {p} : ~Alive(q)'
    BY <1>1, <2>2, AliveStays
  <2> QED BY <2>3 DEF OneAlive
<1>2. CASE UNCHANGED proc
  BY <1>2 DEF OneAlive, Alive
<1> QED BY <1>1, <1>2 DEF InvokeNext, Submit, TimePasses, schedVars

\* Nothing is done to outcomes, and no running job ends.
LEMMA OutcomesRest ==
  ASSUME RunInv, OutcomeInv, NEW i \in Jobs, NEW q \in Owners, Runs(i),
         state[i] \in Terminal => state'[i] = state[i],
         outcome'[q][i] = outcome[q][i] \/ outcome[q][i] # "absent",
         pending'[q] = pending[q], Alive(q) => Alive(q)'
  PROVE  OutcomeOK(q, i)'
BY DEF OutcomeInv, OutcomeOK, Runs

\* What each step does to the rows of jobs that run.
LEMMA RowsOfCalls ==
  ASSUME SchedulerInv, NEW p \in Owners, NEW i \in Jobs,
         \/ Plain(p)
         \/ \E j \in Jobs : ReconcileRun(p, j)
         \/ \E j \in Jobs, n \in AttemptNumbers :
              \/ \E granted \in BOOLEAN : Invoke(p, j, n, granted)
              \/ Refused(p, j, n)
              \/ \E how \in Outcomes : Answer(p, j, n, how)
  PROVE  Runs(i)
<1> USE DEF SchedulerInv, SafetyInv, TypeInv, TypeOK, Runs
<1>1. CASE UNCHANGED jobVars
  BY <1>1 DEF jobVars
<1>2. ASSUME NEW j \in Jobs, Claim(j, p) \/ Cancel(j) \/ Start(j, p) \/ Heartbeat(j, p)
      PROVE  Runs(i)
  BY <1>2 DEF Claim, Claimable, Cancel, Cancelled, RequestCancellation, Start, CanStart, Heartbeat,
     Enter
<1>3. CASE Plain(p)
  BY <1>1, <1>2, <1>3 DEF Plain, PumpEnds, Stop, GraceEnds, ClaimNext, CancelAt, HeartbeatFires,
     TimeoutFires, Attempted
<1>4. ASSUME NEW j \in Jobs, ReconcileRun(p, j) PROVE Runs(i)
  BY <1>1, <1>4 DEF ReconcileRun, vars
<1>5. ASSUME NEW j \in Jobs, NEW n \in AttemptNumbers,
             \/ \E granted \in BOOLEAN : Invoke(p, j, n, granted)
             \/ Refused(p, j, n)
             \/ \E how \in Outcomes : Answer(p, j, n, how)
      PROVE  Runs(i)
  BY <1>1, <1>2, <1>5 DEF Invoke, Launch, Attempted, Refused, Answer, HandlerEnds, vars
<1> QED BY <1>3, <1>4, <1>5

LEMMA HookOutcomes ==
  ASSUME AllExternal, SchedulerInv, RunInv, OutcomeInv, InvokeNext,
         NEW p \in Owners, NEW j \in Jobs, Alive(p), UNCHANGED <<proc, pending>>,
         \A i \in Jobs \ {j} : state'[i] = state[i], Hook(p, j),
         NEW q \in Owners, NEW i \in Jobs
  PROVE  OutcomeOK(q, i)'
<1>1. Alive(q)' <=> Alive(q)
  BY DEF Alive
<1>2. SafetyInv /\ [Next]_jobVars /\ (state[i] \in Terminal => state'[i] = state[i])
  BY RowsBelow
<1>3. /\ outcome \in [Owners -> [Jobs -> {"absent", "null"} \cup Outcomes]]
      /\ outcome' = outcome \/ outcome' = [outcome EXCEPT ![p][j] = "absent"]
  BY DEF RunInv, InvokeTypeOK, Hook, Complete
<1>4. SUFFICES ASSUME outcome'[q][i] # "absent"
               PROVE  Alive(q) /\ (state'[i] = "running" \/ (state'[i] \in Terminal /\ i \in pending[q]))
  BY <1>1 DEF OutcomeOK
<1>5. outcome[q][i] # "absent"
  BY <1>3, <1>4
<1>6. Alive(q) /\ q = p
  BY <1>5 DEF OutcomeInv, OutcomeOK, OneAlive
<1>7. CASE i # j \/ state[i] \in Terminal
  BY <1>2, <1>5, <1>7 DEF OutcomeInv, OutcomeOK
<1>8. CASE i = j /\ state[i] = "running"
  <2>1. state'[j] \notin Terminal
    BY <1>3, <1>4, <1>6, <1>8 DEF Hook, Complete, Terminal
  <2> QED BY <1>2, <1>6, <1>8, <2>1, ExternalEnds
<1> QED BY <1>5, <1>6, <1>7, <1>8 DEF OutcomeInv, OutcomeOK

\* The handler takes up an outcome only for a job that runs.
LEMMA CallOutcomes ==
  ASSUME SchedulerInv, RunInv, OutcomeInv, InvokeNext,
         NEW p \in Owners, NEW j \in Jobs, NEW n \in AttemptNumbers,
         \/ \E granted \in BOOLEAN : Invoke(p, j, n, granted)
         \/ Refused(p, j, n)
         \/ \E how \in Outcomes : Answer(p, j, n, how),
         NEW q \in Owners, NEW i \in Jobs
  PROVE  OutcomeOK(q, i)'
<1>1. /\ outcome \in [Owners -> [Jobs -> {"absent", "null"} \cup Outcomes]]
      /\ state \in [Jobs -> States \cup {"absent"}]
  BY DEF RunInv, InvokeTypeOK, SchedulerInv, SafetyInv, TypeInv, TypeOK
<1>2. Alive(p) /\ UNCHANGED <<proc, pending>>
  BY DEF Invoke, Refused, Answer, Launch, HandlerEnds, Serving, Alive, vars, schedVars
<1>3. Runs(i) /\ (state[i] \in Terminal => state'[i] = state[i])
  BY RowsOfCalls, RowsBelow
<1>4. CASE outcome'[q][i] # "absent" => outcome[q][i] # "absent"
  BY <1>2, <1>3, <1>4 DEF OutcomeInv, OutcomeOK, Runs, Alive
<1>5. ASSUME NEW granted \in BOOLEAN, Invoke(p, j, n, granted), CanStart(j, p)
      PROVE  OutcomeOK(q, i)'
  <2>1. \E o : outcome' = [outcome EXCEPT ![p][j] = o]
    BY <1>5 DEF Invoke
  <2>2. state'[j] = "running"
    BY <1>1, <1>5 DEF Invoke, Launch, Attempted, Start, Enter
  <2>3. CASE q = p /\ i = j
    BY <1>2, <2>2, <2>3 DEF OutcomeOK, Alive
  <2>4. CASE ~(q = p /\ i = j)
    BY <1>1, <1>4, <2>1, <2>4
  <2> QED BY <2>3, <2>4
<1>6. ASSUME NEW granted \in BOOLEAN, Invoke(p, j, n, granted), ~CanStart(j, p)
      PROVE  OutcomeOK(q, i)'
  BY <1>4, <1>6 DEF Invoke
<1>7. ASSUME Refused(p, j, n) PROVE OutcomeOK(q, i)'
  BY <1>4, <1>7 DEF Refused
<1>8. ASSUME NEW how \in Outcomes, Answer(p, j, n, how) PROVE OutcomeOK(q, i)'
  BY <1>1, <1>4, <1>8 DEF Answer, Report
<1> QED BY <1>5, <1>6, <1>7, <1>8

\* The queue is left alone by other jobs, and time ends nothing.
LEMMA RestOutcomes ==
  ASSUME SchedulerInv, RunInv, OutcomeInv, InvokeNext, UNCHANGED <<proc, runVars>>,
         \/ \E j \in Jobs, k \in Kinds : Submit(j, k)
         \/ TimePasses,
         NEW q \in Owners, NEW i \in Jobs
  PROVE  OutcomeOK(q, i)'
<1>1. Runs(i)
  BY DEF Submit, Enqueue, Enter, TimePasses, Tick, Runs, SchedulerInv, SafetyInv, TypeInv, TypeOK
<1>2. state[i] \in Terminal => state'[i] = state[i]
  BY RowsBelow
<1> QED BY <1>1, <1>2 DEF OutcomeInv, OutcomeOK, Runs, runVars, Alive

LEMMA PlainOutcomes ==
  ASSUME SchedulerInv, RunInv, OutcomeInv, InvokeNext, NEW p \in Owners, Plain(p),
         NEW q \in Owners, NEW i \in Jobs
  PROVE  OutcomeOK(q, i)'
<1>1. Runs(i) /\ (state[i] \in Terminal => state'[i] = state[i])
  BY RowsOfCalls, RowsBelow
<1>2. UNCHANGED runVars
  BY DEF Plain
<1>3. proc \in [Owners -> {"new", "up", "stopping", "forcing", "exited", "crashed"}]
  BY DEF SchedulerInv, SchedulerTypeOK
<1>4. Alive(q) => Alive(q)'
  BY <1>3 DEF Alive, Plain, PumpEnds, Stop, GraceEnds, ClaimNext, CancelAt, HeartbeatFires, TimeoutFires
<1> QED BY <1>1, <1>2, <1>4 DEF OutcomeInv, OutcomeOK, Runs, runVars

LEMMA OutcomeKept ==
  ASSUME AllExternal, SchedulerInv, RunInv, OutcomeInv, InvokeNext, NEW q \in Owners, NEW i \in Jobs
  PROVE  OutcomeOK(q, i)'
<1>1. /\ outcome \in [Owners -> [Jobs -> {"absent", "null"} \cup Outcomes]]
      /\ pending \in [Owners -> SUBSET Jobs]
      /\ state \in [Jobs -> States \cup {"absent"}]
  BY DEF RunInv, InvokeTypeOK, SchedulerInv, SafetyInv, TypeInv, TypeOK
<1>2. SafetyInv /\ [Next]_jobVars /\ (state[i] \in Terminal => state'[i] = state[i])
  BY RowsBelow
<1>3. OutcomeOK(q, i) /\ OneAlive
  BY DEF OutcomeInv
<1>4. ASSUME NEW p \in Owners, InvokeStartUp(p) PROVE OutcomeOK(q, i)'
  <2>1. outcome[q][i] = "absent"
    BY <1>3, <1>4 DEF InvokeStartUp, OutcomeOK
  <2> QED BY <1>4, <2>1 DEF InvokeStartUp, OutcomeOK
<1>5. ASSUME NEW p \in Owners, InvokePump(p) PROVE OutcomeOK(q, i)'
  <2>1. /\ Alive(p) /\ UNCHANGED <<proc, outcome>> /\ pending[p] = {}
        /\ pending' = [pending EXCEPT ![p] = JustEnded]
    BY <1>5 DEF InvokePump, Pump, Free, Alive
  <2>2. SUFFICES ASSUME outcome[q][i] # "absent"
                 PROVE  Alive(q) /\ (state'[i] = "running" \/ (state'[i] \in Terminal /\ i \in pending'[q]))
    BY <2>1 DEF OutcomeOK, Alive
  <2>3. Alive(q) /\ q = p
    BY <1>3, <2>1, <2>2 DEF OutcomeOK, OneAlive
  <2>4. state[i] = "running"
    BY <1>3, <2>1, <2>2, <2>3 DEF OutcomeOK
  <2>5. CASE state'[i] = "running"
    BY <2>3, <2>5
  <2>6. CASE state'[i] \in Terminal
    BY <1>1, <2>1, <2>3, <2>4, <2>6 DEF JustEnded, Terminal
  <2> QED BY <1>2, <2>4, <2>5, <2>6, ExternalEnds
<1>6. ASSUME NEW p \in Owners, Plain(p) PROVE OutcomeOK(q, i)'
  BY <1>6, PlainOutcomes
<1>7. ASSUME NEW p \in Owners, NEW j \in Jobs, ReconcileRun(p, j) PROVE OutcomeOK(q, i)'
  <2>1. /\ UNCHANGED <<proc, state>>
        /\ outcome' = [outcome EXCEPT ![p][j] = "absent"]
        /\ pending' = [pending EXCEPT ![p] = @ \ {j}]
    BY <1>7 DEF ReconcileRun, Complete, vars, jobVars, schedVars
  <2>2. CASE q = p /\ i = j
    BY <1>1, <2>1, <2>2 DEF OutcomeOK
  <2>3. CASE ~(q = p /\ i = j)
    <3>1. outcome'[q][i] = outcome[q][i] /\ (i \in pending[q] => i \in pending'[q])
      BY <1>1, <2>1, <2>3
    <3> QED BY <1>3, <2>1, <3>1 DEF OutcomeOK, Alive
  <2> QED BY <2>2, <2>3
<1>8. ASSUME NEW p \in Owners, NEW j \in Jobs, InvokeForce(p, j) PROVE OutcomeOK(q, i)'
  <2>1. Alive(p) /\ UNCHANGED <<proc, pending>> /\ Hook(p, j)
    BY <1>8 DEF InvokeForce, ForceInterrupt, Alive
  <2>2. \A h \in Jobs \ {j} : state'[h] = state[h]
    BY <1>1, <1>8 DEF InvokeForce, ForceInterrupt, Attempted, Interrupt, ResolveFailures, jobVars
  <2> QED BY <2>1, <2>2, HookOutcomes
<1>9. ASSUME NEW p \in Owners, NEW j \in Jobs, NEW n \in AttemptNumbers, InvokeConclude(p, j, n)
      PROVE  OutcomeOK(q, i)'
  <2>1. Alive(p) /\ UNCHANGED <<proc, pending>> /\ Hook(p, j)
    BY <1>9 DEF InvokeConclude, Conclude, Serving, Alive
  <2>2. Terminalize(j, p, Verdict(att[j][n]))
    BY <1>9 DEF InvokeConclude, Conclude
  <2>3. \A h \in Jobs \ {j} : state'[h] = state[h]
    BY <1>2, <2>2, EndOfRow DEF EndsRow
  <2> QED BY <2>1, <2>3, HookOutcomes
<1>10. ASSUME NEW p \in Owners, Exit(p) \/ Crash(p), Forget(p) PROVE OutcomeOK(q, i)'
  <2>1. Alive(p)
    BY <1>10 DEF Exit, Crash, Alive
  <2>2. outcome' = [outcome EXCEPT ![p] = [j \in Jobs |-> "absent"]]
    BY <1>10 DEF Forget
  <2>3. outcome'[q][i] = "absent"
    BY <1>1, <1>3, <2>1, <2>2 DEF OutcomeOK, OneAlive
  <2> QED BY <2>3 DEF OutcomeOK
<1>11. ASSUME NEW p \in Owners, InvokeStep(p) PROVE OutcomeOK(q, i)'
  BY <1>4, <1>5, <1>6, <1>7, <1>8, <1>9, <1>10, <1>11, CallOutcomes DEF InvokeStep
<1>12. CASE \/ \E j \in Jobs, k \in Kinds : Submit(j, k) /\ UNCHANGED runVars
            \/ TimePasses /\ UNCHANGED runVars
  <2>1. UNCHANGED proc
    BY <1>12 DEF Submit, TimePasses, schedVars
  <2> QED BY <1>12, <2>1, RestOutcomes
<1> QED BY <1>11, <1>12 DEF InvokeNext

LEMMA OutcomesInvariant == ASSUME AllExternal PROVE InvokeSpec => []OutcomeInv
<1>1. InvokeInit => OutcomeInv
  BY DEF InvokeInit, SchedulerInit, OutcomeInv, OneAlive, OutcomeOK, Alive
<1>2. SchedulerInv /\ RunInv /\ OutcomeInv /\ [InvokeNext]_allVars => OutcomeInv'
  <2>1. ASSUME SchedulerInv, RunInv, OutcomeInv, InvokeNext PROVE OutcomeInv'
    <3>1. OneAlive'
      BY <2>1, OneAliveKept DEF OutcomeInv
    <3>2. \A q \in Owners, i \in Jobs : OutcomeOK(q, i)'
      BY <2>1, OutcomeKept
    <3> QED BY <3>1, <3>2 DEF OutcomeInv
  <2>2. ASSUME OutcomeInv, UNCHANGED allVars PROVE OutcomeInv'
    BY <2>2 DEF OutcomeInv, OneAlive, OutcomeOK, Alive, allVars, vars, jobVars, schedVars, runVars
  <2> QED BY <2>1, <2>2
<1> QED BY <1>1, <1>2, RunInvariant, PTL DEF InvokeSpec

-----------------------------------------------------------------------------
(***************************************************************************)
(* The theorems.                                                           *)
(***************************************************************************)

\* Whatever the providers do, the processes below are schedulers on one
\* queue: every theorem about SchedulerSpec holds of InvokeSpec.
THEOREM InvokeIsScheduled == InvokeSpec => SchedulerSpec
<1>1. InvokeInit => SchedulerInit
  BY DEF InvokeInit
<1>2. [InvokeNext]_allVars => [SchedulerNext]_vars
  BY InvokeSchedules DEF allVars
<1> QED BY <1>1, <1>2, PTL DEF InvokeSpec, SchedulerSpec

\* RunAgrees, for jobs of every kind: a provider run that has ended belongs
\* to a job that has, and says of it no more than is true, whether the
\* terminal hook ended it or a reconciliation after a crash.
THEOREM RunsAgree == InvokeSpec => []RunAgrees
<1>1. RunInv => RunAgrees
  BY DEF RunInv
<1> QED BY <1>1, RunInvariant, PTL

\* NoStrayOutcome: the coordinator forgets a job that is over, in
\* whatever order the provider's answer, a cancellation, a timeout and the
\* recovery of the job come.  Provider jobs are enqueued as external
\* (provider-invoke-job.ts:60); a job put back would take its outcome along.
THEOREM NothingStrays == ASSUME AllExternal PROVE InvokeSpec => []NoStrayOutcome
<1>1. OutcomeInv => NoStrayOutcome
  BY DEF OutcomeInv, OutcomeOK, NoStrayOutcome, Terminal
<1> QED BY <1>1, OutcomesInvariant, PTL

-----------------------------------------------------------------------------
(***************************************************************************)
(* THE FETCH OF A PAGE.                                                    *)
(***************************************************************************)

Connections == [url : Urls, address : Addresses, host : Urls, answer : SUBSET Addresses]

\* A connection as it may be made.
Safe(c) ==
  /\ c.host = c.url /\ c.url \notin Forbidden
  /\ c.address \in c.answer /\ c.answer \cap Unsafe = {}

\* How many connections there have been, by where the fetch is.
Made ==
  CASE fetch.pc = "new" -> 0
    [] fetch.pc \in {"resolving", "requesting"} -> fetch.redirects
    [] fetch.pc = "reading" -> fetch.redirects + 1
    [] OTHER -> Len(trail)

FetchTyped ==
  /\ fetch \in [pc : {"new", "resolving", "requesting", "reading", "done"}, url : Urls,
                redirects : 0 .. MaxRedirects, bytes : 0 .. MaxBytes]
  /\ clock \in {"armed", "fired", "cleared"}
  /\ trail \in Seq(Connections)
  /\ text = [code |-> text.code, url |-> text.url]

FetchInv ==
  /\ FetchTyped
  /\ \A i \in 1 .. Len(trail) : Safe(trail[i])
  /\ Len(trail) = Made /\ Len(trail) <= MaxRedirects + 1
  /\ fetch.pc = "resolving" => fetch.url \notin Forbidden
  /\ fetch.pc = "requesting" =>
       /\ pinned = [address |-> pinned.address, host |-> fetch.url, answer |-> pinned.answer]
       /\ pinned.address \in pinned.answer /\ pinned.answer \in SUBSET Addresses
       /\ pinned.answer \cap Unsafe = {} /\ fetch.url \notin Forbidden
  /\ fetch.pc = "reading" => trail[Len(trail)].url = fetch.url
  /\ text.code = "ok" => fetch.pc = "done" /\ Len(trail) > 0 /\ text.url = trail[Len(trail)].url
  /\ text.code = "FETCH_TIMEOUT" => clock = "fired"
  /\ fetch.pc = "done" => clock # "armed"

-----------------------------------------------------------------------------
LEMMA FetchStart == FetchInit => FetchInv
<1> SUFFICES ASSUME FetchInit PROVE FetchInv
  OBVIOUS
<1> USE PublicFetchAssumption
<1>1. trail \in Seq(Connections) /\ Len(trail) = 0
  BY DEF FetchInit
<1>2. FetchTyped
  BY <1>1 DEF FetchInit, FetchTyped, Nothing
<1> QED BY <1>1, <1>2 DEF FetchInit, FetchInv, Made, Nothing

LEMMA ConnectIs ==
  ASSUME FetchInv, fetch.pc = "requesting", Connect
  PROVE  /\ trail' \in Seq(Connections) /\ Len(trail') = fetch.redirects + 1
         /\ \A i \in 1 .. Len(trail') : Safe(trail'[i])
         /\ trail'[Len(trail')].url = fetch.url
<1> DEFINE c == [url |-> fetch.url, address |-> pinned.address,
                 host |-> pinned.host, answer |-> pinned.answer]
<1>1. c = [url |-> fetch.url, address |-> pinned.address, host |-> fetch.url, answer |-> pinned.answer]
  BY DEF FetchInv
<1>2. c \in Connections /\ Safe(c)
  BY <1>1 DEF FetchInv, FetchTyped, Connections, Safe
<1>3. c.url = fetch.url
  BY <1>1
<1> HIDE DEF c
<1>4. trail' = Append(trail, c) /\ trail \in Seq(Connections) /\ Len(trail) = fetch.redirects
  BY DEF Connect, c, FetchInv, FetchTyped, Made
<1>5. trail' \in Seq(Connections) /\ Len(trail') = Len(trail) + 1
      /\ trail'[Len(trail) + 1] = c /\ \A i \in 1 .. Len(trail) : trail'[i] = trail[i]
  BY <1>2, <1>4
<1>6. ASSUME NEW i \in 1 .. Len(trail') PROVE Safe(trail'[i])
  BY <1>2, <1>4, <1>5 DEF FetchInv
<1> QED BY <1>3, <1>4, <1>5, <1>6

\* The connection is made: the fetch goes on to another address, reads or is over.
LEMMA ConnectKeeps ==
  ASSUME FetchInv, fetch.pc = "requesting", Connect, UNCHANGED pinned,
         \/ /\ fetch'.pc = "resolving" /\ fetch'.url \in Urls \ Forbidden
            /\ fetch' = [pc |-> "resolving", url |-> fetch'.url,
                         redirects |-> fetch.redirects + 1, bytes |-> 0]
            /\ fetch.redirects < MaxRedirects
            /\ UNCHANGED <<clock, text>>
         \/ /\ fetch' = [fetch EXCEPT !.pc = "reading"]
            /\ UNCHANGED <<clock, text>>
         \/ \E code : Refuse(code) /\ code # "ok" /\ (code = "FETCH_TIMEOUT" => clock = "fired")
  PROVE  FetchInv'
<1> USE PublicFetchAssumption
<1> DEFINE r == fetch.redirects
<1>1. r \in 0 .. MaxRedirects /\ Len(trail') = r + 1 /\ Len(trail') <= MaxRedirects + 1
  BY ConnectIs DEF FetchInv, FetchTyped
<1>2. trail' \in Seq(Connections) /\ (\A i \in 1 .. Len(trail') : Safe(trail'[i]))
      /\ trail'[Len(trail')].url = fetch.url
  BY ConnectIs
<1>3. CASE /\ fetch'.pc = "resolving" /\ fetch'.url \in Urls \ Forbidden
           /\ fetch' = [pc |-> "resolving", url |-> fetch'.url, redirects |-> r + 1, bytes |-> 0]
           /\ r < MaxRedirects
           /\ UNCHANGED <<clock, text>>
  <2>1. FetchTyped'
    BY <1>1, <1>2, <1>3 DEF FetchInv, FetchTyped
  <2> QED BY <1>1, <1>2, <1>3, <2>1 DEF FetchInv, Made
<1>4. CASE fetch' = [fetch EXCEPT !.pc = "reading"] /\ UNCHANGED <<clock, text>>
  <2>1. FetchTyped'
    BY <1>1, <1>2, <1>4 DEF FetchInv, FetchTyped
  <2> QED BY <1>1, <1>2, <1>4, <2>1 DEF FetchInv, FetchTyped, Made
<1>5. ASSUME NEW code, Refuse(code), code # "ok", code = "FETCH_TIMEOUT" => clock = "fired"
      PROVE  FetchInv'
  <2>1. FetchTyped' /\ fetch'.pc = "done" /\ text'.code = code /\ clock' # "armed"
        /\ (clock = "fired" => clock' = "fired")
    BY <1>1, <1>2, <1>5 DEF FetchInv, FetchTyped, Refuse, SettleFetch
  <2> QED BY <1>1, <1>2, <1>5, <2>1 DEF FetchInv, Made
<1> QED BY <1>3, <1>4, <1>5

\* No connection is made.
LEMMA QuietRefusal ==
  ASSUME FetchInv, NEW code, Refuse(code), code # "ok", code = "FETCH_TIMEOUT" => clock = "fired",
         UNCHANGED trail
  PROVE  FetchInv'
<1>1. FetchTyped' /\ fetch'.pc = "done" /\ text'.code = code /\ clock' # "armed"
      /\ (clock = "fired" => clock' = "fired")
  BY DEF FetchInv, FetchTyped, Refuse, SettleFetch
<1>2. Len(trail) <= MaxRedirects + 1
  BY DEF FetchInv
<1> QED BY <1>1, <1>2 DEF FetchInv, Made

LEMMA BrokenIs ==
  Broken => \E code : Refuse(code) /\ code # "ok" /\ (code = "FETCH_TIMEOUT" => clock = "fired")
BY DEF Broken

LEMMA ResolvesKeeps ==
  ASSUME FetchInv, NEW told \in LookupAnswers, Resolves(told)
  PROVE  FetchInv'
<1> USE PublicFetchAssumption
<1>1. told = <<>> \/ (told[1] \in ToSet(told) /\ ToSet(told) \in SUBSET Addresses)
  <2>1. PICK n \in 0 .. 2 : told \in [1 .. n -> Addresses]
    BY DEF LookupAnswers
  <2>2. CASE n = 0
    BY <2>1, <2>2
  <2>3. CASE n # 0
    <3>1. 1 \in DOMAIN told /\ \A i \in DOMAIN told : told[i] \in Addresses
      BY <2>1, <2>3
    <3> QED BY <3>1 DEF ToSet
  <2> QED BY <2>2, <2>3
<1>2. CASE Refuse("UNSAFE_ADDRESS")
  BY <1>2, QuietRefusal DEF Resolves
<1>3. CASE ~Refuse("UNSAFE_ADDRESS")
  <2>1. /\ told # <<>> /\ ToSet(told) \cap Unsafe = {}
        /\ fetch.pc = "resolving" /\ fetch' = [fetch EXCEPT !.pc = "requesting"]
        /\ pinned' = [address |-> told[1], host |-> fetch.url, answer |-> ToSet(told)]
        /\ UNCHANGED <<clock, text, trail>>
    BY <1>3 DEF Resolves
  <2>2. FetchTyped'
    BY <2>1 DEF FetchInv, FetchTyped
  <2> QED BY <1>1, <2>1, <2>2 DEF FetchInv, FetchTyped, Made
<1> QED BY <1>2, <1>3

LEMMA FetchBeginsKeeps == ASSUME FetchInv, FetchBegins PROVE FetchInv'
<1> USE PublicFetchAssumption
<1>1. CASE Refuse("URL_NOT_ALLOWED")
  BY <1>1, QuietRefusal DEF FetchBegins
<1>2. CASE ~Refuse("URL_NOT_ALLOWED")
  <2>1. /\ fetch.url \notin Forbidden /\ fetch.pc = "new"
        /\ fetch' = [pc |-> "resolving", url |-> fetch.url, redirects |-> 0, bytes |-> 0]
        /\ UNCHANGED <<clock, text, pinned, trail>>
    BY <1>2 DEF FetchBegins, GoTo
  <2>2. FetchTyped'
    BY <2>1 DEF FetchInv, FetchTyped
  <2> QED BY <2>1, <2>2 DEF FetchInv, Made
<1> QED BY <1>1, <1>2

LEMMA RedirectedKeeps == ASSUME FetchInv, NEW u \in Urls, Redirected(u) PROVE FetchInv'
<1>1. fetch.redirects \in 0 .. MaxRedirects /\ MaxRedirects \in Nat
  BY PublicFetchAssumption DEF FetchInv, FetchTyped
<1>2. CASE Refuse("REDIRECT_LIMIT") \/ Refuse("URL_NOT_ALLOWED")
  BY <1>2, ConnectKeeps DEF Redirected
<1>3. CASE ~(Refuse("REDIRECT_LIMIT") \/ Refuse("URL_NOT_ALLOWED"))
  <2>1. /\ fetch.redirects < MaxRedirects /\ u \notin Forbidden
        /\ fetch' = [pc |-> "resolving", url |-> u, redirects |-> fetch.redirects + 1, bytes |-> 0]
        /\ UNCHANGED <<clock, text>>
    BY <1>1, <1>3 DEF Redirected, Redirect, GoTo
  <2>2. fetch'.pc = "resolving" /\ fetch'.url = u
    BY <2>1
  <2> QED BY <2>1, <2>2, ConnectKeeps DEF Redirected
<1> QED BY <1>2, <1>3

LEMMA ChunkKeeps == ASSUME FetchInv, Chunk PROVE FetchInv'
<1>1. CASE Refuse("FETCH_TOO_LARGE")
  BY <1>1, QuietRefusal DEF Chunk
<1>2. CASE ~Refuse("FETCH_TOO_LARGE")
  <2>1. /\ fetch.pc = "reading" /\ fetch.bytes + 1 <= MaxBytes
        /\ fetch' = [fetch EXCEPT !.bytes = @ + 1] /\ UNCHANGED <<clock, text, pinned, trail>>
    BY <1>2, PublicFetchAssumption DEF Chunk, FetchInv, FetchTyped
  <2>2. FetchTyped'
    BY <2>1, PublicFetchAssumption DEF FetchInv, FetchTyped
  <2> QED BY <2>1, <2>2 DEF FetchInv, FetchTyped, Made
<1> QED BY <1>1, <1>2

LEMMA ReadKeeps == ASSUME FetchInv, Read PROVE FetchInv'
<1>1. /\ fetch.pc = "reading" /\ SettleFetch("ok", fetch.url) /\ UNCHANGED <<pinned, trail>>
  BY DEF Read
<1>2. FetchTyped' /\ fetch'.pc = "done" /\ text'.code = "ok" /\ text'.url = fetch.url /\ clock' # "armed"
  BY <1>1 DEF FetchInv, FetchTyped, SettleFetch
<1>3. Len(trail) = fetch.redirects + 1 /\ fetch.redirects >= 0 /\ fetch.redirects \in Int
  BY <1>1, PublicFetchAssumption DEF FetchInv, FetchTyped, Made
<1> QED BY <1>1, <1>2, <1>3 DEF FetchInv, Made

LEMMA FetchStep == FetchInv /\ [FetchNext]_fetchVars => FetchInv'
<1> SUFFICES ASSUME FetchInv, [FetchNext]_fetchVars PROVE FetchInv'
  OBVIOUS
<1>1. CASE FetchBegins
  BY <1>1, FetchBeginsKeeps
<1>2. CASE LookupFails
  BY <1>2, QuietRefusal DEF LookupFails
<1>3. CASE RequestFails
  BY <1>3, BrokenIs, ConnectKeeps DEF RequestFails
<1>4. CASE Responds
  BY <1>4, ConnectKeeps DEF Responds
<1>5. ASSUME NEW told \in LookupAnswers, Resolves(told) PROVE FetchInv'
  BY <1>5, ResolvesKeeps
<1>6. ASSUME NEW u \in Urls, Redirected(u) PROVE FetchInv'
  BY <1>6, RedirectedKeeps
<1>7. ASSUME NEW missing \in BOOLEAN, RedirectedNowhere(missing) PROVE FetchInv'
  BY <1>7, BrokenIs, ConnectKeeps DEF RedirectedNowhere
<1>8. ASSUME NEW code \in {"FETCH_FAILED", "CONTENT_TYPE_NOT_ALLOWED", "FETCH_TOO_LARGE"},
             Unwanted(code)
      PROVE  FetchInv'
  BY <1>8, ConnectKeeps DEF Unwanted
<1>9. CASE Chunk
  BY <1>9, ChunkKeeps
<1>10. CASE Unreadable
  BY <1>10, QuietRefusal DEF Unreadable
<1>11. CASE BodyBreaks
  BY <1>11, BrokenIs, QuietRefusal DEF BodyBreaks
<1>12. CASE Read
  BY <1>12, ReadKeeps
<1>13. CASE FetchTimeout
  BY <1>13 DEF FetchTimeout, FetchInv, FetchTyped, Made
<1>14. CASE UNCHANGED fetchVars
  BY <1>14 DEF fetchVars, FetchInv, FetchTyped, Made
<1> QED BY <1>1, <1>2, <1>3, <1>4, <1>5, <1>6, <1>7, <1>8, <1>9, <1>10, <1>11, <1>12, <1>13, <1>14
        DEF FetchNext

LEMMA FetchIsSound == FetchInv => FetchSound
<1> SUFFICES ASSUME FetchInv PROVE FetchSound
  OBVIOUS
<1>1. DOMAIN trail = 1 .. Len(trail) /\ Last(trail) = trail[Len(trail)]
  BY DEF FetchInv, FetchTyped, Last
<1> QED BY <1>1 DEF FetchInv, FetchTyped, Safe, FetchSound

\* Whatever hosts resolve to and wherever pages redirect, every connection goes to
\* an address that was accepted for that host, there are no more of them than the
\* limit allows, a text is of the page asked for last, and only a fetch whose timer
\* fired is said to have timed out.
THEOREM FetchesAreSound == FetchSpec => []FetchSound
BY FetchStart, FetchStep, FetchIsSound, PTL DEF FetchSpec

-----------------------------------------------------------------------------
LEMMA Least == ASSUME NEW S \in SUBSET Nat, S # {} PROVE \E m \in S : \A n \in S : m <= n
<1> DEFINE R == OpToRel(<, Nat)
<1>1. PICK m \in S : \A n \in S : <<n, m>> \notin R
  BY NatLessThanWellFounded, WFMin
<1>2. ASSUME NEW n \in S PROVE m <= n
  <2>1. R = {ss \in Nat \X Nat : ss[1] < ss[2]}
    BY DEF OpToRel
  <2>2. <<n, m>> \notin R /\ <<n, m>> \in Nat \X Nat
    BY <1>1
  <2> HIDE DEF R
  <2>3. ~(n < m)
    BY <2>1, <2>2
  <2> QED BY <2>3
<1> QED BY <1>2

LEMMA Shared ==
  ASSUME NEW n \in Nat \ {0}, NEW total \in Nat, n <= total
  PROVE  total \div n \in Nat \ {0} /\ n * (total \div n) <= total
<1>1. total \div n \in Int /\ total % n \in Nat /\ total = n * (total \div n) + (total % n) /\ total % n < n
  OBVIOUS
<1>2. PICK q, r : q = total \div n /\ r = total % n
  OBVIOUS
<1>3. q \in Int /\ r \in Nat /\ total = n * q + r /\ r < n
  BY <1>1, <1>2
<1>4. n * q <= total
  BY <1>3
<1>5. q > 0
  <2> SUFFICES ASSUME q <= 0 PROVE FALSE
    BY <1>3
  <2>1. n * q <= 0
    BY <1>3
  <2> QED BY <1>3, <2>1
<1> QED BY <1>2, <1>3, <1>4, <1>5
-----------------------------------------------------------------------------
(***************************************************************************)
(* How long the texts of a prompt are together.                            *)
(***************************************************************************)

\* A list of texts, of which none is longer than q.
Limited(texts, q) ==
  /\ texts = [i \in 1 .. Len(texts) |-> texts[i]] /\ Len(texts) \in Nat
  /\ \A i \in 1 .. Len(texts) : texts[i].size \in Nat /\ texts[i].size <= q

\* f counts the first n of them.
Counts(f, texts, n) ==
  f = [i \in 0 .. n |-> IF i = 0 THEN 0 ELSE f[i - 1] + texts[i].size]

LEMMA CountsExist ==
  ASSUME NEW texts, NEW q \in Nat, Limited(texts, q), NEW n \in 0 .. Len(texts)
  PROVE  \E f : Counts(f, texts, n)
<1> DEFINE S == {k \in 0 .. Len(texts) : ~\E f : Counts(f, texts, k)}
<1>1. SUFFICES ASSUME S # {} PROVE FALSE
  OBVIOUS
<1>2. S \in SUBSET Nat
  OBVIOUS
<1> HIDE DEF S
<1>3. PICK m \in S : \A k \in S : m <= k
  BY <1>1, <1>2, Least
<1>4. m \in 0 .. Len(texts) /\ ~(\E f : Counts(f, texts, m)) /\ Len(texts) \in Nat
  BY DEF S, Limited
<1>5. CASE m = 0
  <2>1. PICK e : e = [i \in 0 .. 0 |-> 0]
    OBVIOUS
  <2>2. Counts(e, texts, 0)
    BY <2>1 DEF Counts
  <2> QED BY <1>4, <1>5, <2>2
<1>6. CASE m # 0
  <2>1. m - 1 \in 0 .. Len(texts) /\ m - 1 \notin S /\ m \in Nat /\ m > 0
    BY <1>3, <1>4, <1>6
  <2>2. PICK f : Counts(f, texts, m - 1)
    BY <2>1 DEF S
  <2>3. PICK x : x = f[m - 1] + texts[m].size
    OBVIOUS
  <2>4. PICK h : h = [i \in 0 .. m |-> IF i = m THEN x ELSE f[i]]
    OBVIOUS
  <2>5. \A i \in 0 .. m - 1 : f[i] = IF i = 0 THEN 0 ELSE f[i - 1] + texts[i].size
    BY <2>2 DEF Counts
  <2>6. h = [i \in 0 .. m |-> h[i]] /\ h[m] = x /\ \A i \in 0 .. m - 1 : h[i] = f[i]
    BY <2>1, <2>4
  <2>7. ASSUME NEW i \in 0 .. m PROVE h[i] = IF i = 0 THEN 0 ELSE h[i - 1] + texts[i].size
    <3>1. CASE i = m
      <4>1. m - 1 \in 0 .. m - 1 /\ h[m - 1] = f[m - 1]
        BY <2>1, <2>6
      <4> QED BY <2>1, <2>3, <2>6, <3>1, <4>1
    <3>2. CASE i # m /\ i # 0
      <4>1. i \in 0 .. m - 1 /\ i - 1 \in 0 .. m - 1
        BY <2>1, <3>2
      <4> QED BY <2>5, <2>6, <3>2, <4>1
    <3>3. CASE i = 0
      <4>1. i \in 0 .. m - 1
        BY <2>1, <3>3
      <4> QED BY <2>5, <2>6, <3>3, <4>1
    <3> QED BY <3>1, <3>2, <3>3
  <2>8. Counts(h, texts, m)
    BY <2>6, <2>7 DEF Counts
  <2> QED BY <1>4, <2>8
<1> QED BY <1>5, <1>6

LEMMA CountsBound ==
  ASSUME NEW texts, NEW q \in Nat, Limited(texts, q), NEW f, Counts(f, texts, Len(texts))
  PROVE  \A n \in 0 .. Len(texts) : f[n] \in Nat /\ f[n] <= n * q
<1> DEFINE S == {k \in 0 .. Len(texts) : ~(f[k] \in Nat /\ f[k] <= k * q)}
<1>1. SUFFICES ASSUME S # {} PROVE FALSE
  OBVIOUS
<1>2. S \in SUBSET Nat
  OBVIOUS
<1> HIDE DEF S
<1>3. PICK m \in S : \A k \in S : m <= k
  BY <1>1, <1>2, Least
<1>4. m \in 0 .. Len(texts) /\ ~(f[m] \in Nat /\ f[m] <= m * q) /\ Len(texts) \in Nat
  BY DEF S, Limited
<1>5. f[m] = IF m = 0 THEN 0 ELSE f[m - 1] + texts[m].size
  BY <1>4 DEF Counts
<1>6. m # 0
  <2> SUFFICES ASSUME m = 0 PROVE f[m] \in Nat /\ f[m] <= m * q
    BY <1>4
  <2> QED BY <1>5
<1>7. m - 1 \in 0 .. Len(texts) /\ m - 1 \notin S /\ m \in 1 .. Len(texts)
  BY <1>3, <1>4, <1>6
<1>8. f[m - 1] \in Nat /\ f[m - 1] <= (m - 1) * q
  BY <1>7 DEF S
<1>9. texts[m].size \in Nat /\ texts[m].size <= q
  BY <1>7 DEF Limited
<1>10. (m - 1) * q + q = m * q /\ m * q \in Nat /\ (m - 1) * q \in Nat
  <2>1. m \in Nat /\ m - 1 \in Nat
    BY <1>4, <1>7
  <2> QED BY <2>1
<1> QED BY <1>4, <1>5, <1>6, <1>8, <1>9, <1>10

LEMMA TogetherBound ==
  ASSUME NEW texts, NEW q \in Nat, Limited(texts, q) PROVE Together(texts) \in Nat /\ Together(texts) <= Len(texts) * q
<1> DEFINE Is(f) == f = [n \in 0 .. Len(texts) |-> IF n = 0 THEN 0 ELSE f[n - 1] + texts[n].size]
           upTo == CHOOSE f : Is(f)
<1>1. Together(texts) = upTo[Len(texts)]
  BY DEF Together
<1>2. Len(texts) \in Nat
  BY DEF Limited
<1>3. \E f : Is(f)
  <2>1. PICK f : Counts(f, texts, Len(texts))
    BY <1>2, CountsExist
  <2>2. Is(f)
    BY <2>1 DEF Counts
  <2> QED BY <2>2
<1>4. Is(upTo)
  BY <1>3
<1>5. Counts(upTo, texts, Len(texts))
  BY <1>4 DEF Counts
<1> HIDE DEF upTo
<1>6. Len(texts) \in 0 .. Len(texts)
  BY <1>2
<1> QED BY <1>1, <1>5, <1>6, CountsBound

-----------------------------------------------------------------------------
(***************************************************************************)
(* What becomes of the inputs of a request.                                *)
(***************************************************************************)

\* A list of inputs, as many as a request may have.
Asked(inputs) == inputs \in Seq(Refs) /\ Len(inputs) \in 1 .. MaxInputs

LEMMA InputsAsked == ASSUME NEW request \in Requests PROVE Asked(request.inputs)
BY PromptSourcesAssumption DEF Requests, Asked

LEMMA AskedIs ==
  ASSUME NEW inputs, Asked(inputs)
  PROVE  /\ inputs = [i \in 1 .. Len(inputs) |-> inputs[i]] /\ DOMAIN inputs = 1 .. Len(inputs)
         /\ Len(inputs) \in Nat \ {0} /\ Len(inputs) <= MaxInputs
         /\ \A i \in 1 .. Len(inputs) : inputs[i] \in Refs
         /\ ToSet(inputs) = {inputs[i] : i \in 1 .. Len(inputs)}
<1>1. /\ inputs \in [1 .. Len(inputs) -> Refs] /\ Len(inputs) \in Nat \ {0} /\ Len(inputs) <= MaxInputs
  BY PromptSourcesAssumption DEF Asked
<1> QED BY <1>1 DEF ToSet

LEMMA ContentIs ==
  ASSUME NEW r \in Refs, textSize \in [Parents -> Nat]
  PROVE  LET c == Content(r) IN
         /\ c = [ref |-> r, size |-> c.size] /\ c.size \in Nat
         /\ textSize[r.of] > 0 => c.size > 0
<1>1. r.of \in Parents
  BY DEF Refs
<1>2. textSize[r.of] \in Nat /\ MaxSource \in Nat \ {0}
  BY <1>1, PromptSourcesAssumption
<1> QED BY <1>2 DEF Content

\* Each input has a text of its own, within its share of the total.
LEMMA ResolvedIs ==
  ASSUME textSize \in [Parents -> Nat], NEW inputs, Asked(inputs), NEW total \in Nat, MaxInputs <= total,
         NEW texts, texts = ResolveAll(inputs, total)
  PROVE  /\ Limited(texts, total \div Len(inputs)) /\ Len(texts) = Len(inputs)
         /\ \A i \in 1 .. Len(inputs) : texts[i].ref = inputs[i]
         /\ \A i \in 1 .. Len(inputs) : textSize[inputs[i].of] > 0 => texts[i].size > 0
<1>1. PICK n : n = Len(inputs)
  OBVIOUS
<1>2. /\ n \in Nat \ {0} /\ n <= total /\ DOMAIN inputs = 1 .. n /\ \A i \in 1 .. n : inputs[i] \in Refs
  BY <1>1, AskedIs, PromptSourcesAssumption DEF Asked
<1>3. PICK q, per : q = total \div n /\ per = PerSource(n, total)
  OBVIOUS
<1>4. q \in Nat \ {0} /\ per \in Nat \ {0} /\ per <= q
  <2>1. q \in Nat \ {0}
    BY <1>2, <1>3, Shared
  <2> QED BY <1>3, <2>1, PromptSourcesAssumption DEF PerSource
<1>5. texts = [i \in 1 .. n |-> [Content(inputs[i]) EXCEPT !.size = IF @ > per THEN per ELSE @]]
  BY <1>1, <1>2, <1>3 DEF ResolveAll
<1>6. ASSUME NEW i \in 1 .. n
      PROVE  /\ texts[i].ref = inputs[i] /\ texts[i].size \in Nat /\ texts[i].size <= q
             /\ textSize[inputs[i].of] > 0 => texts[i].size > 0
  <2>1. PICK c : c = Content(inputs[i])
    OBVIOUS
  <2>2. /\ c = [ref |-> inputs[i], size |-> c.size] /\ c.size \in Nat
        /\ textSize[inputs[i].of] > 0 => c.size > 0
    BY <1>2, <1>6, <2>1, ContentIs
  <2>3. texts[i] = [c EXCEPT !.size = IF c.size > per THEN per ELSE c.size]
    BY <1>5, <2>1
  <2>4. texts[i].ref = inputs[i] /\ texts[i].size = IF c.size > per THEN per ELSE c.size
    BY <2>2, <2>3
  <2> QED BY <1>4, <2>2, <2>4
<1>7. texts = [i \in 1 .. n |-> texts[i]] /\ Len(texts) = n
  BY <1>2, <1>5
<1> QED BY <1>1, <1>2, <1>3, <1>6, <1>7 DEF Limited

LEMMA ResolvedFits ==
  ASSUME textSize \in [Parents -> Nat], NEW inputs, Asked(inputs), NEW total \in Nat, MaxInputs <= total,
         NEW texts, texts = ResolveAll(inputs, total)
  PROVE  Together(texts) <= total
<1>1. PICK n, q : n = Len(inputs) /\ q = total \div n
  OBVIOUS
<1>2. n \in Nat \ {0} /\ n <= total
  BY <1>1, AskedIs, PromptSourcesAssumption DEF Asked
<1>3. q \in Nat \ {0} /\ n * q <= total
  BY <1>1, <1>2, Shared
<1>4. Limited(texts, q) /\ Len(texts) = n
  BY <1>1, ResolvedIs
<1>5. Together(texts) \in Nat /\ Together(texts) <= n * q
  BY <1>3, <1>4, TogetherBound
<1>6. PICK m : m = n * q
  OBVIOUS
<1>7. m \in Nat
  BY <1>2, <1>3, <1>6
<1>8. Together(texts) \in Nat /\ Together(texts) <= m /\ m <= total
  BY <1>3, <1>5, <1>6
<1> QED BY <1>5, <1>7, <1>8

-----------------------------------------------------------------------------
(***************************************************************************)
(* What is kept was sent, and was shown.                                   *)
(***************************************************************************)

TurnTyped(t) ==
  t = [stage |-> t.stage, request |-> t.request, own |-> t.own, sent |-> t.sent, cited |-> t.cited]

ParentsTyped(parents) ==
  /\ parents = [k \in Parents |-> parents[k]]
  /\ \A k \in Parents : /\ parents[k] = [state |-> parents[k].state, newest |-> parents[k].newest]
                        /\ parents[k].newest \in Nat

\* What was sent: the texts of the request that came with the confirmation.
SentOK(t, shown) ==
  /\ t.request \in Requests
  /\ t.sent = shown /\ Texts(t.sent) = ResolveAll(t.request.inputs, Total(t.request.purpose))
  /\ \A i \in 1 .. Len(t.request.inputs) : textSize[t.request.inputs[i].of] > 0

\* What is kept of an input: of a version that is no longer its parent's newest,
\* or whose parent is gone, exactly if it has moved since.
KeptOK(i, parents, gone) ==
  /\ i = <<i[1], i[2]>> /\ i[1] \in Refs
  /\ i[1].of = "research" =>
       i[2] = 0 /\ "research" \notin gone /\ parents["research"].state = "available"
       /\ i[1].version <= parents["research"].newest
  /\ i[1].of # "research" =>
       /\ i[2] \in Nat /\ i[1].version <= i[2] /\ i[2] <= parents[i[1].of].newest
       /\ i[1].of \in gone => i[2] < parents[i[1].of].newest \/ parents[i[1].of].state = "deleted"
       /\ i[1].of \notin gone =>
            i[2] = parents[i[1].of].newest /\ parents[i[1].of].state \in {"active", "archived"}

PromptInv ==
  /\ textSize \in [Parents -> Nat] /\ ParentsTyped(parent) /\ TurnTyped(turn)
  /\ turn.stage \in {"sent", "answered", "recorded"} => SentOK(turn, consent.prompt)
  /\ turn.stage = "answered" => turn.cited \subseteq ToSet(turn.request.inputs)
  /\ turn.stage = "recorded" =>
       /\ {i[1] : i \in recorded.inputs} = ToSet(turn.request.inputs)
       /\ recorded.cited \subseteq ToSet(turn.request.inputs)
  /\ recorded.by = "draft" =>
       turn.stage = "recorded" /\ \A i \in recorded.inputs : KeptOK(i, parent, moved)

LEMMA TotalIs == ASSUME NEW aim PROVE Total(aim) \in Nat /\ MaxInputs <= Total(aim)
BY PromptSourcesAssumption DEF Total

LEMMA PromptStart == PromptInit => PromptInv
<1> SUFFICES ASSUME PromptInit PROVE PromptInv
  OBVIOUS
<1>1. textSize \in [Parents -> Nat]
  BY PromptSourcesAssumption DEF PromptInit
<1>2. ParentsTyped(parent)
  <2>1. PICK available : parent = [k \in Parents |->
          [state |-> IF k = "research" THEN available ELSE "active", newest |-> 1]]
    BY DEF PromptInit
  <2> QED BY <2>1 DEF ParentsTyped
<1>3. TurnTyped(turn) /\ turn.stage = "new"
  BY DEF PromptInit, NoTurn, TurnTyped
<1>4. recorded.by = "nobody"
  BY DEF PromptInit
<1> QED BY <1>1, <1>2, <1>3, <1>4 DEF PromptInv

\* The stage alone changes.
LEMMA StageIs ==
  ASSUME TurnTyped(turn), NEW to, turn' = [turn EXCEPT !.stage = to]
  PROVE  /\ TurnTyped(turn') /\ turn'.stage = to /\ turn'.request = turn.request
         /\ turn'.own = turn.own /\ turn'.sent = turn.sent /\ turn'.cited = turn.cited
<1>1. PICK t : t = turn
  OBVIOUS
<1>2. turn' = [t EXCEPT !.stage = to] /\ TurnTyped(t)
  BY <1>1
<1> QED BY <1>1, <1>2 DEF TurnTyped

\* A step that neither sends nor records anything.
LEMMA PromptQuiet ==
  ASSUME PromptInv, UNCHANGED <<textSize, parent, recorded, moved>>, TurnTyped(turn'),
         recorded.by # "draft",
         turn'.stage \notin {"sent", "answered", "recorded"}
  PROVE  PromptInv'
BY DEF PromptInv

LEMMA ShowPromptKeeps == ASSUME PromptInv, NEW request \in Requests, ShowPrompt(request) PROVE PromptInv'
<1>1. turn.stage = "new" /\ \E to \in {"shown", "refused"} : turn' = [turn EXCEPT !.stage = to]
  BY DEF ShowPrompt, TurnStage
<1>2. UNCHANGED <<textSize, parent, recorded, moved>>
  BY DEF ShowPrompt
<1>3. TurnTyped(turn') /\ turn'.stage \in {"shown", "refused"}
  BY <1>1, StageIs DEF PromptInv
<1> QED BY <1>1, <1>2, <1>3, PromptQuiet DEF PromptInv

LEMMA ConfirmPromptKeeps == ASSUME PromptInv, ConfirmPrompt PROVE PromptInv'
<1>1. turn.stage = "shown" /\ \E to \in {"confirmed", "refused"} : turn' = [turn EXCEPT !.stage = to]
  BY DEF ConfirmPrompt, TurnStage
<1>2. UNCHANGED <<textSize, parent, recorded, moved>>
  BY DEF ConfirmPrompt
<1>3. TurnTyped(turn') /\ turn'.stage \in {"confirmed", "refused"}
  BY <1>1, StageIs DEF PromptInv
<1> QED BY <1>1, <1>2, <1>3, PromptQuiet DEF PromptInv

LEMMA SendPromptKeeps ==
  ASSUME PromptInv, NEW request \in Requests, NEW own, SendPrompt(request, own) PROVE PromptInv'
<1>1. turn.stage = "confirmed" /\ UNCHANGED <<textSize, parent, consent, recorded, moved>>
  BY DEF SendPrompt
<1>2. CASE turn' = [turn EXCEPT !.stage = "refused"]
  <2>1. TurnTyped(turn') /\ turn'.stage = "refused"
    BY <1>2, StageIs DEF PromptInv
  <2> QED BY <1>1, <2>1, PromptQuiet DEF PromptInv
<1>3. CASE /\ turn' = [turn EXCEPT !.stage = "sent", !.request = request, !.own = own, !.sent = Prompt(request)]
           /\ Preparable(request) /\ Consumable(request)
  <2>1. PICK t, words : t = turn /\ words = Prompt(request)
    OBVIOUS
  <2>2. TurnTyped(t) /\ turn' = [t EXCEPT !.stage = "sent", !.request = request, !.own = own, !.sent = words]
    BY <1>3, <2>1 DEF PromptInv
  <2>3. TurnTyped(turn') /\ turn'.stage = "sent" /\ turn'.request = request /\ turn'.sent = words
    BY <2>2 DEF TurnTyped
  <2>4. words = consent.prompt
    BY <1>3, <2>1 DEF Consumable, SameRequest
  <2>5. Texts(words) = ResolveAll(request.inputs, Total(request.purpose))
    <3>1. CASE request.purpose = "chat"
      BY <2>1, <3>1 DEF Prompt, ChatMessages, Texts, Total
    <3>2. CASE request.purpose # "chat"
      BY <2>1, <3>2 DEF Prompt, WorkflowMessages, Texts
    <3> QED BY <3>1, <3>2
  <2>6. \A i \in 1 .. Len(request.inputs) : textSize[request.inputs[i].of] > 0
    <3>1. Asked(request.inputs)
      BY InputsAsked
    <3>2. DOMAIN request.inputs = 1 .. Len(request.inputs)
      BY <3>1, AskedIs
    <3> QED BY <1>3, <3>2 DEF Preparable, HasText
  <2>7. SentOK(turn, consent.prompt)'
    BY <1>1, <2>3, <2>4, <2>5, <2>6 DEF SentOK, ResolveAll, Content
  <2> QED BY <1>1, <2>3, <2>7 DEF PromptInv
<1> QED BY <1>2, <1>3 DEF SendPrompt, TurnStage

LEMMA SentStays ==
  ASSUME SentOK(turn, consent.prompt), UNCHANGED <<textSize, consent>>,
         turn'.request = turn.request, turn'.sent = turn.sent
  PROVE  SentOK(turn, consent.prompt)'
BY DEF SentOK, ResolveAll, Content

\* The answer's citations, and the stage.
LEMMA ReplyIs ==
  ASSUME TurnTyped(turn), NEW to, NEW kept, turn' = [turn EXCEPT !.cited = kept, !.stage = to]
  PROVE  /\ TurnTyped(turn') /\ turn'.stage = to /\ turn'.request = turn.request
         /\ turn'.sent = turn.sent /\ turn'.cited = kept
<1>1. PICK t : t = turn
  OBVIOUS
<1>2. turn' = [t EXCEPT !.cited = kept, !.stage = to] /\ TurnTyped(t)
  BY <1>1
<1> QED BY <1>1, <1>2 DEF TurnTyped

LEMMA ReplyKeeps == ASSUME PromptInv, NEW cited, ReplyTo(cited) PROVE PromptInv'
<1>1. turn.stage = "sent" /\ UNCHANGED <<textSize, parent, consent, recorded, moved>>
  BY DEF ReplyTo
<1>2. PICK t, inputs : t = turn /\ inputs = turn.request.inputs
  OBVIOUS
<1>3. PICK to, kept : /\ turn' = [t EXCEPT !.cited = kept, !.stage = to]
                      /\ to \in {"refused", "answered"}
                      /\ to = "answered" => kept \subseteq ToSet(inputs)
  <2>1. CASE turn.request.purpose = "chat"
    <3>1. turn' = [t EXCEPT !.cited = cited, !.stage = IF CitesUnknown(cited, inputs) THEN "refused" ELSE "answered"]
      BY <1>2, <2>1 DEF ReplyTo
    <3>2. ~CitesUnknown(cited, inputs) => cited \subseteq ToSet(inputs)
      BY DEF CitesUnknown
    <3>3. PICK to : to = IF CitesUnknown(cited, inputs) THEN "refused" ELSE "answered"
      OBVIOUS
    <3>4. turn' = [t EXCEPT !.cited = cited, !.stage = to]
      BY <3>1, <3>3
    <3>5. to \in {"refused", "answered"} /\ (to = "answered" => cited \subseteq ToSet(inputs))
      BY <3>2, <3>3
    <3> QED BY <3>4, <3>5
  <2>2. CASE turn.request.purpose # "chat"
    <3>1. turn' = [t EXCEPT !.stage = "answered", !.cited = Sanitized(cited, inputs)]
      BY <1>2, <2>2 DEF ReplyTo
    <3>2. Sanitized(cited, inputs) \subseteq ToSet(inputs)
      BY DEF Sanitized
    <3>3. PICK kept : kept = Sanitized(cited, inputs)
      OBVIOUS
    <3>4. turn' = [t EXCEPT !.cited = kept, !.stage = "answered"]
      <4>1. TurnTyped(t)
        BY <1>2 DEF PromptInv
      <4> QED BY <3>1, <3>3, <4>1 DEF TurnTyped
    <3> QED BY <3>2, <3>3, <3>4
  <2> QED BY <2>1, <2>2
<1>4. TurnTyped(turn) /\ turn' = [turn EXCEPT !.cited = kept, !.stage = to]
  BY <1>2, <1>3 DEF PromptInv
<1>5. /\ TurnTyped(turn') /\ turn'.stage = to /\ turn'.request = turn.request
      /\ turn'.sent = turn.sent /\ turn'.cited = kept
  BY <1>4, ReplyIs
<1>6. CASE to = "refused"
  BY <1>1, <1>5, <1>6, PromptQuiet DEF PromptInv
<1>7. CASE to = "answered"
  <2>1. SentOK(turn, consent.prompt)'
    BY <1>1, <1>2, <1>5, SentStays DEF PromptInv
  <2>2. turn'.cited = kept /\ turn'.request.inputs = inputs /\ kept \subseteq ToSet(inputs)
    BY <1>2, <1>3, <1>5, <1>7
  <2>3. turn'.cited \subseteq ToSet(turn'.request.inputs)
    BY <2>2
  <2> QED BY <1>1, <1>5, <1>7, <2>1, <2>3 DEF PromptInv
<1> QED BY <1>3, <1>6, <1>7

\* What is kept of an input that is available.
LEMMA KeepsInput ==
  ASSUME ParentsTyped(parent), NEW r \in Refs, Available(r), NEW own \in BOOLEAN,
         NEW after, after = IF own THEN [parent EXCEPT !["draft"].newest = @ + 1] ELSE parent
  PROVE  KeptOK(<<r, CurrentOf(r)>>, after, IF own THEN {"draft"} ELSE {})
<1>1. PICK k, p, a : k = r.of /\ p = parent[k] /\ a = after[k]
  OBVIOUS
<1>2. k \in Parents /\ r.version \in Nat /\ (k = "research" => r.version = 1)
  BY <1>1, PromptSourcesAssumption DEF Refs
<1>3. /\ p = [state |-> p.state, newest |-> p.newest] /\ p.newest \in Nat /\ DOMAIN parent = Parents
  BY <1>1, <1>2 DEF ParentsTyped
<1>4. a = IF own /\ k = "draft" THEN [p EXCEPT !.newest = @ + 1] ELSE p
  BY <1>1, <1>2, <1>3
<1>5. /\ a.state = p.state /\ (own /\ k = "draft" => a.newest = p.newest + 1)
      /\ (~(own /\ k = "draft") => a.newest = p.newest)
  BY <1>3, <1>4
<1>6. PICK c : c = CurrentOf(r)
  OBVIOUS
<1>7. (k = "research" => c = 0) /\ (k # "research" => c = p.newest)
  BY <1>1, <1>6 DEF CurrentOf
<1>8. r.version <= p.newest /\ p.state \in IF k = "research" THEN {"available"} ELSE {"active", "archived"}
  BY <1>1 DEF Available
<1>9. PICK i : i = <<r, c>>
  OBVIOUS
<1>10. i[1] = r /\ i[2] = c /\ i = <<i[1], i[2]>> /\ i[1].of = k
  BY <1>1, <1>9
<1>11. PICK gone : gone = IF own THEN {"draft"} ELSE {}
  OBVIOUS
<1>12. (k \in gone) = (own /\ k = "draft")
  BY <1>11
<1>13. CASE k = "research"
  <2>1. i[2] = 0 /\ "research" \notin gone /\ after["research"].state = "available" /\ i[1].version <= after["research"].newest
    BY <1>1, <1>5, <1>7, <1>8, <1>10, <1>12, <1>13
  <2> QED BY <1>6, <1>9, <1>10, <1>11, <1>13, <2>1 DEF KeptOK
<1>14. CASE k # "research"
  <2>1. i[2] \in Nat /\ i[1].version <= i[2] /\ i[2] <= after[i[1].of].newest
    BY <1>1, <1>3, <1>5, <1>7, <1>8, <1>10, <1>14
  <2>2. i[1].of \in gone => i[2] < after[i[1].of].newest
    BY <1>1, <1>3, <1>5, <1>7, <1>10, <1>12, <1>14
  <2>3. i[1].of \notin gone => i[2] = after[i[1].of].newest /\ after[i[1].of].state \in {"active", "archived"}
    BY <1>1, <1>5, <1>7, <1>8, <1>10, <1>12, <1>14
  <2> QED BY <1>6, <1>9, <1>10, <1>11, <1>14, <2>1, <2>2, <2>3 DEF KeptOK
<1> QED BY <1>13, <1>14

LEMMA ParentsStay ==
  ASSUME ParentsTyped(parent), NEW own \in BOOLEAN,
         NEW after, after = IF own THEN [parent EXCEPT !["draft"].newest = @ + 1] ELSE parent
  PROVE  ParentsTyped(after)
<1>1. CASE ~own
  BY <1>1
<1>2. CASE own
  <2>1. PICK p, d : p = parent /\ d = p["draft"]
    OBVIOUS
  <2>2. /\ "draft" \in Parents /\ ParentsTyped(p) /\ d = [state |-> d.state, newest |-> d.newest] /\ d.newest \in Nat
    BY <2>1 DEF ParentsTyped, Parents
  <2>3. after = [p EXCEPT !["draft"] = [d EXCEPT !.newest = d.newest + 1]]
    BY <1>2, <2>1
  <2>4. PICK e : e = [d EXCEPT !.newest = d.newest + 1]
    OBVIOUS
  <2>5. e = [state |-> e.state, newest |-> e.newest] /\ e.newest \in Nat
    BY <2>2, <2>4
  <2>6. after = [k \in Parents |-> IF k = "draft" THEN e ELSE p[k]]
    BY <2>2, <2>3, <2>4 DEF ParentsTyped
  <2> QED BY <2>2, <2>5, <2>6 DEF ParentsTyped
<1> QED BY <1>1, <1>2

LEMMA RecordDraftKeeps == ASSUME PromptInv, RecordDraft PROVE PromptInv'
<1>1. PICK inputs : inputs = turn.request.inputs
  OBVIOUS
<1>2. turn.stage = "answered" /\ UNCHANGED <<textSize, consent>>
  BY DEF RecordDraft
<1>3. SentOK(turn, consent.prompt) /\ turn.cited \subseteq ToSet(inputs) /\ Asked(inputs)
  BY <1>1, <1>2, InputsAsked DEF PromptInv, SentOK
<1>4. CASE TurnStage("refused") /\ UNCHANGED <<parent, recorded, moved>>
  <2>1. TurnTyped(turn') /\ turn'.stage = "refused"
    BY <1>4, StageIs DEF PromptInv, TurnStage
  <2> QED BY <1>2, <1>4, <2>1, PromptQuiet DEF PromptInv
<1>5. CASE /\ AllAvailable(inputs) /\ TurnStage("recorded")
           /\ recorded' = [by |-> "draft", inputs |-> ToSet(Manifest(inputs)), cited |-> turn.cited]
           /\ moved' = IF turn.own THEN {"draft"} ELSE {}
           /\ parent' = IF turn.own THEN [parent EXCEPT !["draft"].newest = @ + 1] ELSE parent
  <2>1. /\ TurnTyped(turn') /\ turn'.stage = "recorded" /\ turn'.request = turn.request /\ turn'.sent = turn.sent
    BY <1>5, StageIs DEF PromptInv, TurnStage
  <2>2. SentOK(turn, consent.prompt)'
    BY <1>2, <1>3, <2>1, SentStays
  <2>3. PICK own \in BOOLEAN : own = (turn.own = TRUE)
    OBVIOUS
  <2>4. PICK kept : kept = ToSet(Manifest(inputs))
    OBVIOUS
  <2>5. recorded'.by = "draft" /\ recorded'.inputs = kept /\ recorded'.cited = turn.cited
    BY <1>5, <2>4
  <2>6. DOMAIN inputs = 1 .. Len(inputs) /\ (\A n \in 1 .. Len(inputs) : inputs[n] \in Refs)
        /\ ToSet(inputs) = {inputs[n] : n \in 1 .. Len(inputs)}
    BY <1>3, AskedIs
  <2>7. kept = {<<inputs[n], CurrentOf(inputs[n])>> : n \in 1 .. Len(inputs)}
    BY <2>4, <2>6 DEF Manifest, ToSet
  <2>8. {i[1] : i \in kept} = ToSet(inputs)
    <3>1. \A i \in kept : i[1] \in ToSet(inputs)
      BY <2>6, <2>7
    <3>2. ASSUME NEW r \in ToSet(inputs) PROVE \E i \in kept : i[1] = r
      <4>1. PICK n \in 1 .. Len(inputs) : r = inputs[n]
        BY <2>6
      <4>2. <<r, CurrentOf(r)>> \in kept /\ <<r, CurrentOf(r)>>[1] = r
        BY <2>7, <4>1
      <4> QED BY <4>2
    <3> QED BY <3>1, <3>2
  <2>9. ASSUME NEW i \in kept PROVE KeptOK(i, parent', moved')
    <3>1. PICK n \in 1 .. Len(inputs) : i = <<inputs[n], CurrentOf(inputs[n])>>
      BY <2>7
    <3>2. PICK r : r = inputs[n]
      OBVIOUS
    <3>3. r \in Refs /\ Available(r)
      BY <1>5, <2>6, <3>2 DEF AllAvailable
    <3>4. KeptOK(<<r, CurrentOf(r)>>, parent', moved')
      BY <1>5, <3>3, KeepsInput DEF PromptInv
    <3> QED BY <3>1, <3>2, <3>4
  <2>10. ParentsTyped(parent')
    BY <1>5, ParentsStay DEF PromptInv
  <2>11. textSize' \in [Parents -> Nat]
    BY <1>2 DEF PromptInv
  <2> QED BY <1>1, <1>3, <2>1, <2>2, <2>5, <2>8, <2>9, <2>10, <2>11 DEF PromptInv
<1> QED BY <1>1, <1>4, <1>5 DEF RecordDraft

LEMMA RecordTurnKeeps == ASSUME PromptInv, RecordTurn PROVE PromptInv'
<1>1. PICK inputs : inputs = turn.request.inputs
  OBVIOUS
<1>2. turn.stage = "answered" /\ UNCHANGED <<textSize, parent, consent, moved>> /\ TurnStage("recorded")
  BY DEF RecordTurn
<1>3. SentOK(turn, consent.prompt) /\ turn.cited \subseteq ToSet(inputs)
  BY <1>1, <1>2 DEF PromptInv
<1>4. /\ TurnTyped(turn') /\ turn'.stage = "recorded" /\ turn'.request = turn.request /\ turn'.sent = turn.sent
  BY <1>2, StageIs DEF PromptInv, TurnStage
<1>5. SentOK(turn, consent.prompt)'
  BY <1>2, <1>3, <1>4, SentStays
<1>6. PICK kept : kept = {<<r, 0>> : r \in ToSet(inputs)}
  OBVIOUS
<1>7. recorded'.by = "chat" /\ recorded'.inputs = kept /\ recorded'.cited = turn.cited
  BY <1>1, <1>6 DEF RecordTurn
<1>8. {i[1] : i \in kept} = ToSet(inputs)
  <2>1. \A i \in kept : i[1] \in ToSet(inputs)
    BY <1>6
  <2>2. ASSUME NEW r \in ToSet(inputs) PROVE \E i \in kept : i[1] = r
    <3>1. <<r, 0>> \in kept /\ <<r, 0>>[1] = r
      BY <1>6
    <3> QED BY <3>1
  <2> QED BY <2>1, <2>2
<1> QED BY <1>1, <1>2, <1>3, <1>4, <1>5, <1>7, <1>8 DEF PromptInv

\* One parent moves while nothing else does.
LEMMA ParentMoves ==
  ASSUME PromptInv, NEW k \in Parents, NEW p, parent' = [parent EXCEPT ![k] = p],
         p = [state |-> p.state, newest |-> p.newest], p.newest \in Nat, parent[k].newest <= p.newest,
         UNCHANGED <<textSize, consent, turn, recorded>>,
         recorded.by = "draft" => \A i \in recorded.inputs : KeptOK(i, parent', moved')
  PROVE  PromptInv'
<1>1. ParentsTyped(parent')
  <2>1. PICK q : q = parent
    OBVIOUS
  <2>2. parent' = [j \in Parents |-> IF j = k THEN p ELSE q[j]]
    BY <2>1 DEF PromptInv, ParentsTyped
  <2>3. ParentsTyped(q)
    BY <2>1 DEF PromptInv
  <2> QED BY <2>2, <2>3 DEF ParentsTyped
<1>2. turn'.stage \in {"sent", "answered", "recorded"} => SentOK(turn, consent.prompt)'
  BY SentStays DEF PromptInv
<1> QED BY <1>1, <1>2 DEF PromptInv

\* It goes, or gets a version.
LEMMA KeptWhenGone ==
  ASSUME NEW parents, ParentsTyped(parents), NEW gone, NEW i, KeptOK(i, parents, gone),
         NEW k \in Parents, k # "research", NEW p, p.newest \in Nat, parents[k].newest <= p.newest,
         parents[k].newest < p.newest \/ p.state = "deleted"
  PROVE  KeptOK(i, [parents EXCEPT ![k] = p], gone \cup {k})
<1>1. PICK after, r, c : after = [parents EXCEPT ![k] = p] /\ r = i[1] /\ c = i[2]
  OBVIOUS
<1>2. r.of \in Parents /\ after[r.of] = IF r.of = k THEN p ELSE parents[r.of]
  BY <1>1 DEF ParentsTyped, KeptOK, Refs
<1>3. after["research"] = parents["research"] /\ parents[r.of].newest \in Nat
  BY <1>1, <1>2 DEF ParentsTyped, Parents
<1>4. CASE r.of = "research"
  BY <1>1, <1>3, <1>4 DEF KeptOK
<1>5. CASE r.of # "research" /\ r.of = k
  BY <1>1, <1>2, <1>3, <1>5 DEF KeptOK
<1>6. CASE r.of # "research" /\ r.of # k
  BY <1>1, <1>2, <1>3, <1>6 DEF KeptOK
<1> QED BY <1>4, <1>5, <1>6

\* It is archived.
LEMMA KeptWhenArchived ==
  ASSUME NEW parents, ParentsTyped(parents), NEW gone, NEW i, KeptOK(i, parents, gone),
         NEW k \in Parents, k # "research", NEW p, p.newest = parents[k].newest,
         parents[k].state = "active", p.state = "archived"
  PROVE  KeptOK(i, [parents EXCEPT ![k] = p], gone)
<1>1. PICK after, r, c : after = [parents EXCEPT ![k] = p] /\ r = i[1] /\ c = i[2]
  OBVIOUS
<1>2. r.of \in Parents /\ after[r.of] = IF r.of = k THEN p ELSE parents[r.of]
  BY <1>1 DEF ParentsTyped, KeptOK, Refs
<1>3. after["research"] = parents["research"] /\ parents[r.of].newest \in Nat
  BY <1>1, <1>2 DEF ParentsTyped, Parents
<1>4. CASE r.of = "research"
  BY <1>1, <1>3, <1>4 DEF KeptOK
<1>5. CASE r.of # "research" /\ r.of = k
  BY <1>1, <1>2, <1>3, <1>5 DEF KeptOK
<1>6. CASE r.of # "research" /\ r.of # k
  BY <1>1, <1>2, <1>3, <1>6 DEF KeptOK
<1> QED BY <1>4, <1>5, <1>6

LEMMA NewVersionKeeps == ASSUME PromptInv, NEW k \in Parents, NewVersion(k) PROVE PromptInv'
<1>1. PICK q, p : q = parent[k] /\ p = [q EXCEPT !.newest = @ + 1]
  OBVIOUS
<1>2. q = [state |-> q.state, newest |-> q.newest] /\ q.newest \in Nat /\ ParentsTyped(parent)
  BY <1>1 DEF PromptInv, ParentsTyped
<1>3. p = [state |-> p.state, newest |-> p.newest] /\ p.newest = q.newest + 1
  BY <1>1, <1>2
<1>4. k # "research" /\ parent' = [parent EXCEPT ![k] = p] /\ UNCHANGED <<textSize, consent, turn, recorded>>
  BY <1>1 DEF NewVersion
<1>5. ASSUME recorded.by = "draft", NEW i \in recorded.inputs PROVE KeptOK(i, parent', moved')
  <2>1. moved' = moved \cup {k} /\ KeptOK(i, parent, moved)
    BY <1>5 DEF NewVersion, Moves, PromptInv
  <2>2. p.newest \in Nat /\ parent[k].newest <= p.newest /\ parent[k].newest < p.newest
    BY <1>1, <1>2, <1>3
  <2>3. KeptOK(i, [parent EXCEPT ![k] = p], moved \cup {k})
    BY <1>2, <1>4, <2>1, <2>2, KeptWhenGone
  <2> QED BY <1>4, <2>1, <2>3
<1>6. p.newest \in Nat /\ parent[k].newest <= p.newest
  BY <1>1, <1>2, <1>3
<1> QED BY <1>3, <1>4, <1>5, <1>6, ParentMoves

LEMMA ArchiveParentKeeps == ASSUME PromptInv, NEW k \in Parents, ArchiveParent(k) PROVE PromptInv'
<1>1. PICK q, p : q = parent[k] /\ p = [q EXCEPT !.state = "archived"]
  OBVIOUS
<1>2. q = [state |-> q.state, newest |-> q.newest] /\ q.newest \in Nat /\ ParentsTyped(parent)
  BY <1>1 DEF PromptInv, ParentsTyped
<1>3. p = [state |-> p.state, newest |-> p.newest] /\ p.newest = q.newest /\ p.state = "archived"
  BY <1>1, <1>2
<1>4. /\ k # "research" /\ parent[k].state = "active" /\ parent' = [parent EXCEPT ![k] = p]
      /\ UNCHANGED <<textSize, consent, turn, recorded, moved>>
  BY <1>1 DEF ArchiveParent
<1>5. ASSUME recorded.by = "draft", NEW i \in recorded.inputs PROVE KeptOK(i, parent', moved')
  <2>1. moved' = moved /\ KeptOK(i, parent, moved)
    BY <1>4, <1>5 DEF PromptInv
  <2>2. KeptOK(i, [parent EXCEPT ![k] = p], moved)
    BY <1>1, <1>2, <1>3, <1>4, <2>1, KeptWhenArchived
  <2> QED BY <1>4, <2>1, <2>2
<1>6. p.newest \in Nat /\ parent[k].newest <= p.newest
  BY <1>1, <1>2, <1>3
<1> QED BY <1>3, <1>4, <1>5, <1>6, ParentMoves

LEMMA DeleteParentKeeps == ASSUME PromptInv, NEW k \in Parents, DeleteParent(k) PROVE PromptInv'
<1>1. PICK q, p : q = parent[k] /\ p = [q EXCEPT !.state = "deleted"]
  OBVIOUS
<1>2. q = [state |-> q.state, newest |-> q.newest] /\ q.newest \in Nat /\ ParentsTyped(parent)
  BY <1>1 DEF PromptInv, ParentsTyped
<1>3. p = [state |-> p.state, newest |-> p.newest] /\ p.newest = q.newest /\ p.state = "deleted"
  BY <1>1, <1>2
<1>4. k # "research" /\ parent' = [parent EXCEPT ![k] = p] /\ UNCHANGED <<textSize, consent, turn, recorded>>
  BY <1>1 DEF DeleteParent
<1>5. p.newest \in Nat /\ parent[k].newest <= p.newest
  BY <1>1, <1>2, <1>3
<1>6. ASSUME recorded.by = "draft", NEW i \in recorded.inputs PROVE KeptOK(i, parent', moved')
  <2>1. moved' = moved \cup {k} /\ KeptOK(i, parent, moved)
    BY <1>6 DEF DeleteParent, Moves, PromptInv
  <2>2. KeptOK(i, [parent EXCEPT ![k] = p], moved \cup {k})
    BY <1>2, <1>3, <1>4, <1>5, <2>1, KeptWhenGone
  <2> QED BY <1>4, <2>1, <2>2
<1> QED BY <1>3, <1>4, <1>5, <1>6, ParentMoves

LEMMA NothingMovesText ==
  ASSUME PromptInv, UNCHANGED <<textSize, parent, consent, turn, recorded, moved>> PROVE PromptInv'
<1>1. turn'.stage \in {"sent", "answered", "recorded"} => SentOK(turn, consent.prompt)'
  BY SentStays DEF PromptInv
<1> QED BY <1>1 DEF PromptInv

LEMMA PromptKeeps == ASSUME PromptInv, [PromptNext]_promptVars PROVE PromptInv'
<1>1. CASE UNCHANGED promptVars
  BY <1>1, NothingMovesText DEF promptVars
<1>2. ASSUME NEW request \in Requests, ShowPrompt(request) PROVE PromptInv'
  BY <1>2, ShowPromptKeeps
<1>3. ASSUME NEW request \in Requests, NEW own \in BOOLEAN, SendPrompt(request, own) PROVE PromptInv'
  BY <1>3, SendPromptKeeps
<1>4. CASE ConfirmPrompt
  BY <1>4, ConfirmPromptKeeps
<1>5. CASE RecordDraft
  BY <1>5, RecordDraftKeeps
<1>6. CASE RecordTurn
  BY <1>6, RecordTurnKeeps
<1>7. CASE OtherTurn
  BY <1>7, NothingMovesText DEF OtherTurn
<1>8. ASSUME NEW r \in Cited, NEW s \in Cited, ReplyTo({r, s}) PROVE PromptInv'
  BY <1>8, ReplyKeeps
<1>9. ASSUME NEW k \in Parents, NewVersion(k) \/ ArchiveParent(k) \/ DeleteParent(k) PROVE PromptInv'
  BY <1>9, NewVersionKeeps, ArchiveParentKeeps, DeleteParentKeeps
<1> QED BY <1>1, <1>2, <1>3, <1>4, <1>5, <1>6, <1>7, <1>8, <1>9 DEF PromptNext

LEMMA SentFits == PromptInv => PromptFits
<1> SUFFICES ASSUME PromptInv, turn.stage \in {"sent", "answered", "recorded"}
             PROVE  LET texts == Texts(turn.sent) IN
                    /\ \A i \in DOMAIN texts : texts[i].size > 0
                    /\ Together(texts) <= Total(turn.request.purpose)
  BY DEF PromptFits
<1>1. PICK texts, inputs, total : /\ texts = Texts(turn.sent) /\ inputs = turn.request.inputs
                                  /\ total = Total(turn.request.purpose)
  OBVIOUS
<1>2. /\ Asked(inputs) /\ texts = ResolveAll(inputs, total)
      /\ \A i \in 1 .. Len(inputs) : textSize[inputs[i].of] > 0
  BY <1>1, InputsAsked DEF PromptInv, SentOK
<1>3. total \in Nat /\ MaxInputs <= total /\ textSize \in [Parents -> Nat]
  BY <1>1, TotalIs DEF PromptInv
<1>4. /\ Len(texts) = Len(inputs) /\ texts = [i \in 1 .. Len(texts) |-> texts[i]]
      /\ \A i \in 1 .. Len(inputs) : textSize[inputs[i].of] > 0 => texts[i].size > 0
  BY <1>2, <1>3, ResolvedIs DEF Limited
<1>5. DOMAIN texts = 1 .. Len(inputs)
  BY <1>4
<1>6. \A i \in DOMAIN texts : texts[i].size > 0
  BY <1>2, <1>4, <1>5
<1>7. Together(texts) <= total
  BY <1>2, <1>3, ResolvedFits
<1> QED BY <1>1, <1>6, <1>7

LEMMA KeptWasSent == PromptInv => KeptAsSent
<1> SUFFICES ASSUME PromptInv, turn.stage \in {"sent", "answered", "recorded"}
             PROVE  /\ turn.sent = consent.prompt
                    /\ turn.stage = "recorded" =>
                         LET sent == {t.ref : t \in ToSet(Texts(turn.sent))} IN
                         /\ {i[1] : i \in recorded.inputs} = sent
                         /\ recorded.cited \subseteq sent
  BY DEF KeptAsSent
<1>1. PICK texts, inputs, total : /\ texts = Texts(turn.sent) /\ inputs = turn.request.inputs
                                  /\ total = Total(turn.request.purpose)
  OBVIOUS
<1>2. turn.sent = consent.prompt /\ Asked(inputs) /\ texts = ResolveAll(inputs, total)
  BY <1>1, InputsAsked DEF PromptInv, SentOK
<1>3. total \in Nat /\ MaxInputs <= total /\ textSize \in [Parents -> Nat]
  BY <1>1, TotalIs DEF PromptInv
<1>4. /\ Len(texts) = Len(inputs) /\ texts = [i \in 1 .. Len(texts) |-> texts[i]]
      /\ \A i \in 1 .. Len(inputs) : texts[i].ref = inputs[i]
  BY <1>2, <1>3, ResolvedIs DEF Limited
<1>5. ToSet(inputs) = {inputs[i] : i \in 1 .. Len(inputs)}
  BY <1>2, AskedIs
<1>6. DOMAIN texts = 1 .. Len(inputs)
  BY <1>4
<1>7. {t.ref : t \in ToSet(texts)} = {texts[i].ref : i \in 1 .. Len(inputs)}
  BY <1>6 DEF ToSet
<1>8. {texts[i].ref : i \in 1 .. Len(inputs)} = ToSet(inputs)
  BY <1>4, <1>5
<1>9. turn.stage = "recorded" => {i[1] : i \in recorded.inputs} = ToSet(inputs) /\ recorded.cited \subseteq ToSet(inputs)
  BY <1>1 DEF PromptInv
<1> QED BY <1>1, <1>2, <1>7, <1>8, <1>9

LEMMA StaleIs == ASSUME NEW i, KeptOK(i, parent, moved), ParentsTyped(parent) PROVE InputStale(i) <=> i[1].of \in moved
<1>1. PICK r, c, k, p : r = i[1] /\ c = i[2] /\ k = r.of /\ p = parent[k]
  OBVIOUS
<1>2. k \in Parents /\ p.newest \in Nat /\ r.version \in Nat
  BY <1>1, PromptSourcesAssumption DEF KeptOK, Refs, ParentsTyped
<1>3. InputStale(i) <=> (~(/\ r.version <= p.newest
                        /\ p.state \in IF k = "research" THEN {"available"} ELSE {"active", "archived"})
                      \/ (IF k = "research" THEN 0 ELSE p.newest) # c)
  BY <1>1 DEF InputStale, Available, CurrentOf
<1>4. CASE k = "research"
  BY <1>1, <1>2, <1>3, <1>4 DEF KeptOK
<1>5. CASE k # "research" /\ k \in moved
  BY <1>1, <1>2, <1>3, <1>5 DEF KeptOK
<1>6. CASE k # "research" /\ k \notin moved
  BY <1>1, <1>2, <1>3, <1>6 DEF KeptOK
<1> QED BY <1>4, <1>5, <1>6

LEMMA StaleExactly == PromptInv => StaleIfMoved
<1> SUFFICES ASSUME PromptInv, recorded.by = "draft"
             PROVE  (\E i \in recorded.inputs : InputStale(i)) <=> (\E i \in recorded.inputs : i[1].of \in moved)
  BY DEF StaleIfMoved
<1>1. ASSUME NEW i \in recorded.inputs PROVE InputStale(i) <=> i[1].of \in moved
  BY StaleIs DEF PromptInv
<1> QED BY <1>1

LEMMA PromptIsSound == PromptInv => TextsSound
BY SentFits, KeptWasSent, StaleExactly DEF TextsSound

\* Whatever versions and turns come in between, of any number of inputs of any
\* length: each text of a prompt has its share of the limit, what is sent is
\* what was shown, what is kept with the answer was sent, and a draft is
\* reported stale exactly when one of its inputs has moved since.
THEOREM TextsAreSound == PromptSpec => []TextsSound
BY PromptStart, PromptKeeps, PromptIsSound, PTL DEF PromptSpec

-----------------------------------------------------------------------------
(***************************************************************************)
(* The directory of an archive is read entry by entry.                     *)
(***************************************************************************)

LEMMA ArchiveIs ==
  ASSUME NEW entries \in Archives
  PROVE  /\ Len(entries) \in Nat /\ DOMAIN entries = 1 .. Len(entries)
         /\ \A i \in 1 .. Len(entries) : entries[i] \in Entries
         /\ Limited(entries, 2) /\ ToSet(entries) = {entries[i] : i \in 1 .. Len(entries)}
<1>1. PICK n \in 0 .. MaxEntries + 1 : entries \in [1 .. n -> Entries]
  BY DEF Archives
<1>2. n \in Nat /\ entries \in Seq(Entries) /\ Len(entries) = n
  BY <1>1, FilePreviewAssumption
<1>3. ASSUME NEW i \in 1 .. n PROVE entries[i] \in Entries /\ entries[i].size \in Nat /\ entries[i].size <= 2
  <2>1. entries[i] \in Entries
    BY <1>1
  <2> QED BY <2>1 DEF Entries
<1> QED BY <1>1, <1>2, <1>3 DEF Limited, ToSet

Unread == [code |-> "ok", seen |-> {}, total |-> 0]

\* f is what is read of the first n entries.
Reads(f, entries, n) ==
  f = [i \in 0 .. n |-> IF i = 0 THEN Unread ELSE ReadEntry(f[i - 1], entries[i])]

LEMMA ReadsExist ==
  ASSUME NEW entries, Len(entries) \in Nat, NEW n \in 0 .. Len(entries)
  PROVE  \E f : Reads(f, entries, n)
<1> DEFINE S == {k \in 0 .. Len(entries) : ~\E f : Reads(f, entries, k)}
<1>1. SUFFICES ASSUME S # {} PROVE FALSE
  OBVIOUS
<1>2. S \in SUBSET Nat
  OBVIOUS
<1> HIDE DEF S
<1>3. PICK m \in S : \A k \in S : m <= k
  BY <1>1, <1>2, Least
<1>4. m \in 0 .. Len(entries) /\ ~(\E f : Reads(f, entries, m)) /\ Len(entries) \in Nat
  BY DEF S
<1>5. CASE m = 0
  <2>1. PICK e : e = [i \in 0 .. 0 |-> Unread]
    OBVIOUS
  <2>2. Reads(e, entries, 0)
    BY <2>1 DEF Reads
  <2> QED BY <1>4, <1>5, <2>2
<1>6. CASE m # 0
  <2>1. m - 1 \in 0 .. Len(entries) /\ m - 1 \notin S /\ m \in Nat /\ m > 0
    BY <1>3, <1>4, <1>6
  <2>2. PICK f : Reads(f, entries, m - 1)
    BY <2>1 DEF S
  <2>3. PICK x : x = ReadEntry(f[m - 1], entries[m])
    OBVIOUS
  <2>4. PICK h : h = [i \in 0 .. m |-> IF i = m THEN x ELSE f[i]]
    OBVIOUS
  <2>5. \A i \in 0 .. m - 1 : f[i] = IF i = 0 THEN Unread ELSE ReadEntry(f[i - 1], entries[i])
    BY <2>2 DEF Reads
  <2>6. h = [i \in 0 .. m |-> h[i]] /\ h[m] = x /\ \A i \in 0 .. m - 1 : h[i] = f[i]
    BY <2>1, <2>4
  <2>7. ASSUME NEW i \in 0 .. m PROVE h[i] = IF i = 0 THEN Unread ELSE ReadEntry(h[i - 1], entries[i])
    <3>1. CASE i = m
      <4>1. m - 1 \in 0 .. m - 1
        BY <2>1
      <4>2. h[m - 1] = f[m - 1]
        BY <2>6, <4>1
      <4> QED BY <2>1, <2>3, <2>6, <3>1, <4>2
    <3>2. CASE i # m /\ i # 0
      <4>1. i \in 0 .. m - 1 /\ i - 1 \in 0 .. m - 1
        BY <2>1, <3>2
      <4> QED BY <2>5, <2>6, <3>2, <4>1
    <3>3. CASE i = 0
      <4>1. i \in 0 .. m - 1
        BY <2>1, <3>3
      <4> QED BY <2>5, <2>6, <3>3, <4>1
    <3> QED BY <3>1, <3>2, <3>3
  <2>8. Reads(h, entries, m)
    BY <2>6, <2>7 DEF Reads
  <2> QED BY <1>4, <2>8
<1> QED BY <1>5, <1>6

\* What is known of the first n entries when they are read.
GoodUpTo(read, entries, n, sum) ==
  /\ read = [code |-> "ok", seen |-> read.seen, total |-> read.total]
  /\ read.seen = {entries[i] : i \in 1 .. n}
  /\ read.total = sum /\ sum \in Nat /\ sum <= MaxUnpacked
  /\ \A i \in 1 .. n : entries[i].name \notin UnsafeNames
  /\ \A i, j \in 1 .. n : i # j => entries[i].name # entries[j].name

\* One more entry is read.
LEMMA ReadOne ==
  ASSUME NEW entries \in Archives, NEW n \in Nat, n < Len(entries), NEW read, NEW sum,
         read.code = "ok" => GoodUpTo(read, entries, n, sum),
         NEW next, next = ReadEntry(read, entries[n + 1]), next.code = "ok"
  PROVE  GoodUpTo(next, entries, n + 1, sum + entries[n + 1].size)
<1>1. PICK e : e = entries[n + 1]
  OBVIOUS
<1>2. n + 1 \in 1 .. Len(entries) /\ e \in Entries
  BY <1>1, ArchiveIs
<1>3. e.size \in Nat
  BY <1>2 DEF Entries
<1>4. read.code = "ok"
  BY DEF ReadEntry
<1>5. GoodUpTo(read, entries, n, sum)
  BY <1>4
<1>6. read = [code |-> "ok", seen |-> read.seen, total |-> read.total]
  BY <1>5 DEF GoodUpTo
<1>7. PICK added : added = [read EXCEPT !.seen = @ \cup {e}, !.total = @ + e.size]
  OBVIOUS
<1>8. next = IF e.name \in UnsafeNames THEN [read EXCEPT !.code = "ZIP_PATH_INVALID"]
             ELSE IF Repeated(read.seen, e) THEN [read EXCEPT !.code = "DOCX_INVALID"]
             ELSE IF read.total + e.size > MaxUnpacked THEN [read EXCEPT !.code = "DOCX_UNCOMPRESSED_LIMIT"]
             ELSE added
  BY <1>1, <1>4, <1>7 DEF ReadEntry
<1>9. /\ [read EXCEPT !.code = "ZIP_PATH_INVALID"].code # "ok" /\ [read EXCEPT !.code = "DOCX_INVALID"].code # "ok"
      /\ [read EXCEPT !.code = "DOCX_UNCOMPRESSED_LIMIT"].code # "ok"
  BY <1>6
<1>10. next = added /\ e.name \notin UnsafeNames /\ ~Repeated(read.seen, e) /\ ~(read.total + e.size > MaxUnpacked)
  BY <1>8, <1>9
<1>11. next = [code |-> "ok", seen |-> read.seen \cup {e}, total |-> read.total + e.size]
  BY <1>6, <1>7, <1>10
<1>12. /\ next = [code |-> "ok", seen |-> next.seen, total |-> next.total]
       /\ next.seen = read.seen \cup {e} /\ next.total = read.total + e.size
  BY <1>11
<1>13. next.seen = {entries[i] : i \in 1 .. n + 1}
  <2>1. read.seen = {entries[i] : i \in 1 .. n}
    BY <1>5 DEF GoodUpTo
  <2>2. ASSUME NEW i \in 1 .. n + 1 PROVE i \in 1 .. n \/ i = n + 1
    OBVIOUS
  <2>3. 1 .. n \subseteq 1 .. n + 1 /\ n + 1 \in 1 .. n + 1
    OBVIOUS
  <2> QED BY <1>1, <1>12, <2>1, <2>2, <2>3
<1>14. sum + e.size \in Nat /\ sum + e.size <= MaxUnpacked /\ next.total = sum + e.size
  BY <1>3, <1>5, <1>10, <1>12, FilePreviewAssumption DEF GoodUpTo
<1>15. \A i \in 1 .. n + 1 : entries[i].name \notin UnsafeNames
  <2> SUFFICES ASSUME NEW i \in 1 .. n + 1 PROVE entries[i].name \notin UnsafeNames
    OBVIOUS
  <2>1. i \in 1 .. n \/ i = n + 1
    OBVIOUS
  <2> QED BY <1>1, <1>5, <1>10, <2>1 DEF GoodUpTo
<1>16. \A i \in 1 .. n : entries[i].name # e.name
  BY <1>5, <1>10 DEF GoodUpTo, Repeated
<1>17. \A i, j \in 1 .. n + 1 : i # j => entries[i].name # entries[j].name
  <2> SUFFICES ASSUME NEW i \in 1 .. n + 1, NEW j \in 1 .. n + 1, i # j PROVE entries[i].name # entries[j].name
    OBVIOUS
  <2>1. (i \in 1 .. n \/ i = n + 1) /\ (j \in 1 .. n \/ j = n + 1)
    OBVIOUS
  <2> QED BY <1>1, <1>5, <1>16, <2>1 DEF GoodUpTo
<1> QED BY <1>1, <1>12, <1>13, <1>14, <1>15, <1>17 DEF GoodUpTo

LEMMA ReadAll ==
  ASSUME NEW entries \in Archives, NEW f, Reads(f, entries, Len(entries)), NEW u, Counts(u, entries, Len(entries))
  PROVE  \A n \in 0 .. Len(entries) : f[n].code = "ok" => GoodUpTo(f[n], entries, n, u[n])
<1> DEFINE S == {k \in 0 .. Len(entries) : ~(f[k].code = "ok" => GoodUpTo(f[k], entries, k, u[k]))}
<1>1. SUFFICES ASSUME S # {} PROVE FALSE
  OBVIOUS
<1>2. S \in SUBSET Nat
  OBVIOUS
<1> HIDE DEF S
<1>3. PICK m \in S : \A k \in S : m <= k
  BY <1>1, <1>2, Least
<1>4. m \in 0 .. Len(entries) /\ f[m].code = "ok" /\ ~GoodUpTo(f[m], entries, m, u[m]) /\ Len(entries) \in Nat
  BY ArchiveIs DEF S
<1>5. f[m] = IF m = 0 THEN Unread ELSE ReadEntry(f[m - 1], entries[m])
  BY <1>4 DEF Reads
<1>6. u[m] = IF m = 0 THEN 0 ELSE u[m - 1] + entries[m].size
  BY <1>4 DEF Counts
<1>7. CASE m = 0
  <2>1. f[m] = Unread /\ u[m] = 0 /\ 1 .. m = {}
    BY <1>5, <1>6, <1>7
  <2>2. PICK r : r = Unread
    OBVIOUS
  <2>3. r = [code |-> "ok", seen |-> r.seen, total |-> r.total] /\ r.seen = {} /\ r.total = 0
    BY <2>2 DEF Unread
  <2>4. GoodUpTo(r, entries, m, 0)
    BY <2>1, <2>3, FilePreviewAssumption DEF GoodUpTo
  <2> QED BY <1>4, <2>1, <2>2, <2>4
<1>8. CASE m # 0
  <2>1. PICK n : n = m - 1
    OBVIOUS
  <2>2. n \in Nat /\ n < Len(entries) /\ n \in 0 .. Len(entries) /\ n \notin S /\ m = n + 1
    BY <1>3, <1>4, <1>8, <2>1
  <2>3. f[n].code = "ok" => GoodUpTo(f[n], entries, n, u[n])
    BY <2>2 DEF S
  <2>4. f[m] = ReadEntry(f[n], entries[n + 1]) /\ u[m] = u[n] + entries[n + 1].size
    BY <1>5, <1>6, <1>8, <2>1, <2>2
  <2>5. GoodUpTo(f[m], entries, n + 1, u[n] + entries[n + 1].size)
    BY <1>4, <2>2, <2>3, <2>4, ReadOne
  <2> QED BY <1>4, <2>2, <2>4, <2>5
<1> QED BY <1>7, <1>8

LEMMA UnpackedIs ==
  ASSUME NEW entries \in Archives PROVE \E u : Counts(u, entries, Len(entries)) /\ Unpacked(entries) = u[Len(entries)]
<1> DEFINE Is(f) == f = [n \in 0 .. Len(entries) |-> IF n = 0 THEN 0 ELSE f[n - 1] + entries[n].size]
           upTo == CHOOSE f : Is(f)
<1>1. Unpacked(entries) = upTo[Len(entries)]
  BY DEF Unpacked
<1>2. Limited(entries, 2) /\ Len(entries) \in 0 .. Len(entries)
  BY ArchiveIs
<1>3. \E f : Is(f)
  <2>1. PICK f : Counts(f, entries, Len(entries))
    BY <1>2, CountsExist
  <2>2. Is(f)
    BY <2>1 DEF Counts
  <2> QED BY <2>2
<1>4. Is(upTo)
  BY <1>3
<1>5. Counts(upTo, entries, Len(entries))
  BY <1>4 DEF Counts
<1> QED BY <1>1, <1>5

LEMMA DirectoryIs ==
  ASSUME NEW entries \in Archives, ReadDirectory(entries) = "ok"
  PROVE  Len(entries) <= MaxEntries /\ \E f : Reads(f, entries, Len(entries)) /\ f[Len(entries)].code = "ok"
<1> DEFINE Is(f) == f = [n \in 0 .. Len(entries) |->
                         IF n = 0 THEN [code |-> "ok", seen |-> {}, total |-> 0] ELSE ReadEntry(f[n - 1], entries[n])]
           read == CHOOSE f : Is(f)
<1>1. ReadDirectory(entries) = IF Len(entries) > MaxEntries THEN "DOCX_ENTRIES_LIMIT" ELSE read[Len(entries)].code
  BY DEF ReadDirectory
<1>2. Len(entries) \in Nat /\ Len(entries) \in 0 .. Len(entries)
  BY ArchiveIs
<1>3. \E f : Is(f)
  <2>1. PICK f : Reads(f, entries, Len(entries))
    BY <1>2, ReadsExist
  <2>2. Is(f)
    BY <2>1 DEF Reads, Unread
  <2> QED BY <2>2
<1>4. Is(read)
  BY <1>3
<1>5. Reads(read, entries, Len(entries))
  BY <1>4 DEF Reads, Unread
<1> HIDE DEF read
<1>6. Len(entries) <= MaxEntries
  BY <1>1, <1>2, FilePreviewAssumption
<1> QED BY <1>1, <1>2, <1>5, <1>6, FilePreviewAssumption

LEMMA Extractable ==
  ASSUME NEW entries \in Archives, ExtractDocx(entries) = "ok" PROVE Unpackable(entries)
<1>1. ReadDirectory(entries) = "ok" /\ \E e \in ToSet(entries) : e.name = Body
  BY DEF ExtractDocx
<1>2. PICK n : n = Len(entries)
  OBVIOUS
<1>3. n \in Nat /\ n \in 0 .. n /\ DOMAIN entries = 1 .. n /\ ToSet(entries) = {entries[i] : i \in 1 .. n}
  BY <1>2, ArchiveIs
<1>4. n <= MaxEntries
  BY <1>1, <1>2, DirectoryIs
<1>5. PICK f : Reads(f, entries, Len(entries)) /\ f[Len(entries)].code = "ok"
  BY <1>1, DirectoryIs
<1>6. PICK u : Counts(u, entries, Len(entries)) /\ Unpacked(entries) = u[Len(entries)]
  BY UnpackedIs
<1>7. GoodUpTo(f[n], entries, n, u[n])
  BY <1>2, <1>3, <1>5, <1>6, ReadAll
<1>8. /\ Unpacked(entries) <= MaxUnpacked
      /\ \A i \in 1 .. n : entries[i].name \notin UnsafeNames
      /\ \A i, j \in 1 .. n : i # j => entries[i].name # entries[j].name
  BY <1>2, <1>6, <1>7 DEF GoodUpTo
<1> QED BY <1>1, <1>2, <1>3, <1>4, <1>8 DEF Unpackable

-----------------------------------------------------------------------------
(***************************************************************************)
(* What is staged, and what becomes of the file.                           *)
(***************************************************************************)

Staged == {"storing", "renaming", "extracting", "reading", "cleaning", "removing"}

Uploaded(f) == f.pages \in Nat /\ (f.kind = "docx" => f.entries \in Archives)

\* A file within every limit.
Fits(f) ==
  /\ f.size \in 1 .. MaxFile
  /\ f.kind = "pdf" => f.pages <= MaxPages
  /\ f.kind = "docx" => Unpackable(f.entries)

PreviewInv ==
  /\ Uploaded(file)
  /\ stage \in Staged \cup {"new", "done"}
  /\ stage \in Staged => file.size \in 1 .. MaxFile
  /\ stage = "reading" => file.kind = "pdf" /\ file.pages <= MaxPages
  /\ stage \in {"new", "storing", "removing"} => stored = {}
  /\ stage = "renaming" => stored = {"temporary"}
  /\ stage \in {"extracting", "reading", "cleaning"} => stored = {"final"}
  /\ stage = "done" /\ ~spilled => stored = {}
  /\ stage \in {"new", "storing", "renaming", "extracting", "reading"} => previewed = "none"
  /\ previewed = "ok" => Fits(file)

LEMMA PreviewStart == PreviewInit => PreviewInv
<1> SUFFICES ASSUME PreviewInit PROVE PreviewInv
  OBVIOUS
<1>1. Uploaded(file)
  BY FilePreviewAssumption DEF PreviewInit, Files, Uploaded
<1> QED BY <1>1 DEF PreviewInit, PreviewInv, Staged

LEMMA IdentifyKeeps == ASSUME PreviewInv, NEW agree, Identify(agree) PROVE PreviewInv'
<1>1. PICK refused : /\ refused = CASE file.size \notin 1 .. MaxFile -> "FILE_TOO_LARGE"
                                    [] file.size \in 1 .. MaxFile /\ (file.kind = "other" \/ ~agree) -> "MIME_NOT_ALLOWED"
                                    [] OTHER -> "none"
                     /\ previewed' = refused /\ stage' = IF refused = "none" THEN "storing" ELSE "done"
  BY DEF Identify
<1>2. (refused = "none" => file.size \in 1 .. MaxFile) /\ refused # "ok"
  BY <1>1
<1>3. stage = "new" /\ UNCHANGED <<file, stored, spilled>>
  BY DEF Identify
<1> QED BY <1>1, <1>2, <1>3 DEF PreviewInv, Staged

LEMMA ExtractKeeps == ASSUME PreviewInv, NEW readable, Extract(readable) PROVE PreviewInv'
<1>1. PICK code : code = CASE file.kind = "docx" /\ ExtractDocx(file.entries) # "ok" -> ExtractDocx(file.entries)
                           [] ~(file.kind = "docx" /\ ExtractDocx(file.entries) # "ok") /\ ~readable -> "EMPTY_TEXT"
                           [] OTHER -> "ok"
  OBVIOUS
<1>2. stage = "extracting" /\ file.kind # "pdf" /\ previewed' = code /\ stage' = "cleaning" /\ UNCHANGED <<file, stored, spilled>>
  BY <1>1 DEF Extract, Extracted
<1>3. code = "ok" /\ file.kind = "docx" => ExtractDocx(file.entries) = "ok"
  BY <1>1
<1>4. code = "ok" /\ file.kind = "docx" => Unpackable(file.entries)
  BY <1>3, Extractable DEF PreviewInv, Uploaded
<1>5. code = "ok" => Fits(file)
  BY <1>2, <1>4 DEF PreviewInv, Staged, Fits
<1> QED BY <1>2, <1>5 DEF PreviewInv, Staged

LEMMA PreviewKeeps == ASSUME PreviewInv, [PreviewNext]_previewVars PROVE PreviewInv'
<1>1. ASSUME NEW agree \in BOOLEAN, Identify(agree) PROVE PreviewInv'
  BY <1>1, IdentifyKeeps
<1>2. ASSUME NEW readable \in BOOLEAN, Extract(readable) PROVE PreviewInv'
  BY <1>2, ExtractKeeps
<1>3. CASE StoreTemporary
  BY <1>3 DEF StoreTemporary, PreviewInv, Staged
<1>4. CASE Rename
  BY <1>4 DEF Rename, PreviewInv, Staged
<1>5. CASE StoreFails
  BY <1>5 DEF StoreFails, PreviewInv, Staged
<1>6. CASE OpenPdf
  <2>1. PICK pages : pages = file.pages
    OBVIOUS
  <2>2. CASE pages > MaxPages
    BY <1>6, <2>1, <2>2 DEF OpenPdf, Extracted, PreviewInv, Staged
  <2>3. CASE ~(pages > MaxPages)
    <3>1. pages <= MaxPages
      BY <2>1, <2>3, FilePreviewAssumption DEF PreviewInv, Uploaded
    <3> QED BY <1>6, <2>1, <2>3, <3>1 DEF OpenPdf, PreviewInv, Staged
  <2> QED BY <2>2, <2>3
<1>7. ASSUME NEW letters \in BOOLEAN, ReadPdf(letters) PROVE PreviewInv'
  BY <1>7 DEF ReadPdf, Extracted, PreviewInv, Staged, Fits
<1>8. CASE PdfFails
  BY <1>8 DEF PdfFails, Extracted, PreviewInv, Staged
<1>9. CASE RemoveFinal
  BY <1>9 DEF RemoveFinal, PreviewInv, Staged
<1>10. CASE RemoveTemporary
  BY <1>10 DEF RemoveTemporary, PreviewInv, Staged
<1>11. CASE PreviewCrash
  BY <1>11 DEF PreviewCrash, PreviewInv, Staged
<1>12. CASE UNCHANGED previewVars
  BY <1>12 DEF previewVars, PreviewInv, Staged
<1> QED BY <1>1, <1>2, <1>3, <1>4, <1>5, <1>6, <1>7, <1>8, <1>9, <1>10, <1>11, <1>12 DEF PreviewNext

LEMMA PreviewIsSound == PreviewInv => PreviewSound
BY DEF PreviewInv, PreviewSound, Staged, Fits

\* A file gives a text only within every limit, in whatever order the entries
\* of its archive are, and nothing of it stays staged unless storing it failed
\* or the process died.
THEOREM PreviewsAreSound == PreviewSpec => []PreviewSound
BY PreviewStart, PreviewKeeps, PreviewIsSound, PTL DEF PreviewSpec

-----------------------------------------------------------------------------
(***************************************************************************)
(* What a call of a provider has told.                                     *)
(***************************************************************************)

Codes ==
  {"none", "timeout", "provider_failure", "provider_unavailable", "disabled", "tool_denied",
   "invalid_output", "limit_exceeded"}

CallEvents ==
  [kind : {"started", "text_delta", "usage"}] \cup [kind : ToolKinds, tool : Tools \cup {Foreign}]
  \cup [kind : EndKinds, code : Codes, usage : Nat, structured : BOOLEAN, aborted : BOOLEAN, timedOut : BOOLEAN]

LEMMA EventKind == ASSUME NEW e \in CallEvents PROVE e.kind \in {"started", "text_delta", "usage"} \cup ToolKinds \cup EndKinds
BY DEF CallEvents

LEMMA PlacesIn ==
  ASSUME NEW y \in Seq(CallEvents), NEW kinds PROVE At(y, kinds) \subseteq 1 .. Len(y) /\ IsFiniteSet(At(y, kinds))
<1>1. At(y, kinds) \subseteq 1 .. Len(y) /\ Len(y) \in Nat
  BY DEF At
<1>2. IsFiniteSet(1 .. Len(y))
  BY <1>1, FS_Interval
<1> QED BY <1>1, <1>2, FS_Subset

\* One more event.
LEMMA OneMore ==
  ASSUME NEW y \in Seq(CallEvents), NEW e \in CallEvents, NEW z, z = Append(y, e)
  PROVE  /\ z \in Seq(CallEvents) /\ Len(z) = Len(y) + 1 /\ Len(y) \in Nat
         /\ z[Len(z)] = e /\ Last(z) = e
         /\ \A i \in 1 .. Len(y) : z[i] = y[i]
<1>1. /\ z \in Seq(CallEvents) /\ Len(z) = Len(y) + 1 /\ Len(y) \in Nat
      /\ z[Len(y) + 1] = e /\ \A i \in 1 .. Len(y) : z[i] = y[i]
  BY AppendProperties
<1> QED BY <1>1 DEF Last

\* Where one more event leaves those of these kinds, and how many they are.
Adds(z, y, e, kinds) ==
  /\ At(z, kinds) = IF e.kind \in kinds THEN At(y, kinds) \cup {Len(y) + 1} ELSE At(y, kinds)
  /\ Cardinality(At(z, kinds)) = Cardinality(At(y, kinds)) + (IF e.kind \in kinds THEN 1 ELSE 0)

LEMMA OneMoreAt ==
  ASSUME NEW y \in Seq(CallEvents), NEW e \in CallEvents, NEW z, z = Append(y, e), NEW kinds
  PROVE  Adds(z, y, e, kinds)
<1>1. PICK n, S : n = Len(y) /\ S = At(y, kinds)
  OBVIOUS
<1>2. n \in Nat /\ DOMAIN y = 1 .. n /\ DOMAIN z = 1 .. n + 1 /\ Len(z) = n + 1
  BY <1>1, OneMore
<1>3. z[n + 1] = e /\ \A i \in 1 .. n : z[i] = y[i]
  BY <1>1, <1>2, OneMore
<1>4. ASSUME NEW i \in 1 .. n + 1 PROVE i \in 1 .. n \/ i = n + 1
  BY <1>2
<1>5. 1 .. n \subseteq 1 .. n + 1 /\ n + 1 \in 1 .. n + 1
  BY <1>2
<1>6. At(z, kinds) = IF e.kind \in kinds THEN S \cup {n + 1} ELSE S
  BY <1>1, <1>2, <1>3, <1>4, <1>5 DEF At
<1>7. S \subseteq 1 .. n /\ IsFiniteSet(S) /\ Cardinality(S) \in Nat
  BY <1>1, PlacesIn, FS_CardinalityType
<1>8. n + 1 \notin S
  BY <1>2, <1>7
<1>9. Cardinality(S \cup {n + 1}) = Cardinality(S) + 1
  BY <1>7, <1>8, FS_AddElement
<1>10. Cardinality(At(z, kinds)) = Cardinality(S) + (IF e.kind \in kinds THEN 1 ELSE 0)
  BY <1>6, <1>7, <1>9
<1> QED BY <1>1, <1>6, <1>10 DEF Adds

\* What is said last is true.
EndOK(e, count, asked) ==
  /\ e \in CallEvents /\ e.kind \in EndKinds
  /\ e.timedOut <=> e.code = "timeout"
  /\ e.kind = "cancelled" => e.aborted
  /\ e.kind = "completed" \/ e.code \in {"invalid_output", "limit_exceeded"} => ~e.aborted
  /\ e.usage = count
  /\ e.kind = "completed" /\ asked => e.structured

\* The start of the tool that is in use is the last word about tools.
StartedOK(y, tool) ==
  tool \notin Internal \cup {"none"} =>
    \E k \in At(y, {"tool_started"}) : y[k].tool = tool /\ \A i \in At(y, ToolKinds) : i <= k

\* What is known while the call goes on.
ToldOK(y, count) ==
  /\ y \in Seq(CallEvents) /\ count \in Nat /\ count = Cardinality(At(y, {"usage"}))
  /\ ResultsFollow(y)

GoingOn == {"new", "started", "health", "agent"}

CallInv ==
  /\ invocation \in Invocations /\ aborted \in BOOLEAN /\ repairs \in Nat
  /\ timer \in {"none", "armed", "fired", "cleared"}
  /\ phase \in GoingOn \cup {"ending", "done"}
  /\ ToldOK(yielded, usage)
  /\ phase \in {"new", "started", "health"} => timer = "none" /\ usage = 0
  /\ phase \in GoingOn => At(yielded, EndKinds) = {} /\ StartedOK(yielded, use)
  /\ phase \in {"ending", "done"} =>
       At(yielded, EndKinds) = {Len(yielded)} /\ EndOK(Last(yielded), usage, invocation.structured)
  /\ phase \in GoingOn => repairs <= 1
  /\ phase = "done" => timer # "armed"

LEMMA CallStart == ProviderCallInit => CallInv
<1> SUFFICES ASSUME ProviderCallInit PROVE CallInv
  OBVIOUS
<1>1. \A kinds : At(<<>>, kinds) = {}
  BY DEF At
<1>2. Cardinality({}) = 0
  BY FS_EmptySet
<1>3. yielded = <<>> /\ <<>> \in Seq(CallEvents) /\ usage = 0 /\ use = "none"
  BY DEF ProviderCallInit
<1>4. ToldOK(yielded, usage)
  BY <1>1, <1>2, <1>3 DEF ToldOK, ResultsFollow
<1>5. StartedOK(yielded, use) /\ At(yielded, EndKinds) = {}
  BY <1>1, <1>3 DEF StartedOK
<1> QED BY <1>3, <1>4, <1>5 DEF ProviderCallInit, CallInv, GoingOn


\* An event that is no result of a tool leaves the results where they are.
LEMMA MoreFollow ==
  ASSUME NEW y \in Seq(CallEvents), ResultsFollow(y), NEW e \in CallEvents, NEW z, z = Append(y, e),
         e.kind = "tool_result" =>
           \E k \in At(y, {"tool_started"}) : y[k].tool = e.tool /\ \A i \in At(y, ToolKinds) : i <= k
  PROVE  ResultsFollow(z)
<1>1. PICK n : n = Len(y)
  OBVIOUS
<1>2. n \in Nat /\ Len(z) = n + 1 /\ z[n + 1] = e /\ \A i \in 1 .. n : z[i] = y[i]
  BY <1>1, OneMore
<1>3. ASSUME NEW kinds
      PROVE  /\ At(y, kinds) \subseteq 1 .. n /\ At(y, kinds) \subseteq At(z, kinds)
             /\ At(z, kinds) \subseteq At(y, kinds) \cup {n + 1}
             /\ n + 1 \in At(z, kinds) => e.kind \in kinds
  <2>1. n + 1 \notin At(y, kinds) /\ At(y, kinds) \subseteq 1 .. n
    BY <1>1, <1>2, PlacesIn
  <2>2. Adds(z, y, e, kinds)
    BY OneMoreAt
  <2> QED BY <1>1, <2>1, <2>2 DEF Adds
<1> SUFFICES ASSUME NEW i \in At(z, {"tool_result"})
             PROVE  \E k \in At(z, {"tool_started"}) :
                      k < i /\ z[k].tool = z[i].tool /\ At(z, ToolKinds) \cap (k + 1 .. i - 1) = {}
  BY DEF ResultsFollow
<1>4. CASE i \in At(y, {"tool_result"})
  <2>1. PICK k \in At(y, {"tool_started"}) :
          k < i /\ y[k].tool = y[i].tool /\ At(y, ToolKinds) \cap (k + 1 .. i - 1) = {}
    BY <1>4 DEF ResultsFollow
  <2>2. k \in 1 .. n /\ i \in 1 .. n /\ k \in At(z, {"tool_started"})
    BY <1>3, <1>4
  <2>3. At(z, ToolKinds) \cap (k + 1 .. i - 1) = {}
    <3>1. n + 1 \notin k + 1 .. i - 1
      BY <1>2, <2>2
    <3> QED BY <1>3, <2>1, <3>1
  <2> QED BY <1>2, <2>1, <2>2, <2>3
<1>5. CASE i = n + 1
  <2>1. e.kind = "tool_result"
    BY <1>3, <1>5
  <2>2. PICK k \in At(y, {"tool_started"}) : y[k].tool = e.tool /\ \A j \in At(y, ToolKinds) : j <= k
    BY <2>1
  <2>3. k \in 1 .. n /\ k \in At(z, {"tool_started"})
    BY <1>3
  <2>4. At(z, ToolKinds) \cap (k + 1 .. i - 1) = {}
    <3> SUFFICES ASSUME NEW j \in At(z, ToolKinds), j \in k + 1 .. i - 1 PROVE FALSE
      OBVIOUS
    <3>1. j \in At(y, ToolKinds) \/ j = n + 1
      BY <1>3
    <3>2. j # n + 1
      BY <1>2, <1>5, <2>3
    <3>3. j <= k
      BY <2>2, <3>1, <3>2
    <3> QED BY <2>3, <3>3
  <2> QED BY <1>2, <1>5, <2>2, <2>3, <2>4
<1> QED BY <1>3, <1>4, <1>5

LEMMA MoreTold ==
  ASSUME NEW y, NEW count, ToldOK(y, count), NEW e \in CallEvents, NEW z, z = Append(y, e), NEW total,
         total = count + (IF e.kind = "usage" THEN 1 ELSE 0),
         e.kind = "tool_result" =>
           \E k \in At(y, {"tool_started"}) : y[k].tool = e.tool /\ \A i \in At(y, ToolKinds) : i <= k
  PROVE  ToldOK(z, total)
<1>1. y \in Seq(CallEvents) /\ count \in Nat /\ count = Cardinality(At(y, {"usage"})) /\ ResultsFollow(y)
  BY DEF ToldOK
<1>2. z \in Seq(CallEvents) /\ ResultsFollow(z)
  BY <1>1, OneMore, MoreFollow
<1>3. PICK kinds : kinds = {"usage"}
  OBVIOUS
<1>4. Adds(z, y, e, kinds)
  BY <1>1, OneMoreAt
<1>5. total \in Nat /\ total = Cardinality(At(z, {"usage"}))
  BY <1>1, <1>3, <1>4 DEF Adds
<1> QED BY <1>2, <1>5 DEF ToldOK

\* An event that is not about tools leaves the start where it is.
LEMMA StartStays ==
  ASSUME NEW y \in Seq(CallEvents), NEW tool, StartedOK(y, tool),
         NEW e \in CallEvents, NEW z, z = Append(y, e), e.kind \notin ToolKinds
  PROVE  StartedOK(z, tool)
<1> SUFFICES ASSUME tool \notin Internal \cup {"none"}
             PROVE  \E k \in At(z, {"tool_started"}) : z[k].tool = tool /\ \A i \in At(z, ToolKinds) : i <= k
  BY DEF StartedOK
<1>1. PICK k \in At(y, {"tool_started"}) : y[k].tool = tool /\ \A i \in At(y, ToolKinds) : i <= k
  BY DEF StartedOK
<1>2. At(z, ToolKinds) = At(y, ToolKinds) /\ At(z, {"tool_started"}) = At(y, {"tool_started"})
  <2>1. Adds(z, y, e, ToolKinds) /\ Adds(z, y, e, {"tool_started"})
    BY OneMoreAt
  <2> QED BY <2>1 DEF Adds, ToolKinds
<1>3. z[k] = y[k]
  BY OneMore, PlacesIn
<1> QED BY <1>1, <1>2, <1>3

\* A tool starts.
LEMMA StartIs ==
  ASSUME NEW y \in Seq(CallEvents), NEW e \in CallEvents, e.kind = "tool_started", NEW z, z = Append(y, e)
  PROVE  StartedOK(z, e.tool)
<1>1. Len(z) \in At(z, {"tool_started"}) /\ z[Len(z)] = e
  <2>1. Adds(z, y, e, {"tool_started"})
    BY OneMoreAt
  <2> QED BY <2>1, OneMore DEF Adds
<1>2. z \in Seq(CallEvents)
  BY OneMore
<1>3. ASSUME NEW i \in At(z, ToolKinds) PROVE i <= Len(z)
  <2>1. i \in 1 .. Len(z)
    BY <1>2, PlacesIn
  <2> QED BY <1>2, <2>1
<1> QED BY <1>1, <1>3 DEF StartedOK

\* The call goes on, having told one more thing.
LEMMA GoesOn ==
  ASSUME CallInv, phase \in GoingOn, NEW e \in CallEvents, e.kind \notin EndKinds,
         yielded' = Append(yielded, e), phase' \in GoingOn, ToldOK(yielded', usage'), StartedOK(yielded', use'),
         UNCHANGED <<invocation, aborted, timer>>, repairs' \in Nat, repairs' <= 1,
         phase' \in {"new", "started", "health"} => timer = "none" /\ usage' = 0
  PROVE  CallInv'
<1>1. yielded \in Seq(CallEvents)
  BY DEF CallInv, ToldOK
<1>2. At(yielded', EndKinds) = At(yielded, EndKinds)
  <2>1. PICK y, z : y = yielded /\ z = yielded'
    OBVIOUS
  <2>2. Adds(z, y, e, EndKinds)
    BY <1>1, <2>1, OneMoreAt
  <2> QED BY <2>1, <2>2 DEF Adds
<1>3. At(yielded', EndKinds) = {}
  BY <1>2 DEF CallInv
<1> QED BY <1>3 DEF CallInv, GoingOn

\* It comes to an end.
LEMMA ComesToEnd ==
  ASSUME CallInv, phase \in GoingOn, NEW e, EndOK(e, usage, invocation.structured), EndWith(e),
         UNCHANGED <<invocation, aborted, usage>>, timer' \in {"none", "armed", "fired", "cleared"}, repairs' \in Nat
  PROVE  CallInv'
<1>1. PICK y, z : y = yielded /\ z = yielded'
  OBVIOUS
<1>2. y \in Seq(CallEvents) /\ ToldOK(y, usage) /\ At(y, EndKinds) = {} /\ usage \in Nat
  BY <1>1 DEF CallInv, ToldOK
<1>3. e \in CallEvents /\ e.kind \in EndKinds /\ z = Append(y, e) /\ phase' = "ending"
  BY <1>1 DEF EndWith, EndOK
<1>4. At(z, EndKinds) = {Len(z)} /\ Last(z) = e
  <2>1. Adds(z, y, e, EndKinds)
    BY <1>2, <1>3, OneMoreAt
  <2>2. Len(z) = Len(y) + 1 /\ Last(z) = e
    BY <1>2, <1>3, OneMore
  <2> QED BY <1>2, <1>3, <2>1, <2>2 DEF Adds
<1>5. e.kind # "usage" /\ e.kind # "tool_result"
  BY <1>3 DEF EndKinds
<1>6. ToldOK(z, usage)
  <2>1. usage = usage + (IF e.kind = "usage" THEN 1 ELSE 0)
    BY <1>2, <1>5
  <2> QED BY <1>2, <1>3, <1>5, <2>1, MoreTold
<1>7. EndOK(Last(z), usage', invocation'.structured)
  BY <1>4
<1> QED BY <1>1, <1>3, <1>4, <1>6, <1>7 DEF CallInv, GoingOn


\* What a call may end with, without the signals having a word in it.
Ended(e) == EndOK(e, usage, invocation.structured) /\ EndWith(e)

LEMMA FailOK ==
  ASSUME aborted \in BOOLEAN, usage \in Nat, NEW code \in Codes, FailCall(code, usage),
         TimedOut <=> code = "timeout", code \in {"invalid_output", "limit_exceeded"} => ~aborted
  PROVE  \E e : Ended(e)
<1>1. PICK e : e = Ending("failed", code, usage, FALSE)
  OBVIOUS
<1>2. EndWith(e)
  BY <1>1 DEF FailCall
<1>3. PICK fired \in BOOLEAN : fired = TimedOut
  BY DEF TimedOut
<1>4. e = [kind |-> "failed", code |-> code, usage |-> usage, structured |-> FALSE,
           aborted |-> aborted, timedOut |-> fired]
  BY <1>1, <1>3 DEF Ending
<1>5. e \in CallEvents
  BY <1>3, <1>4 DEF CallEvents, EndKinds
<1>6. EndOK(e, usage, invocation.structured)
  BY <1>3, <1>4, <1>5 DEF EndOK, EndKinds
<1> QED BY <1>2, <1>6 DEF Ended

LEMMA CancelOK ==
  ASSUME aborted \in BOOLEAN, usage \in Nat, CancelCall(usage), ~TimedOut, aborted PROVE \E e : Ended(e)
<1>1. PICK e : e = Ending("cancelled", "none", usage, FALSE)
  OBVIOUS
<1>2. EndWith(e)
  BY <1>1 DEF CancelCall
<1>3. PICK fired \in BOOLEAN : fired = TimedOut
  BY DEF TimedOut
<1>4. e = [kind |-> "cancelled", code |-> "none", usage |-> usage, structured |-> FALSE,
           aborted |-> aborted, timedOut |-> fired]
  BY <1>1, <1>3 DEF Ending
<1>5. e \in CallEvents
  BY <1>3, <1>4 DEF CallEvents, EndKinds, Codes
<1>6. EndOK(e, usage, invocation.structured)
  BY <1>3, <1>4, <1>5 DEF EndOK, EndKinds
<1> QED BY <1>2, <1>6 DEF Ended

LEMMA InterruptOK ==
  ASSUME aborted \in BOOLEAN, usage \in Nat, Signalled, InterruptCall PROVE \E e : Ended(e)
<1>1. CASE TimedOut
  <2>1. FailCall("timeout", usage) /\ "timeout" \in Codes /\ "timeout" \notin {"invalid_output", "limit_exceeded"}
    BY <1>1 DEF InterruptCall, Codes
  <2> QED BY <1>1, <2>1, FailOK
<1>2. CASE ~TimedOut
  BY <1>2, CancelOK DEF InterruptCall, Signalled
<1> QED BY <1>1, <1>2

LEMMA ThrownOK ==
  ASSUME aborted \in BOOLEAN, usage \in Nat, NEW code \in Codes, code # "timeout", Thrown(code) PROVE \E e : Ended(e)
<1>1. CASE Signalled
  BY <1>1, InterruptOK DEF Thrown
<1>2. CASE ~Signalled
  BY <1>2, FailOK DEF Thrown, Signalled
<1> QED BY <1>1, <1>2

LEMMA CompleteOK ==
  ASSUME aborted \in BOOLEAN, usage \in Nat, invocation \in Invocations, ~Signalled,
         EndWith(Ending("completed", "none", usage, invocation.structured))
  PROVE  \E e : Ended(e)
<1>1. PICK e : e = Ending("completed", "none", usage, invocation.structured)
  OBVIOUS
<1>2. EndWith(e)
  BY <1>1
<1>3. ~TimedOut /\ ~aborted /\ invocation.structured \in BOOLEAN
  BY DEF Invocations, Signalled
<1>4. PICK asked \in BOOLEAN : asked = invocation.structured
  BY <1>3
<1>5. e = [kind |-> "completed", code |-> "none", usage |-> usage, structured |-> asked,
           aborted |-> FALSE, timedOut |-> FALSE]
  BY <1>1, <1>3, <1>4 DEF Ending, TimedOut
<1>6. e \in CallEvents
  BY <1>4, <1>5 DEF CallEvents, EndKinds, Codes
<1>7. EndOK(e, usage, asked)
  BY <1>5, <1>6 DEF EndOK, EndKinds
<1> QED BY <1>2, <1>4, <1>7 DEF Ended

\* A step that ends the call.
LEMMA EndKeeps ==
  ASSUME CallInv, phase \in GoingOn, \E e : Ended(e),
         UNCHANGED <<invocation, aborted, usage>>, timer' \in {"none", "armed", "fired", "cleared"}, repairs' \in Nat
  PROVE  CallInv'
BY ComesToEnd DEF Ended

\* An event that is neither about tools nor a usage.
LEMMA Unremarkable ==
  ASSUME CallInv, phase \in GoingOn, NEW e \in CallEvents, e.kind \notin EndKinds \cup ToolKinds, e.kind # "usage",
         yielded' = Append(yielded, e), phase' \in GoingOn,
         UNCHANGED <<invocation, aborted, timer, use, repairs, usage>>,
         phase' \in {"new", "started", "health"} => timer = "none" /\ usage = 0,
         repairs <= 1
  PROVE  CallInv'
<1>1. PICK y, z, count, tool : y = yielded /\ z = yielded' /\ count = usage /\ tool = use
  OBVIOUS
<1>2. y \in Seq(CallEvents) /\ count \in Nat /\ ToldOK(y, count) /\ StartedOK(y, tool)
  BY <1>1 DEF CallInv, ToldOK
<1>3. e.kind # "tool_result" /\ e.kind \notin ToolKinds /\ e.kind \notin EndKinds
  BY DEF ToolKinds
<1>4. count = count + (IF e.kind = "usage" THEN 1 ELSE 0)
  BY <1>2
<1>5. ToldOK(z, count)
  BY <1>1, <1>2, <1>3, <1>4, MoreTold
<1>6. StartedOK(z, tool)
  BY <1>1, <1>2, <1>3, StartStays
<1>7. ToldOK(yielded', usage') /\ StartedOK(yielded', use')
  BY <1>1, <1>5, <1>6
<1>8. repairs' \in Nat /\ repairs' <= 1
  BY DEF CallInv
<1> QED BY <1>3, <1>7, <1>8, GoesOn

LEMMA CallBeginsKeeps == ASSUME CallInv, CallBegins PROVE CallInv'
<1>1. /\ phase = "new" /\ timer = "none" /\ usage = 0 /\ ~TimedOut /\ phase \in GoingOn
      /\ UNCHANGED <<invocation, provider, aborted, timer, use, repairs, usage, spoke, steps>>
  BY DEF CallBegins, CallInv, TimedOut, GoingOn
<1>2. /\ aborted \in BOOLEAN /\ timer \in {"none", "armed", "fired", "cleared"} /\ repairs \in Nat /\ usage \in Nat
      /\ repairs <= 1
  BY <1>1 DEF CallInv
<1>3. CASE FailCall("provider_failure", 0)
  <2>1. /\ FailCall("provider_failure", usage) /\ "provider_failure" \in Codes
        /\ "provider_failure" \notin {"timeout", "invalid_output", "limit_exceeded"}
    BY <1>1, <1>3 DEF Codes
  <2>2. \E e : Ended(e)
    BY <1>1, <1>2, <2>1, FailOK
  <2> QED BY <1>1, <1>2, <2>2, EndKeeps
<1>4. CASE aborted /\ CancelCall(0)
  BY <1>1, <1>2, <1>4, CancelOK, EndKeeps
<1>5. CASE phase' = "started" /\ yielded' = Append(yielded, [kind |-> "started"])
  <2>1. PICK e : e = [kind |-> "started"]
    OBVIOUS
  <2>2. e \in CallEvents /\ e.kind \notin EndKinds \cup ToolKinds /\ e.kind # "usage"
    BY <2>1 DEF CallEvents, EndKinds, ToolKinds
  <2>3. yielded' = Append(yielded, e) /\ phase' \in GoingOn
    BY <1>5, <2>1 DEF GoingOn
  <2> QED BY <1>1, <1>2, <1>5, <2>2, <2>3, Unremarkable
<1> QED BY <1>3, <1>4, <1>5 DEF CallBegins

\* Nothing is told.
LEMMA NothingTold ==
  ASSUME CallInv, UNCHANGED <<invocation, usage, yielded>>, phase \in GoingOn, phase' \in GoingOn,
         aborted' \in BOOLEAN, timer' \in {"none", "armed", "fired", "cleared"}, repairs' \in Nat,
         phase' \in {"new", "started", "health"} => timer' = "none" /\ usage = 0,
         repairs' <= 1, use' = use \/ use' \in Internal \cup {"none"}
  PROVE  CallInv'
<1>1. StartedOK(yielded, use')
  BY DEF CallInv, StartedOK
<1> QED BY <1>1 DEF CallInv, GoingOn


LEMMA EarlyFail ==
  ASSUME CallInv, phase \in {"new", "started", "health"}, NEW code \in Codes,
         code \notin {"timeout", "invalid_output", "limit_exceeded"}, FailCall(code, 0),
         UNCHANGED <<invocation, aborted, usage, repairs>>, timer' \in {"none", "armed"}
  PROVE  CallInv'
<1>1. usage = 0 /\ ~TimedOut /\ aborted \in BOOLEAN /\ usage \in Nat /\ repairs' \in Nat /\ phase \in GoingOn
  BY DEF CallInv, TimedOut, GoingOn
<1>2. FailCall(code, usage)
  BY <1>1
<1>3. \E e : Ended(e)
  BY <1>1, <1>2, FailOK
<1> QED BY <1>1, <1>3, EndKeeps

LEMMA PreflightKeeps == ASSUME CallInv, Preflight PROVE CallInv'
<1>1. /\ phase = "started" /\ phase \in GoingOn
      /\ UNCHANGED <<invocation, provider, aborted, timer, use, repairs, usage, spoke, steps>>
  BY DEF Preflight, GoingOn
<1>2. timer = "none" /\ usage = 0 /\ aborted \in BOOLEAN /\ repairs \in Nat /\ repairs <= 1
  BY <1>1 DEF CallInv
<1>3. ASSUME NEW code \in {"provider_unavailable", "disabled"}, FailCall(code, 0) PROVE CallInv'
  <2>1. code \in Codes /\ code \notin {"timeout", "invalid_output", "limit_exceeded"}
    BY DEF Codes
  <2> QED BY <1>1, <1>2, <1>3, <2>1, EarlyFail
<1>4. CASE phase' = "health" /\ UNCHANGED yielded
  BY <1>1, <1>2, <1>4, NothingTold DEF GoingOn
<1>5. \/ FailCall("provider_unavailable", 0) \/ FailCall("disabled", 0)
      \/ phase' = "health" /\ UNCHANGED yielded
  BY DEF Preflight
<1> QED BY <1>3, <1>4, <1>5

LEMMA UnhealthyKeeps == ASSUME CallInv, NEW health, Unhealthy(health) PROVE CallInv'
<1>1. /\ phase = "health" /\ UNCHANGED <<invocation, provider, aborted, timer, use, repairs, usage, spoke, steps>>
  BY DEF Unhealthy
<1>2. timer = "none"
  BY <1>1 DEF CallInv
<1>3. PICK code : code = CASE health = "throws" -> "provider_failure"
                           [] health = "disabled" -> "disabled"
                           [] OTHER -> "provider_unavailable"
  OBVIOUS
<1>4. code \in Codes /\ code \notin {"timeout", "invalid_output", "limit_exceeded"} /\ FailCall(code, 0)
  BY <1>3 DEF Unhealthy, Codes
<1> QED BY <1>1, <1>2, <1>4, EarlyFail

LEMMA HealthyKeeps == ASSUME CallInv, Healthy PROVE CallInv'
<1>1. /\ phase = "health" /\ phase \in GoingOn
      /\ UNCHANGED <<invocation, provider, aborted, use, repairs, usage, spoke, steps>>
  BY DEF Healthy, GoingOn
<1>2. timer = "none" /\ usage = 0 /\ aborted \in BOOLEAN /\ repairs \in Nat /\ repairs <= 1
  BY <1>1 DEF CallInv
<1>3. ASSUME NEW code \in {"tool_denied", "provider_unavailable", "provider_failure"}, FailCall(code, 0),
             timer' \in {"none", "armed"}
      PROVE  CallInv'
  <2>1. code \in Codes /\ code \notin {"timeout", "invalid_output", "limit_exceeded"}
    BY DEF Codes
  <2> QED BY <1>1, <1>2, <1>3, <2>1, EarlyFail
<1>4. CASE timer' = "armed" /\ phase' = "agent" /\ UNCHANGED yielded
  <2>1. repairs <= 1
    BY <1>1 DEF CallInv
  <2> QED BY <1>1, <1>2, <1>4, <2>1, NothingTold DEF GoingOn
<1>5. \/ FailCall("tool_denied", 0) /\ UNCHANGED timer
      \/ FailCall("provider_unavailable", 0) /\ UNCHANGED timer
      \/ FailCall("provider_failure", 0) /\ timer' = "armed"
      \/ timer' = "armed" /\ phase' = "agent" /\ UNCHANGED yielded
  BY DEF Healthy
<1> QED BY <1>2, <1>3, <1>4, <1>5

LEMMA TextKeeps == ASSUME CallInv, Text PROVE CallInv'
<1>1. /\ phase = "agent" /\ phase' = "agent" /\ phase \in GoingOn
      /\ UNCHANGED <<invocation, provider, aborted, timer, use, repairs, usage>>
  BY DEF Text, AgentStep, Pass, GoingOn
<1>2. PICK e : e = [kind |-> "text_delta"]
  OBVIOUS
<1>3. e \in CallEvents /\ e.kind \notin EndKinds \cup ToolKinds /\ e.kind # "usage"
  BY <1>2 DEF CallEvents, EndKinds, ToolKinds
<1>4. yielded' = Append(yielded, e)
  BY <1>2 DEF Text, Pass
<1>5. repairs <= 1
  BY <1>1 DEF CallInv
<1> QED BY <1>1, <1>3, <1>4, <1>5, Unremarkable

LEMMA UsageKeeps == ASSUME CallInv, Usage PROVE CallInv'
<1>1. /\ phase = "agent" /\ phase' = "agent" /\ phase \in GoingOn /\ usage' = usage + 1
      /\ UNCHANGED <<invocation, provider, aborted, timer, use, repairs>>
  BY DEF Usage, AgentStep, Pass, GoingOn
<1>2. PICK e : e = [kind |-> "usage"]
  OBVIOUS
<1>3. e \in CallEvents /\ e.kind = "usage" /\ e.kind \notin EndKinds /\ e.kind \notin ToolKinds /\ e.kind # "tool_result"
  BY <1>2 DEF CallEvents, EndKinds, ToolKinds
<1>4. yielded' = Append(yielded, e)
  BY <1>2 DEF Usage, Pass
<1>5. PICK y, z, count, total, tool : y = yielded /\ z = yielded' /\ count = usage /\ total = usage' /\ tool = use
  OBVIOUS
<1>6. y \in Seq(CallEvents) /\ ToldOK(y, count) /\ StartedOK(y, tool)
  BY <1>1, <1>5 DEF CallInv, ToldOK
<1>7. total = count + (IF e.kind = "usage" THEN 1 ELSE 0)
  BY <1>1, <1>3, <1>5
<1>8. ToldOK(z, total)
  BY <1>3, <1>4, <1>5, <1>6, <1>7, MoreTold
<1>9. StartedOK(z, tool)
  BY <1>3, <1>4, <1>5, <1>6, StartStays
<1>10. ToldOK(yielded', usage') /\ StartedOK(yielded', use')
  BY <1>1, <1>5, <1>8, <1>9
<1>11. repairs' \in Nat /\ repairs' <= 1 /\ phase' \in GoingOn
  BY <1>1 DEF CallInv
<1> QED BY <1>1, <1>3, <1>4, <1>10, <1>11, GoesOn

LEMMA ToolStartsKeeps ==
  ASSUME CallInv, NEW name \in Tools \cup {Foreign} \cup Internal, ToolStarts(name) PROVE CallInv'
<1>1. /\ phase = "agent" /\ phase' = "agent" /\ phase \in GoingOn /\ use' = name
      /\ UNCHANGED <<invocation, provider, aborted, timer, repairs, usage>>
  BY DEF ToolStarts, AgentStep, Pass, Keep, GoingOn
<1>2. repairs \in Nat /\ repairs <= 1 /\ aborted \in BOOLEAN /\ timer \in {"none", "armed", "fired", "cleared"}
  BY <1>1 DEF CallInv
<1>3. CASE name \in Internal
  <2>1. UNCHANGED yielded
    BY <1>3 DEF ToolStarts, Keep
  <2> QED BY <1>1, <1>2, <1>3, <2>1, NothingTold
<1>4. CASE name \notin Internal
  <2>1. PICK e : e = [kind |-> "tool_started", tool |-> name]
    OBVIOUS
  <2>2. /\ e \in CallEvents /\ e.kind = "tool_started" /\ e.kind \notin EndKinds /\ e.kind # "usage"
        /\ e.kind # "tool_result" /\ e.tool = name
    <3>1. name \in Tools \cup {Foreign}
      BY <1>4
    <3>2. "tool_started" \in ToolKinds
      BY DEF ToolKinds
    <3>3. e \in [kind : ToolKinds, tool : Tools \cup {Foreign}]
      BY <2>1, <3>1, <3>2
    <3>4. e.kind = "tool_started" /\ e.tool = name
      BY <2>1
    <3>5. "tool_started" \notin EndKinds
      BY DEF EndKinds
    <3> QED BY <3>3, <3>4, <3>5 DEF CallEvents
  <2>3. yielded' = Append(yielded, e)
    BY <1>4, <2>1 DEF ToolStarts, Pass
  <2>4. PICK y, z, count : y = yielded /\ z = yielded' /\ count = usage
    OBVIOUS
  <2>5. y \in Seq(CallEvents) /\ ToldOK(y, count) /\ count \in Nat
    BY <2>4 DEF CallInv, ToldOK
  <2>6. count = count + (IF e.kind = "usage" THEN 1 ELSE 0)
    BY <2>2, <2>5
  <2>7. ToldOK(z, count)
    BY <2>2, <2>3, <2>4, <2>5, <2>6, MoreTold
  <2>8. StartedOK(z, e.tool)
    BY <2>2, <2>3, <2>4, <2>5, StartIs
  <2>9. ToldOK(yielded', usage') /\ StartedOK(yielded', use')
    BY <1>1, <2>2, <2>4, <2>7, <2>8
  <2> QED BY <1>1, <1>2, <2>2, <2>3, <2>9, GoesOn
<1> QED BY <1>3, <1>4

LEMMA ToolEndsKeeps == ASSUME CallInv, NEW status, ToolEnds(status) PROVE CallInv'
<1>1. PICK failures : failures = repairs + (IF use = "structured" /\ status = "error" THEN 1 ELSE 0)
  OBVIOUS
<1>2. /\ phase = "agent" /\ phase \in GoingOn /\ use # "none" /\ use' = "none" /\ repairs' = failures
      /\ UNCHANGED <<invocation, provider, aborted, timer, usage, spoke>>
      /\ IF Exhausted(failures) THEN Thrown("invalid_output")
         ELSE IF use \in Internal THEN Keep ELSE Pass([kind |-> "tool_result", tool |-> use])
  BY <1>1 DEF ToolEnds, AgentStep, GoingOn
<1>3. repairs \in Nat /\ aborted \in BOOLEAN /\ timer \in {"none", "armed", "fired", "cleared"} /\ usage \in Nat
  BY DEF CallInv, ToldOK
<1>4. failures \in Nat
  BY <1>1, <1>3
<1>5. CASE Exhausted(failures)
  <2>1. "invalid_output" \in Codes /\ "invalid_output" # "timeout"
    BY DEF Codes
  <2>2. \E e : Ended(e)
    BY <1>2, <1>3, <1>5, <2>1, ThrownOK
  <2> QED BY <1>2, <1>3, <1>4, <2>2, EndKeeps
<1>6. CASE ~Exhausted(failures) /\ use \in Internal
  <2>1. phase' = "agent" /\ UNCHANGED yielded
    BY <1>2, <1>6 DEF Keep
  <2>2. repairs' <= 1
    BY <1>2, <1>4, <1>6 DEF Exhausted
  <2> QED BY <1>2, <1>3, <1>4, <2>1, <2>2, NothingTold
<1>7. CASE ~Exhausted(failures) /\ use \notin Internal
  <2>1. PICK e, tool : e = [kind |-> "tool_result", tool |-> use] /\ tool = use
    OBVIOUS
  <2>2. phase' = "agent" /\ yielded' = Append(yielded, e)
    BY <1>2, <1>7, <2>1 DEF Pass
  <2>3. repairs' <= 1
    BY <1>2, <1>4, <1>7 DEF Exhausted
  <2>4. PICK y, z, count : y = yielded /\ z = yielded' /\ count = usage
    OBVIOUS
  <2>5. y \in Seq(CallEvents) /\ ToldOK(y, count) /\ count \in Nat /\ StartedOK(y, tool)
    BY <1>2, <2>1, <2>4 DEF CallInv, ToldOK
  <2>6. PICK k \in At(y, {"tool_started"}) : y[k].tool = tool /\ \A i \in At(y, ToolKinds) : i <= k
    BY <1>2, <1>7, <2>1, <2>5 DEF StartedOK
  <2>7. tool \in Tools \cup {Foreign}
    <3>1. k \in 1 .. Len(y) /\ y[k].kind = "tool_started"
      BY <2>5, <2>6, PlacesIn DEF At
    <3>2. y[k] \in CallEvents
      BY <2>5, <3>1, ElementOfSeq
    <3>3. PICK o : o = y[k]
      OBVIOUS
    <3>4. o.tool \in Tools \cup {Foreign}
      BY <3>1, <3>2, <3>3 DEF CallEvents, EndKinds
    <3> QED BY <2>6, <3>3, <3>4
  <2>8. /\ e \in CallEvents /\ e.kind = "tool_result" /\ e.kind \notin EndKinds /\ e.kind # "usage" /\ e.tool = tool
    BY <2>1, <2>7 DEF CallEvents, EndKinds, ToolKinds
  <2>9. count = count + (IF e.kind = "usage" THEN 1 ELSE 0)
    BY <2>5, <2>8
  <2>10. \E i \in At(y, {"tool_started"}) : y[i].tool = e.tool /\ \A j \in At(y, ToolKinds) : j <= i
    BY <2>6, <2>8
  <2>11. ToldOK(z, count)
    BY <2>2, <2>4, <2>5, <2>8, <2>9, <2>10, MoreTold
  <2>12. ToldOK(yielded', usage') /\ StartedOK(yielded', use')
    BY <1>2, <2>4, <2>11 DEF StartedOK
  <2> QED BY <1>2, <1>4, <2>2, <2>3, <2>8, <2>12, GoesOn
<1> QED BY <1>5, <1>6, <1>7

LEMMA AgentEndsKeeps ==
  ASSUME CallInv, NEW stop, NEW output, NEW parses, AgentEnds(stop, output, parses) PROVE CallInv'
<1>1. /\ phase = "agent" /\ phase \in GoingOn /\ (stop = "cancelled" => Signalled)
      /\ UNCHANGED <<invocation, provider, aborted, timer, use, repairs, usage, spoke, steps>>
  BY DEF AgentEnds, GoingOn
<1>2. /\ repairs \in Nat /\ aborted \in BOOLEAN /\ timer \in {"none", "armed", "fired", "cleared"}
      /\ usage \in Nat /\ invocation \in Invocations
  BY DEF CallInv, ToldOK
<1>3. \/ Interrupted(stop) /\ InterruptCall
      \/ ~Interrupted(stop) /\ FailCall("invalid_output", usage)
      \/ ~Interrupted(stop) /\ FailCall("limit_exceeded", usage)
      \/ ~Interrupted(stop) /\ EndWith(Ending("completed", "none", usage, invocation.structured))
  BY DEF AgentEnds
<1>4. Interrupted(stop) => Signalled
  BY <1>1 DEF Interrupted
<1>5. ~Interrupted(stop) => ~Signalled /\ ~TimedOut /\ ~aborted
  BY DEF Interrupted, Signalled
<1>6. \E e : Ended(e)
  <2>1. CASE Interrupted(stop) /\ InterruptCall
    BY <1>2, <1>4, <2>1, InterruptOK
  <2>2. ASSUME NEW code \in {"invalid_output", "limit_exceeded"}, ~Interrupted(stop), FailCall(code, usage)
        PROVE  \E e : Ended(e)
    <3>1. code \in Codes /\ code # "timeout"
      BY DEF Codes
    <3> QED BY <1>2, <1>5, <2>2, <3>1, FailOK
  <2>3. CASE ~Interrupted(stop) /\ EndWith(Ending("completed", "none", usage, invocation.structured))
    BY <1>2, <1>5, <2>3, CompleteOK
  <2> QED BY <1>3, <2>1, <2>2, <2>3
<1> QED BY <1>1, <1>2, <1>6, EndKeeps

LEMMA AgentThrowsKeeps ==
  ASSUME CallInv, NEW code \in {"provider_failure", "invalid_output", "limit_exceeded"}, AgentThrows(code)
  PROVE  CallInv'
<1>1. /\ phase = "agent" /\ phase \in GoingOn /\ Thrown(code)
      /\ UNCHANGED <<invocation, provider, aborted, timer, use, repairs, usage, spoke, steps>>
  BY DEF AgentThrows, GoingOn
<1>2. /\ repairs \in Nat /\ aborted \in BOOLEAN /\ timer \in {"none", "armed", "fired", "cleared"} /\ usage \in Nat
  BY DEF CallInv, ToldOK
<1>3. code \in Codes /\ code # "timeout"
  BY DEF Codes
<1>4. \E e : Ended(e)
  BY <1>1, <1>2, <1>3, ThrownOK
<1> QED BY <1>1, <1>2, <1>4, EndKeeps

LEMMA CallKeeps == ASSUME CallInv, [ProviderCallNext]_callVars PROVE CallInv'
<1>1. CASE CallBegins
  BY <1>1, CallBeginsKeeps
<1>2. CASE Preflight
  BY <1>2, PreflightKeeps
<1>3. CASE Healthy
  BY <1>3, HealthyKeeps
<1>4. ASSUME NEW health \in {"throws", "disabled", "down"}, Unhealthy(health) PROVE CallInv'
  BY <1>4, UnhealthyKeeps
<1>5. CASE Text
  BY <1>5, TextKeeps
<1>6. CASE Usage
  BY <1>6, UsageKeeps
<1>7. ASSUME NEW name \in Tools \cup {Foreign} \cup Internal, ToolStarts(name) PROVE CallInv'
  BY <1>7, ToolStartsKeeps
<1>8. ASSUME NEW status \in {"success", "error"}, ToolEnds(status) PROVE CallInv'
  BY <1>8, ToolEndsKeeps
<1>9. ASSUME NEW stop \in Stops, NEW output \in BOOLEAN, NEW parses \in BOOLEAN, AgentEnds(stop, output, parses)
      PROVE  CallInv'
  BY <1>9, AgentEndsKeeps
<1>10. ASSUME NEW code \in {"provider_failure", "invalid_output", "limit_exceeded"}, AgentThrows(code) PROVE CallInv'
  BY <1>10, AgentThrowsKeeps
<1>11. CASE CallAborts
  BY <1>11 DEF CallAborts, CallInv
<1>12. CASE Timeout
  BY <1>12 DEF Timeout, CallInv
<1>13. CASE Return
  BY <1>13 DEF Return, CallInv, GoingOn
<1>14. CASE UNCHANGED callVars
  BY <1>14 DEF callVars, CallInv
<1> QED BY <1>1, <1>2, <1>3, <1>4, <1>5, <1>6, <1>7, <1>8, <1>9, <1>10, <1>11, <1>12, <1>13, <1>14 DEF ProviderCallNext

LEMMA CallIsSound == CallInv => CallTells
<1> SUFFICES ASSUME CallInv PROVE CallTells
  OBVIOUS
<1>1. /\ yielded \in Seq(CallEvents) /\ usage = Cardinality(At(yielded, {"usage"})) /\ ResultsFollow(yielded)
  BY DEF CallInv, ToldOK
<1>2. EndTells
  <2>1. CASE phase \in {"ending", "done"}
    BY <1>1, <2>1 DEF CallInv, EndOK, EndTells
  <2>2. CASE phase \notin {"ending", "done"}
    BY <2>2 DEF CallInv, EndTells
  <2> QED BY <2>1, <2>2
<1>3. ASSUME NEW i \in At(yielded, {"completed"}), invocation.structured PROVE yielded[i].structured
  <2>1. i \in At(yielded, EndKinds) /\ yielded[i].kind = "completed"
    BY DEF At, EndKinds
  <2>2. phase \in {"ending", "done"} /\ i = Len(yielded)
    BY <2>1 DEF CallInv
  <2>3. yielded[i] = Last(yielded) /\ EndOK(Last(yielded), usage, invocation.structured)
    BY <2>2 DEF Last, CallInv
  <2> QED BY <1>3, <2>1, <2>3 DEF EndOK
<1> QED BY <1>1, <1>2, <1>3 DEF CallTells, CallInv

\* However abort, timer, agent and tools interleave in a call of a provider: it
\* ends once, and what it says last is true.
THEOREM CallsTell == ProviderCallSpec => []CallTells
BY CallStart, CallKeeps, CallIsSound, PTL DEF ProviderCallSpec

-----------------------------------------------------------------------------
(***************************************************************************)
(* What is given of an agent's answer.                                     *)
(***************************************************************************)

GivenEvents == [kind : {"start", "text", "usage", "noise", "stop"}, n : Nat]

\* The texts among the first n of what it says.
TextsTo(a, n) == {i \in 1 .. n : a[i].kind = "text"}

\* g is the start and the texts among the first n of a.
GivenTo(g, a, n) ==
  /\ g \in Seq(GivenEvents) /\ Len(g) = 1 + Cardinality(TextsTo(a, n))
  /\ \A m \in 1 .. Len(g) : g[m].kind # "stop"
  /\ \A m \in 1 .. Len(g) : m > 1 => \E i \in TextsTo(a, n) : Cardinality(TextsTo(a, i)) = m - 1 /\ g[m] = a[i]
  /\ \A i \in TextsTo(a, n) : Cardinality(TextsTo(a, i)) \in 1 .. Len(g) - 1 /\ g[Cardinality(TextsTo(a, i)) + 1] = a[i]

LEMMA TextsAreFinite ==
  ASSUME NEW a, NEW n \in Nat PROVE IsFiniteSet(TextsTo(a, n)) /\ Cardinality(TextsTo(a, n)) \in Nat
<1>1. TextsTo(a, n) \subseteq 1 .. n /\ IsFiniteSet(1 .. n)
  BY FS_Interval DEF TextsTo
<1> QED BY <1>1, FS_Subset, FS_CardinalityType

LEMMA OneMoreText ==
  ASSUME NEW a, NEW n \in Nat
  PROVE  IF a[n + 1].kind = "text"
         THEN /\ TextsTo(a, n + 1) = TextsTo(a, n) \cup {n + 1}
              /\ Cardinality(TextsTo(a, n + 1)) = Cardinality(TextsTo(a, n)) + 1
         ELSE TextsTo(a, n + 1) = TextsTo(a, n)
<1>1. 1 .. n + 1 = (1 .. n) \cup {n + 1} /\ n + 1 \notin 1 .. n
  OBVIOUS
<1>2. CASE a[n + 1].kind = "text"
  <2>1. TextsTo(a, n + 1) = TextsTo(a, n) \cup {n + 1} /\ n + 1 \notin TextsTo(a, n)
    BY <1>1, <1>2 DEF TextsTo
  <2> QED BY <1>2, <2>1, TextsAreFinite, FS_AddElement
<1>3. CASE a[n + 1].kind # "text"
  <2>1. TextsTo(a, n + 1) = TextsTo(a, n)
    BY <1>1, <1>3 DEF TextsTo
  <2> QED BY <1>3, <2>1
<1> QED BY <1>2, <1>3

LEMMA ItemsAreEvents == Items \subseteq GivenEvents
BY DEF Items, GivenEvents

\* The start alone.
LEMMA GivenNone ==
  ASSUME NEW a, NEW g, g = <<Event("start", 0)>> PROVE GivenTo(g, a, 0)
<1>1. TextsTo(a, 0) = {} /\ Cardinality({}) = 0
  BY FS_EmptySet DEF TextsTo
<1>2. PICK e : e = Event("start", 0)
  OBVIOUS
<1>3. e \in GivenEvents /\ e.kind # "stop"
  BY <1>2 DEF Event, GivenEvents
<1>4. g \in Seq(GivenEvents) /\ Len(g) = 1 /\ g[1] = e
  BY <1>2, <1>3
<1> QED BY <1>1, <1>3, <1>4 DEF GivenTo

\* One more of what the agent says is taken.
LEMMA GivenOneMore ==
  ASSUME NEW a \in Seq(Items), NEW n \in Nat, n < Len(a), NEW g, GivenTo(g, a, n),
         NEW h, h = IF a[n + 1].kind = "text" THEN Append(g, a[n + 1]) ELSE g
  PROVE  GivenTo(h, a, n + 1)
<1>1. PICK S, c : S = TextsTo(a, n) /\ c = Cardinality(S)
  OBVIOUS
<1>2. c \in Nat /\ g \in Seq(GivenEvents) /\ Len(g) = 1 + c
  BY <1>1, TextsAreFinite DEF GivenTo
<1>3. CASE a[n + 1].kind = "text"
  <2>1. TextsTo(a, n + 1) = S \cup {n + 1} /\ Cardinality(TextsTo(a, n + 1)) = c + 1
    BY <1>1, <1>3, OneMoreText
  <2>2. PICK e : e = a[n + 1]
    OBVIOUS
  <2>3. e \in GivenEvents /\ e.kind # "stop"
    BY <1>3, <2>2, ItemsAreEvents
  <2>4. /\ h \in Seq(GivenEvents) /\ Len(h) = 2 + c /\ h[2 + c] = e
        /\ \A m \in 1 .. 1 + c : h[m] = g[m]
    BY <1>2, <1>3, <2>2, <2>3, AppendProperties
  <2>5. ASSUME NEW m \in 1 .. Len(h)
        PROVE  /\ h[m].kind # "stop"
               /\ m > 1 => \E i \in S \cup {n + 1} : Cardinality(TextsTo(a, i)) = m - 1 /\ h[m] = a[i]
    <3>1. CASE m = 2 + c
      BY <1>2, <2>1, <2>2, <2>3, <2>4, <3>1
    <3>2. CASE m # 2 + c
      <4>1. m \in 1 .. Len(g) /\ h[m] = g[m]
        BY <1>2, <2>4, <3>2
      <4> QED BY <1>1, <4>1 DEF GivenTo
    <3> QED BY <3>1, <3>2
  <2>6. ASSUME NEW i \in S \cup {n + 1}
        PROVE  Cardinality(TextsTo(a, i)) \in 1 .. Len(h) - 1 /\ h[Cardinality(TextsTo(a, i)) + 1] = a[i]
    <3>1. CASE i = n + 1
      <4>1. PICK k : k = Cardinality(TextsTo(a, i))
        OBVIOUS
      <4>2. k = c + 1 /\ k + 1 = 2 + c /\ k \in 1 .. Len(h) - 1
        BY <1>2, <2>1, <2>4, <3>1, <4>1
      <4>3. h[k + 1] = a[i]
        BY <2>2, <2>4, <3>1, <4>2
      <4> QED BY <4>1, <4>2, <4>3
    <3>2. CASE i \in S
      <4>1. PICK k : k = Cardinality(TextsTo(a, i))
        OBVIOUS
      <4>2. k \in 1 .. Len(g) - 1 /\ g[k + 1] = a[i]
        BY <1>1, <3>2, <4>1 DEF GivenTo
      <4>3. k \in 1 .. Len(h) - 1 /\ k + 1 \in 1 .. 1 + c
        BY <1>2, <2>4, <4>2
      <4>4. h[k + 1] = g[k + 1]
        BY <2>4, <4>3
      <4> QED BY <4>1, <4>2, <4>3, <4>4
    <3> QED BY <3>1, <3>2
  <2>7. Len(h) = 1 + Cardinality(TextsTo(a, n + 1))
    BY <1>2, <2>1, <2>4
  <2>8. PICK T : T = TextsTo(a, n + 1)
    OBVIOUS
  <2>9. T = S \cup {n + 1}
    BY <2>1, <2>8
  <2>10. \A m \in 1 .. Len(h) : h[m].kind # "stop"
    BY <2>5
  <2>11. \A m \in 1 .. Len(h) : m > 1 => \E i \in T : Cardinality(TextsTo(a, i)) = m - 1 /\ h[m] = a[i]
    BY <2>5, <2>9
  <2>12. \A i \in T : Cardinality(TextsTo(a, i)) \in 1 .. Len(h) - 1 /\ h[Cardinality(TextsTo(a, i)) + 1] = a[i]
    BY <2>6, <2>9
  <2> QED BY <2>4, <2>7, <2>8, <2>10, <2>11, <2>12 DEF GivenTo
<1>4. CASE a[n + 1].kind # "text"
  <2>1. TextsTo(a, n + 1) = TextsTo(a, n) /\ h = g
    BY <1>4, OneMoreText
  <2> QED BY <2>1 DEF GivenTo
<1> QED BY <1>3, <1>4

\* The answer is given whole.
Whole(g, a) ==
  /\ \A i \in TextsTo(a, Len(a)) : g[Cardinality(TextsTo(a, i)) + 1] = a[i]
  /\ \A i \in UsagesSaid : (\A k \in UsagesSaid : k <= i) => g[Len(g) - 1] = a[i]
  /\ Last(g).kind = "stop"
  /\ Len(g) = Cardinality(TextsTo(a, Len(a))) + (IF UsagesSaid = {} THEN 2 ELSE 3)

ModelsInv ==
  /\ answer \in Seq(Items) /\ via \in {"cli", "api", "remote", "local", "none"}
  /\ streaming \in {"idle", "open", "running", "giving", "raised", "left", "done"}
  /\ said \in Nat /\ heard \in 0 .. Len(answer)
  /\ streaming = "idle" => given = <<>> /\ heard = 0 /\ via \in {"cli", "api"}
  /\ streaming = "open" => via # "local"
  /\ streaming = "running" => heard = 0 /\ via = "local"
  /\ streaming = "giving" => said = Len(answer) /\ via = "local"
  /\ streaming = "done" => Whole(given, answer)
  /\ streaming \in {"open", "running", "giving", "raised", "left"} => GivenTo(given, answer, heard)
  /\ NothingLeft

LEMMA Largest ==
  ASSUME NEW n \in Nat, NEW S, S \subseteq 1 .. n, S # {}
  PROVE  Max(S) \in S /\ \A k \in S : k <= Max(S)
<1> DEFINE T == {n - k : k \in S}
<1>1. T \in SUBSET Nat /\ T # {}
  OBVIOUS
<1> HIDE DEF T
<1>2. PICK m \in T : \A k \in T : m <= k
  BY <1>1, Least
<1>3. PICK x \in S : m = n - x
  BY DEF T
<1>4. ASSUME NEW k \in S PROVE x >= k
  <2>1. n - k \in T
    BY DEF T
  <2>2. n - x <= n - k
    BY <1>2, <1>3, <2>1
  <2> QED BY <2>2
<1>5. Max(S) \in S /\ \A k \in S : Max(S) >= k
  BY <1>4 DEF Max
<1> QED BY <1>5

\* The usage seen last is found, if there is one.
LEMMA LastUsage ==
  ASSUME answer \in Seq(Items), heard = Len(answer), NEW at, at = UsageOf(SubSeq(answer, 1, heard))
  PROVE  IF UsagesSaid = {} THEN at = 0
         ELSE at \in UsagesSaid /\ at # 0 /\ \A k \in UsagesSaid : k <= at
<1>1. SubSeq(answer, 1, heard) = answer
  OBVIOUS
<1>2. at = IF UsagesSaid # {} THEN Max(UsagesSaid) ELSE 0
  <2>1. UsageOf(answer) = IF UsagesSaid # {} THEN Max(UsagesSaid) ELSE 0
    <3>1. {i \in 1 .. Len(answer) : answer[i].kind = "usage"} = UsagesSaid
      BY DEF UsagesSaid
    <3> QED BY <3>1 DEF UsageOf, SelectLastInSeq
  <2> QED BY <1>1, <2>1
<1>3. UsagesSaid \subseteq 1 .. Len(answer) /\ Len(answer) \in Nat
  BY DEF UsagesSaid
<1>4. UsagesSaid # {} => Max(UsagesSaid) \in UsagesSaid /\ \A k \in UsagesSaid : k <= Max(UsagesSaid)
  BY <1>3, Largest
<1>5. CASE UsagesSaid = {}
  BY <1>2, <1>5
<1>6. CASE UsagesSaid # {}
  <2>1. at \in UsagesSaid /\ \A k \in UsagesSaid : k <= at
    BY <1>2, <1>4, <1>6
  <2>2. at # 0
    BY <1>3, <2>1
  <2> QED BY <1>6, <2>1, <2>2
<1> QED BY <1>5, <1>6

\* The whole of it was given: its last usage and the end follow.
LEMMA GivenWhole ==
  ASSUME answer \in Seq(Items), heard = Len(answer), NEW g, GivenTo(g, answer, heard), NEW h, h = g \o Closing
  PROVE  Whole(h, answer)
<1>1. PICK at, S, c, e : at = UsageOf(SubSeq(answer, 1, heard)) /\ S = TextsTo(answer, Len(answer)) /\ c = Cardinality(S)
                         /\ e = Event("stop", 0)
  OBVIOUS
<1>2. /\ g \in Seq(GivenEvents) /\ Len(g) = 1 + c /\ c \in Nat /\ Len(answer) \in Nat
      /\ \A i \in S : Cardinality(TextsTo(answer, i)) \in 1 .. c /\ g[Cardinality(TextsTo(answer, i)) + 1] = answer[i]
  BY <1>1, TextsAreFinite DEF GivenTo
<1>3. e \in GivenEvents /\ e.kind = "stop"
  BY <1>1 DEF Event, GivenEvents
<1>4. UsagesSaid \subseteq 1 .. Len(answer) /\ \A i \in 1 .. Len(answer) : answer[i] \in GivenEvents
  BY ItemsAreEvents DEF UsagesSaid
<1>5. PICK last : last = IF at = 0 THEN <<>> ELSE <<answer[at]>>
  OBVIOUS
<1>6. IF UsagesSaid = {} THEN last = <<>>
      ELSE last = <<answer[at]>> /\ at \in UsagesSaid /\ \A k \in UsagesSaid : k <= at
  BY <1>1, <1>5, LastUsage
<1>7. last \in Seq(GivenEvents) /\ Len(last) = IF UsagesSaid = {} THEN 0 ELSE 1
  <2>1. CASE UsagesSaid = {}
    BY <1>6, <2>1
  <2>2. CASE UsagesSaid # {}
    <3>1. PICK u : u = answer[at]
      OBVIOUS
    <3>2. u \in GivenEvents /\ last = <<u>>
      BY <1>4, <1>6, <2>2, <3>1
    <3> QED BY <2>2, <3>2
  <2> QED BY <2>1, <2>2
<1>8. PICK tail : tail = last \o <<e>>
  OBVIOUS
<1>9. /\ tail \in Seq(GivenEvents) /\ Len(tail) = Len(last) + 1 /\ tail[Len(last) + 1] = e
      /\ Len(last) = 1 => tail[1] = last[1]
  BY <1>3, <1>7, <1>8
<1>10. h = g \o tail
  BY <1>1, <1>5, <1>8 DEF Closing
<1>11. /\ Len(h) = 1 + c + Len(tail)
       /\ \A i \in 1 .. Len(g) : h[i] = g[i]
       /\ \A i \in 1 .. Len(tail) : h[1 + c + i] = tail[i]
  <2>1. /\ Len(h) = Len(g) + Len(tail)
        /\ \A i \in 1 .. Len(g) + Len(tail) : h[i] = IF i <= Len(g) THEN g[i] ELSE tail[i - Len(g)]
        /\ Len(g) \in Nat /\ Len(tail) \in Nat
    <3>1. g \in Seq(GivenEvents) /\ tail \in Seq(GivenEvents)
      BY <1>2, <1>9
    <3>2. /\ Len(g \o tail) = Len(g) + Len(tail)
          /\ \A i \in 1 .. Len(g) + Len(tail) : (g \o tail)[i] = IF i <= Len(g) THEN g[i] ELSE tail[i - Len(g)]
      BY <3>1, ConcatProperties, Zenon
    <3>3. Len(g) \in Nat /\ Len(tail) \in Nat
      BY <3>1
    <3> QED BY <1>10, <3>2, <3>3
  <2>2. ASSUME NEW i \in 1 .. Len(tail) PROVE h[1 + c + i] = tail[i]
    <3>1. PICK k : k = 1 + c + i
      OBVIOUS
    <3>2. k \in 1 .. Len(g) + Len(tail) /\ ~(k <= Len(g)) /\ k - Len(g) = i
      BY <1>2, <2>1, <3>1
    <3> QED BY <2>1, <3>1, <3>2
  <2>3. ASSUME NEW i \in 1 .. Len(g) PROVE h[i] = g[i]
    <3>1. i \in 1 .. Len(g) + Len(tail) /\ i <= Len(g)
      BY <2>1
    <3> QED BY <2>1, <3>1
  <2> QED BY <1>2, <2>1, <2>2, <2>3
<1>12. Len(h) = c + IF UsagesSaid = {} THEN 2 ELSE 3
  BY <1>2, <1>7, <1>9, <1>11
<1>13. h[Len(h)] = e
  <2>1. Len(tail) \in 1 .. Len(tail) /\ Len(h) = 1 + c + Len(tail)
    BY <1>7, <1>9, <1>11
  <2> QED BY <1>9, <1>11, <2>1
<1>14. Last(h).kind = "stop"
  BY <1>3, <1>13 DEF Last
<1>15. ASSUME NEW i \in S PROVE h[Cardinality(TextsTo(answer, i)) + 1] = answer[i]
  <2>1. PICK k : k = Cardinality(TextsTo(answer, i))
    OBVIOUS
  <2>2. k \in 1 .. c /\ g[k + 1] = answer[i]
    BY <1>2, <2>1
  <2>3. k + 1 \in 1 .. Len(g)
    BY <1>2, <2>2
  <2>4. h[k + 1] = g[k + 1]
    BY <1>11, <2>3
  <2> QED BY <2>1, <2>2, <2>4
<1>16. ASSUME NEW i \in UsagesSaid, \A k \in UsagesSaid : k <= i PROVE h[Len(h) - 1] = answer[i]
  <2>1. UsagesSaid # {} /\ last = <<answer[at]>> /\ at \in UsagesSaid /\ i <= at /\ at <= i
    BY <1>6, <1>16
  <2>2. i = at
    BY <1>4, <2>1
  <2>3. Len(last) = 1 /\ last[1] = answer[at]
    BY <2>1
  <2>4. 1 \in 1 .. Len(tail) /\ Len(h) - 1 = 1 + c + 1 /\ tail[1] = answer[i]
    BY <1>2, <1>9, <1>11, <2>2, <2>3
  <2> QED BY <1>11, <2>4
<1> QED BY <1>1, <1>12, <1>14, <1>15, <1>16 DEF Whole

LEMMA ModelsStart == ModelsInit => ModelsInv
<1> SUFFICES ASSUME ModelsInit PROVE ModelsInv
  OBVIOUS
<1>1. answer \in Seq(Items)
  BY ProviderModelsAssumption DEF ModelsInit
<1>2. NothingLeft
  BY DEF ModelsInit, NothingLeft
<1> QED BY <1>1, <1>2 DEF ModelsInit, ModelsInv

LEMMA OpenKeeps == ASSUME ModelsInv, OpenStream PROVE ModelsInv'
<1>1. /\ streaming = "idle" /\ heard = 0 /\ UNCHANGED <<reach, answer, said, heard, signalled, probe>>
      /\ via \in {"cli", "api"} /\ given' = <<Event("start", 0)>>
  BY DEF OpenStream, ModelsInv
<1>2. via' \in {"api", "remote", "local", "none"}
  BY <1>1 DEF OpenStream, Transport
<1>3. /\ via' = "none" => streaming' = "raised"
      /\ via' = "local" => streaming' = "running"
      /\ via' \in {"api", "remote"} => streaming' = "open"
      /\ workdir' <=> via' = "local"
  BY DEF OpenStream
<1>4. GivenTo(given', answer, 0)
  BY <1>1, GivenNone
<1>5. NothingLeft'
  BY <1>1, <1>2, <1>3 DEF NothingLeft, ModelsInv
<1> QED BY <1>1, <1>2, <1>3, <1>4, <1>5 DEF ModelsInv

LEMMA ChildKeeps ==
  ASSUME ModelsInv, NEW ok \in BOOLEAN, NEW n \in 0 .. Len(answer), ChildExits(ok, n) PROVE ModelsInv'
<1>1. /\ streaming = "running" /\ heard = 0 /\ via = "local" /\ said' = n /\ n \in Nat
      /\ UNCHANGED <<reach, answer, via, heard, given, signalled, probe>>
  BY DEF ChildExits, ModelsInv
<1>2. IF ok /\ ~signalled THEN n = Len(answer) /\ streaming' = "giving" /\ workdir'
      ELSE streaming' = "raised" /\ ~workdir'
  <2>1. n \in 0 .. Len(answer) /\ (ok /\ ~signalled => n = Len(answer))
    BY DEF ChildExits
  <2>2. CASE ok /\ ~signalled
    BY <2>1, <2>2 DEF ChildExits, Wasted, WorkdirAfter
  <2>3. CASE ~(ok /\ ~signalled)
    BY <2>3 DEF ChildExits, Wasted, WorkdirAfter
  <2> QED BY <2>2, <2>3
<1>3. NothingLeft'
  BY <1>1, <1>2 DEF NothingLeft, ModelsInv
<1> QED BY <1>1, <1>2, <1>3 DEF ModelsInv

LEMMA HearKeeps == ASSUME ModelsInv, Hear PROVE ModelsInv'
<1>1. /\ streaming \in {"giving", "open"} /\ heard < Len(answer) /\ said' \in Nat /\ heard' = heard + 1
      /\ streaming = "giving" => said' = said
      /\ given' = IF answer[heard + 1].kind = "text" THEN Append(given, answer[heard + 1]) ELSE given
      /\ UNCHANGED <<reach, answer, via, streaming, signalled, workdir, probe>>
  BY DEF Hear, ModelsInv
<1>2. answer \in Seq(Items) /\ heard \in Nat /\ Len(answer) \in Nat /\ GivenTo(given, answer, heard)
  BY <1>1 DEF ModelsInv
<1>3. GivenTo(given', answer, heard + 1)
  BY <1>1, <1>2, GivenOneMore
<1>4. NothingLeft'
  BY <1>1 DEF NothingLeft, ModelsInv
<1>5. heard' \in 0 .. Len(answer) /\ GivenTo(given', answer, heard')
  BY <1>1, <1>2, <1>3
<1> QED BY <1>1, <1>4, <1>5 DEF ModelsInv

LEMMA EndStreamKeeps == ASSUME ModelsInv, EndStream PROVE ModelsInv'
<1>1. /\ streaming \in {"giving", "open"} /\ heard = Len(answer) /\ streaming' = "done" /\ workdir' = FALSE
      /\ given' = given \o Closing /\ UNCHANGED <<reach, answer, via, said, heard, signalled, probe>>
  BY DEF EndStream, ModelsInv
<1>2. GivenTo(given, answer, heard) /\ answer \in Seq(Items)
  BY <1>1 DEF ModelsInv
<1>3. PICK h : h = given'
  OBVIOUS
<1>4. Whole(h, answer)
  BY <1>1, <1>2, <1>3, GivenWhole
<1>5. Whole(given', answer')
  BY <1>1, <1>3, <1>4
<1>6. UsagesSaid' = UsagesSaid
  BY <1>1 DEF UsagesSaid
<1>7. Whole(given, answer)'
  BY <1>1, <1>3, <1>4, <1>6 DEF Whole
<1>8. NothingLeft'
  BY <1>1 DEF NothingLeft, ModelsInv
<1> QED BY <1>1, <1>7, <1>8 DEF ModelsInv

LEMMA OthersKeep ==
  ASSUME ModelsInv,
         \/ \E t \in {"remote", "local"} : ReachChanges(t)
         \/ Signal \/ StreamBreaks \/ AskHealth \/ \E ok \in BOOLEAN : HealthTold(ok)
         \/ UNCHANGED modelVars
  PROVE  ModelsInv'
<1>1. /\ UNCHANGED <<answer, via, said, heard, given>>
      /\ UNCHANGED <<streaming, workdir>> \/ (streaming \in {"open", "giving"} /\ streaming' \in {"raised", "left"} /\ workdir' = FALSE)
      /\ UNCHANGED probe \/ (probe'.timer <=> probe'.says = "asked")
  BY DEF ReachChanges, Signal, StreamBreaks, AskHealth, HealthTold, Says, modelVars
<1>2. NothingLeft'
  BY <1>1 DEF NothingLeft, ModelsInv
<1>3. UsagesSaid' = UsagesSaid /\ (Whole(given, answer) => Whole(given, answer)')
  BY <1>1 DEF UsagesSaid, Whole
<1> QED BY <1>1, <1>2, <1>3 DEF ModelsInv

LEMMA ModelsKeep == ASSUME ModelsInv, [ModelsNext]_modelVars PROVE ModelsInv'
BY OpenKeeps, ChildKeeps, HearKeeps, EndStreamKeeps, OthersKeep DEF ModelsNext

LEMMA ModelsAreSound == ModelsInv => ModelsTell
<1> SUFFICES ASSUME ModelsInv PROVE AnswerWhole /\ NothingLeft
  BY DEF ModelsTell
<1>1. answer \in Seq(Items) /\ Len(answer) \in Nat /\ heard \in 0 .. Len(answer)
  BY DEF ModelsInv
<1>2. TextsSaid = TextsTo(answer, Len(answer))
  BY <1>1 DEF TextsSaid, TextsTo
<1>3. ASSUME NEW i \in TextsSaid PROVE Nth(i) = Cardinality(TextsTo(answer, i))
  <2>1. i \in 1 .. Len(answer)
    BY <1>1 DEF TextsSaid
  <2>2. {k \in TextsSaid : k <= i} = TextsTo(answer, i)
    BY <1>1, <2>1 DEF TextsSaid, TextsTo
  <2> QED BY <2>2 DEF Nth
<1>4. CASE streaming = "done"
  <2>1. Whole(given, answer)
    BY <1>4 DEF ModelsInv
  <2> QED BY <1>2, <1>3, <1>4, <2>1 DEF Whole, AnswerWhole, ModelsInv
<1>5. CASE streaming = "idle"
  <2>1. DOMAIN given = {}
    BY <1>5 DEF ModelsInv
  <2> QED BY <1>5, <2>1 DEF AnswerWhole, ModelsInv
<1>6. CASE streaming \notin {"done", "idle"}
  <2>1. GivenTo(given, answer, heard)
    BY <1>6 DEF ModelsInv
  <2>2. DOMAIN given = 1 .. Len(given)
    BY <2>1 DEF GivenTo
  <2>3. TextsTo(answer, heard) \subseteq TextsSaid
    BY <1>1, <1>2 DEF TextsTo
  <2>4. ASSUME NEW n \in DOMAIN given, n > 1 PROVE \E i \in TextsSaid : Nth(i) = n - 1 /\ given[n] = answer[i]
    <3>1. PICK i \in TextsTo(answer, heard) : Cardinality(TextsTo(answer, i)) = n - 1 /\ given[n] = answer[i]
      BY <2>1, <2>2, <2>4 DEF GivenTo
    <3> QED BY <1>3, <2>3, <3>1
  <2>5. \A n \in DOMAIN given : given[n].kind # "stop"
    BY <2>1, <2>2 DEF GivenTo
  <2> QED BY <1>6, <2>4, <2>5 DEF AnswerWhole, ModelsInv
<1> QED BY <1>4, <1>5, <1>6

-----------------------------------------------------------------------------
(***************************************************************************)
(* What is kept of the recommendations of an agent.                        *)
(***************************************************************************)

ValidOnes == [posting : Postings, score : 1 .. MaxScore]

\* s keeps each posting of F once, with the best of its scores.
KeepsBest(s, F) ==
  /\ s \in Seq(ValidOnes) /\ F \subseteq ValidOnes
  /\ \A i, j \in 1 .. Len(s) : s[i].posting = s[j].posting => i = j
  /\ \A i \in 1 .. Len(s) : s[i] \in F
  /\ \A r \in F : \E i \in 1 .. Len(s) : s[i].posting = r.posting /\ s[i].score >= r.score

LEMMA KeepsNothing == KeepsBest(<<>>, {})
BY DEF KeepsBest

\* One more is taken.
LEMMA TakeKeeps ==
  ASSUME NEW s, NEW F, KeepsBest(s, F), NEW r \in ValidOnes PROVE KeepsBest(Take(s, r), F \cup {r})
<1>0. PICK n : n = Len(s)
  OBVIOUS
<1>1. PICK S, at : S = {i \in 1 .. Len(s) : s[i].posting = r.posting} /\ at = SelectInSeq(s, LAMBDA k : k.posting = r.posting)
  OBVIOUS
<1>10. PICK t : t = Take(s, r)
  OBVIOUS
<1>2. IF \E i \in 1 .. n : s[i].posting = r.posting THEN at \in 1 .. n /\ s[at].posting = r.posting ELSE at = 0
  <2>1. at = IF S # {} THEN Min(S) ELSE 0
    BY <1>1 DEF SelectInSeq
  <2>2. S = {i \in 1 .. n : s[i].posting = r.posting}
    BY <1>0, <1>1
  <2>3. CASE S = {}
    BY <2>1, <2>2, <2>3
  <2>4. CASE S # {}
    <3>1. PICK i \in S : S = {i}
      <4>1. PICK i : i \in S
        BY <2>4
      <4>2. \A k \in 1 .. n : s[k].posting = s[i].posting => k = i
        BY <1>0, <2>2, <4>1 DEF KeepsBest
      <4>3. ASSUME NEW k \in S PROVE k = i
        BY <2>2, <4>1, <4>2, <4>3
      <4> QED BY <4>1, <4>3
    <3>2. i \in Nat
      BY <2>2, <3>1
    <3>3. Min(S) = i
      BY <3>1, <3>2 DEF Min
    <3> QED BY <2>1, <2>2, <2>4, <3>1, <3>3
  <2> QED BY <2>3, <2>4
<1>3. t = IF at = 0 THEN Append(s, r)
          ELSE IF Better(r, s[at]) THEN [s EXCEPT ![at] = r] ELSE s
  BY <1>1, <1>10 DEF Take
<1>4. s \in Seq(ValidOnes) /\ n \in Nat /\ \A i \in 1 .. n : s[i] \in ValidOnes /\ s[i] \in F /\ s[i].score \in Nat
  <2>1. s \in Seq(ValidOnes) /\ n \in Nat /\ \A i \in 1 .. n : s[i] \in F
    BY <1>0 DEF KeepsBest
  <2>2. \A i \in 1 .. n : s[i] \in ValidOnes
    BY <1>0, <2>1
  <2>3. \A x \in ValidOnes : x.score \in Nat
    BY LocalAgentsAssumption DEF ValidOnes
  <2> QED BY <2>1, <2>2, <2>3
<1>5. r.score \in Nat
  BY LocalAgentsAssumption DEF ValidOnes
<1>6. /\ \A i, j \in 1 .. n : s[i].posting = s[j].posting => i = j
      /\ \A x \in F : \E i \in 1 .. n : s[i].posting = x.posting /\ s[i].score >= x.score
      /\ F \subseteq ValidOnes /\ \A x \in F : x.score \in Nat
  <2>1. \A x \in ValidOnes : x.score \in Nat
    BY LocalAgentsAssumption DEF ValidOnes
  <2> QED BY <1>0, <2>1 DEF KeepsBest
<1>7. CASE at = 0
  <2>1. \A i \in 1 .. n : s[i].posting # r.posting
    BY <1>2, <1>7
  <2>2. /\ t \in Seq(ValidOnes) /\ Len(t) = n + 1 /\ t[n + 1] = r
        /\ \A i \in 1 .. n : t[i] = s[i]
    <3>1. t = Append(s, r)
      BY <1>3, <1>7
    <3> QED BY <1>0, <1>4, <3>1, AppendProperties
  <2>3. ASSUME NEW i \in 1 .. n + 1 PROVE i \in 1 .. n \/ i = n + 1
    BY <1>4
  <2>4. \A i, j \in 1 .. n + 1 : t[i].posting = t[j].posting => i = j
    BY <1>6, <2>1, <2>2, <2>3
  <2>5. \A i \in 1 .. n + 1 : t[i] \in F \cup {r}
    BY <1>4, <2>2, <2>3
  <2>6. ASSUME NEW x \in F \cup {r} PROVE \E i \in 1 .. n + 1 : t[i].posting = x.posting /\ t[i].score >= x.score
    <3>1. CASE x = r
      <4>1. n + 1 \in 1 .. n + 1 /\ t[n + 1].posting = x.posting /\ t[n + 1].score >= x.score
        BY <1>4, <1>5, <2>2, <3>1
      <4> QED BY <4>1
    <3>2. CASE x \in F
      <4>1. PICK i \in 1 .. n : s[i].posting = x.posting /\ s[i].score >= x.score
        BY <1>6, <3>2
      <4>2. i \in 1 .. n + 1 /\ t[i] = s[i]
        BY <1>4, <2>2
      <4> QED BY <4>1, <4>2
    <3> QED BY <3>1, <3>2
  <2> QED BY <1>0, <1>10, <1>6, <2>2, <2>4, <2>5, <2>6 DEF KeepsBest
<1>8. CASE at # 0 /\ r.score > s[at].score
  <2>1. at \in 1 .. n /\ s[at].posting = r.posting
    BY <1>2, <1>8
  <2>2. t = [s EXCEPT ![at] = r]
    BY <1>3, <1>8 DEF Better
  <2>3. /\ t \in Seq(ValidOnes) /\ Len(t) = n /\ t[at] = r
        /\ \A i \in 1 .. n : i # at => t[i] = s[i]
    BY <1>0, <1>4, <2>1, <2>2
  <2>4. \A i \in 1 .. n : t[i].posting = s[i].posting
    BY <2>1, <2>3
  <2>5. \A i, j \in 1 .. n : t[i].posting = t[j].posting => i = j
    BY <1>6, <2>4
  <2>6. \A i \in 1 .. n : t[i] \in F \cup {r}
    BY <1>4, <2>3
  <2>7. ASSUME NEW x \in F \cup {r} PROVE \E i \in 1 .. n : t[i].posting = x.posting /\ t[i].score >= x.score
    <3>1. CASE x = r
      <4>1. t[at].posting = x.posting /\ t[at].score >= x.score
        BY <1>5, <2>3, <3>1
      <4> QED BY <2>1, <4>1
    <3>2. CASE x \in F
      <4>1. PICK i \in 1 .. n : s[i].posting = x.posting /\ s[i].score >= x.score
        BY <1>6, <3>2
      <4>2. CASE i = at
        <5>1. PICK y, z, w : y = x.score /\ z = s[at].score /\ w = r.score
          OBVIOUS
        <5>2. z >= y /\ w > z /\ t[i].score = w /\ z \in Nat /\ w \in Nat /\ y \in Nat
          BY <1>4, <1>5, <1>6, <1>8, <3>2, <2>1, <2>3, <4>1, <4>2, <5>1
        <5>3. s[i] \in ValidOnes /\ t[i].posting = x.posting
          BY <1>4, <2>4, <4>1
        <5> QED BY <5>1, <5>2, <5>3
      <4>3. CASE i # at
        BY <2>3, <4>1, <4>3
      <4> QED BY <4>2, <4>3
    <3> QED BY <3>1, <3>2
  <2> QED BY <1>0, <1>10, <1>6, <2>3, <2>5, <2>6, <2>7 DEF KeepsBest
<1>9. CASE at # 0 /\ ~(r.score > s[at].score)
  <2>1. at \in 1 .. n /\ s[at].posting = r.posting /\ t = s
    BY <1>2, <1>3, <1>9 DEF Better
  <2>2. s[at].score >= r.score
    BY <1>4, <1>5, <1>9, <2>1
  <2>3. ASSUME NEW x \in F \cup {r} PROVE \E i \in 1 .. n : t[i].posting = x.posting /\ t[i].score >= x.score
    BY <1>6, <2>1, <2>2
  <2> QED BY <1>0, <1>10, <1>4, <1>6, <2>1, <2>3 DEF KeepsBest
<1> QED BY <1>7, <1>8, <1>9

\* What is kept when one more of a list is read.
ReadsOne(kept, list, i) == IF Valid(list[i]) THEN Take(kept, list[i]) ELSE kept

\* f[i] is what is kept after the first i of a list.
Takes(f, s, list, n) == f = [i \in 0 .. n |-> IF i = 0 THEN s ELSE ReadsOne(f[i - 1], list, i)]

LEMMA TakesExist == ASSUME NEW s, NEW list, NEW n \in Nat PROVE \E f : Takes(f, s, list, n)
<1> DEFINE S == {k \in Nat : ~\E f : Takes(f, s, list, k)}
<1>1. SUFFICES ASSUME S # {} PROVE FALSE
  OBVIOUS
<1>2. S \in SUBSET Nat
  OBVIOUS
<1> HIDE DEF S
<1>3. PICK m \in S : \A k \in S : m <= k
  BY <1>1, <1>2, Least
<1>4. m \in Nat /\ ~\E f : Takes(f, s, list, m)
  BY DEF S
<1>5. CASE m = 0
  <2>1. PICK f : f = [i \in 0 .. 0 |-> s]
    OBVIOUS
  <2>2. Takes(f, s, list, 0)
    BY <2>1 DEF Takes
  <2> QED BY <1>4, <1>5, <2>2
<1>6. CASE m # 0
  <2>1. m \in Nat /\ m - 1 \in Nat /\ m - 1 \notin S /\ m > 0
    BY <1>3, <1>4, <1>6
  <2>2. PICK f : Takes(f, s, list, m - 1)
    BY <2>1 DEF S
  <2>3. PICK x : x = ReadsOne(f[m - 1], list, m)
    OBVIOUS
  <2>4. PICK h : h = [i \in 0 .. m |-> IF i = m THEN x ELSE f[i]]
    OBVIOUS
  <2>5. \A i \in 0 .. m - 1 : f[i] = IF i = 0 THEN s ELSE ReadsOne(f[i - 1], list, i)
    BY <2>2 DEF Takes
  <2>6. h = [i \in 0 .. m |-> h[i]] /\ h[m] = x /\ \A i \in 0 .. m - 1 : h[i] = f[i]
    BY <2>1, <2>4
  <2>7. ASSUME NEW i \in 0 .. m PROVE h[i] = IF i = 0 THEN s ELSE ReadsOne(h[i - 1], list, i)
    <3>1. CASE i = m
      <4>1. m - 1 \in 0 .. m - 1
        BY <2>1
      <4>2. h[i] = x /\ i # 0 /\ h[i - 1] = f[m - 1]
        <5>1. h[m - 1] = f[m - 1]
          BY <2>6, <4>1
        <5> QED BY <2>1, <2>6, <3>1, <5>1
      <4> QED BY <2>3, <3>1, <4>2
    <3>2. CASE i # m /\ i # 0
      <4>1. i \in 0 .. m - 1 /\ i - 1 \in 0 .. m - 1
        BY <2>1, <3>2
      <4> QED BY <2>5, <2>6, <3>2, <4>1
    <3>3. CASE i = 0
      <4>1. i \in 0 .. m - 1
        BY <2>1, <3>3
      <4> QED BY <2>5, <2>6, <3>3, <4>1
    <3> QED BY <3>1, <3>2, <3>3
  <2>8. Takes(h, s, list, m)
    BY <2>6, <2>7 DEF Takes
  <2> QED BY <1>4, <2>8
<1> QED BY <1>5, <1>6

\* The valid ones among the first n of a list.
ValidTo(list, n) == {x \in {list[i] : i \in 1 .. n} : Valid(x)}

LEMMA TakesKeep ==
  ASSUME NEW s, NEW F, KeepsBest(s, F), NEW list, \A i \in 1 .. Len(list) : list[i] \in Recommendations,
         Len(list) \in Nat, NEW f, Takes(f, s, list, Len(list)), NEW k \in 0 .. Len(list)
  PROVE  KeepsBest(f[k], F \cup ValidTo(list, k))
<1> DEFINE S == {i \in 0 .. Len(list) : ~KeepsBest(f[i], F \cup ValidTo(list, i))}
<1>1. SUFFICES ASSUME S # {} PROVE FALSE
  OBVIOUS
<1>2. S \in SUBSET Nat
  OBVIOUS
<1> HIDE DEF S
<1>3. PICK m \in S : \A i \in S : m <= i
  BY <1>1, <1>2, Least
<1>4. m \in 0 .. Len(list) /\ ~KeepsBest(f[m], F \cup ValidTo(list, m))
  BY DEF S
<1>5. f[m] = IF m = 0 THEN s ELSE ReadsOne(f[m - 1], list, m)
  BY <1>4 DEF Takes
<1>6. m # 0
  <2> SUFFICES ASSUME m = 0 PROVE FALSE
    OBVIOUS
  <2>1. ValidTo(list, 0) = {}
    BY DEF ValidTo
  <2>2. F \cup ValidTo(list, m) = F /\ f[m] = s
    BY <1>5, <2>1
  <2> QED BY <1>4, <2>2
<1>7. m - 1 \in 0 .. Len(list) /\ m - 1 \notin S /\ m \in 1 .. Len(list)
  BY <1>3, <1>4, <1>6
<1>8. PICK r, g, G : r = list[m] /\ g = f[m - 1] /\ G = F \cup ValidTo(list, m - 1)
  OBVIOUS
<1>9. KeepsBest(g, G) /\ r \in Recommendations
  BY <1>7, <1>8 DEF S
<1>10. \A i : i \in 1 .. m <=> i \in 1 .. m - 1 \/ i = m
  BY <1>7
<1>11. CASE Valid(r)
  <2>1. F \cup ValidTo(list, m) = G \cup {r}
    BY <1>8, <1>10, <1>11 DEF ValidTo
  <2>2. r \in ValidOnes
    BY <1>9, <1>11, LocalAgentsAssumption DEF Valid, ValidOnes, Recommendations
  <2>3. f[m] = Take(g, r)
    BY <1>5, <1>6, <1>8, <1>11 DEF ReadsOne
  <2> QED BY <1>4, <1>9, <2>1, <2>2, <2>3, TakeKeeps
<1>12. CASE ~Valid(r)
  <2>1. F \cup ValidTo(list, m) = G
    BY <1>8, <1>10, <1>12 DEF ValidTo
  <2>2. f[m] = g
    BY <1>5, <1>6, <1>8, <1>12 DEF ReadsOne
  <2> QED BY <1>4, <1>9, <2>1, <2>2
<1> QED BY <1>11, <1>12

LEMMA TakeAllKeeps ==
  ASSUME NEW s, NEW F, KeepsBest(s, F), NEW list, \A i \in 1 .. Len(list) : list[i] \in Recommendations, Len(list) \in Nat
  PROVE  KeepsBest(TakeAll(s, list), F \cup ValidTo(list, Len(list)))
<1> DEFINE Is(f) == f = [n \in 0 .. Len(list) |->
                           IF n = 0 THEN s ELSE IF Valid(list[n]) THEN Take(f[n - 1], list[n]) ELSE f[n - 1]]
           upTo == CHOOSE f : Is(f)
<1>1. TakeAll(s, list) = upTo[Len(list)]
  BY DEF TakeAll
<1>2. \E f : Is(f)
  <2>1. PICK f : Takes(f, s, list, Len(list))
    BY TakesExist
  <2>2. Is(f)
    BY <2>1 DEF Takes, ReadsOne
  <2> QED BY <2>2
<1>3. Is(upTo)
  BY <1>2
<1>4. Takes(upTo, s, list, Len(list))
  BY <1>3 DEF Takes, ReadsOne
<1> HIDE DEF upTo
<1>5. Len(list) \in 0 .. Len(list)
  OBVIOUS
<1>6. KeepsBest(upTo[Len(list)], F \cup ValidTo(list, Len(list)))
  BY <1>4, <1>5, TakesKeep
<1> QED BY <1>1, <1>6

\* What is kept when one more batch is read.
ReadsBatch(kept, answers, b) == IF b \in Answered THEN TakeAll(kept, answers[b].answer.list) ELSE kept

\* f[b] is what is kept after the first b batches.
Gathers(f, answers, n) == f = [b \in 0 .. n |-> IF b = 0 THEN <<>> ELSE ReadsBatch(f[b - 1], answers, b)]

LEMMA GathersExist == ASSUME NEW answers, NEW n \in Nat PROVE \E f : Gathers(f, answers, n)
<1> DEFINE S == {k \in Nat : ~\E f : Gathers(f, answers, k)}
<1>1. SUFFICES ASSUME S # {} PROVE FALSE
  OBVIOUS
<1>2. S \in SUBSET Nat
  OBVIOUS
<1> HIDE DEF S
<1>3. PICK m \in S : \A k \in S : m <= k
  BY <1>1, <1>2, Least
<1>4. m \in Nat /\ ~\E f : Gathers(f, answers, m)
  BY DEF S
<1>5. CASE m = 0
  <2>1. PICK f : f = [i \in 0 .. 0 |-> <<>>]
    OBVIOUS
  <2>2. Gathers(f, answers, 0)
    BY <2>1 DEF Gathers
  <2> QED BY <1>4, <1>5, <2>2
<1>6. CASE m # 0
  <2>1. m \in Nat /\ m - 1 \in Nat /\ m - 1 \notin S /\ m > 0
    BY <1>3, <1>4, <1>6
  <2>2. PICK f : Gathers(f, answers, m - 1)
    BY <2>1 DEF S
  <2>3. PICK x : x = ReadsBatch(f[m - 1], answers, m)
    OBVIOUS
  <2>4. PICK h : h = [i \in 0 .. m |-> IF i = m THEN x ELSE f[i]]
    OBVIOUS
  <2>5. \A i \in 0 .. m - 1 : f[i] = IF i = 0 THEN <<>> ELSE ReadsBatch(f[i - 1], answers, i)
    BY <2>2 DEF Gathers
  <2>6. h = [i \in 0 .. m |-> h[i]] /\ h[m] = x /\ \A i \in 0 .. m - 1 : h[i] = f[i]
    BY <2>1, <2>4
  <2>7. ASSUME NEW i \in 0 .. m PROVE h[i] = IF i = 0 THEN <<>> ELSE ReadsBatch(h[i - 1], answers, i)
    <3>1. CASE i = m
      <4>1. m - 1 \in 0 .. m - 1
        BY <2>1
      <4>2. h[i] = x /\ i # 0 /\ h[i - 1] = f[m - 1]
        <5>1. h[m - 1] = f[m - 1]
          BY <2>6, <4>1
        <5> QED BY <2>1, <2>6, <3>1, <5>1
      <4> QED BY <2>3, <3>1, <4>2
    <3>2. CASE i # m /\ i # 0
      <4>1. i \in 0 .. m - 1 /\ i - 1 \in 0 .. m - 1
        BY <2>1, <3>2
      <4> QED BY <2>5, <2>6, <3>2, <4>1
    <3>3. CASE i = 0
      <4>1. i \in 0 .. m - 1
        BY <2>1, <3>3
      <4> QED BY <2>5, <2>6, <3>3, <4>1
    <3> QED BY <3>1, <3>2, <3>3
  <2>8. Gathers(h, answers, m)
    BY <2>6, <2>7 DEF Gathers
  <2> QED BY <1>4, <2>8
<1> QED BY <1>5, <1>6

\* A list of recommendations, and the answers of a job search.
ListOK(list) ==
  /\ Len(list) \in Nat /\ list = [i \in 1 .. Len(list) |-> list[i]]
  /\ \A i \in 1 .. Len(list) : list[i] \in Recommendations
JobAnswers == \A b \in BatchIds : ListOK(batch[b].answer.list)

\* What the first n batches found.
FoundTo(n) ==
  {r \in UNION {ToSet(batch[b].answer.list) : b \in {c \in Answered : c <= n}} : Valid(r)}

LEMMA FoundMore ==
  ASSUME JobAnswers, NEW m \in BatchIds
  PROVE  FoundTo(m) = IF m \in Answered
                      THEN FoundTo(m - 1) \cup ValidTo(batch[m].answer.list, Len(batch[m].answer.list))
                      ELSE FoundTo(m - 1)
<1>1. PICK P, Q : P = {c \in Answered : c <= m} /\ Q = {c \in Answered : c <= m - 1}
  OBVIOUS
<1>2. P = IF m \in Answered THEN Q \cup {m} ELSE Q
  BY <1>1 DEF Answered, BatchIds
<1>3. PICK list : list = batch[m].answer.list
  OBVIOUS
<1>4. ToSet(list) = {list[i] : i \in 1 .. Len(list)}
  <2>1. DOMAIN list = 1 .. Len(list)
    BY <1>3 DEF JobAnswers, ListOK
  <2> QED BY <2>1 DEF ToSet
<1>5. FoundTo(m) = {r \in UNION {ToSet(batch[b].answer.list) : b \in P} : Valid(r)}
  BY <1>1 DEF FoundTo
<1>6. FoundTo(m - 1) = {r \in UNION {ToSet(batch[b].answer.list) : b \in Q} : Valid(r)}
  BY <1>1 DEF FoundTo
<1>7. ValidTo(list, Len(list)) = {r \in ToSet(list) : Valid(r)}
  BY <1>4 DEF ValidTo
<1>8. CASE m \in Answered
  <2>1. P = Q \cup {m}
    BY <1>2, <1>8
  <2> QED BY <1>3, <1>5, <1>6, <1>7, <1>8, <2>1
<1>9. CASE m \notin Answered
  BY <1>2, <1>5, <1>6, <1>9
<1> QED BY <1>8, <1>9

LEMMA GathersKeep ==
  ASSUME JobAnswers, NEW f, Gathers(f, batch, MaxBatches), NEW n \in 0 .. MaxBatches PROVE KeepsBest(f[n], FoundTo(n))
<1> DEFINE S == {k \in 0 .. MaxBatches : ~KeepsBest(f[k], FoundTo(k))}
<1>1. SUFFICES ASSUME S # {} PROVE FALSE
  OBVIOUS
<1>2. S \in SUBSET Nat /\ MaxBatches \in Nat
  BY LocalAgentsAssumption
<1> HIDE DEF S
<1>3. PICK m \in S : \A k \in S : m <= k
  BY <1>1, <1>2, Least
<1>4. m \in 0 .. MaxBatches /\ ~KeepsBest(f[m], FoundTo(m))
  BY DEF S
<1>5. f[m] = IF m = 0 THEN <<>> ELSE ReadsBatch(f[m - 1], batch, m)
  BY <1>4 DEF Gathers
<1>6. m # 0
  <2> SUFFICES ASSUME m = 0 PROVE FALSE
    OBVIOUS
  <2>1. FoundTo(0) = {}
    BY DEF FoundTo, Answered, BatchIds
  <2> QED BY <1>4, <1>5, <2>1, KeepsNothing
<1>7. m - 1 \in 0 .. MaxBatches /\ m - 1 \notin S /\ m \in BatchIds
  BY <1>2, <1>3, <1>4, <1>6 DEF BatchIds
<1>8. PICK g, G, list : g = f[m - 1] /\ G = FoundTo(m - 1) /\ list = batch[m].answer.list
  OBVIOUS
<1>9. KeepsBest(g, G)
  BY <1>7, <1>8 DEF S
<1>10. CASE m \in Answered
  <2>1. Len(list) \in Nat /\ \A i \in 1 .. Len(list) : list[i] \in Recommendations
    BY <1>7, <1>8 DEF JobAnswers, ListOK
  <2>2. f[m] = TakeAll(g, list)
    BY <1>5, <1>6, <1>8, <1>10 DEF ReadsBatch
  <2>3. FoundTo(m) = G \cup ValidTo(list, Len(list))
    BY <1>7, <1>8, <1>10, FoundMore
  <2> QED BY <1>4, <1>9, <2>1, <2>2, <2>3, TakeAllKeeps
<1>11. CASE m \notin Answered
  <2>1. f[m] = g /\ FoundTo(m) = G
    BY <1>5, <1>6, <1>7, <1>8, <1>11, FoundMore DEF ReadsBatch
  <2> QED BY <1>4, <1>9, <2>1
<1> QED BY <1>10, <1>11

LEMMA GatheredKeeps == ASSUME JobAnswers PROVE KeepsBest(Gathered, Found)
<1> DEFINE Is(f) == f = [b \in 0 .. MaxBatches |->
                           IF b = 0 THEN <<>>
                           ELSE IF b \in Answered THEN TakeAll(f[b - 1], batch[b].answer.list) ELSE f[b - 1]]
           upTo == CHOOSE f : Is(f)
<1>1. Gathered = upTo[MaxBatches]
  BY DEF Gathered
<1>2. MaxBatches \in Nat /\ MaxBatches \in 0 .. MaxBatches
  BY LocalAgentsAssumption
<1>3. \E f : Is(f)
  <2>1. PICK f : Gathers(f, batch, MaxBatches)
    BY <1>2, GathersExist
  <2>2. Is(f)
    BY <2>1 DEF Gathers, ReadsBatch
  <2> QED BY <2>2
<1>4. Is(upTo)
  BY <1>3
<1>5. Gathers(upTo, batch, MaxBatches)
  BY <1>4 DEF Gathers, ReadsBatch
<1> HIDE DEF upTo
<1>6. FoundTo(MaxBatches) = Found
  <2>1. {c \in Answered : c <= MaxBatches} = Answered
    BY <1>2 DEF Answered, BatchIds
  <2> QED BY <2>1 DEF FoundTo, Found
<1> QED BY <1>1, <1>2, <1>5, <1>6, GathersKeep

-----------------------------------------------------------------------------
(***************************************************************************)
(* The order of what is kept.                                              *)
(***************************************************************************)

AheadOf(s, j) == {i \in DOMAIN s : Ahead(s, i, j)}

LEMMA AheadFacts ==
  ASSUME NEW s \in Seq(ValidOnes), NEW n, n = Len(s)
  PROVE  /\ n \in Nat /\ DOMAIN s = 1 .. n /\ \A i \in 1 .. n : s[i].score \in Nat
         /\ \A j \in 1 .. n : j \notin AheadOf(s, j) /\ AheadOf(s, j) \subseteq 1 .. n
         /\ \A i, j \in 1 .. n : Ahead(s, i, j) => AheadOf(s, i) \cup {i} \subseteq AheadOf(s, j)
         /\ \A i, j \in 1 .. n : i = j \/ Ahead(s, i, j) \/ Ahead(s, j, i)
<1>1. n \in Nat /\ DOMAIN s = 1 .. n /\ \A i \in 1 .. n : s[i] \in ValidOnes
  OBVIOUS
<1>2. \A i \in 1 .. n : s[i].score \in Nat
  BY <1>1, LocalAgentsAssumption DEF ValidOnes
<1>3. PICK c : c = [i \in 1 .. n |-> s[i].score]
  OBVIOUS
<1>4. \A i \in 1 .. n : c[i] = s[i].score /\ c[i] \in Nat
  BY <1>2, <1>3
<1>5. \A i, j \in 1 .. n : Ahead(s, i, j) <=> c[i] > c[j] \/ (c[i] = c[j] /\ i < j)
  BY <1>4 DEF Ahead
<1>6. \A j \in 1 .. n : AheadOf(s, j) = {i \in 1 .. n : c[i] > c[j] \/ (c[i] = c[j] /\ i < j)}
  BY <1>1, <1>5 DEF AheadOf
<1>7. \A j \in 1 .. n : j \notin AheadOf(s, j) /\ AheadOf(s, j) \subseteq 1 .. n
  BY <1>1, <1>4, <1>6
<1>8. ASSUME NEW i \in 1 .. n, NEW j \in 1 .. n, Ahead(s, i, j) PROVE AheadOf(s, i) \cup {i} \subseteq AheadOf(s, j)
  <2>1. c[i] > c[j] \/ (c[i] = c[j] /\ i < j)
    BY <1>5, <1>8
  <2>2. ASSUME NEW k \in 1 .. n, c[k] > c[i] \/ (c[k] = c[i] /\ k < i)
        PROVE  c[k] > c[j] \/ (c[k] = c[j] /\ k < j)
    BY <1>1, <1>4, <2>1, <2>2
  <2> QED BY <1>6, <2>1, <2>2
<1>9. \A i, j \in 1 .. n : i = j \/ Ahead(s, i, j) \/ Ahead(s, j, i)
  BY <1>1, <1>4, <1>5
<1> QED BY <1>1, <1>2, <1>7, <1>8, <1>9

LEMMA PlaceFacts ==
  ASSUME NEW s \in Seq(ValidOnes), NEW n, n = Len(s)
  PROVE  /\ \A j \in 1 .. n : Place(s, j) \in 1 .. n
         /\ \A i, j \in 1 .. n : Ahead(s, i, j) => Place(s, i) < Place(s, j)
<1>1. n \in Nat /\ IsFiniteSet(1 .. n) /\ Cardinality(1 .. n) = n
  <2>1. n \in Nat
    BY AheadFacts
  <2>2. 1 \in Int /\ n \in Int
    BY <2>1
  <2>3. IsFiniteSet(1 .. n) /\ Cardinality(1 .. n) = IF 1 > n THEN 0 ELSE n - 1 + 1
    BY <2>2, FS_Interval, Zenon
  <2> QED BY <2>1, <2>3
<1>2. ASSUME NEW j \in 1 .. n
      PROVE  /\ IsFiniteSet(AheadOf(s, j)) /\ Cardinality(AheadOf(s, j)) \in Nat
             /\ IsFiniteSet(AheadOf(s, j) \cup {j}) /\ Cardinality(AheadOf(s, j) \cup {j}) = Place(s, j)
  <2>1. j \notin AheadOf(s, j) /\ AheadOf(s, j) \subseteq 1 .. n
    BY AheadFacts
  <2>2. IsFiniteSet(AheadOf(s, j)) /\ Cardinality(AheadOf(s, j)) \in Nat
    BY <1>1, <2>1, FS_Subset, FS_CardinalityType
  <2>3. Cardinality(AheadOf(s, j) \cup {j}) = Cardinality(AheadOf(s, j)) + 1 /\ IsFiniteSet(AheadOf(s, j) \cup {j})
    BY <2>1, <2>2, FS_AddElement
  <2> QED BY <2>2, <2>3 DEF Place, AheadOf
<1>3. ASSUME NEW j \in 1 .. n PROVE Place(s, j) \in 1 .. n
  <2>1. PICK T : T = AheadOf(s, j) \cup {j}
    OBVIOUS
  <2>2. T \subseteq 1 .. n /\ Cardinality(T) = Place(s, j)
    BY <1>2, <2>1, AheadFacts
  <2>3. Cardinality(T) <= n
    BY <1>1, <2>2, FS_Subset
  <2>4. Place(s, j) = Cardinality(AheadOf(s, j)) + 1
    BY DEF Place, AheadOf
  <2>5. Cardinality(AheadOf(s, j)) \in Nat
    BY <1>2
  <2>6. Place(s, j) <= n
    BY <2>2, <2>3
  <2> QED BY <1>1, <2>4, <2>5, <2>6
<1>4. ASSUME NEW i \in 1 .. n, NEW j \in 1 .. n, Ahead(s, i, j) PROVE Place(s, i) < Place(s, j)
  <2>1. PICK T, U : T = AheadOf(s, i) \cup {i} /\ U = AheadOf(s, j)
    OBVIOUS
  <2>2. T \subseteq U /\ IsFiniteSet(U) /\ Cardinality(T) = Place(s, i) /\ Cardinality(U) \in Nat
    BY <1>2, <1>4, <2>1, AheadFacts
  <2>3. Cardinality(T) <= Cardinality(U)
    BY <2>2, FS_Subset
  <2>4. Place(s, j) = Cardinality(U) + 1
    BY <2>1 DEF Place, AheadOf
  <2>5. Place(s, i) \in 1 .. n
    BY <1>3
  <2> QED BY <1>1, <2>2, <2>3, <2>4, <2>5
<1> QED BY <1>3, <1>4

\* h leads from the places to what is at them.
Leads(h, s, n) ==
  /\ h \in [1 .. n -> 1 .. n]
  /\ \A j \in 1 .. n : \E m \in 1 .. n : h[m] = j
  /\ \A l, m \in 1 .. n : l < m => h[l] # h[m] /\ s[h[l]].score >= s[h[m]].score
  /\ Sorted(s) = [m \in 1 .. n |-> s[h[m]]]

LEMMA SortedLeads ==
  ASSUME NEW s \in Seq(ValidOnes), NEW n, n = Len(s) PROVE \E h : Leads(h, s, n)
<1>1. n \in Nat /\ DOMAIN s = 1 .. n /\ \A i \in 1 .. n : s[i].score \in Nat
  BY AheadFacts
<1>2. PICK f : f = [j \in 1 .. n |-> Place(s, j)]
  OBVIOUS
<1>3. f \in [1 .. n -> 1 .. n] /\ \A j \in 1 .. n : f[j] = Place(s, j)
  BY <1>2, PlaceFacts
<1>4. ASSUME NEW i \in 1 .. n, NEW j \in 1 .. n, f[i] = f[j] PROVE i = j
  <2>1. ~Ahead(s, i, j) /\ ~Ahead(s, j, i)
    <3>1. f[i] \in Nat /\ f[j] \in Nat
      BY <1>3
    <3> QED BY <1>3, <1>4, <3>1, PlaceFacts
  <2> QED BY <2>1, AheadFacts
<1>5. f \in Injection(1 .. n, 1 .. n)
  BY <1>3, <1>4 DEF Injection, IsInjective
<1>6. IsFiniteSet(1 .. n)
  BY <1>1, FS_Interval
<1>7. f \in Surjection(1 .. n, 1 .. n)
  BY <1>5, <1>6, FS_Injection
<1>8. \A m \in 1 .. n : \E j \in 1 .. n : f[j] = m
  BY <1>7 DEF Surjection
<1>9. PICK h : h = [m \in 1 .. n |-> CHOOSE j \in DOMAIN s : Place(s, j) = m]
  OBVIOUS
<1>10. ASSUME NEW m \in 1 .. n PROVE h[m] \in 1 .. n /\ f[h[m]] = m
  <2>1. \E j \in DOMAIN s : Place(s, j) = m
    BY <1>1, <1>3, <1>8
  <2>2. h[m] = CHOOSE j \in DOMAIN s : Place(s, j) = m
    BY <1>9
  <2>3. h[m] \in DOMAIN s /\ Place(s, h[m]) = m
    BY <2>1, <2>2
  <2> QED BY <1>1, <1>3, <2>3
<1>11. h \in [1 .. n -> 1 .. n]
  BY <1>9, <1>10
<1>12. ASSUME NEW j \in 1 .. n PROVE \E m \in 1 .. n : h[m] = j
  <2>1. f[j] \in 1 .. n /\ h[f[j]] \in 1 .. n /\ f[h[f[j]]] = f[j]
    BY <1>3, <1>10
  <2> QED BY <1>4, <2>1
<1>13. ASSUME NEW l \in 1 .. n, NEW m \in 1 .. n, l < m PROVE h[l] # h[m] /\ s[h[l]].score >= s[h[m]].score
  <2>1. PICK i, j : i = h[l] /\ j = h[m]
    OBVIOUS
  <2>2. i \in 1 .. n /\ j \in 1 .. n /\ f[i] = l /\ f[j] = m
    BY <1>10, <2>1
  <2>3. i # j
    BY <1>13, <2>2
  <2>4. ~Ahead(s, j, i)
    <3> SUFFICES ASSUME Ahead(s, j, i) PROVE FALSE
      OBVIOUS
    <3>1. m < l
      BY <1>3, <2>2, PlaceFacts
    <3> QED BY <1>13, <3>1
  <2>5. Ahead(s, i, j)
    BY <2>2, <2>3, <2>4, AheadFacts
  <2>6. s[i].score \in Nat /\ s[j].score \in Nat
    BY <1>1, <2>2
  <2>7. s[i].score >= s[j].score
    BY <2>5, <2>6 DEF Ahead
  <2> QED BY <2>1, <2>3, <2>7
<1>14. Sorted(s) = [m \in 1 .. n |-> s[h[m]]]
  BY <1>1, <1>9 DEF Sorted
<1>15. Leads(h, s, n)
  BY <1>11, <1>12, <1>13, <1>14 DEF Leads
<1> QED BY <1>15

\* The best score of a posting that is kept is the one kept.
LEMMA BestIs ==
  ASSUME NEW s, KeepsBest(s, Found), NEW i \in 1 .. Len(s)
  PROVE  Best(s[i].posting) = s[i].score
<1>1. PICK r, p : r = s[i] /\ p = r.posting
  OBVIOUS
<1>2. /\ r \in ValidOnes /\ r \in Found /\ Found \subseteq ValidOnes
      /\ \A x \in Found : \E k \in 1 .. Len(s) : s[k].posting = x.posting /\ s[k].score >= x.score
      /\ \A k \in 1 .. Len(s) : s[k].posting = p => k = i
  BY <1>1 DEF KeepsBest
<1>3. r.score \in 1 .. MaxScore /\ \A x \in Found : x.score \in Nat /\ x.score \in 1 .. MaxScore
  BY <1>2, LocalAgentsAssumption DEF ValidOnes
<1>4. \A x \in Found : x.posting = p => x.score <= r.score
  <2> SUFFICES ASSUME NEW x \in Found, x.posting = p PROVE x.score <= r.score
    OBVIOUS
  <2>1. PICK k \in 1 .. Len(s) : s[k].posting = x.posting /\ s[k].score >= x.score
    BY <1>2
  <2>2. s[k] = r
    BY <1>1, <1>2, <2>1
  <2> QED BY <1>3, <2>1, <2>2
<1>5. ASSUME NEW n \in 1 .. MaxScore, \E x \in Found : x.posting = p /\ x.score = n,
             \A x \in Found : x.posting = p => x.score <= n
      PROVE  n = r.score
  <2>1. n <= r.score /\ r.score <= n
    BY <1>1, <1>2, <1>4, <1>5
  <2> QED BY <1>3, <2>1
<1>6. Best(p) = r.score
  BY <1>1, <1>2, <1>3, <1>4, <1>5 DEF Best
<1> QED BY <1>1, <1>6

\* What is shown of it.
LEMMA ShowsBest ==
  ASSUME NEW s, KeepsBest(s, Found), NEW list,
         list = SubSeq(Sorted(s), 1, IF Len(Sorted(s)) < MaxShown THEN Len(Sorted(s)) ELSE MaxShown)
  PROVE  LET shown == {r.posting : r \in ToSet(list)}
             known == {r.posting : r \in Found}
         IN /\ Cardinality(shown) = Len(list)
            /\ \A r \in ToSet(list) : r \in Found /\ r.score = Best(r.posting)
            /\ \A i, j \in DOMAIN list : i < j => list[i].score >= list[j].score
            /\ Len(list) = MaxShown \/ shown = known
            /\ \A p \in known \ shown, r \in ToSet(list) : Best(p) <= r.score
<1>1. PICK n : n = Len(s)
  OBVIOUS
<1>2. s \in Seq(ValidOnes) /\ n \in Nat /\ \A i \in 1 .. n : s[i].score \in Nat
  BY <1>1, AheadFacts DEF KeepsBest
<1>3. PICK h : Leads(h, s, n)
  BY <1>1, <1>2, SortedLeads
<1>4. h \in [1 .. n -> 1 .. n] /\ Sorted(s) = [m \in 1 .. n |-> s[h[m]]]
  BY <1>3 DEF Leads
<1>5. PICK l : l = IF n < MaxShown THEN n ELSE MaxShown
  OBVIOUS
<1>6. l \in Nat /\ l <= n /\ (l = MaxShown \/ l = n) /\ MaxShown \in Nat
  BY <1>2, <1>5, LocalAgentsAssumption
<1>7. Len(Sorted(s)) = n
  BY <1>2, <1>4
<1>8. list = [m \in 1 .. l |-> s[h[m]]] /\ Len(list) = l /\ DOMAIN list = 1 .. l
  <2>1. list = SubSeq(Sorted(s), 1, l)
    BY <1>5, <1>7
  <2>2. PICK t : t = Sorted(s)
    OBVIOUS
  <2>3. t \in Seq(ValidOnes) /\ Len(t) = n /\ \A m \in 1 .. n : t[m] = s[h[m]]
    <3>1. \A m \in 1 .. n : s[h[m]] \in ValidOnes
      BY <1>1, <1>2, <1>4
    <3> QED BY <1>2, <1>4, <2>2, <3>1
  <2>4. list = [m \in 1 .. l |-> t[m]]
    BY <1>6, <2>1, <2>2, <2>3
  <2>5. \A m \in 1 .. l : t[m] = s[h[m]]
    BY <1>2, <1>6, <2>3
  <2> QED BY <1>6, <2>4, <2>5
<1>9. \A m \in 1 .. l : m \in 1 .. n /\ h[m] \in 1 .. n /\ list[m] = s[h[m]]
  BY <1>2, <1>4, <1>6, <1>8
<1>10. ToSet(list) = {list[m] : m \in 1 .. l}
  BY <1>8 DEF ToSet
<1>11. PICK shown, known : shown = {r.posting : r \in ToSet(list)} /\ known = {r.posting : r \in Found}
  OBVIOUS
<1>12. Cardinality(shown) = Len(list)
  <2>1. PICK f : f = [m \in 1 .. l |-> list[m].posting]
    OBVIOUS
  <2>2. shown = {f[m] : m \in 1 .. l}
    <3>1. \A m \in 1 .. l : f[m] = list[m].posting
      BY <2>1
    <3>2. \A q : q \in shown <=> \E m \in 1 .. l : q = list[m].posting
      BY <1>10, <1>11
    <3>3. ASSUME NEW q \in shown PROVE \E m \in 1 .. l : q = f[m]
      <4>1. PICK m \in 1 .. l : q = list[m].posting
        BY <3>2
      <4>2. q = f[m]
        BY <3>1, <4>1
      <4> QED BY <4>2
    <3>4. ASSUME NEW m \in 1 .. l PROVE f[m] \in shown
      <4>1. list[m].posting \in shown
        BY <3>2
      <4> QED BY <3>1, <4>1
    <3> QED BY <3>3, <3>4
  <2>3. ASSUME NEW i \in 1 .. l, NEW j \in 1 .. l, f[i] = f[j] PROVE i = j
    <3>1. s[h[i]].posting = s[h[j]].posting
      BY <1>9, <2>1, <2>3
    <3>2. h[i] = h[j]
      BY <1>1, <1>9, <3>1 DEF KeepsBest
    <3>3. i < j \/ j < i \/ i = j
      BY <1>6
    <3> QED BY <1>3, <1>9, <3>2, <3>3 DEF Leads
  <2>4. f \in Bijection(1 .. l, shown)
    BY <2>1, <2>2, <2>3 DEF Bijection, Injection, Surjection, IsInjective
  <2>5. ExistsBijection(1 .. l, shown)
    BY <2>4 DEF ExistsBijection
  <2>6. IsFiniteSet(1 .. l) /\ Cardinality(1 .. l) = IF 1 > l THEN 0 ELSE l - 1 + 1
    BY <1>6, FS_Interval
  <2>7. Cardinality(shown) = Cardinality(1 .. l)
    BY <2>5, <2>6, FS_Bijection
  <2> QED BY <1>6, <1>8, <2>6, <2>7
<1>13. ASSUME NEW r \in ToSet(list) PROVE r \in Found /\ r.score = Best(r.posting)
  <2>1. PICK m \in 1 .. l : r = list[m]
    BY <1>10
  <2>2. h[m] \in 1 .. Len(s) /\ r = s[h[m]]
    BY <1>1, <1>9, <2>1
  <2> QED BY <2>2, BestIs DEF KeepsBest
<1>14. ASSUME NEW i \in DOMAIN list, NEW j \in DOMAIN list, i < j PROVE list[i].score >= list[j].score
  BY <1>3, <1>8, <1>9, <1>14 DEF Leads
<1>15. ASSUME NEW p \in known
       PROVE  \E m \in 1 .. n : s[h[m]].posting = p /\ (m <= l => p \in shown)
  <2>1. PICK r \in Found : r.posting = p
    BY <1>11
  <2>2. PICK i \in 1 .. n : s[i].posting = p
    BY <1>1, <2>1 DEF KeepsBest
  <2>3. PICK m \in 1 .. n : h[m] = i
    BY <1>3 DEF Leads
  <2>4. m <= l => p \in shown
    <3> SUFFICES ASSUME m <= l PROVE p \in shown
      OBVIOUS
    <3>1. m \in 1 .. l
      BY <1>6
    <3>2. list[m] \in ToSet(list) /\ list[m].posting = p
      BY <1>9, <1>10, <2>2, <2>3, <3>1
    <3> QED BY <1>11, <3>2
  <2> QED BY <2>2, <2>3, <2>4
<1>16. Len(list) = MaxShown \/ shown = known
  <2> SUFFICES ASSUME l = n PROVE shown = known
    BY <1>6, <1>8
  <2>1. known \subseteq shown
    BY <1>2, <1>15
  <2>2. shown \subseteq known
    BY <1>11, <1>13
  <2> QED BY <2>1, <2>2
<1>17. ASSUME NEW p \in known \ shown, NEW r \in ToSet(list) PROVE Best(p) <= r.score
  <2>1. PICK m \in 1 .. n : s[h[m]].posting = p /\ ~(m <= l)
    BY <1>15
  <2>2. PICK k \in 1 .. l : r = list[k]
    BY <1>10
  <2>3. k \in 1 .. n /\ k < m /\ r = s[h[k]]
    <3>1. k < m
      BY <1>2, <1>6, <2>1
    <3> QED BY <1>9, <2>2, <3>1
  <2>4. s[h[k]].score >= s[h[m]].score
    BY <1>3, <2>1, <2>3 DEF Leads
  <2>5. h[m] \in 1 .. Len(s) /\ h[k] \in 1 .. n
    BY <1>1, <1>4, <2>3
  <2>6. Best(p) = s[h[m]].score
    BY <2>1, <2>5, BestIs
  <2>7. s[h[m]].score \in Nat /\ s[h[k]].score \in Nat
    BY <1>1, <1>2, <2>5
  <2> QED BY <2>3, <2>4, <2>6, <2>7
<1> QED BY <1>11, <1>12, <1>13, <1>14, <1>16, <1>17

-----------------------------------------------------------------------------
(***************************************************************************)
(* What a call of the machine's own agents returns.                        *)
(***************************************************************************)

AnswerOK(told) == told.cites \subseteq Sources \cup {Unknown} /\ (purpose = "jobs" => ListOK(told.list))
BatchOK(x) ==
  /\ x \in [pc : {x.pc}, left : {x.left}, overdue : {x.overdue}, answer : {x.answer}]
  /\ AnswerOK(x.answer)

NoneRuns == \A b \in BatchIds : batch[b].pc # "running"

AgentsInv ==
  /\ batch = [b \in BatchIds |-> batch[b]] /\ \A b \in BatchIds : BatchOK(batch[b])
  /\ workdirs = WorkdirsOf(batch)
  /\ result # Pending => NoneRuns
  /\ result.cites \subseteq Sources
  /\ result.kind = "agent_unavailable" => Answered = {}
  /\ purpose = "jobs" /\ result.kind = "found" => result.list = Merge

LEMMA NoAnswerOK == AnswerOK(NoAnswer)
<1>1. ListOK(<<>>)
  BY DEF ListOK
<1> QED BY <1>1 DEF AnswerOK, NoAnswer

LEMMA NewBatchOK ==
  ASSUME NEW at, NEW left, NEW told, AnswerOK(told), NEW x, x = Batch(at, left, told)
  PROVE  BatchOK(x) /\ x.pc = at /\ x.answer = told
BY DEF Batch, BatchOK

LEMMA SpawnOK == ASSUME NEW left PROVE BatchOK(Spawn(left))
BY NoAnswerOK, NewBatchOK DEF Spawn

LEMMA AgentsStart == LocalAgentsInit => AgentsInv
<1> SUFFICES ASSUME LocalAgentsInit PROVE AgentsInv
  OBVIOUS
<1>1. batch = [b \in BatchIds |-> NoBatch] /\ workdirs = {} /\ result = Pending
  BY DEF LocalAgentsInit
<1>2. BatchOK(NoBatch) /\ NoBatch.pc = "none"
  BY NoAnswerOK, NewBatchOK DEF NoBatch
<1>3. batch = [b \in BatchIds |-> batch[b]] /\ \A b \in BatchIds : batch[b] = NoBatch
  BY <1>1
<1>4. workdirs = WorkdirsOf(batch)
  BY <1>1, <1>2, <1>3 DEF WorkdirsOf
<1>5. Pending.kind = "pending" /\ Pending.cites = {}
  BY DEF Pending, Result
<1> QED BY <1>1, <1>2, <1>3, <1>4, <1>5 DEF AgentsInv

\* While nothing is returned, only the children matter.
LEMMA StillPending ==
  ASSUME AgentsInv, result = Pending, UNCHANGED <<purpose, result>>,
         batch' = [b \in BatchIds |-> batch'[b]], \A b \in BatchIds : BatchOK(batch'[b]), workdirs' = WorkdirsOf(batch')
  PROVE  AgentsInv'
<1>1. Pending.kind = "pending" /\ Pending.cites = {}
  BY DEF Pending, Result
<1>2. result' = Pending' /\ Pending' = Pending
  BY DEF Pending, Result
<1>3. \A b \in BatchIds : BatchOK(batch[b])'
  BY DEF BatchOK, AnswerOK
<1> QED BY <1>1, <1>2, <1>3 DEF AgentsInv, WorkdirsOf

LEMMA StartKeeps == ASSUME AgentsInv, NEW n, StartCall(n) PROVE AgentsInv'
<1>1. /\ result = Pending /\ UNCHANGED <<purpose, result>> /\ workdirs' = WorkdirsOf(batch')
      /\ batch' = [b \in BatchIds |-> IF b <= n THEN Spawn(Candidates) ELSE NoBatch]
  BY DEF StartCall
<1>2. BatchOK(NoBatch) /\ BatchOK(Spawn(Candidates))
  BY NoAnswerOK, NewBatchOK, SpawnOK DEF NoBatch
<1>3. batch' = [b \in BatchIds |-> batch'[b]] /\ \A b \in BatchIds : BatchOK(batch'[b])
  BY <1>1, <1>2
<1> QED BY <1>1, <1>3, StillPending

LEMMA OverdueKeeps == ASSUME AgentsInv, NEW c \in BatchIds, Overdue(c) PROVE AgentsInv'
<1>1. /\ batch[c].pc = "running" /\ UNCHANGED <<purpose, workdirs, result>>
      /\ batch' = [batch EXCEPT ![c].overdue = TRUE]
  BY DEF Overdue
<1>2. result = Pending
  BY <1>1 DEF AgentsInv, NoneRuns
<1>3. PICK x, y : x = batch[c] /\ y = [x EXCEPT !.overdue = TRUE]
  OBVIOUS
<1>4. x \in [pc : {x.pc}, left : {x.left}, overdue : {x.overdue}, answer : {x.answer}] /\ AnswerOK(x.answer)
  BY <1>3 DEF AgentsInv, BatchOK
<1>5. BatchOK(y) /\ y.pc = x.pc
  <2>1. y \in [pc : {x.pc}, left : {x.left}, overdue : {TRUE}, answer : {x.answer}]
    BY <1>3, <1>4
  <2>2. y.pc = x.pc /\ y.left = x.left /\ y.overdue = TRUE /\ y.answer = x.answer
    BY <2>1
  <2> QED BY <1>4, <2>1, <2>2 DEF BatchOK
<1>6. batch' = [b \in BatchIds |-> IF b = c THEN y ELSE batch[b]]
  BY <1>1, <1>3 DEF AgentsInv
<1>7. batch' = [b \in BatchIds |-> batch'[b]] /\ \A b \in BatchIds : BatchOK(batch'[b]) /\ batch'[b].pc = batch[b].pc
  BY <1>3, <1>5, <1>6 DEF AgentsInv
<1>8. workdirs' = WorkdirsOf(batch')
  BY <1>1, <1>7 DEF AgentsInv, WorkdirsOf
<1> QED BY <1>1, <1>2, <1>7, <1>8, StillPending

LEMMA AnswersOK == ASSUME NEW told \in Answers PROVE AnswerOK(told)
<1>1. CASE purpose = "jobs"
  <2>1. PICK n \in 0 .. MaxListed : \E list \in [1 .. n -> Recommendations] : told = [list |-> list, cites |-> {}]
    BY <1>1 DEF Answers
  <2>4. PICK list \in [1 .. n -> Recommendations] : told = [list |-> list, cites |-> {}]
    BY <2>1
  <2>2. n \in Nat
    BY LocalAgentsAssumption
  <2>3. ListOK(list)
    BY <2>2 DEF ListOK
  <2> QED BY <2>4, <2>3 DEF AnswerOK
<1>2. CASE purpose = "analysis"
  BY <1>2 DEF Answers, AnswerOK
<1>3. CASE purpose \notin {"jobs", "analysis"}
  BY <1>3, NoAnswerOK DEF Answers
<1> QED BY <1>1, <1>2, <1>3

LEMMA ExitsKeeps ==
  ASSUME AgentsInv, NEW c \in BatchIds, NEW ok, NEW parses, NEW told \in Answers, Exits(c, ok, parses, told)
  PROVE  AgentsInv'
<1>1. /\ batch[c].pc = "running" /\ UNCHANGED <<purpose, result>> /\ workdirs' = WorkdirsOf(batch')
  BY DEF Exits
<1>2. result = Pending
  BY <1>1 DEF AgentsInv, NoneRuns
<1>3. \E y : BatchOK(y) /\ batch' = [batch EXCEPT ![c] = y]
  <2>1. PICK next : \/ batch' = [batch EXCEPT ![c] = Spawn(next)]
                    \/ batch' = [batch EXCEPT ![c] = Batch("answered", <<>>, told)]
                    \/ batch' = [batch EXCEPT ![c] = Batch("failed", <<>>, NoAnswer)]
    <3>1. PICK next : next = IF purpose = "model" \/ stopped THEN <<>> ELSE Tail(batch[c].left)
      OBVIOUS
    <3> QED BY <3>1 DEF Exits
  <2>2. BatchOK(Spawn(next)) /\ BatchOK(Batch("answered", <<>>, told)) /\ BatchOK(Batch("failed", <<>>, NoAnswer))
    BY SpawnOK, AnswersOK, NoAnswerOK, NewBatchOK
  <2> QED BY <2>1, <2>2
<1>4. PICK y : BatchOK(y) /\ batch' = [batch EXCEPT ![c] = y]
  BY <1>3
<1>5. batch' = [b \in BatchIds |-> batch'[b]] /\ \A b \in BatchIds : BatchOK(batch'[b])
  BY <1>4 DEF AgentsInv
<1> QED BY <1>1, <1>2, <1>5, StillPending

\* The children are as they were, and none of them runs.
LEMMA Returns ==
  ASSUME AgentsInv, UNCHANGED <<purpose, batch, workdirs>>, NoneRuns, result'.cites \subseteq Sources,
         result'.kind = "agent_unavailable" => Answered = {},
         purpose = "jobs" /\ result'.kind = "found" => result'.list = Merge
  PROVE  AgentsInv'
<1>1. \A b \in BatchIds : BatchOK(batch[b])'
  BY DEF AgentsInv, BatchOK, AnswerOK
<1>2. workdirs' = WorkdirsOf(batch)' /\ NoneRuns' /\ Answered' = Answered
  BY DEF AgentsInv, WorkdirsOf, NoneRuns, Answered
<1>3. Merge' = Merge
  BY <1>2 DEF Merge, Gathered
<1> QED BY <1>1, <1>2, <1>3 DEF AgentsInv

LEMMA SettlesKeeps == ASSUME AgentsInv, Settles PROVE AgentsInv'
<1>1. UNCHANGED <<purpose, batch, workdirs>> /\ NoneRuns
  BY DEF Settles, NoneRuns
<1>2. PICK how, list, cites : /\ result' = Result(how, list, cites)
                              /\ how = "agent_unavailable" => Answered = {}
                              /\ purpose = "jobs" /\ how = "found" => list = Merge
                              /\ cites \subseteq Sources
  <2>1. CASE purpose = "jobs"
    BY <2>1 DEF Settles
  <2>2. CASE purpose = "analysis"
    <3>1. CASE Answered # {} /\ Unknown \notin batch[1].answer.cites
      <4>1. result' = Result("found", <<>>, batch[1].answer.cites)
        BY <2>2, <3>1 DEF Settles
      <4>2. 1 \in BatchIds
        BY LocalAgentsAssumption DEF BatchIds
      <4>3. batch[1].answer.cites \subseteq Sources
        BY <3>1, <4>2 DEF AgentsInv, BatchOK, AnswerOK
      <4> QED BY <2>2, <4>1, <4>3
    <3>2. CASE ~(Answered # {} /\ Unknown \notin batch[1].answer.cites)
      <4>1. result' = Result("local", <<>>, {})
        BY <2>2, <3>2 DEF Settles
      <4> QED BY <2>2, <4>1
    <3> QED BY <3>1, <3>2
  <2>3. CASE purpose \notin {"jobs", "analysis"}
    <3>1. PICK how : result' = Result(how, <<>>, {}) /\ how \in {"raised", "found", "nothing"}
      <4>1. CASE purpose = "sources"
        <5>1. PICK how : how = CASE batch[1].pc = "failed" -> "raised" [] batch[1].pc = "answered" -> "found"
                                   [] OTHER -> "nothing"
          OBVIOUS
        <5>2. result' = Result(how, <<>>, {})
          BY <2>3, <4>1, <5>1 DEF Settles
        <5> QED BY <5>1, <5>2
      <4>2. CASE purpose # "sources"
        <5>1. PICK how : how = IF Answered = {} THEN "raised" ELSE "found"
          OBVIOUS
        <5>2. result' = Result(how, <<>>, {})
          BY <2>3, <4>2, <5>1 DEF Settles
        <5> QED BY <5>1, <5>2
      <4> QED BY <4>1, <4>2
    <3> QED BY <2>3, <3>1
  <2> QED BY <2>1, <2>2, <2>3
<1>3. result'.kind = how /\ result'.list = list /\ result'.cites = cites
  BY <1>2 DEF Result
<1> QED BY <1>1, <1>2, <1>3, Returns

LEMMA RestKeeps == ASSUME AgentsInv, RefuseCall \/ StopCall \/ UNCHANGED agentVars PROVE AgentsInv'
<1>1. CASE RefuseCall
  <2>1. UNCHANGED <<purpose, batch, workdirs>> /\ NoneRuns
    BY <1>1 DEF RefuseCall, NoneRuns
  <2>2. \/ result' = Result("document_unavailable", <<>>, {})
        \/ result' = Result("local", <<>>, {})
    BY <1>1 DEF RefuseCall
  <2>3. result'.cites = {} /\ result'.kind \in {"document_unavailable", "local"}
    BY <2>2 DEF Result
  <2> QED BY <2>1, <2>3, Returns
<1>2. CASE StopCall \/ UNCHANGED agentVars
  <2>1. UNCHANGED <<purpose, batch, workdirs, result>>
    BY <1>2 DEF StopCall, agentVars
  <2>2. \A b \in BatchIds : BatchOK(batch[b])'
    BY <2>1 DEF AgentsInv, BatchOK, AnswerOK
  <2>3. WorkdirsOf(batch)' = WorkdirsOf(batch) /\ NoneRuns' = NoneRuns /\ Answered' = Answered /\ Pending' = Pending
    BY <2>1 DEF WorkdirsOf, NoneRuns, Answered, Pending, Result
  <2>4. Merge' = Merge
    BY <2>1, <2>3 DEF Merge, Gathered
  <2> QED BY <2>1, <2>2, <2>3, <2>4 DEF AgentsInv
<1> QED BY <1>1, <1>2

LEMMA AgentsKeep == ASSUME AgentsInv, [LocalAgentsNext]_agentVars PROVE AgentsInv'
<1>1. CASE \E n \in BatchIds : StartCall(n)
  BY <1>1, StartKeeps
<1>2. CASE \E b \in BatchIds : Overdue(b)
  BY <1>2, OverdueKeeps
<1>3. CASE \E b \in BatchIds : \E ok, parses \in BOOLEAN, told \in Answers : Exits(b, ok, parses, told)
  BY <1>3, ExitsKeeps
<1>4. CASE Settles
  BY <1>4, SettlesKeeps
<1>5. CASE RefuseCall \/ StopCall \/ UNCHANGED agentVars
  BY <1>5, RestKeeps
<1> QED BY <1>1, <1>2, <1>3, <1>4, <1>5 DEF LocalAgentsNext

LEMMA AgentsAreSound == AgentsInv => AgentsSound
<1> SUFFICES ASSUME AgentsInv PROVE AgentsSound
  OBVIOUS
<1>1. MergedBest
  <2> SUFFICES ASSUME purpose = "jobs", result.kind = "found" PROVE MergedBest
    BY DEF MergedBest
  <2>1. PICK list : list = result.list
    OBVIOUS
  <2>2. list = SubSeq(Sorted(Gathered), 1, IF Len(Sorted(Gathered)) < MaxShown THEN Len(Sorted(Gathered)) ELSE MaxShown)
    BY <2>1 DEF AgentsInv, Merge
  <2>3. JobAnswers
    BY DEF AgentsInv, BatchOK, AnswerOK, JobAnswers
  <2>4. KeepsBest(Gathered, Found)
    BY <2>3, GatheredKeeps
  <2> QED BY <2>1, <2>2, <2>4, ShowsBest DEF MergedBest
<1>2. result # Pending => workdirs = {}
  BY DEF AgentsInv, NoneRuns, WorkdirsOf
<1> QED BY <1>1, <1>2 DEF AgentsInv, AgentsSound

\* AgentsSound: a search, however its children answer, fail, are late or are
\* killed, shows each posting once with the best score it was given, the best
\* first; it leaves no child or directory; an analysis cites what it was given.
THEOREM SearchesAreSound == LocalAgentsSpec => []AgentsSound
BY AgentsStart, AgentsKeep, AgentsAreSound, PTL DEF LocalAgentsSpec

-----------------------------------------------------------------------------
(***************************************************************************)
(* Of what jobs call, one part moves.                                      *)
(***************************************************************************)

PartsInv ==
  /\ part = "call" => CallInv
  /\ part = "agents" => AgentsInv
  /\ part = "model" => ModelsInv
  /\ part = "fetch" => FetchInv
  /\ part = "preview" => PreviewInv
  /\ part = "prompts" => PromptInv

LEMMA PartsStart == MCInit => PartsInv
<1> SUFFICES ASSUME MCInit PROVE PartsInv
  OBVIOUS
<1>1. part = "call" => CallInv
  BY CallStart DEF MCInit
<1>2. part = "agents" => AgentsInv
  BY AgentsStart DEF MCInit
<1>3. part = "model" => ModelsInv
  BY ModelsStart DEF MCInit
<1>4. part = "fetch" => FetchInv
  BY FetchStart DEF MCInit
<1>5. part = "preview" => PreviewInv
  BY PreviewStart DEF MCInit
<1>6. part = "prompts" => PromptInv
  BY PromptStart DEF MCInit
<1> QED BY <1>1, <1>2, <1>3, <1>4, <1>5, <1>6 DEF PartsInv

\* A step is one of the part that moves.
LEMMA PartMoves ==
  ASSUME [MCNext]_MCVars
  PROVE  /\ part' = part
         /\ part = "call" => [ProviderCallNext]_callVars
         /\ part = "agents" => [LocalAgentsNext]_agentVars
         /\ part = "model" => [ModelsNext]_modelVars
         /\ part = "fetch" => [FetchNext]_fetchVars
         /\ part = "preview" => [PreviewNext]_previewVars
         /\ part = "prompts" => [PromptNext]_promptVars
<1>1. CASE MCNext
  BY <1>1 DEF MCNext
<1>2. CASE UNCHANGED MCVars
  BY <1>2 DEF MCVars
<1> QED BY <1>1, <1>2

LEMMA PartsKeep == PartsInv /\ [MCNext]_MCVars => PartsInv'
<1> SUFFICES ASSUME PartsInv, [MCNext]_MCVars PROVE PartsInv'
  OBVIOUS
<1>1. part = "call" => CallInv'
  BY PartMoves, CallKeeps DEF PartsInv
<1>2. part = "agents" => AgentsInv'
  BY PartMoves, AgentsKeep DEF PartsInv
<1>3. part = "model" => ModelsInv'
  BY PartMoves, ModelsKeep DEF PartsInv
<1>4. part = "fetch" => FetchInv'
  BY PartMoves, FetchStep DEF PartsInv
<1>5. part = "preview" => PreviewInv'
  BY PartMoves, PreviewKeeps DEF PartsInv
<1>6. part = "prompts" => PromptInv'
  BY PartMoves, PromptKeeps DEF PartsInv
<1>7. part' = part
  BY PartMoves
<1> QED BY <1>1, <1>2, <1>3, <1>4, <1>5, <1>6, <1>7 DEF PartsInv

\* Whatever is asked of an agent, however its answer, the signals, the timers
\* and the tools interleave: what the call of it tells is true, be the agent a
\* provider, the model of one or a tool of this machine; of what several tools
\* found the best is shown, and no child, timer or directory is left behind.
THEOREM AgentCallsAreSound == MCSpec => []AgentCallsSound
<1>1. PartsInv => AgentCallsSound
  BY CallIsSound, AgentsAreSound, ModelsAreSound DEF PartsInv, AgentCallsSound
<1> QED BY PartsStart, PartsKeep, <1>1, PTL DEF MCSpec

\* Whatever is fetched, previewed or asked: a page and a file give a text only
\* within their limits and leave nothing behind, what is sent of the texts of
\* a prompt is what was shown, within its limit, and what is kept was sent.
THEOREM IngestionIsSound == MCSpec => []IngestionSound
<1>1. PartsInv => IngestionSound
  <2>1. part = "fetch" /\ FetchInv => FetchSound
    BY FetchIsSound
  <2>2. PreviewInv => PreviewSound
    BY PreviewIsSound
  <2>3. PromptInv => TextsSound
    BY PromptIsSound
  <2> QED BY <2>1, <2>2, <2>3 DEF PartsInv, IngestionSound
<1> QED BY PartsStart, PartsKeep, <1>1, PTL DEF MCSpec
=============================================================================
