------------------------ MODULE JobScheduler_proofs ------------------------
(***************************************************************************)
(* Proofs about any number of scheduler processes on one durable queue,    *)
(* with late timers, hanging handlers and crashes.                         *)
(*                                                                         *)
(* Every step does one of five things to the attempts (Rests, ClaimNext,   *)
(* Works, Ends, Dies), and one of the queue's transactions, or none, to    *)
(* the rows; the invariants are shown on these.                            *)
(***************************************************************************)
EXTENDS JobScheduler, DurableJobs_proofs

Attempt ==
  [phase: Unfinished \cup {"none", "done"},
   by: Owners \cup {None},
   abort: {"no", "timeout", "cancel", "shutdown", "lost_lease"},
   result: {"none", "succeeded", "failed", "aborted"},
   ran: BOOLEAN]

InProgress == {"running", "settled"}

\* An attempt that was not made is blank, and those made are numbered by the
\* claims of their job.
AttemptOK(j, n) ==
  /\ att[j][n].phase = "none" => att[j][n] = NoAttempt
  /\ att[j][n].phase # "none" => n <= attempts[j] /\ att[j][n].by \in Owners

\* The maps of a process name attempts of its own that are not finished.
EntryOK(p, j) ==
  /\ LET n == active[p][j] IN
     n # 0 => att[j][n].by = p /\ att[j][n].phase \in Unfinished
  /\ LET n == aborter[p][j] IN
     n # 0 => att[j][n].by = p /\ att[j][n].phase \in InProgress

\* The success of a job was earned by an attempt that is over.
Earned(j) ==
  state[j] = "succeeded" =>
    \E n \in AttemptNumbers :
      att[j][n].result = "succeeded" /\ att[j][n].abort = "no" /\ att[j][n].phase = "done"

SchedulerInv ==
  /\ SafetyInv
  /\ SchedulerTypeOK
  /\ \A j \in Jobs, n \in AttemptNumbers : AttemptOK(j, n)
  /\ \A p \in Owners, j \in Jobs : EntryOK(p, j)
  /\ \A j \in Jobs : Earned(j)

-----------------------------------------------------------------------------
(***************************************************************************)
(* What a step does to the rows.                                           *)
(***************************************************************************)

\* No row succeeds, and none is taken from an owner whose lease is alive.
Spares(i) ==
  /\ state'[i] = "succeeded" => state[i] = "succeeded"
  /\ state[i] = "running" /\ LeaseAlive(i) => state'[i] = "running"

SparesAll == attempts' = attempts /\ \A i \in Jobs : Spares(i)

LEMMA ReconcileSpares == ASSUME SafetyInv, Reconcile PROVE SparesAll /\ [Next]_jobVars
<1>1. CASE UNCHANGED jobVars
  BY <1>1 DEF jobVars, SparesAll, Spares
<1>2. CASE RecoverExpired
  <2>1. Next
    BY <1>2 DEF Next
  <2>2. SparesAll
    BY <1>2 DEF RecoverExpired, ResolveFailures, FailureState, Stale, Held, LeaseAlive,
               SparesAll, Spares
  <2> QED BY <2>1, <2>2
<1> QED BY <1>1, <1>2 DEF Reconcile, Attempted

LEMMA OwnerSpares ==
  ASSUME SafetyInv, NEW j \in Jobs, NEW p \in Owners,
         \/ Attempted(CanStart(j, p), Start(j, p))
         \/ Attempted(CanHeartbeat(j, p), Heartbeat(j, p))
         \/ Attempted(CanCancel(j), Cancel(j))
  PROVE  SparesAll /\ [Next]_jobVars
<1> USE DEF SafetyInv, TypeInv, TypeOK, SparesAll, Spares, Attempted
<1>1. CASE Start(j, p)
  BY <1>1 DEF Start, CanStart, Enter, Next, OwnerStep
<1>2. CASE Heartbeat(j, p)
  BY <1>2 DEF Heartbeat, Next, OwnerStep
<1>3. CASE Cancel(j)
  BY <1>3 DEF Cancel, CanCancel, RequestCancellation, Cancelled, Enter, Next
<1>4. CASE UNCHANGED jobVars
  BY <1>4 DEF jobVars
<1> QED BY <1>1, <1>2, <1>3, <1>4

\* The end of an attempt of p at j: only j's row may change, only if p owns
\* it, and it succeeds only if the verdict was success.
EndsRow(p, j, verdict) ==
  /\ attempts' = attempts
  /\ \A i \in Jobs \ {j} : state'[i] = state[i]
  /\ state'[j] = "succeeded" => state[j] = "succeeded" \/ verdict = "succeed"
  /\ state'[j] # state[j] => owner[j] = p

LEMMA EndOfRow ==
  ASSUME SafetyInv, NEW j \in Jobs, NEW p \in Owners, NEW verdict,
         Terminalize(j, p, verdict)
  PROVE  EndsRow(p, j, verdict) /\ [Next]_jobVars
<1> USE DEF SafetyInv, TypeInv, TypeOK, EndsRow
<1>1. CASE verdict = "succeed" /\ Succeed(j, p)
  BY <1>1 DEF Succeed, CanFinish, Succeeded, Cancelled, Enter, Next, OwnerStep
<1>2. CASE Fail(j, p)
  BY <1>2 DEF Fail, CanFinish, ResolveFailures, FailureState, Next, OwnerStep
<1>3. CASE FinishCancellation(j, p)
  BY <1>3 DEF FinishCancellation, CanFinishCancellation, Cancelled, Enter, Next, OwnerStep
<1>4. CASE Interrupt(j, p)
  BY <1>4 DEF Interrupt, CanInterrupt, ResolveFailures, FailureState, Next, OwnerStep
<1>5. CASE UNCHANGED jobVars
  BY <1>5 DEF jobVars
<1> QED BY <1>1, <1>2, <1>3, <1>4, <1>5 DEF Terminalize, Attempted

-----------------------------------------------------------------------------
(***************************************************************************)
(* What a step does to the attempts.                                       *)
(***************************************************************************)

Rests == SparesAll /\ UNCHANGED <<active, aborter, att>>

\* An unfinished attempt of p goes on: once in progress it stays so until it
\* ends, and a handler that is started gets an abort controller.
Works(p, j, n) ==
  /\ SparesAll
  /\ att[j][n].by = p /\ att[j][n].phase \in Unfinished
  /\ \E b \in Attempt :
       /\ att' = [att EXCEPT ![j][n] = b]
       /\ b.by = p /\ b.phase \in Unfinished
       /\ att[j][n].phase \in InProgress => b.phase \in InProgress
       /\ \/ UNCHANGED aborter
          \/ b.phase \in InProgress /\ aborter' = [aborter EXCEPT ![p][j] = n]
  /\ UNCHANGED active

Won(a) == a.result = "succeeded" /\ a.abort = "no"

Ends(p, j, n) ==
  /\ attempts' = attempts
  /\ \A i \in Jobs \ {j} : Spares(i)
  /\ state'[j] # state[j] => owner[j] = p
  /\ att[j][n].by = p /\ att[j][n].phase \in Unfinished
  /\ \E a \in Attempt :
       /\ a.by = p /\ Finalize(p, j, n, a)
       /\ state'[j] = "succeeded" => state[j] = "succeeded" \/ Won(a)

Dies(p) == SparesAll /\ \E how \in {"exited", "crashed"} : Die(p, how)

MovesOn(p) ==
  \/ Rests \/ Dies(p)
  \/ \E j \in Jobs : ClaimNext(p, j)
  \/ \E j \in Jobs, n \in AttemptNumbers : Works(p, j, n) \/ Ends(p, j, n)

LEMMA AttemptType ==
  ASSUME SchedulerTypeOK, NEW j \in Jobs, NEW n \in AttemptNumbers
  PROVE  att[j][n] \in Attempt
BY DEF SchedulerTypeOK, Attempt

LEMMA AbortWorks ==
  ASSUME NEW a \in Attempt, NEW reason \in {"timeout", "cancel", "shutdown", "lost_lease"}
  PROVE  /\ Abort(a, reason) \in Attempt /\ Abort(a, reason).by = a.by
         /\ a.phase \in InProgress => Abort(a, reason).phase \in InProgress
BY DEF Abort, Attempt, InProgress, Unfinished

LEMMA AttemptMoves ==
  ASSUME SchedulerInv, NEW p \in Owners, NEW j \in Jobs, NEW n \in AttemptNumbers,
         AttemptStep(p, j, n)
  PROVE  MovesOn(p) /\ [Next]_jobVars
<1> DEFINE a == att[j][n]
<1>0. a \in Attempt
  BY AttemptType DEF SchedulerInv
<1> HIDE DEF a
<1> USE DEF SchedulerInv
<1>1. CASE Launch(p, j, n)
  <2>1. a.by = p /\ a.phase = "claimed" /\ Attempted(CanStart(j, p), Start(j, p))
    BY <1>1 DEF Launch, a
  <2>2. SparesAll /\ [Next]_jobVars
    BY <2>1, OwnerSpares
  <2>3. CASE ~CanStart(j, p)
    <3>1. Finalize(p, j, n, a) /\ UNCHANGED jobVars
      BY <1>1, <2>1, <2>3 DEF Launch, Attempted, a
    <3>2. Ends(p, j, n)
      BY <1>0, <2>1, <2>2, <3>1 DEF Ends, SparesAll, Unfinished, jobVars, a
    <3> QED BY <2>2, <3>2 DEF MovesOn
  <2>4. CASE CanStart(j, p)
    <3>1. /\ \/ /\ att' = [att EXCEPT ![j][n] = [a EXCEPT !.phase = "running", !.ran = TRUE]]
                /\ aborter' = [aborter EXCEPT ![p][j] = n]
             \/ /\ att' = [att EXCEPT ![j][n] = [a EXCEPT !.phase = "unhandled"]]
                /\ UNCHANGED aborter
          /\ UNCHANGED active
      BY <1>1, <2>4 DEF Launch, a
    <3>2. /\ [a EXCEPT !.phase = "running", !.ran = TRUE] \in Attempt
          /\ [a EXCEPT !.phase = "running", !.ran = TRUE].by = p
          /\ [a EXCEPT !.phase = "running", !.ran = TRUE].phase = "running"
      BY <1>0, <2>1 DEF Attempt, Unfinished
    <3>3. /\ [a EXCEPT !.phase = "unhandled"] \in Attempt
          /\ [a EXCEPT !.phase = "unhandled"].by = p
          /\ [a EXCEPT !.phase = "unhandled"].phase = "unhandled"
      BY <1>0, <2>1 DEF Attempt, Unfinished
    <3>4. Works(p, j, n)
      BY <2>1, <2>2, <3>1, <3>2, <3>3 DEF Works, Unfinished, InProgress, a
    <3> QED BY <2>2, <3>4 DEF MovesOn
  <2> QED BY <2>3, <2>4
<1>2. CASE FailUnhandled(p, j, n)
  <2>1. /\ a.by = p /\ a.phase = "unhandled" /\ Finalize(p, j, n, a)
        /\ Terminalize(j, p, "fail")
    BY <1>2 DEF FailUnhandled, Terminalize, a
  <2>2. EndsRow(p, j, "fail") /\ [Next]_jobVars
    BY <2>1, EndOfRow
  <2>3. Ends(p, j, n)
    BY <1>0, <2>1, <2>2 DEF Ends, EndsRow, Spares, Unfinished, a
  <2> QED BY <2>2, <2>3 DEF MovesOn
<1>3. CASE Conclude(p, j, n)
  <2>1. /\ a.by = p /\ a.phase = "settled" /\ Finalize(p, j, n, a)
        /\ Terminalize(j, p, Verdict(a))
    BY <1>3 DEF Conclude, a
  <2>2. EndsRow(p, j, Verdict(a)) /\ [Next]_jobVars
    BY <2>1, EndOfRow
  <2>3. Verdict(a) = "succeed" => Won(a)
    BY <1>0 DEF Verdict, Won, Attempt
  <2>4. Ends(p, j, n)
    BY <1>0, <2>1, <2>2, <2>3 DEF Ends, EndsRow, Spares, Unfinished, a
  <2> QED BY <2>2, <2>4 DEF MovesOn
<1>4. ASSUME NEW r \in {"succeeded", "failed"}, HandlerEnds(p, j, n, r)
      PROVE  MovesOn(p) /\ [Next]_jobVars
  <2>1. /\ a.by = p /\ a.phase = "running"
        /\ att' = [att EXCEPT ![j][n] = [a EXCEPT !.phase = "settled", !.result = r]]
        /\ UNCHANGED <<jobVars, active, aborter>>
    BY <1>4 DEF HandlerEnds, a
  <2>2. /\ [a EXCEPT !.phase = "settled", !.result = r] \in Attempt
        /\ [a EXCEPT !.phase = "settled", !.result = r].by = p
        /\ [a EXCEPT !.phase = "settled", !.result = r].phase = "settled"
    BY <1>0, <2>1 DEF Attempt, Unfinished
  <2>3. SparesAll
    BY <2>1 DEF SparesAll, Spares, jobVars
  <2>4. Works(p, j, n)
    BY <2>1, <2>2, <2>3 DEF Works, Unfinished, InProgress, a
  <2> QED BY <2>1, <2>4 DEF MovesOn
<1>5. CASE HeartbeatFires(p, j, n) \/ TimeoutFires(p, j, n)
  <2>1. /\ a.by = p /\ a.phase = "running"
        /\ SparesAll /\ [Next]_jobVars
        /\ UNCHANGED <<active, aborter>>
        /\ \/ UNCHANGED att
           \/ \E reason \in {"lost_lease", "timeout"} :
                att' = [att EXCEPT ![j][n] = Abort(a, reason)]
    BY <1>5, OwnerSpares DEF HeartbeatFires, TimeoutFires, SparesAll, Spares, jobVars, a
  <2>2. CASE UNCHANGED att
    BY <2>1, <2>2 DEF MovesOn, Rests
  <2>3. ASSUME NEW reason \in {"lost_lease", "timeout"},
               att' = [att EXCEPT ![j][n] = Abort(a, reason)]
        PROVE  MovesOn(p) /\ [Next]_jobVars
    <3>1. Works(p, j, n)
      BY <1>0, <2>1, <2>3, AbortWorks DEF Works, Unfinished, InProgress, a
    <3> QED BY <2>1, <3>1 DEF MovesOn
  <2> QED BY <2>1, <2>2, <2>3
<1> QED BY <1>1, <1>2, <1>3, <1>4, <1>5 DEF AttemptStep

LEMMA ProcessMoves ==
  ASSUME SchedulerInv, NEW p \in Owners, ProcessStep(p)
  PROVE  MovesOn(p) /\ [Next]_jobVars
<1> USE DEF SchedulerInv
<1>1. CASE StartUp(p) \/ Pump(p)
  BY <1>1, ReconcileSpares DEF StartUp, Pump, MovesOn, Rests
<1>2. CASE PumpEnds(p) \/ Stop(p) \/ GraceEnds(p)
  BY <1>2 DEF PumpEnds, Stop, GraceEnds, MovesOn, Rests, SparesAll, Spares, jobVars
<1>3. CASE Exit(p) \/ Crash(p)
  <2>1. \E how \in {"exited", "crashed"} : Die(p, how)
    BY <1>3 DEF Exit, Crash
  <2> QED BY <2>1 DEF Die, MovesOn, Dies, SparesAll, Spares, jobVars
<1>4. ASSUME NEW j \in Jobs, ClaimNext(p, j) PROVE MovesOn(p) /\ [Next]_jobVars
  BY <1>4 DEF ClaimNext, MovesOn, Next, OwnerStep
<1>5. ASSUME NEW j \in Jobs, CancelAt(p, j) PROVE MovesOn(p) /\ [Next]_jobVars
  <2> DEFINE n == aborter[p][j]
             a == att[j][n]
  <2>1. SparesAll /\ [Next]_jobVars /\ UNCHANGED <<active, aborter>>
    BY <1>5, OwnerSpares DEF CancelAt
  <2>2. n \in AttemptNumbers \cup {0}
    BY DEF SchedulerTypeOK
  <2>3. CASE n = 0
    BY <1>5, <2>1, <2>3 DEF CancelAt, MovesOn, Rests
  <2>4. CASE n # 0
    <3>1. n \in AttemptNumbers
      BY <2>2, <2>4
    <3>2. a \in Attempt
      BY <3>1, AttemptType
    <3>3. a.by = p /\ a.phase \in InProgress
      BY <2>4 DEF EntryOK
    <3>4. att' = [att EXCEPT ![j][n] = Abort(a, "cancel")]
      BY <1>5, <2>4, <3>1 DEF CancelAt, SchedulerTypeOK
    <3> HIDE DEF n
    <3>5. Works(p, j, n)
      BY <2>1, <3>2, <3>3, <3>4, AbortWorks DEF Works, Unfinished, InProgress
    <3> QED BY <2>1, <3>1, <3>5 DEF MovesOn
  <2> QED BY <2>3, <2>4
<1>6. ASSUME NEW j \in Jobs, ForceInterrupt(p, j) PROVE MovesOn(p) /\ [Next]_jobVars
  <2> DEFINE n == active[p][j]
             a == att[j][n]
  <2>1. n \in AttemptNumbers /\ a.by = p /\ a.phase \in Unfinished
    BY <1>6 DEF ForceInterrupt, SchedulerTypeOK, EntryOK
  <2>2. a \in Attempt
    BY <2>1, AttemptType
  <2>3. /\ Finalize(p, j, n, Abort(a, "shutdown"))
        /\ \/ Terminalize(j, p, "interrupt") \/ UNCHANGED jobVars
    BY <1>6 DEF ForceInterrupt, Attempted, Terminalize
  <2> HIDE DEF n
  <2>4. EndsRow(p, j, "interrupt") /\ [Next]_jobVars
    <3>1. CASE Terminalize(j, p, "interrupt")
      BY <3>1, EndOfRow
    <3>2. CASE UNCHANGED jobVars
      BY <3>2 DEF EndsRow, jobVars
    <3> QED BY <2>3, <3>1, <3>2
  <2>5. Abort(a, "shutdown") \in Attempt /\ Abort(a, "shutdown").by = p
    BY <2>1, <2>2, AbortWorks
  <2>6. Ends(p, j, n)
    BY <2>1, <2>3, <2>4, <2>5 DEF Ends, EndsRow, Spares
  <2> QED BY <2>1, <2>4, <2>6 DEF MovesOn
<1> QED BY <1>1, <1>2, <1>3, <1>4, <1>5, <1>6 DEF ProcessStep

\* Every step makes one of the five moves, and a step of the queue.
LEMMA SchedulerMoves ==
  ASSUME SchedulerInv, SchedulerNext
  PROVE  [Next]_jobVars /\ (Rests \/ \E p \in Owners : MovesOn(p))
<1>1. ASSUME NEW j \in Jobs, NEW k \in Kinds, Submit(j, k)
      PROVE  Next /\ Rests
  BY <1>1 DEF SchedulerInv, SafetyInv, TypeInv, TypeOK, Submit, Enqueue, Enter, Next, Rests,
              SparesAll, Spares, schedVars
<1>2. CASE TimePasses
  BY <1>2 DEF TimePasses, Tick, Next, Rests, SparesAll, Spares, schedVars
<1> QED BY <1>1, <1>2, ProcessMoves, AttemptMoves DEF SchedulerNext

-----------------------------------------------------------------------------
(***************************************************************************)
(* The invariant is kept by each of the moves.                             *)
(***************************************************************************)

MapsTyped ==
  /\ active \in [Owners -> [Jobs -> AttemptNumbers \cup {0}]]
  /\ aborter \in [Owners -> [Jobs -> AttemptNumbers \cup {0}]]
  /\ att \in [Jobs -> [AttemptNumbers -> Attempt]]

AttemptsInv ==
  /\ MapsTyped
  /\ \A j \in Jobs, n \in AttemptNumbers : AttemptOK(j, n)
  /\ \A p \in Owners, j \in Jobs : EntryOK(p, j)
  /\ \A j \in Jobs : Earned(j)

LEMMA NumberType == \A n \in AttemptNumbers : n \in Nat \ {0}
BY PolicyAssumption DEF AttemptNumbers

LEMMA PartOfInv == SchedulerInv => AttemptsInv /\ SafetyInv
BY DEF SchedulerInv, SchedulerTypeOK, AttemptsInv, MapsTyped, Attempt

\* Replacing one attempt.
Replaces(j, n, b) == att' = [att EXCEPT ![j][n] = b]
OnlyThat(j, n, b) ==
  /\ att' \in [Jobs -> [AttemptNumbers -> Attempt]]
  /\ att'[j][n] = b
  /\ \A i \in Jobs, m \in AttemptNumbers : i # j \/ m # n => att'[i][m] = att[i][m]

LEMMA OneChanged ==
  ASSUME MapsTyped, NEW j \in Jobs, NEW n \in AttemptNumbers, NEW b \in Attempt,
         Replaces(j, n, b)
  PROVE  OnlyThat(j, n, b)
BY DEF MapsTyped, Replaces, OnlyThat

LEMMA KeptByRest ==
  ASSUME AttemptsInv, Rests PROVE AttemptsInv'
BY DEF AttemptsInv, MapsTyped, AttemptOK, EntryOK, Earned, Rests, SparesAll, Spares

LEMMA KeptByClaim ==
  ASSUME AttemptsInv, SafetyInv, NEW p \in Owners, NEW j \in Jobs, ClaimNext(p, j)
  PROVE  AttemptsInv'
<1> DEFINE n == attempts[j] + 1
           b == [NoAttempt EXCEPT !.phase = "claimed", !.by = p]
<1>1. /\ state[j] = "queued" /\ state' = [state EXCEPT ![j] = "leased"]
      /\ attempts' = [attempts EXCEPT ![j] = n]
      /\ att' = [att EXCEPT ![j][n] = b]
      /\ active' = [active EXCEPT ![p][j] = n]
      /\ UNCHANGED aborter
  BY DEF ClaimNext, Claim, Claimable, Enter, SafetyInv, TypeInv, TypeOK
<1>2. n \in AttemptNumbers
  <2>1. /\ kind[j] \in Kinds /\ attempts[j] \in Nat
        /\ attempts[j] < Budget(kind[j])
    BY <1>1 DEF SafetyInv, TypeInv, TypeOK, Known, RowOK
  <2>2. n \in 1 .. MaxAttempts[kind[j]]
    BY <2>1, BudgetType, PolicyAssumption
  <2> QED BY <2>1, <2>2 DEF AttemptNumbers
<1>3. b \in Attempt /\ b.by = p /\ b.phase = "claimed"
  BY DEF NoAttempt, Attempt, Unfinished
<1>4. attempts[j] \in Nat /\ \A i \in Jobs : attempts'[i] = IF i = j THEN n ELSE attempts[i]
  BY <1>1 DEF SafetyInv, TypeInv, TypeOK
<1>5. att[j][n] = NoAttempt
  BY <1>2, <1>4, NumberType, AttemptType DEF AttemptsInv, AttemptOK
<1> HIDE DEF n, b
<1>6. /\ att' \in [Jobs -> [AttemptNumbers -> Attempt]]
      /\ att'[j][n] = b
      /\ \A i \in Jobs, m \in AttemptNumbers :
           i # j \/ m # n => att'[i][m] = att[i][m]
  <2>1. MapsTyped /\ att' = [att EXCEPT ![j][n] = b] /\ b \in Attempt
    BY <1>1, <1>3 DEF AttemptsInv
  <2>2. OnlyThat(j, n, b)
    BY <1>2, <2>1, OneChanged DEF Replaces
  <2> QED BY <2>2 DEF OnlyThat
<1>7. MapsTyped'
  <2>1. active' \in [Owners -> [Jobs -> AttemptNumbers \cup {0}]]
    <3>1. active' = [active EXCEPT ![p][j] = n]
      BY <1>1
    <3>2. active \in [Owners -> [Jobs -> AttemptNumbers \cup {0}]]
      BY DEF AttemptsInv, MapsTyped
    <3> QED BY <3>1, <3>2, <1>2
  <2> QED BY <1>1, <1>6, <2>1 DEF AttemptsInv, MapsTyped
<1>8. ASSUME NEW i \in Jobs, NEW m \in AttemptNumbers PROVE AttemptOK(i, m)'
  <2>1. attempts[i] <= attempts'[i] /\ m \in Nat /\ attempts[i] \in Nat /\ attempts'[i] \in Nat
    <3>1. attempts \in [Jobs -> Nat] /\ n = attempts[j] + 1
      BY DEF SafetyInv, TypeInv, TypeOK, n
    <3>2. m \in Nat
      BY NumberType
    <3> QED BY <1>4, <3>1, <3>2
  <2>2. CASE i = j /\ m = n
    BY <1>3, <1>4, <1>6, <2>1, <2>2 DEF AttemptOK
  <2>3. CASE ~(i = j /\ m = n)
    BY <1>6, <2>1, <2>3 DEF AttemptsInv, AttemptOK
  <2> QED BY <2>2, <2>3
<1>9. ASSUME NEW q \in Owners, NEW i \in Jobs PROVE EntryOK(q, i)'
  <2>1. /\ active'[q][i] = IF q = p /\ i = j THEN n ELSE active[q][i]
        /\ aborter'[q][i] = aborter[q][i]
    BY <1>1 DEF AttemptsInv, MapsTyped
  <2>2. NoAttempt.phase = "none"
    BY DEF NoAttempt
  <2>3. ASSUME NEW m \in {active[q][i], aborter[q][i]}, m # 0
        PROVE  att'[i][m] = att[i][m]
    <3>1. m \in AttemptNumbers /\ att[i][m].phase \in Unfinished
      BY <2>3 DEF AttemptsInv, MapsTyped, EntryOK, InProgress, Unfinished
    <3>2. ~(i = j /\ m = n)
      BY <1>5, <2>2, <3>1 DEF Unfinished
    <3> QED BY <1>6, <3>1, <3>2
  <2>4. EntryOK(q, i)
    BY DEF AttemptsInv
  <2>5. CASE q = p /\ i = j
    BY <1>3, <1>6, <2>1, <2>3, <2>4, <2>5 DEF EntryOK, Unfinished
  <2>6. CASE ~(q = p /\ i = j)
    BY <2>1, <2>3, <2>4, <2>6 DEF EntryOK
  <2> QED BY <2>5, <2>6
<1>10. ASSUME NEW i \in Jobs PROVE Earned(i)'
  <2> SUFFICES ASSUME state'[i] = "succeeded" PROVE Earned(i)'
    BY DEF Earned
  <2>1. i # j /\ state[i] = "succeeded"
    BY <1>1 DEF SafetyInv, TypeInv, TypeOK
  <2> QED BY <1>6, <2>1 DEF AttemptsInv, Earned
<1> QED BY <1>7, <1>8, <1>9, <1>10 DEF AttemptsInv

LEMMA KeptByWork ==
  ASSUME AttemptsInv, SafetyInv, NEW p \in Owners, NEW j \in Jobs, NEW n \in AttemptNumbers,
         Works(p, j, n)
  PROVE  AttemptsInv'
<1>1. PICK b \in Attempt :
        /\ att' = [att EXCEPT ![j][n] = b]
        /\ b.by = p /\ b.phase \in Unfinished
        /\ att[j][n].phase \in InProgress => b.phase \in InProgress
        /\ \/ UNCHANGED aborter
           \/ b.phase \in InProgress /\ aborter' = [aborter EXCEPT ![p][j] = n]
  BY DEF Works
<1>2. /\ SparesAll /\ UNCHANGED active
      /\ att[j][n].by = p /\ att[j][n].phase \in Unfinished
  BY DEF Works
<1>3. /\ att' \in [Jobs -> [AttemptNumbers -> Attempt]]
      /\ att'[j][n] = b
      /\ \A i \in Jobs, m \in AttemptNumbers :
           i # j \/ m # n => att'[i][m] = att[i][m]
  <2>1. MapsTyped /\ Replaces(j, n, b)
    BY <1>1 DEF AttemptsInv, Replaces
  <2>2. OnlyThat(j, n, b)
    BY <2>1, OneChanged
  <2> QED BY <2>2 DEF OnlyThat
<1>4. MapsTyped'
  <2>1. aborter' \in [Owners -> [Jobs -> AttemptNumbers \cup {0}]]
    <3>1. aborter' = aborter \/ aborter' = [aborter EXCEPT ![p][j] = n]
      BY <1>1
    <3>2. aborter \in [Owners -> [Jobs -> AttemptNumbers \cup {0}]]
      BY DEF AttemptsInv, MapsTyped
    <3> QED BY <3>1, <3>2
  <2> QED BY <1>2, <1>3, <2>1 DEF AttemptsInv, MapsTyped
<1>5. ASSUME NEW i \in Jobs, NEW m \in AttemptNumbers PROVE AttemptOK(i, m)'
  <2>1. AttemptOK(i, m) /\ attempts' = attempts
    BY <1>2 DEF AttemptsInv, SparesAll
  <2>2. CASE i = j /\ m = n
    BY <1>1, <1>2, <1>3, <2>1, <2>2 DEF AttemptOK, Unfinished
  <2>3. CASE ~(i = j /\ m = n)
    BY <1>3, <2>1, <2>3 DEF AttemptOK
  <2> QED BY <2>2, <2>3
<1>6. ASSUME NEW q \in Owners, NEW i \in Jobs PROVE EntryOK(q, i)'
  <2>1. EntryOK(q, i)
    BY DEF AttemptsInv
  <2>2. ASSUME NEW m \in AttemptNumbers
        PROVE  /\ att'[i][m].by = att[i][m].by
               /\ att[i][m].phase \in Unfinished => att'[i][m].phase \in Unfinished
               /\ att[i][m].phase \in InProgress => att'[i][m].phase \in InProgress
    BY <1>1, <1>2, <1>3
  <2>3. /\ active'[q][i] = active[q][i] /\ active[q][i] \in AttemptNumbers \cup {0}
        /\ aborter[q][i] \in AttemptNumbers \cup {0}
        /\ \/ aborter'[q][i] = aborter[q][i]
           \/ q = p /\ i = j /\ b.phase \in InProgress /\ aborter'[q][i] = n
    BY <1>1, <1>2 DEF AttemptsInv, MapsTyped
  <2>4. LET m == active'[q][i] IN
        m # 0 => att'[i][m].by = q /\ att'[i][m].phase \in Unfinished
    BY <2>1, <2>2, <2>3 DEF EntryOK
  <2>5. LET m == aborter'[q][i] IN
        m # 0 => att'[i][m].by = q /\ att'[i][m].phase \in InProgress
    BY <1>1, <1>3, <2>1, <2>2, <2>3 DEF EntryOK
  <2> QED BY <2>4, <2>5 DEF EntryOK
<1>7. ASSUME NEW i \in Jobs PROVE Earned(i)'
  <2> SUFFICES ASSUME state'[i] = "succeeded" PROVE Earned(i)'
    BY DEF Earned
  <2>1. state[i] = "succeeded"
    BY <1>2 DEF SparesAll, Spares
  <2>2. PICK m \in AttemptNumbers :
          att[i][m].result = "succeeded" /\ att[i][m].abort = "no" /\ att[i][m].phase = "done"
    BY <2>1 DEF AttemptsInv, Earned
  <2>3. ~(i = j /\ m = n)
    BY <1>2, <2>2 DEF Unfinished
  <2> QED BY <1>3, <2>2, <2>3 DEF Earned
<1> QED BY <1>4, <1>5, <1>6, <1>7 DEF AttemptsInv

LEMMA KeptByEnd ==
  ASSUME AttemptsInv, SafetyInv, NEW p \in Owners, NEW j \in Jobs, NEW n \in AttemptNumbers,
         Ends(p, j, n)
  PROVE  AttemptsInv'
<1>1. PICK a \in Attempt :
        /\ a.by = p /\ Finalize(p, j, n, a)
        /\ state'[j] = "succeeded" => state[j] = "succeeded" \/ Won(a)
  BY DEF Ends
<1> DEFINE b == [a EXCEPT !.phase = "done"]
<1>2. /\ attempts' = attempts
      /\ \A i \in Jobs \ {j} : Spares(i)
      /\ att[j][n].by = p /\ att[j][n].phase \in Unfinished
  BY DEF Ends
<1>3. /\ att' = [att EXCEPT ![j][n] = b]
      /\ active' = [active EXCEPT ![p][j] = 0]
      /\ aborter' = [aborter EXCEPT ![p][j] = IF @ = n THEN 0 ELSE @]
  BY <1>1 DEF Finalize
<1>4. b \in Attempt /\ b.by = p /\ b.phase = "done" /\ (Won(a) => Won(b))
  BY <1>1 DEF Attempt, Won
<1> HIDE DEF b
<1>5. /\ att' \in [Jobs -> [AttemptNumbers -> Attempt]]
      /\ att'[j][n] = b
      /\ \A i \in Jobs, m \in AttemptNumbers :
           i # j \/ m # n => att'[i][m] = att[i][m]
  <2>1. MapsTyped /\ Replaces(j, n, b) /\ b \in Attempt
    BY <1>3, <1>4 DEF AttemptsInv, Replaces
  <2>2. OnlyThat(j, n, b)
    BY <2>1, OneChanged
  <2> QED BY <2>2 DEF OnlyThat
<1>6. MapsTyped'
  <2>1. /\ active \in [Owners -> [Jobs -> AttemptNumbers \cup {0}]]
        /\ aborter \in [Owners -> [Jobs -> AttemptNumbers \cup {0}]]
    BY DEF AttemptsInv, MapsTyped
  <2>2. /\ active' \in [Owners -> [Jobs -> AttemptNumbers \cup {0}]]
        /\ aborter' \in [Owners -> [Jobs -> AttemptNumbers \cup {0}]]
    BY <1>3, <2>1
  <2> QED BY <1>5, <2>2 DEF MapsTyped
<1>7. ASSUME NEW i \in Jobs, NEW m \in AttemptNumbers PROVE AttemptOK(i, m)'
  <2>1. AttemptOK(i, m)
    BY DEF AttemptsInv
  <2>2. CASE i = j /\ m = n
    BY <1>2, <1>4, <1>5, <2>1, <2>2 DEF AttemptOK, Unfinished
  <2>3. CASE ~(i = j /\ m = n)
    BY <1>2, <1>5, <2>1, <2>3 DEF AttemptOK
  <2> QED BY <2>2, <2>3
<1>8. ASSUME NEW q \in Owners, NEW i \in Jobs PROVE EntryOK(q, i)'
  <2>1. EntryOK(q, i)
    BY DEF AttemptsInv
  <2>2. /\ active[q][i] \in AttemptNumbers \cup {0} /\ aborter[q][i] \in AttemptNumbers \cup {0}
        /\ active'[q][i] = IF q = p /\ i = j THEN 0 ELSE active[q][i]
        /\ aborter'[q][i] = IF q = p /\ i = j /\ aborter[q][i] = n THEN 0 ELSE aborter[q][i]
    BY <1>3 DEF AttemptsInv, MapsTyped
  <2>3. ASSUME active'[q][i] # 0
        PROVE  att'[i][active'[q][i]].by = q /\ att'[i][active'[q][i]].phase \in Unfinished
    <3>1. active'[q][i] = active[q][i] /\ ~(q = p /\ i = j)
      BY <2>2, <2>3
    <3>2. ~(i = j /\ active[q][i] = n)
      BY <1>2, <2>1, <2>3, <3>1 DEF EntryOK
    <3> QED BY <1>5, <2>1, <2>2, <2>3, <3>1, <3>2 DEF EntryOK
  <2>4. ASSUME aborter'[q][i] # 0
        PROVE  att'[i][aborter'[q][i]].by = q /\ att'[i][aborter'[q][i]].phase \in InProgress
    <3>1. aborter'[q][i] = aborter[q][i] /\ ~(q = p /\ i = j /\ aborter[q][i] = n)
      BY <2>2, <2>4
    <3>2. ~(i = j /\ aborter[q][i] = n)
      BY <1>2, <2>1, <2>4, <3>1 DEF EntryOK
    <3> QED BY <1>5, <2>1, <2>2, <2>4, <3>1, <3>2 DEF EntryOK
  <2> QED BY <2>3, <2>4 DEF EntryOK
<1>9. ASSUME NEW i \in Jobs PROVE Earned(i)'
  <2> SUFFICES ASSUME state'[i] = "succeeded" PROVE Earned(i)'
    BY DEF Earned
  <2>1. CASE i = j /\ Won(a)
    BY <1>4, <1>5, <2>1 DEF Earned, Won
  <2>2. CASE state[i] = "succeeded"
    <3>1. PICK m \in AttemptNumbers :
            att[i][m].result = "succeeded" /\ att[i][m].abort = "no" /\ att[i][m].phase = "done"
      BY <2>2 DEF AttemptsInv, Earned
    <3>2. ~(i = j /\ m = n)
      BY <1>2, <3>1 DEF Unfinished
    <3> QED BY <1>5, <3>1, <3>2 DEF Earned
  <2> QED BY <1>1, <1>2, <2>1, <2>2 DEF Spares
<1> QED BY <1>6, <1>7, <1>8, <1>9 DEF AttemptsInv

LEMMA KeptByDeath ==
  ASSUME AttemptsInv, SafetyInv, NEW p \in Owners, Dies(p)
  PROVE  AttemptsInv'
<1>1. /\ SparesAll
      /\ active' = [active EXCEPT ![p] = [j \in Jobs |-> 0]]
      /\ aborter' = [aborter EXCEPT ![p] = [j \in Jobs |-> 0]]
      /\ att' = [j \in Jobs |-> [n \in AttemptNumbers |->
                   IF att[j][n].by # p THEN att[j][n]
                   ELSE [att[j][n] EXCEPT !.phase = "done"]]]
  BY DEF Dies, Die
<1>2. ASSUME NEW j \in Jobs, NEW n \in AttemptNumbers
      PROVE  /\ att[j][n] \in Attempt /\ att'[j][n] \in Attempt
             /\ att[j][n].by # p => att'[j][n] = att[j][n]
             /\ att[j][n].by = p =>
                  /\ att'[j][n].phase = "done" /\ att'[j][n].by = p
                  /\ att'[j][n].result = att[j][n].result /\ att'[j][n].abort = att[j][n].abort
  <2>1. att[j][n] \in Attempt
    BY DEF AttemptsInv, MapsTyped
  <2>2. att'[j][n] = IF att[j][n].by # p THEN att[j][n] ELSE [att[j][n] EXCEPT !.phase = "done"]
    BY <1>1
  <2> QED BY <2>1, <2>2 DEF Attempt
<1>3. MapsTyped'
  <2>1. att' \in [Jobs -> [AttemptNumbers -> Attempt]]
    BY <1>1, <1>2
  <2> QED BY <1>1, <2>1 DEF AttemptsInv, MapsTyped
<1>4. ASSUME NEW j \in Jobs, NEW n \in AttemptNumbers PROVE AttemptOK(j, n)'
  <2>1. AttemptOK(j, n) /\ attempts' = attempts
    BY <1>1 DEF AttemptsInv, SparesAll
  <2>2. CASE att[j][n].by # p
    BY <1>2, <2>1, <2>2 DEF AttemptOK
  <2>3. CASE att[j][n].by = p
    <3>1. att[j][n].phase # "none"
      BY <2>1, <2>3, OwnerAssumption DEF AttemptOK, NoAttempt
    <3> QED BY <1>2, <2>1, <2>3, <3>1 DEF AttemptOK
  <2> QED BY <2>2, <2>3
<1>5. ASSUME NEW q \in Owners, NEW j \in Jobs PROVE EntryOK(q, j)'
  <2>1. CASE q = p
    BY <1>1, <2>1 DEF AttemptsInv, MapsTyped, EntryOK
  <2>2. CASE q # p
    BY <1>1, <1>2, <2>2 DEF AttemptsInv, MapsTyped, EntryOK
  <2> QED BY <2>1, <2>2
<1>6. ASSUME NEW j \in Jobs PROVE Earned(j)'
  <2> SUFFICES ASSUME state'[j] = "succeeded" PROVE Earned(j)'
    BY DEF Earned
  <2>1. PICK n \in AttemptNumbers :
          att[j][n].result = "succeeded" /\ att[j][n].abort = "no" /\ att[j][n].phase = "done"
    BY <1>1 DEF AttemptsInv, Earned, SparesAll, Spares
  <2> QED BY <1>2, <2>1 DEF Earned
<1> QED BY <1>3, <1>4, <1>5, <1>6 DEF AttemptsInv

LEMMA KeptByMoves ==
  ASSUME AttemptsInv, SafetyInv, NEW p \in Owners, MovesOn(p) PROVE AttemptsInv'
BY KeptByRest, KeptByClaim, KeptByWork, KeptByEnd, KeptByDeath DEF MovesOn

ProcessesTyped ==
  /\ proc \in [Owners -> {"new", "up", "stopping", "forcing", "exited", "crashed"}]
  /\ pc \in [Owners -> {"idle", "wake", "claim"}]
  /\ armed \in [Owners -> BOOLEAN]
  /\ woken \in [Owners -> BOOLEAN]

LEMMA WholeInv == ProcessesTyped /\ AttemptsInv /\ SafetyInv <=> SchedulerInv
BY DEF SchedulerInv, SchedulerTypeOK, AttemptsInv, MapsTyped, ProcessesTyped, Attempt

LEMMA ProcessesStayTyped == ProcessesTyped /\ SchedulerNext => ProcessesTyped'
<1> SUFFICES ASSUME ProcessesTyped, SchedulerNext PROVE ProcessesTyped'
  OBVIOUS
<1> USE DEF ProcessesTyped
<1>1. ASSUME NEW p \in Owners, ProcessStep(p) PROVE ProcessesTyped'
  <2>1. CASE \/ StartUp(p) \/ Pump(p) \/ PumpEnds(p) \/ Stop(p) \/ GraceEnds(p)
            \/ \E j \in Jobs : ClaimNext(p, j) \/ CancelAt(p, j)
    BY <2>1 DEF StartUp, Pump, PumpEnds, ClaimNext, CancelAt, Stop, GraceEnds
  <2>2. CASE Exit(p) \/ Crash(p)
    BY <2>2 DEF Exit, Crash, Die
  <2>3. CASE \E j \in Jobs : ForceInterrupt(p, j)
    BY <2>3 DEF ForceInterrupt, Finalize
  <2> QED BY <1>1, <2>1, <2>2, <2>3 DEF ProcessStep
<1>2. ASSUME NEW p \in Owners, NEW j \in Jobs, NEW n \in AttemptNumbers, AttemptStep(p, j, n)
      PROVE  ProcessesTyped'
  BY <1>2 DEF AttemptStep, Launch, FailUnhandled, HandlerEnds, HeartbeatFires, TimeoutFires,
              Conclude, Finalize
<1>3. ASSUME TimePasses \/ \E j \in Jobs, k \in Kinds : Submit(j, k) PROVE ProcessesTyped'
  BY <1>3 DEF TimePasses, Submit, schedVars
<1> QED BY <1>1, <1>2, <1>3 DEF SchedulerNext

LEMMA SchedulerStarts == SchedulerInit => SchedulerInv
<1> SUFFICES ASSUME SchedulerInit PROVE SchedulerInv
  OBVIOUS
<1>1. SafetyInv
  BY SafetyInit DEF SchedulerInit
<1>2. ProcessesTyped
  BY DEF SchedulerInit, ProcessesTyped
<1>3. NoAttempt \in Attempt /\ NoAttempt.phase = "none"
  BY DEF NoAttempt, Attempt
<1>4. /\ active  = [p \in Owners |-> [j \in Jobs |-> 0]]
      /\ aborter = [p \in Owners |-> [j \in Jobs |-> 0]]
      /\ att     = [j \in Jobs |-> [n \in AttemptNumbers |-> NoAttempt]]
      /\ state   = [j \in Jobs |-> "absent"]
  BY DEF SchedulerInit, Init
<1>5. AttemptsInv
  BY <1>3, <1>4 DEF AttemptsInv, MapsTyped, AttemptOK, EntryOK, Earned
<1> QED BY <1>1, <1>2, <1>5, WholeInv

LEMMA SchedulerKeeps == SchedulerInv /\ [SchedulerNext]_vars => SchedulerInv'
<1>1. ASSUME SchedulerInv, SchedulerNext PROVE SchedulerInv'
  <2>1. ProcessesTyped /\ AttemptsInv /\ SafetyInv
    BY <1>1, WholeInv
  <2>2. [Next]_jobVars /\ (Rests \/ \E p \in Owners : MovesOn(p))
    BY <1>1, SchedulerMoves
  <2>3. SafetyInv'
    BY <2>1, <2>2, SafetyStep
  <2>4. AttemptsInv'
    BY <2>1, <2>2, KeptByRest, KeptByMoves
  <2>5. ProcessesTyped'
    BY <1>1, <2>1, ProcessesStayTyped
  <2>6. (ProcessesTyped /\ AttemptsInv /\ SafetyInv)' <=> SchedulerInv'
    BY WholeInv DEF SchedulerInv, SchedulerTypeOK, AttemptsInv, MapsTyped, ProcessesTyped, Attempt
  <2> QED BY <2>3, <2>4, <2>5, <2>6
<1>2. ASSUME SchedulerInv, UNCHANGED vars PROVE SchedulerInv'
  <2>1. UNCHANGED jobVars /\ UNCHANGED schedVars
    BY <1>2 DEF vars
  <2>2. SafetyInv'
    BY <1>2, <2>1, SafetyStep DEF SchedulerInv
  <2> QED
    BY <1>2, <2>1, <2>2 DEF SchedulerInv, SchedulerTypeOK, AttemptOK, EntryOK, Earned,
       schedVars, jobVars
<1> QED BY <1>1, <1>2

LEMMA SchedulerInvariant == SchedulerSpec => []SchedulerInv
BY SchedulerStarts, SchedulerKeeps, PTL DEF SchedulerSpec

-----------------------------------------------------------------------------
(***************************************************************************)
(* The theorems.                                                           *)
(***************************************************************************)

\* The processes' variables keep their types; with it, the maps of a process
\* never name an attempt that does not exist.
THEOREM SchedulerTypeCorrect == SchedulerSpec => []SchedulerTypeOK
<1>1. SchedulerInv => SchedulerTypeOK
  BY DEF SchedulerInv
<1> QED BY <1>1, SchedulerInvariant, PTL

\* However many processes work on the queue, crash while a handler runs, lose
\* leases or recover each other's rows, the handler of an external job is
\* started at most once: a second attempt would need a second claim.
THEOREM ExternalRunsOnce == SchedulerSpec => []ExternalOnce
<1>1. SchedulerInv => ExternalOnce
  <2> SUFFICES ASSUME SchedulerInv, NEW j \in Enqueued, RetryClass[kind[j]] = "external"
               PROVE  Cardinality({n \in AttemptNumbers : att[j][n].ran}) <= 1
    BY DEF ExternalOnce
  <2> DEFINE R == {n \in AttemptNumbers : att[j][n].ran}
  <2>1. j \in Jobs /\ attempts[j] \in Nat /\ attempts[j] <= 1
    BY DEF SchedulerInv, SafetyInv, TypeInv, TypeOK, RowOK, Enqueued, Budget
  <2>2. ASSUME NEW n \in R PROVE n = 1
    <3>1. att[j][n].phase # "none"
      BY <2>1, <2>2 DEF SchedulerInv, AttemptOK, NoAttempt
    <3>2. n <= attempts[j] /\ n \in Nat \ {0}
      BY <2>1, <2>2, <3>1, NumberType DEF SchedulerInv, AttemptOK
    <3> QED BY <2>1, <3>2
  <2>3. R \subseteq {1}
    BY <2>2
  <2>4. IsFiniteSet({1}) /\ Cardinality({1}) = 1
    BY FS_Singleton
  <2>5. Cardinality(R) <= Cardinality({1})
    BY <2>3, <2>4, FS_Subset
  <2> QED BY <2>4, <2>5
<1> QED BY <1>1, SchedulerInvariant, PTL

\* A job that succeeded has an attempt whose handler succeeded before anything
\* gave that attempt up, whatever other attempts at it did.
THEOREM SuccessIsEarned == SchedulerSpec => []SuccessEarned
<1>1. SchedulerInv => SuccessEarned
  BY DEF SchedulerInv, Earned, SuccessEarned
<1> QED BY <1>1, SchedulerInvariant, PTL

\* While its lease lasts, a running job is ended only by an attempt of the
\* process that owns it, in the step that finishes the attempt.
THEOREM HolderEndsIt == SchedulerSpec => OnlyHolderEnds
<1> DEFINE ByHolder ==
      \A j \in Jobs :
        state[j] = "running" /\ LeaseAlive(j) /\ state'[j] # "running" =>
          \E n \in AttemptNumbers :
            /\ att[j][n].by = owner[j]
            /\ att[j][n].phase # "done" /\ att'[j][n].phase = "done"
<1>1. SchedulerInv /\ SchedulerNext => ByHolder
  <2> SUFFICES ASSUME SchedulerInv, SchedulerNext, NEW i \in Jobs,
                      state[i] = "running", LeaseAlive(i), state'[i] # "running"
               PROVE  \E n \in AttemptNumbers :
                        /\ att[i][n].by = owner[i]
                        /\ att[i][n].phase # "done" /\ att'[i][n].phase = "done"
    OBVIOUS
  <2>1. ~Rests /\ \A p \in Owners : ~Dies(p)
    BY DEF Rests, Dies, SparesAll, Spares
  <2>2. ASSUME NEW p \in Owners, NEW j \in Jobs, ClaimNext(p, j) PROVE FALSE
    BY <2>2 DEF ClaimNext, Claim, Claimable, Enter, SchedulerInv, SafetyInv, TypeInv, TypeOK
  <2>3. ASSUME NEW p \in Owners, NEW j \in Jobs, NEW n \in AttemptNumbers, Works(p, j, n)
        PROVE  FALSE
    BY <2>3 DEF Works, SparesAll, Spares
  <2>4. PICK p \in Owners, j \in Jobs, n \in AttemptNumbers : Ends(p, j, n)
    BY <2>1, <2>2, <2>3, SchedulerMoves DEF MovesOn
  <2>5. i = j /\ owner[j] = p /\ att[j][n].by = p /\ att[j][n].phase # "done"
    BY <2>4 DEF Ends, Spares, Unfinished
  <2>6. PICK a \in Attempt : Finalize(p, j, n, a)
    BY <2>4 DEF Ends
  <2>7. att'[j][n].phase = "done"
    BY <2>6 DEF Finalize, SchedulerInv, SchedulerTypeOK, Attempt
  <2> QED BY <2>5, <2>7
<1>2. SchedulerInv /\ [SchedulerNext]_vars => [ByHolder]_vars
  BY <1>1
<1> QED BY <1>2, SchedulerInvariant, PTL DEF SchedulerSpec, OnlyHolderEnds

-----------------------------------------------------------------------------
(***************************************************************************)
(* No scheduler is left asleep.                                            *)
(***************************************************************************)

\* Something will wake p: a timer, a microtask, or an attempt in progress.
Busy(p)  == \E j \in Jobs, n \in AttemptNumbers :
              att[j][n].by = p /\ att[j][n].phase \in InProgress
Awake(p) == proc[p] = "up" /\ pc[p] = "idle" => armed[p] \/ woken[p] \/ Busy(p)

LEMMA AwakeIsEnough == (\A p \in Owners : Awake(p)) => NoLostWakeup
<1> SUFFICES ASSUME NEW p \in Owners, Busy(p) PROVE InPhase(p, {"running", "settled"}) # {}
  BY DEF Awake, NoLostWakeup
<1>1. PICK j \in Jobs, n \in AttemptNumbers :
        att[j][n].by = p /\ att[j][n].phase \in InProgress
  BY DEF Busy
<1>2. <<j, n>> \in InPhase(p, {"running", "settled"})
  BY <1>1 DEF InPhase, Mine, InProgress
<1> QED BY <1>2

\* What a process has in progress stays so, unless it ends an attempt, which
\* wakes it, or dies; other processes leave it alone.
LEMMA StaysBusy ==
  ASSUME SchedulerInv, NEW p \in Owners, MovesOn(p), NEW q \in Owners, Busy(q)
  PROVE  \/ Busy(q)'
         \/ q = p /\ (Dies(p) \/ \E j \in Jobs, n \in AttemptNumbers : Ends(p, j, n))
<1>1. PICK i \in Jobs, m \in AttemptNumbers :
        att[i][m].by = q /\ att[i][m].phase \in InProgress
  BY DEF Busy
<1>2. MapsTyped
  BY PartOfInv DEF AttemptsInv
<1>3. CASE Rests
  BY <1>1, <1>3 DEF Rests, Busy
<1>4. CASE Dies(p) /\ q # p
  <2>1. att'[i][m] = att[i][m]
    BY <1>1, <1>4 DEF Dies, Die
  <2> QED BY <1>1, <2>1 DEF Busy
<1>5. ASSUME NEW j \in Jobs, ClaimNext(p, j) PROVE Busy(q)'
  <2>1. att' = [att EXCEPT ![j][attempts[j] + 1] = [NoAttempt EXCEPT !.phase = "claimed", !.by = p]]
    BY <1>5 DEF ClaimNext
  <2>2. ~(i = j /\ m = attempts[j] + 1)
    <3>1. AttemptOK(i, m) /\ att[i][m].phase # "none"
      BY <1>1 DEF SchedulerInv, InProgress
    <3>2. m \in Nat /\ attempts[i] \in Nat
      BY NumberType DEF SchedulerInv, SafetyInv, TypeInv, TypeOK
    <3> QED BY <3>1, <3>2 DEF AttemptOK
  <2>3. att'[i][m] = att[i][m]
    BY <1>2, <2>1, <2>2 DEF MapsTyped
  <2> QED BY <1>1, <2>3 DEF Busy
<1>6. ASSUME NEW j \in Jobs, NEW n \in AttemptNumbers, Works(p, j, n) PROVE Busy(q)'
  <2>1. PICK b \in Attempt :
          /\ att' = [att EXCEPT ![j][n] = b] /\ b.by = p
          /\ att[j][n].phase \in InProgress => b.phase \in InProgress
    BY <1>6 DEF Works
  <2>2. att[j][n].by = p
    BY <1>6 DEF Works
  <2>3. att'[i][m] = IF i = j /\ m = n THEN b ELSE att[i][m]
    BY <1>2, <2>1 DEF MapsTyped
  <2>4. att'[i][m].by = q /\ att'[i][m].phase \in InProgress
    BY <1>1, <2>1, <2>2, <2>3
  <2> QED BY <2>4 DEF Busy
<1>7. ASSUME NEW j \in Jobs, NEW n \in AttemptNumbers, Ends(p, j, n), q # p PROVE Busy(q)'
  <2>1. PICK a \in Attempt : att' = [att EXCEPT ![j][n] = [a EXCEPT !.phase = "done"]]
    BY <1>7 DEF Ends, Finalize
  <2>2. ~(i = j /\ m = n)
    BY <1>1, <1>7 DEF Ends
  <2>3. att'[i][m] = att[i][m]
    BY <1>2, <2>1, <2>2 DEF MapsTyped
  <2> QED BY <1>1, <2>3 DEF Busy
<1> QED BY <1>3, <1>4, <1>5, <1>6, <1>7 DEF MovesOn

\* The loop of pump that ends with every slot taken leaves an attempt in
\* progress: whatever was claimed has been launched.
LEMMA FullIsBusy ==
  ASSUME SchedulerInv, NEW p \in Owners, Claiming(p), ~HasSlot(p) PROVE Busy(p)
<1>1. PICK j \in Jobs : active[p][j] # 0
  <2> SUFFICES ASSUME \A j \in Jobs : active[p][j] = 0 PROVE FALSE
    OBVIOUS
  <2>1. {j \in Jobs : active[p][j] # 0} = {}
    OBVIOUS
  <2>2. ActiveSize(p) = 0
    BY <2>1, FS_EmptySet DEF ActiveSize
  <2> QED BY <2>2, SchedulerAssumption DEF HasSlot
<1> DEFINE n == active[p][j]
<1>2. n \in AttemptNumbers /\ att[j][n].by = p /\ att[j][n].phase \in Unfinished
  BY <1>1 DEF SchedulerInv, SchedulerTypeOK, EntryOK
<1>3. <<j, n>> \in Mine(p)
  BY <1>2 DEF Mine
<1>4. att[j][n].phase \notin {"claimed", "unhandled"}
  BY <1>3 DEF Claiming, InPhase
<1> QED BY <1>2, <1>4 DEF Busy, InProgress, Unfinished

LEMMA StaysAwake ==
  ASSUME SchedulerInv, SchedulerNext, NEW q \in Owners, Awake(q) PROVE Awake(q)'
<1> SUFFICES ASSUME proc'[q] = "up", pc'[q] = "idle"
             PROVE  armed'[q] \/ woken'[q] \/ Busy(q)'
  BY DEF Awake
<1> DEFINE Same(p) == q # p => /\ proc'[q] = proc[q] /\ pc'[q] = pc[q]
                               /\ armed'[q] = armed[q] /\ woken'[q] = woken[q]
<1>0. ProcessesTyped
  BY WholeInv
<1>1. ASSUME NEW p \in Owners, NEW j \in Jobs, NEW n \in AttemptNumbers, NEW a,
             Finalize(p, j, n, a), UNCHANGED <<proc, pc, armed>>
      PROVE  Same(p) /\ (q = p => woken'[q])
  BY <1>0, <1>1 DEF Finalize, ProcessesTyped
<1>2. ASSUME NEW p \in Owners, MovesOn(p), Same(p),
             q = p => \/ armed'[q] \/ woken'[q] \/ Busy(q)'
                      \/ UNCHANGED <<proc, pc, armed, woken>>
      PROVE  armed'[q] \/ woken'[q] \/ Busy(q)'
  <2> SUFFICES ASSUME ~(armed'[q] \/ woken'[q] \/ Busy(q)') PROVE FALSE
    OBVIOUS
  <2>1. /\ proc[q] = "up" /\ pc[q] = "idle"
        /\ armed'[q] = armed[q] /\ woken'[q] = woken[q]
    BY <1>2
  <2>2. Busy(q)
    BY <2>1 DEF Awake
  <2>3. q = p /\ (Dies(p) \/ \E j \in Jobs, n \in AttemptNumbers : Ends(p, j, n))
    BY <1>2, <2>2, StaysBusy
  <2>4. ~Dies(p)
    BY <1>0, <2>3 DEF Dies, Die, ProcessesTyped
  <2>5. woken'[q]
    BY <1>0, <2>1, <2>3, <2>4 DEF Ends, Finalize, ProcessesTyped
  <2> QED BY <2>5
<1>3. ASSUME NEW p \in Owners, ProcessStep(p) PROVE armed'[q] \/ woken'[q] \/ Busy(q)'
  <2>1. MovesOn(p)
    BY <1>3, ProcessMoves
  <2>2. CASE PumpEnds(p)
    <3>1. Same(p)
      BY <1>0, <2>2 DEF PumpEnds, ProcessesTyped
    <3>2. CASE q = p /\ HasSlot(p)
      BY <1>0, <2>2, <3>2 DEF PumpEnds, ProcessesTyped
    <3>3. CASE q = p /\ ~HasSlot(p)
      <4>1. Busy(q) /\ att' = att
        BY <2>2, <3>3, FullIsBusy DEF PumpEnds
      <4> QED BY <4>1 DEF Busy
    <3> QED BY <1>2, <2>1, <3>1, <3>2, <3>3
  <2>3. CASE StartUp(p) \/ Pump(p) \/ Stop(p) \/ GraceEnds(p) \/ Exit(p) \/ Crash(p)
    <3>1. Same(p) /\ q # p
      BY <1>0, <2>3 DEF StartUp, Pump, Stop, GraceEnds, Exit, Crash, Die, ProcessesTyped
    <3> QED BY <1>2, <2>1, <3>1
  <2>4. CASE \E j \in Jobs : ClaimNext(p, j) \/ CancelAt(p, j)
    <3>1. UNCHANGED <<proc, pc, armed, woken>>
      BY <2>4 DEF ClaimNext, CancelAt
    <3> QED BY <1>2, <2>1, <3>1
  <2>5. CASE \E j \in Jobs : ForceInterrupt(p, j)
    <3>1. Same(p) /\ q # p
      BY <1>0, <2>5 DEF ForceInterrupt, Finalize, ProcessesTyped
    <3> QED BY <1>2, <2>1, <3>1
  <2> QED BY <1>3, <2>2, <2>3, <2>4, <2>5 DEF ProcessStep
<1>4. ASSUME NEW p \in Owners, NEW j \in Jobs, NEW n \in AttemptNumbers, AttemptStep(p, j, n)
      PROVE  armed'[q] \/ woken'[q] \/ Busy(q)'
  <2>1. MovesOn(p)
    BY <1>4, AttemptMoves
  <2>2. /\ UNCHANGED <<proc, pc, armed>>
        /\ woken' = woken \/ Finalize(p, j, n, att[j][n])
    <3>1. CASE Launch(p, j, n)
      BY <3>1 DEF Launch
    <3>2. CASE FailUnhandled(p, j, n) \/ Conclude(p, j, n)
      BY <3>2 DEF FailUnhandled, Conclude
    <3>3. CASE \/ \E r \in {"succeeded", "failed"} : HandlerEnds(p, j, n, r)
              \/ HeartbeatFires(p, j, n) \/ TimeoutFires(p, j, n)
      BY <3>3 DEF HandlerEnds, HeartbeatFires, TimeoutFires
    <3> QED BY <1>4, <3>1, <3>2, <3>3 DEF AttemptStep
  <2>3. CASE woken' = woken
    BY <1>2, <2>1, <2>2, <2>3
  <2>4. CASE Finalize(p, j, n, att[j][n])
    BY <1>1, <1>2, <2>1, <2>2, <2>4
  <2> QED BY <2>2, <2>3, <2>4
<1>5. CASE TimePasses \/ \E j \in Jobs, k \in Kinds : Submit(j, k)
  BY <1>5 DEF TimePasses, Submit, schedVars, Awake, Busy
<1> QED BY <1>3, <1>4, <1>5 DEF SchedulerNext

\* A scheduler that waits for its event loop always has something that will
\* wake it.  With every slot taken pump sets no timer; what saves it is that
\* there is at least one slot, and that every end of an attempt wakes.
THEOREM SchedulerWakes == SchedulerSpec => []NoLostWakeup
<1> DEFINE AllAwake == \A p \in Owners : Awake(p)
<1>1. SchedulerInit => AllAwake
  BY DEF SchedulerInit, Awake
<1>2. SchedulerInv /\ AllAwake /\ [SchedulerNext]_vars => AllAwake'
  <2>1. ASSUME SchedulerInv, AllAwake, SchedulerNext PROVE AllAwake'
    BY <2>1, StaysAwake
  <2>2. ASSUME AllAwake, UNCHANGED vars PROVE AllAwake'
    BY <2>2 DEF vars, schedVars, Awake, Busy
  <2> QED BY <2>1, <2>2
<1>3. AllAwake => NoLostWakeup
  BY AwakeIsEnough
<1> HIDE DEF AllAwake
<1> QED BY <1>1, <1>2, <1>3, SchedulerInvariant, PTL DEF SchedulerSpec

-----------------------------------------------------------------------------
(***************************************************************************)
(* When no heartbeat is late, one process at a time works on a job.        *)
(***************************************************************************)

\* A row held by a living process is in its hands: the lease is alive and the
\* newest attempt stands where the row says.
HolderOK(j) ==
  state[j] \in Held /\ Alive(owner[j]) =>
    /\ LeaseAlive(j) /\ attempts[j] \in AttemptNumbers
    /\ LET a == att[j][attempts[j]] IN
       /\ a.by = owner[j]
       /\ state[j] = "leased" => a.phase = "claimed"
       /\ state[j] = "running" => a.phase \in {"unhandled", "running", "settled"}

\* An attempt is given up at most for a reason that has its own verdict, and
\* one that has settled has a result.
CallOK(a) ==
  /\ a.abort # "shutdown"
  /\ a.phase \in {"claimed", "unhandled", "running"} => a.abort = "no"
  /\ a.phase = "settled" => a.result # "none"
  /\ a.result = "aborted" => a.abort \in {"timeout", "cancel", "lost_lease"}

\* An unfinished attempt is the newest one of its job, its living process has
\* it in its map, and the row is still its own or has come to its end.
WorkOK(j, n) ==
  LET a == att[j][n] IN
  a.phase \in Unfinished =>
    /\ Alive(a.by) /\ n = attempts[j] /\ active[a.by][j] = n
    /\ state[j] \in Terminal \/ (state[j] \in Held /\ owner[j] = a.by)
    /\ a.abort = "lost_lease" => state[j] \in Terminal
    /\ a.phase \in {"claimed", "unhandled"} => pc[a.by] = "claim"
    /\ a.phase \in InProgress => kind[j] \in Handled
    /\ CallOK(a)

\* Processes that have not started, and those that exited, own nothing; the
\* callback of pump is over when the grace period is.
ProcessOK(p) ==
  /\ proc[p] \in {"new", "exited"} => \A j \in Jobs : owner[j] # p
  /\ proc[p] = "forcing" => pc[p] = "idle"
  /\ ActiveSize(p) <= Concurrency

RowsInv ==
  /\ \A j \in Jobs : HolderOK(j)
  /\ \A j \in Jobs, n \in AttemptNumbers : WorkOK(j, n)

AloneInv == RowsInv /\ \A p \in Owners : ProcessOK(p)

\* A transaction that starts no attempt: it leaves who holds a row as it is,
\* or takes it from a process that is dead, or ends the job.
RowStep(i) ==
  /\ attempts'[i] = attempts[i]
  /\ state[i] # "absent" => kind'[i] = kind[i]
  /\ \/ /\ state'[i] = state[i] /\ owner'[i] = owner[i]
        /\ state[i] \in Held /\ Alive(owner[i]) /\ LeaseAlive(i) => LeaseAlive(i)'
     \/ /\ state'[i] \notin Held
        /\ state[i] \in Terminal \/ (state[i] \in Held /\ Alive(owner[i])) =>
             state'[i] \in Terminal

LEMMA ReconcileRows ==
  ASSUME SchedulerInv, RowsInv, Reconcile, NEW i \in Jobs PROVE RowStep(i)
<1>1. CASE UNCHANGED jobVars
  BY <1>1 DEF jobVars, RowStep, LeaseAlive
<1>2. CASE RecoverExpired
  <2>1. CASE i \in Stale
    <3>1. state[i] \in Held /\ ~Alive(owner[i])
      BY <2>1 DEF Stale, RowsInv, HolderOK
    <3>2. state'[i] \in {"cancelled", "queued", "failed"}
      BY <1>2, <2>1 DEF RecoverExpired, ResolveFailures, FailureState
    <3> QED BY <1>2, <3>1, <3>2 DEF RecoverExpired, ResolveFailures, RowStep, Held, Terminal
  <2>2. CASE i \notin Stale
    BY <1>2, <2>2 DEF RecoverExpired, ResolveFailures, RowStep, LeaseAlive
  <2> QED BY <2>1, <2>2
<1> QED BY <1>1, <1>2 DEF Reconcile, Attempted

LEMMA OtherRows ==
  ASSUME SchedulerInv, NEW i \in Jobs, NEW j \in Jobs, NEW p \in Owners, NEW k \in Kinds,
         \/ Attempted(CanHeartbeat(j, p), Heartbeat(j, p))
         \/ Attempted(CanCancel(j), Cancel(j)) \/ Submit(j, k)
  PROVE  RowStep(i)
<1> USE DEF SchedulerInv, SafetyInv, TypeInv, TypeOK, RowStep, LeaseAlive
<1>1. CASE Heartbeat(j, p)
  BY <1>1, TimeAssumption DEF Heartbeat
<1>2. CASE Cancel(j)
  BY <1>2 DEF Cancel, CanCancel, RequestCancellation, Cancelled, Enter, Release, Held, Terminal
<1>3. CASE Submit(j, k)
  BY <1>3 DEF Submit, Enqueue, Enter, Held, Terminal
<1>4. CASE UNCHANGED jobVars
  BY <1>4 DEF jobVars
<1> QED BY <1>1, <1>2, <1>3, <1>4 DEF Attempted

\* Here it counts that every living process is punctual.
LEMMA TimeKeepsRows ==
  ASSUME Punctual = Owners, SchedulerInv, TimePasses, NEW i \in Jobs PROVE RowStep(i)
<1>1. /\ leaseLeft'[i] = IF leaseLeft[i] > 0 THEN leaseLeft[i] - 1 ELSE 0
      /\ leaseLeft[i] \in Nat /\ owner[i] \in Owners \cup {None}
      /\ UNCHANGED <<state, kind, owner, attempts>>
  BY DEF TimePasses, Tick, Minus1, SchedulerInv, SafetyInv, TypeInv, TypeOK
<1>2. state[i] \in Held => owner[i] # None
  BY DEF SchedulerInv, SafetyInv, RowOK
<1>3. ASSUME state[i] \in Held, Alive(owner[i]) PROVE leaseLeft[i] > 1
  BY <1>1, <1>2, <1>3 DEF TimePasses
<1> QED BY <1>1, <1>3 DEF RowStep, LeaseAlive

\* An attempt is left alone, or it goes on in progress.
Carried(i, m) ==
  \/ att'[i][m] = att[i][m]
  \/ /\ att[i][m].phase \in InProgress /\ att'[i][m].phase \in InProgress
     /\ att'[i][m].by = att[i][m].by
     /\ CallOK(att'[i][m])
     /\ att'[i][m].abort = "lost_lease" => state[i] \in Terminal

LEMMA RowsCarried ==
  ASSUME SchedulerInv, RowsInv, UNCHANGED active,
         \A q \in Owners : Alive(q) => Alive(q)',
         \A q \in Owners : ~Alive(q) /\ Alive(q)' => \A i \in Jobs : owner[i] # q,
         \A q \in Owners : \/ pc'[q] = "claim" \/ pc'[q] = pc[q]
                           \/ \A i \in Jobs, m \in AttemptNumbers :
                                att[i][m].by = q => att[i][m].phase \notin {"claimed", "unhandled"},
         \A i \in Jobs : RowStep(i),
         \A i \in Jobs, m \in AttemptNumbers : Carried(i, m)
  PROVE  RowsInv'
<1>1. ASSUME NEW i \in Jobs PROVE HolderOK(i)'
  <2> SUFFICES ASSUME state'[i] \in Held, Alive(owner[i])' PROVE HolderOK(i)'
    BY DEF HolderOK
  <2>1. /\ state'[i] = state[i] /\ owner'[i] = owner[i] /\ attempts'[i] = attempts[i]
        /\ state[i] \in Held /\ Alive(owner[i]) /\ LeaseAlive(i) => LeaseAlive(i)'
    BY DEF RowStep
  <2>2. owner[i] \in Owners
    BY <2>1 DEF SchedulerInv, SafetyInv, TypeInv, TypeOK, RowOK
  <2>3. Alive(owner[i])
    BY <2>1, <2>2 DEF Alive
  <2>4. HolderOK(i) /\ state[i] \in Held
    BY <2>1 DEF RowsInv
  <2>5. Carried(i, attempts[i]) /\ attempts[i] \in AttemptNumbers
    BY <2>3, <2>4 DEF HolderOK
  <2> QED BY <2>1, <2>3, <2>4, <2>5 DEF HolderOK, Carried, InProgress
<1>2. ASSUME NEW i \in Jobs, NEW m \in AttemptNumbers PROVE WorkOK(i, m)'
  <2> SUFFICES ASSUME att'[i][m].phase \in Unfinished PROVE WorkOK(i, m)'
    BY DEF WorkOK
  <2>1. WorkOK(i, m) /\ Carried(i, m) /\ RowStep(i) /\ AttemptOK(i, m)
    BY DEF RowsInv, SchedulerInv
  <2>2. att[i][m].phase \in Unfinished /\ att'[i][m].by = att[i][m].by
    BY <2>1 DEF Carried, InProgress, Unfinished
  <2>3. att[i][m].by \in Owners
    BY <2>1, <2>2 DEF AttemptOK, Unfinished
  <2>4. Alive(att[i][m].by)' /\ m = attempts'[i] /\ active'[att[i][m].by][i] = m
    BY <2>1, <2>2, <2>3 DEF WorkOK, RowStep
  <2>5. state'[i] \in Terminal \/ (state'[i] \in Held /\ owner'[i] = att[i][m].by)
    BY <2>1, <2>2 DEF WorkOK, RowStep
  <2>6. att'[i][m].abort = "lost_lease" => state'[i] \in Terminal
    BY <2>1, <2>2 DEF WorkOK, RowStep, Carried
  <2>7. att'[i][m].phase \in {"claimed", "unhandled"} => pc'[att[i][m].by] = "claim"
    BY <2>1, <2>2, <2>3 DEF WorkOK, Carried, InProgress
  <2>8. /\ att'[i][m].phase \in InProgress => kind'[i] \in Handled
        /\ CallOK(att'[i][m])
    BY <2>1, <2>2 DEF WorkOK, RowStep, Carried, Held, Terminal
  <2> QED BY <2>2, <2>4, <2>5, <2>6, <2>7, <2>8 DEF WorkOK, Alive, CallOK
<1> QED BY <1>1, <1>2 DEF RowsInv

RowSame(i) ==
  /\ state'[i] = state[i] /\ owner'[i] = owner[i] /\ leaseLeft'[i] = leaseLeft[i]
  /\ attempts'[i] = attempts[i] /\ kind'[i] = kind[i]

\* A job of which neither row nor attempts nor entries change.
LEMMA JobSame ==
  ASSUME SchedulerInv, RowsInv, NEW i \in Jobs, RowSame(i), UNCHANGED <<proc, pc>>,
         \A m \in AttemptNumbers : att'[i][m] = att[i][m],
         \A q \in Owners : active'[q][i] = active[q][i]
  PROVE  HolderOK(i)' /\ \A m \in AttemptNumbers : WorkOK(i, m)'
<1>1. HolderOK(i) /\ RowOK(i)
  BY DEF RowsInv, SchedulerInv, SafetyInv
<1>2. HolderOK(i)'
  BY <1>1 DEF HolderOK, RowSame, LeaseAlive, Alive
<1>3. ASSUME NEW m \in AttemptNumbers PROVE WorkOK(i, m)'
  <2>1. WorkOK(i, m) /\ AttemptOK(i, m)
    BY DEF RowsInv, SchedulerInv
  <2>2. att[i][m].phase \in Unfinished => att[i][m].by \in Owners
    BY <2>1 DEF AttemptOK, Unfinished
  <2> QED BY <2>1, <2>2 DEF WorkOK, RowSame, Alive, CallOK
<1> QED BY <1>2, <1>3

LEMMA RowsKeptByClaim ==
  ASSUME SchedulerInv, RowsInv, NEW p \in Owners, NEW j \in Jobs, ClaimNext(p, j)
  PROVE  RowsInv'
<1> DEFINE n == attempts[j] + 1
           b == [NoAttempt EXCEPT !.phase = "claimed", !.by = p]
<1>1. /\ state[j] = "queued" /\ Alive(p) /\ pc[p] = "claim"
      /\ state' = [state EXCEPT ![j] = "leased"]
      /\ owner' = [owner EXCEPT ![j] = p]
      /\ leaseLeft' = [leaseLeft EXCEPT ![j] = LeaseTicks]
      /\ attempts' = [attempts EXCEPT ![j] = n]
      /\ att' = [att EXCEPT ![j][n] = b]
      /\ active' = [active EXCEPT ![p][j] = n]
      /\ UNCHANGED <<kind, proc, pc>>
  BY DEF ClaimNext, Claiming, Claim, Claimable, Enter, SchedulerInv, SafetyInv, TypeInv, TypeOK
<1>2. n \in AttemptNumbers
  <2>1. /\ kind[j] \in Kinds /\ attempts[j] \in Nat
        /\ attempts[j] < Budget(kind[j])
    BY <1>1 DEF SchedulerInv, SafetyInv, TypeInv, TypeOK, Known, RowOK
  <2>2. n \in 1 .. MaxAttempts[kind[j]]
    BY <2>1, BudgetType, PolicyAssumption
  <2> QED BY <2>1, <2>2 DEF AttemptNumbers
<1>3. /\ b \in Attempt /\ b.by = p /\ b.phase = "claimed" /\ b.abort = "no"
      /\ b.result = "none"
  BY DEF NoAttempt, Attempt, Unfinished
<1> HIDE DEF n, b
<1>4. MapsTyped
  BY PartOfInv DEF AttemptsInv
<1>5. /\ att'[j][n] = b
      /\ \A i \in Jobs, m \in AttemptNumbers : i # j \/ m # n => att'[i][m] = att[i][m]
  <2>1. MapsTyped /\ Replaces(j, n, b) /\ b \in Attempt /\ n \in AttemptNumbers
    BY <1>1, <1>2, <1>3, <1>4 DEF Replaces
  <2>2. OnlyThat(j, n, b)
    BY <2>1, OneChanged
  <2> QED BY <2>2 DEF OnlyThat
<1>6. \A q \in Owners, i \in Jobs : active'[q][i] = IF q = p /\ i = j THEN n ELSE active[q][i]
  BY <1>1, <1>4 DEF MapsTyped
<1>7. /\ state'[j] = "leased" /\ owner'[j] = p /\ LeaseAlive(j)' /\ attempts'[j] = n
      /\ \A i \in Jobs \ {j} : RowSame(i)
  BY <1>1, TimeAssumption DEF SchedulerInv, SafetyInv, TypeInv, TypeOK, RowSame, LeaseAlive
<1>8. ASSUME NEW i \in Jobs \ {j} PROVE HolderOK(i)' /\ \A m \in AttemptNumbers : WorkOK(i, m)'
  <2>1. /\ RowSame(i) /\ UNCHANGED <<proc, pc>>
        /\ \A m \in AttemptNumbers : att'[i][m] = att[i][m]
        /\ \A q \in Owners : active'[q][i] = active[q][i]
    BY <1>1, <1>5, <1>6, <1>7, <1>8
  <2> QED BY <2>1, JobSame
<1>9. HolderOK(j)'
  BY <1>2, <1>3, <1>5, <1>7 DEF HolderOK
<1>10. ASSUME NEW m \in AttemptNumbers PROVE WorkOK(j, m)'
  <2>1. CASE m = n
    <3>1. Alive(p)'
      BY <1>1 DEF Alive
    <3>2. CallOK(b)
      BY <1>3 DEF CallOK
    <3>3. state'[j] \in Held /\ active'[p][j] = n /\ pc'[p] = "claim"
      BY <1>1, <1>6, <1>7 DEF Held
    <3> QED BY <1>3, <1>5, <1>7, <2>1, <3>1, <3>2, <3>3 DEF WorkOK, InProgress, Alive, CallOK
  <2>2. CASE m # n
    <3>1. att[j][m].phase \notin Unfinished
      BY <1>1 DEF RowsInv, WorkOK, Held, Terminal
    <3> QED BY <1>5, <2>2, <3>1 DEF WorkOK
  <2> QED BY <2>1, <2>2
<1> QED BY <1>8, <1>9, <1>10 DEF RowsInv

\* The end of an attempt releases the row, if it was still held.
LEMMA RowsReleased ==
  ASSUME SchedulerInv, RowsInv, NEW p \in Owners, NEW j \in Jobs, NEW n \in AttemptNumbers,
         NEW a \in Attempt, Finalize(p, j, n, a), UNCHANGED <<proc, pc>>,
         att[j][n].phase \in Unfinished,
         \A i \in Jobs \ {j} : RowSame(i), state'[j] \notin Held
  PROVE  RowsInv'
<1> DEFINE b == [a EXCEPT !.phase = "done"]
<1>1. b \in Attempt /\ b.phase = "done"
  BY DEF Attempt
<1>2. att' = [att EXCEPT ![j][n] = b] /\ active' = [active EXCEPT ![p][j] = 0]
  BY DEF Finalize
<1> HIDE DEF b
<1>3. MapsTyped
  BY PartOfInv DEF AttemptsInv
<1>4. /\ att'[j][n] = b
      /\ \A i \in Jobs, m \in AttemptNumbers : i # j \/ m # n => att'[i][m] = att[i][m]
  <2>1. MapsTyped /\ att' = [att EXCEPT ![j][n] = b] /\ b \in Attempt
    BY <1>1, <1>2, <1>3
  <2>2. OnlyThat(j, n, b)
    BY <2>1, OneChanged DEF Replaces
  <2> QED BY <2>2 DEF OnlyThat
<1>5. \A q \in Owners, i \in Jobs : i # j => active'[q][i] = active[q][i]
  <2>1. /\ active' = [active EXCEPT ![p][j] = 0]
        /\ active \in [Owners -> [Jobs -> AttemptNumbers \cup {0}]]
    BY <1>2, <1>3 DEF MapsTyped
  <2> QED BY <2>1
<1>6. ASSUME NEW i \in Jobs \ {j} PROVE HolderOK(i)' /\ \A m \in AttemptNumbers : WorkOK(i, m)'
  <2>1. /\ RowSame(i)
        /\ \A m \in AttemptNumbers : att'[i][m] = att[i][m]
        /\ \A q \in Owners : active'[q][i] = active[q][i]
    BY <1>4, <1>5, <1>6
  <2> QED BY <2>1, JobSame
<1>7. HolderOK(j)'
  BY DEF HolderOK
<1>8. ASSUME NEW m \in AttemptNumbers PROVE WorkOK(j, m)'
  <2>1. CASE m = n
    BY <1>1, <1>4, <2>1 DEF WorkOK, Unfinished
  <2>2. CASE m # n
    <3>1. att[j][m].phase \notin Unfinished
      BY <2>2 DEF RowsInv, WorkOK
    <3> QED BY <1>4, <2>2, <3>1 DEF WorkOK
  <2> QED BY <2>1, <2>2
<1> QED BY <1>6, <1>7, <1>8 DEF RowsInv

LEMMA RowsKeptByDeath ==
  ASSUME SchedulerInv, RowsInv, NEW p \in Owners, NEW how \in {"exited", "crashed"}, Die(p, how)
  PROVE  RowsInv'
<1>1. MapsTyped /\ ProcessesTyped
  BY PartOfInv, WholeInv DEF AttemptsInv
<1>2. /\ ~Alive(p)'
      /\ \A q \in Owners \ {p} : /\ proc'[q] = proc[q] /\ pc'[q] = pc[q]
                                 /\ active'[q] = active[q]
      /\ UNCHANGED <<state, kind, owner, leaseLeft, attempts>>
  <2>1. /\ proc' = [proc EXCEPT ![p] = how] /\ pc' = [pc EXCEPT ![p] = "idle"]
        /\ active' = [active EXCEPT ![p] = [j \in Jobs |-> 0]]
        /\ UNCHANGED <<state, kind, owner, leaseLeft, attempts>>
    BY DEF Die, jobVars
  <2>2. proc'[p] = how /\ \A q \in Owners \ {p} : proc'[q] = proc[q]
    BY <1>1, <2>1 DEF ProcessesTyped
  <2>3. \A q \in Owners \ {p} : pc'[q] = pc[q] /\ active'[q] = active[q]
    BY <1>1, <2>1 DEF ProcessesTyped, MapsTyped
  <2>4. ~Alive(p)'
    BY <2>2 DEF Alive
  <2> QED BY <2>1, <2>2, <2>3, <2>4
<1>3. ASSUME NEW i \in Jobs, NEW m \in AttemptNumbers
      PROVE  /\ att[i][m].by # p => att'[i][m] = att[i][m]
             /\ att[i][m].by = p => att'[i][m].phase = "done"
  <2>1. att[i][m] \in Attempt
    BY <1>1 DEF MapsTyped
  <2>2. att'[i][m] = IF att[i][m].by # p THEN att[i][m] ELSE [att[i][m] EXCEPT !.phase = "done"]
    BY DEF Die
  <2> QED BY <2>1, <2>2 DEF Attempt
<1>4. ASSUME NEW i \in Jobs PROVE HolderOK(i)'
  <2> SUFFICES ASSUME state'[i] \in Held, Alive(owner[i])' PROVE HolderOK(i)'
    BY DEF HolderOK
  <2>1. owner[i] \in Owners /\ owner'[i] = owner[i] /\ state[i] \in Held
    BY <1>2 DEF SchedulerInv, SafetyInv, TypeInv, TypeOK, RowOK
  <2>2. owner[i] # p /\ Alive(owner[i])
    BY <1>2, <2>1 DEF Alive
  <2>3. HolderOK(i)
    BY DEF RowsInv
  <2> QED BY <1>2, <1>3, <2>1, <2>2, <2>3 DEF HolderOK, LeaseAlive
<1>5. ASSUME NEW i \in Jobs, NEW m \in AttemptNumbers PROVE WorkOK(i, m)'
  <2> SUFFICES ASSUME att'[i][m].phase \in Unfinished PROVE WorkOK(i, m)'
    BY DEF WorkOK
  <2>1. att'[i][m] = att[i][m] /\ att[i][m].by # p
    BY <1>3 DEF Unfinished
  <2>2. att[i][m].by \in Owners \ {p}
    BY <2>1 DEF SchedulerInv, AttemptOK, Unfinished
  <2>3. WorkOK(i, m)
    BY DEF RowsInv
  <2> QED BY <1>2, <2>1, <2>2, <2>3 DEF WorkOK, Alive, CallOK
<1> QED BY <1>4, <1>5 DEF RowsInv

LEMMA RowsKeptByStart ==
  ASSUME SchedulerInv, RowsInv, NEW p \in Owners, NEW j \in Jobs, NEW n \in AttemptNumbers,
         Launch(p, j, n), CanStart(j, p)
  PROVE  RowsInv'
<1> DEFINE a == att[j][n]
           b == IF kind[j] \in Handled THEN [a EXCEPT !.phase = "running", !.ran = TRUE]
                ELSE [a EXCEPT !.phase = "unhandled"]
<1>1. a \in Attempt /\ a.by = p /\ a.phase = "claimed" /\ WorkOK(j, n)
  BY AttemptType DEF SchedulerInv, RowsInv, Launch
<1>2. /\ b \in Attempt /\ b.by = p /\ b.abort = a.abort /\ b.result = a.result
      /\ (b.phase = "running" /\ kind[j] \in Handled) \/ b.phase = "unhandled"
  <2>1. CASE kind[j] \in Handled
    <3>1. b = [a EXCEPT !.phase = "running", !.ran = TRUE]
      BY <2>1
    <3> HIDE DEF a, b
    <3> QED BY <1>1, <2>1, <3>1 DEF Attempt, Unfinished
  <2>2. CASE kind[j] \notin Handled
    <3>1. b = [a EXCEPT !.phase = "unhandled"]
      BY <2>2
    <3> HIDE DEF a, b
    <3> QED BY <1>1, <3>1 DEF Attempt, Unfinished
  <2> QED BY <2>1, <2>2
<1>3. /\ att' = [att EXCEPT ![j][n] = b]
      /\ UNCHANGED <<active, proc, pc>>
  BY DEF Launch
<1>4. /\ state[j] = "leased" /\ owner[j] = p /\ LeaseAlive(j)
      /\ state' = [state EXCEPT ![j] = "running"]
      /\ UNCHANGED <<kind, owner, leaseLeft, attempts>>
  BY DEF Launch, Attempted, Start, CanStart, Enter
<1>5. Alive(p) /\ n = attempts[j] /\ active[p][j] = n /\ pc[p] = "claim" /\ CallOK(a)
  BY <1>1 DEF WorkOK, Unfinished
<1>6. CallOK(b)
  BY <1>1, <1>2, <1>5 DEF CallOK
<1> HIDE DEF b
<1>7. MapsTyped
  BY PartOfInv DEF AttemptsInv
<1>8. /\ att'[j][n] = b
      /\ \A i \in Jobs, m \in AttemptNumbers : i # j \/ m # n => att'[i][m] = att[i][m]
  <2>1. MapsTyped /\ att' = [att EXCEPT ![j][n] = b] /\ b \in Attempt
    BY <1>2, <1>3, <1>7
  <2>2. OnlyThat(j, n, b)
    BY <2>1, OneChanged DEF Replaces
  <2> QED BY <2>2 DEF OnlyThat
<1>9. state'[j] = "running" /\ \A i \in Jobs \ {j} : RowSame(i)
  BY <1>4 DEF SchedulerInv, SafetyInv, TypeInv, TypeOK, RowSame
<1>10. ASSUME NEW i \in Jobs \ {j} PROVE HolderOK(i)' /\ \A m \in AttemptNumbers : WorkOK(i, m)'
  <2>1. /\ RowSame(i)
        /\ \A m \in AttemptNumbers : att'[i][m] = att[i][m]
        /\ \A q \in Owners : active'[q][i] = active[q][i]
    BY <1>3, <1>8, <1>9, <1>10
  <2> QED BY <1>3, <2>1, JobSame
<1>11. HolderOK(j)'
  BY <1>2, <1>4, <1>5, <1>8, <1>9 DEF HolderOK, LeaseAlive
<1>12. ASSUME NEW m \in AttemptNumbers PROVE WorkOK(j, m)'
  <2>1. CASE m = n
    <3>1. Alive(p)' /\ pc'[p] = "claim" /\ active'[p][j] = n /\ attempts'[j] = n
      BY <1>3, <1>4, <1>5 DEF Alive
    <3>2. state'[j] \in Held /\ owner'[j] = p /\ (b.phase = "running" => kind'[j] \in Handled)
      BY <1>2, <1>4, <1>9 DEF Held
    <3>3. b.abort # "lost_lease"
      BY <1>1, <1>2, <1>5 DEF CallOK
    <3> QED BY <1>2, <1>6, <1>8, <2>1, <3>1, <3>2, <3>3 DEF WorkOK, InProgress, Alive, CallOK
  <2>2. CASE m # n
    <3>1. att[j][m].phase \notin Unfinished
      BY <1>5, <2>2 DEF RowsInv, WorkOK
    <3> QED BY <1>8, <2>2, <3>1 DEF WorkOK
  <2> QED BY <2>1, <2>2
<1> QED BY <1>10, <1>11, <1>12 DEF RowsInv

\* A verdict that the row's owner asks for in time ends its hold.
LEMMA VerdictReleases ==
  ASSUME SchedulerInv, NEW j \in Jobs, NEW p \in Owners, NEW verdict,
         Terminalize(j, p, verdict),
         \/ state[j] \in Terminal
         \/ state[j] = "running" /\ owner[j] = p /\ LeaseAlive(j)
            /\ verdict \in {"succeed", "fail", "cancel", "interrupt"}
         \/ state[j] \in Held /\ owner[j] = p /\ verdict = "interrupt"
  PROVE  state'[j] \notin Held /\ \A i \in Jobs \ {j} : RowSame(i)
<1> USE DEF SchedulerInv, SafetyInv, TypeInv, TypeOK, RowSame
<1>1. CASE verdict = "succeed" /\ Succeed(j, p)
  BY <1>1 DEF Succeed, Succeeded, Cancelled, Enter, Release, Held
<1>2. CASE Fail(j, p) \/ Interrupt(j, p)
  <2>1. FailureState(j) \in {"cancelled", "queued", "failed"}
    BY DEF FailureState
  <2>2. ResolveFailures({j})
    BY <1>2 DEF Fail, Interrupt
  <2> QED BY <2>1, <2>2 DEF ResolveFailures, Held
<1>3. CASE FinishCancellation(j, p)
  BY <1>3 DEF FinishCancellation, Cancelled, Enter, Release, Held
<1>4. CASE state[j] \in Terminal
  <2>1. UNCHANGED jobVars
    BY <1>4 DEF Terminalize, Attempted, CanFinish, CanFinishCancellation, CanInterrupt,
                Terminal, Held
  <2> QED BY <1>4, <2>1 DEF jobVars, Terminal, Held
<1>5. CASE state[j] \in Held /\ owner[j] = p /\ verdict = "interrupt"
  BY <1>2, <1>5 DEF Terminalize, Attempted, CanInterrupt
<1>6. CASE /\ state[j] = "running" /\ owner[j] = p /\ LeaseAlive(j)
           /\ verdict \in {"succeed", "fail", "cancel", "interrupt"}
  <2>1. CanFinish(j, p) /\ CanFinishCancellation(j, p) /\ CanInterrupt(j, p)
    BY <1>6 DEF CanFinish, CanFinishCancellation, CanInterrupt, Held
  <2> QED BY <1>1, <1>2, <1>3, <1>6, <2>1 DEF Terminalize, Attempted
<1> QED BY <1>4, <1>5, <1>6

\* The verdicts leave out no way in which an attempt in hand may settle.
LEMMA VerdictExists ==
  ASSUME NEW a \in Attempt, a.phase = "settled", CallOK(a), a.abort # "lost_lease"
  PROVE  Verdict(a) \in {"succeed", "fail", "cancel", "interrupt"}
<1>1. a.result \in {"succeeded", "failed", "aborted"} /\ a.abort \in {"no", "timeout", "cancel"}
  BY DEF Attempt, CallOK
<1>2. a.result = "aborted" => a.abort # "no"
  BY DEF CallOK
<1> QED BY <1>1, <1>2 DEF Verdict

\* An attempt that ends while its row is in its hands ends that too.
LEMMA EndReleases ==
  ASSUME SchedulerInv, AloneInv, NEW p \in Owners, NEW j \in Jobs, NEW n \in AttemptNumbers,
         \/ Launch(p, j, n) /\ ~CanStart(j, p)
         \/ FailUnhandled(p, j, n) \/ Conclude(p, j, n)
  PROVE  RowsInv'
<1> DEFINE a == att[j][n]
<1>1. a \in Attempt /\ WorkOK(j, n) /\ HolderOK(j)
  BY AttemptType DEF SchedulerInv, AloneInv, RowsInv
<1>2. /\ a.by = p /\ a.phase \in Unfinished /\ Finalize(p, j, n, a)
      /\ UNCHANGED <<proc, pc>>
  BY DEF Launch, FailUnhandled, Conclude, Unfinished
<1>3. /\ n = attempts[j] /\ Alive(p) /\ CallOK(a)
      /\ a.abort = "lost_lease" => state[j] \in Terminal
      /\ state[j] \in Terminal \/ (state[j] \in Held /\ owner[j] = p)
  BY <1>1, <1>2 DEF WorkOK
<1>4. ASSUME state[j] \notin Terminal
      PROVE  /\ owner[j] = p /\ LeaseAlive(j) /\ state[j] \in Held
             /\ state[j] = "leased" => a.phase = "claimed"
             /\ state[j] = "running" => a.phase # "claimed"
  BY <1>1, <1>3, <1>4 DEF HolderOK
<1> HIDE DEF a
<1>5. state'[j] \notin Held /\ \A i \in Jobs \ {j} : RowSame(i)
  <2>1. CASE Launch(p, j, n) /\ ~CanStart(j, p)
    <3>1. UNCHANGED jobVars /\ a.phase = "claimed"
      BY <2>1 DEF Launch, Attempted, a
    <3>2. state[j] \notin Held
      BY <1>3, <1>4, <2>1, <3>1 DEF CanStart, Held, Terminal
    <3> QED BY <3>1, <3>2 DEF jobVars, RowSame
  <2>2. CASE FailUnhandled(p, j, n)
    <3>1. a.phase = "unhandled" /\ Terminalize(j, p, "fail")
      BY <2>2 DEF FailUnhandled, Terminalize, a
    <3>2. state[j] \in Terminal \/ (state[j] = "running" /\ owner[j] = p /\ LeaseAlive(j))
      BY <1>4, <3>1 DEF Held
    <3> QED BY <3>1, <3>2, VerdictReleases
  <2>3. CASE Conclude(p, j, n)
    <3>1. a.phase = "settled" /\ Terminalize(j, p, Verdict(a))
      BY <2>3 DEF Conclude, a
    <3>2. CASE state[j] \in Terminal
      BY <3>1, <3>2, VerdictReleases
    <3>3. CASE state[j] \notin Terminal
      <4>1. state[j] = "running" /\ owner[j] = p /\ LeaseAlive(j)
        BY <1>4, <3>1, <3>3 DEF Held
      <4>2. Verdict(a) \in {"succeed", "fail", "cancel", "interrupt"}
        BY <1>1, <1>3, <3>1, <3>3, VerdictExists
      <4> QED BY <3>1, <4>1, <4>2, VerdictReleases
    <3> QED BY <3>2, <3>3
  <2> QED BY <2>1, <2>2, <2>3
<1>6. RowsInv /\ att[j][n].phase \in Unfinished
  BY <1>2 DEF AloneInv, a
<1> QED BY <1>1, <1>2, <1>5, <1>6, RowsReleased

LEMMA ForceReleases ==
  ASSUME SchedulerInv, AloneInv, NEW p \in Owners, NEW j \in Jobs, ForceInterrupt(p, j)
  PROVE  RowsInv'
<1> DEFINE n == active[p][j]
           a == att[j][n]
<1>1. n \in AttemptNumbers /\ a.by = p /\ a.phase \in Unfinished
  BY DEF ForceInterrupt, SchedulerInv, SchedulerTypeOK, EntryOK
<1>2. a \in Attempt /\ WorkOK(j, n) /\ HolderOK(j) /\ pc[p] = "idle"
  BY <1>1, AttemptType DEF SchedulerInv, AloneInv, RowsInv, ProcessOK, ForceInterrupt
<1>3. a.phase \in InProgress /\ kind[j] \in Handled
  BY <1>1, <1>2 DEF WorkOK, Unfinished, InProgress
<1>4. Terminalize(j, p, "interrupt") /\ Finalize(p, j, n, Abort(a, "shutdown"))
  BY <1>3 DEF ForceInterrupt, Attempted, Terminalize
<1>5. Abort(a, "shutdown") \in Attempt
  BY <1>2, AbortWorks
<1>6. state[j] \in Terminal \/ (state[j] \in Held /\ owner[j] = p)
  BY <1>1, <1>2 DEF WorkOK
<1>7. state'[j] \notin Held /\ \A i \in Jobs \ {j} : RowSame(i)
  BY <1>4, <1>6, VerdictReleases
<1>8. RowsInv /\ UNCHANGED <<proc, pc>>
  BY DEF AloneInv, ForceInterrupt
<1> HIDE DEF n
<1> QED BY <1>1, <1>4, <1>5, <1>7, <1>8, RowsReleased

LEMMA AbortFields ==
  ASSUME NEW a \in Attempt, a.phase \in InProgress, NEW reason \in {"timeout", "cancel", "lost_lease"}
  PROVE  LET b == Abort(a, reason) IN
         \/ b.abort = a.abort /\ b.phase = a.phase /\ b.result = a.result
         \/ b.abort = reason /\ b.phase = "settled" /\ b.result = "aborted"
         \/ b.abort = reason /\ a.phase = "settled" /\ b.phase = "settled" /\ b.result = a.result
BY DEF Abort, Attempt, InProgress

\* What becomes of an attempt in progress while nothing ends it.
LEMMA AttemptsGoOn ==
  ASSUME SchedulerInv, AloneInv, NEW p \in Owners, NEW j \in Jobs, NEW n \in AttemptNumbers,
         \/ \E r \in {"succeeded", "failed"} : HandlerEnds(p, j, n, r)
         \/ HeartbeatFires(p, j, n) \/ TimeoutFires(p, j, n)
         \/ CancelAt(p, j) /\ n = aborter[p][j],
         NEW i \in Jobs, NEW m \in AttemptNumbers
  PROVE  Carried(i, m)
<1> DEFINE a == att[j][n]
<1>1. a \in Attempt /\ WorkOK(j, n) /\ HolderOK(j) /\ MapsTyped
  BY AttemptType, PartOfInv DEF AloneInv, RowsInv, SchedulerInv, AttemptsInv
<1>2. a.by = p /\ a.phase \in InProgress
  BY NumberType DEF HandlerEnds, HeartbeatFires, TimeoutFires, CancelAt, InProgress,
                    SchedulerInv, EntryOK
<1>3. CallOK(a) /\ Alive(p) /\ (a.abort = "lost_lease" => state[j] \in Terminal)
  BY <1>1, <1>2 DEF WorkOK, InProgress, Unfinished
<1>4. ASSUME NEW b \in Attempt, att' = [att EXCEPT ![j][n] = b],
             b.phase \in InProgress, b.by = p, CallOK(b),
             b.abort = "lost_lease" => state[j] \in Terminal
      PROVE  Carried(i, m)
  <2>1. att'[i][m] = IF i = j /\ m = n THEN b ELSE att[i][m]
    BY <1>1, <1>4 DEF MapsTyped
  <2>2. CASE i = j /\ m = n
    BY <1>2, <1>4, <2>1, <2>2 DEF Carried
  <2>3. CASE ~(i = j /\ m = n)
    BY <2>1, <2>3 DEF Carried
  <2> QED BY <2>2, <2>3
<1> HIDE DEF a
<1>5. ASSUME NEW reason \in {"timeout", "cancel", "lost_lease"},
             att' = [att EXCEPT ![j][n] = Abort(a, reason)],
             reason = "lost_lease" => state[j] \in Terminal
      PROVE  Carried(i, m)
  <2> DEFINE b == Abort(a, reason)
  <2>1. b \in Attempt /\ b.by = p /\ b.phase \in InProgress
    BY <1>1, <1>2, AbortWorks
  <2>2. CallOK(b) /\ (b.abort = "lost_lease" => state[j] \in Terminal)
    <3>1. \/ b.abort = a.abort /\ b.phase = a.phase /\ b.result = a.result
          \/ b.abort = reason /\ b.phase = "settled" /\ b.result = "aborted"
          \/ b.abort = reason /\ a.phase = "settled" /\ b.phase = "settled" /\ b.result = a.result
      BY <1>1, <1>2, AbortFields
    <3> HIDE DEF b
    <3> QED BY <1>3, <1>5, <3>1 DEF CallOK
  <2> HIDE DEF b
  <2>3. att' = [att EXCEPT ![j][n] = b]
    BY <1>5 DEF b
  <2> QED BY <1>4, <2>1, <2>2, <2>3
<1>6. ASSUME NEW r \in {"succeeded", "failed"}, HandlerEnds(p, j, n, r) PROVE Carried(i, m)
  <2> DEFINE b == [a EXCEPT !.phase = "settled", !.result = r]
  <2>1. att' = [att EXCEPT ![j][n] = b] /\ a.phase = "running"
    BY <1>6 DEF HandlerEnds, a
  <2>2. /\ b \in Attempt /\ b.by = p /\ b.phase = "settled"
        /\ b.abort = a.abort /\ b.result = r
    BY <1>1, <1>2 DEF Attempt, Unfinished
  <2> HIDE DEF b
  <2>3. CallOK(b) /\ b.phase \in InProgress
    BY <1>3, <2>2 DEF CallOK, InProgress
  <2> QED BY <1>3, <1>4, <2>1, <2>2, <2>3
<1>7. CASE TimeoutFires(p, j, n)
  BY <1>5, <1>7 DEF TimeoutFires, a
<1>8. CASE HeartbeatFires(p, j, n)
  <2>1. CASE CanHeartbeat(j, p)
    BY <1>8, <2>1 DEF HeartbeatFires, Carried
  <2>2. CASE ~CanHeartbeat(j, p)
    <3>1. state[j] \in Terminal
      BY <1>1, <1>2, <1>3, <2>2 DEF WorkOK, HolderOK, CanHeartbeat, InProgress, Unfinished, a
    <3> QED BY <1>5, <1>8, <2>2, <3>1 DEF HeartbeatFires, a
  <2> QED BY <2>1, <2>2
<1>9. CASE CancelAt(p, j) /\ n = aborter[p][j]
  <2>1. att' = [att EXCEPT ![j][n] = Abort(a, "cancel")]
    BY <1>1, <1>9, NumberType DEF CancelAt, MapsTyped, a
  <2> QED BY <1>5, <2>1
<1> QED BY <1>6, <1>7, <1>8, <1>9

LEMMA RowsKept ==
  ASSUME Punctual = Owners, SchedulerInv, AloneInv, SchedulerNext PROVE RowsInv'
<1>1. RowsInv /\ ProcessesTyped
  BY WholeInv DEF AloneInv
<1>2. ASSUME UNCHANGED <<proc, pc, active>>, \A i \in Jobs : RowStep(i),
             \A i \in Jobs, m \in AttemptNumbers : Carried(i, m)
      PROVE  RowsInv'
  BY <1>1, <1>2, RowsCarried DEF Alive
<1>3. ASSUME NEW p \in Owners, UNCHANGED <<active, att>>, \A i \in Jobs : RowStep(i),
             \A q \in Owners \ {p} : proc'[q] = proc[q] /\ pc'[q] = pc[q],
             Alive(p)', Alive(p) \/ proc[p] = "new",
             \/ pc'[p] = "claim" \/ pc'[p] = pc[p] \/ ~Alive(p)
             \/ InPhase(p, {"claimed", "unhandled"}) = {}
      PROVE  RowsInv'
  <2>1. \A q \in Owners : Alive(q) => Alive(q)'
    BY <1>3 DEF Alive
  <2>2. \A q \in Owners : ~Alive(q) /\ Alive(q)' => \A i \in Jobs : owner[i] # q
    BY <1>3 DEF Alive, AloneInv, ProcessOK
  <2>3. ASSUME NEW q \in Owners, pc'[q] # "claim", pc'[q] # pc[q],
               NEW i \in Jobs, NEW m \in AttemptNumbers, att[i][m].by = q
        PROVE  att[i][m].phase \notin {"claimed", "unhandled"}
    <3>1. q = p
      BY <1>3, <2>3
    <3>2. CASE ~Alive(p)
      BY <2>3, <3>1, <3>2 DEF AloneInv, RowsInv, WorkOK, Unfinished
    <3>3. CASE InPhase(p, {"claimed", "unhandled"}) = {}
      <4>1. <<i, m>> \in Mine(p)
        BY <2>3, <3>1 DEF Mine
      <4> QED BY <3>3, <4>1 DEF InPhase
    <3> QED BY <1>3, <2>3, <3>1, <3>2, <3>3
  <2>4. \A i \in Jobs, m \in AttemptNumbers : Carried(i, m)
    BY <1>3 DEF Carried
  <2>5. \A q \in Owners : \/ pc'[q] = "claim" \/ pc'[q] = pc[q]
                         \/ \A i \in Jobs, m \in AttemptNumbers :
                              att[i][m].by = q => att[i][m].phase \notin {"claimed", "unhandled"}
    BY <2>3
  <2> QED BY <1>1, <1>3, <2>1, <2>2, <2>4, <2>5, RowsCarried
<1>4. ASSUME UNCHANGED jobVars, NEW i \in Jobs PROVE RowStep(i)
  BY <1>4 DEF jobVars, RowStep, LeaseAlive
<1>5. ASSUME NEW p \in Owners, ProcessStep(p) PROVE RowsInv'
  <2>1. CASE StartUp(p) \/ Pump(p)
    <3>1. \A i \in Jobs : RowStep(i)
      BY <1>1, <2>1, ReconcileRows DEF StartUp, Pump
    <3>2. /\ UNCHANGED <<active, att>>
          /\ \A q \in Owners \ {p} : proc'[q] = proc[q] /\ pc'[q] = pc[q]
          /\ proc'[p] = "up" /\ proc[p] \in {"new", "up"}
          /\ proc[p] = "up" => pc'[p] = "claim"
      BY <1>1, <2>1 DEF StartUp, Pump, ProcessesTyped
    <3> QED BY <1>3, <3>1, <3>2 DEF Alive
  <2>2. CASE PumpEnds(p) \/ Stop(p) \/ GraceEnds(p)
    <3>1. \A i \in Jobs : RowStep(i)
      BY <1>4, <2>2 DEF PumpEnds, Stop, GraceEnds
    <3>2. /\ UNCHANGED <<active, att>>
          /\ \A q \in Owners \ {p} : proc'[q] = proc[q] /\ pc'[q] = pc[q]
          /\ Alive(p) /\ Alive(p)'
          /\ pc'[p] = pc[p] \/ InPhase(p, {"claimed", "unhandled"}) = {}
      BY <1>1, <2>2 DEF PumpEnds, Claiming, Stop, GraceEnds, Alive, ProcessesTyped
    <3> QED BY <1>3, <3>1, <3>2
  <2>3. ASSUME NEW j \in Jobs, CancelAt(p, j) PROVE RowsInv'
    <3>1. ASSUME NEW i \in Jobs PROVE RowStep(i)
      <4>1. CASE UNCHANGED jobVars
        BY <1>4, <4>1
      <4>2. CASE Cancel(j)
        BY <4>2 DEF Cancel, CanCancel, RequestCancellation, Cancelled, Enter, Release, Held,
           Terminal, RowStep, LeaseAlive, SchedulerInv, SafetyInv, TypeInv, TypeOK
      <4> QED BY <2>3, <4>1, <4>2 DEF CancelAt, Attempted
    <3>2. ASSUME NEW i \in Jobs, NEW m \in AttemptNumbers PROVE Carried(i, m)
      <4>1. CASE aborter[p][j] = 0
        BY <2>3, <4>1 DEF CancelAt, Carried
      <4>2. CASE aborter[p][j] # 0
        <5>1. aborter[p][j] \in AttemptNumbers
          BY <4>2 DEF SchedulerInv, SchedulerTypeOK
        <5> QED BY <2>3, <5>1, AttemptsGoOn
      <4> QED BY <4>1, <4>2
    <3> QED BY <1>2, <2>3, <3>1, <3>2 DEF CancelAt
  <2>4. CASE \E j \in Jobs : ClaimNext(p, j) \/ ForceInterrupt(p, j)
    BY <1>1, <2>4, RowsKeptByClaim, ForceReleases
  <2>5. CASE Exit(p) \/ Crash(p)
    BY <1>1, <2>5, RowsKeptByDeath DEF Exit, Crash
  <2> QED BY <1>5, <2>1, <2>2, <2>3, <2>4, <2>5 DEF ProcessStep
<1>6. ASSUME NEW p \in Owners, NEW j \in Jobs, NEW n \in AttemptNumbers, AttemptStep(p, j, n)
      PROVE  RowsInv'
  <2>1. CASE Launch(p, j, n) \/ FailUnhandled(p, j, n) \/ Conclude(p, j, n)
    BY <1>1, <2>1, RowsKeptByStart, EndReleases
  <2>2. CASE \/ \E r \in {"succeeded", "failed"} : HandlerEnds(p, j, n, r)
            \/ HeartbeatFires(p, j, n) \/ TimeoutFires(p, j, n)
    <3>1. UNCHANGED jobVars \/ Attempted(CanHeartbeat(j, p), Heartbeat(j, p))
      BY <2>2 DEF HandlerEnds, HeartbeatFires, TimeoutFires
    <3>2. ASSUME NEW i \in Jobs PROVE RowStep(i)
      <4>1. CASE Heartbeat(j, p)
        BY <4>1, TimeAssumption DEF Heartbeat, RowStep, LeaseAlive, SchedulerInv, SafetyInv,
           TypeInv, TypeOK
      <4> QED BY <1>4, <3>1, <4>1 DEF Attempted
    <3>3. \A i \in Jobs, m \in AttemptNumbers : Carried(i, m)
      BY <2>2, AttemptsGoOn
    <3>4. UNCHANGED <<proc, pc, active>>
      BY <2>2 DEF HandlerEnds, HeartbeatFires, TimeoutFires
    <3> QED BY <1>2, <3>2, <3>3, <3>4
  <2> QED BY <1>6, <2>1, <2>2 DEF AttemptStep
<1>7. CASE TimePasses \/ \E j \in Jobs, k \in Kinds : Submit(j, k)
  <2>1. ASSUME NEW j \in Jobs, NEW k \in Kinds, Submit(j, k), NEW i \in Jobs PROVE RowStep(i)
    BY <2>1 DEF Submit, Enqueue, Enter, Held, Terminal, RowStep, LeaseAlive, SchedulerInv,
                SafetyInv, TypeInv, TypeOK
  <2>2. \A i \in Jobs : RowStep(i)
    BY <1>7, <2>1, TimeKeepsRows
  <2>3. UNCHANGED schedVars
    BY <1>7 DEF TimePasses, Submit
  <2> QED BY <1>2, <2>2, <2>3 DEF schedVars, Carried
<1> QED BY <1>5, <1>6, <1>7 DEF SchedulerNext

-----------------------------------------------------------------------------
(***************************************************************************)
(* Slots and exits.                                                        *)
(***************************************************************************)

\* Only a claim by a living process gives a row a new owner.
LEMMA OwnersKept ==
  ASSUME SchedulerInv, SchedulerNext, NEW i \in Jobs
  PROVE  \/ owner'[i] \in {owner[i], None}
         \/ \E p \in Owners : Alive(p) /\ proc'[p] = proc[p] /\ owner'[i] = p
<1> USE DEF SchedulerInv, SafetyInv, TypeInv, TypeOK
<1> DEFINE Goal == owner'[i] \in {owner[i], None}
<1>1. ASSUME NEW S, ResolveFailures(S) PROVE Goal
  BY <1>1 DEF ResolveFailures
<1>2. ASSUME NEW j \in Jobs, Cancelled(j) \/ Succeeded(j) PROVE Goal
  BY <1>2 DEF Cancelled, Succeeded, Release
<1>3. ASSUME NEW j \in Jobs, NEW p \in Owners, NEW v, Terminalize(j, p, v) PROVE Goal
  BY <1>1, <1>2, <1>3 DEF Terminalize, Attempted, Succeed, Fail, FinishCancellation, Interrupt,
     jobVars
<1>4. CASE Reconcile
  BY <1>1, <1>4 DEF Reconcile, Attempted, RecoverExpired, jobVars
<1>5. ASSUME NEW p \in Owners, ProcessStep(p)
      PROVE  Goal \/ \E q \in Owners : Alive(q) /\ proc'[q] = proc[q] /\ owner'[i] = q
  <2>1. ASSUME NEW j \in Jobs, ClaimNext(p, j)
        PROVE  owner'[i] = owner[i] \/ (Alive(p) /\ proc'[p] = proc[p] /\ owner'[i] = p)
    BY <2>1 DEF ClaimNext, Claiming, Claim
  <2>2. ASSUME NEW j \in Jobs, CancelAt(p, j) PROVE Goal
    BY <1>2, <2>2 DEF CancelAt, Attempted, Cancel, RequestCancellation, jobVars
  <2>3. ASSUME NEW j \in Jobs, ForceInterrupt(p, j) PROVE Goal
    BY <1>1, <2>3 DEF ForceInterrupt, Attempted, Interrupt, jobVars
  <2> QED BY <1>4, <1>5, <2>1, <2>2, <2>3
          DEF ProcessStep, StartUp, Pump, PumpEnds, Stop, GraceEnds, Exit, Crash, Die, jobVars
<1>6. ASSUME NEW p \in Owners, NEW j \in Jobs, NEW n \in AttemptNumbers, AttemptStep(p, j, n)
      PROVE  Goal
  <2>1. CASE Launch(p, j, n)
    BY <2>1 DEF Launch, Attempted, Start, jobVars
  <2>2. CASE FailUnhandled(p, j, n)
    BY <1>1, <2>2 DEF FailUnhandled, Attempted, Fail, jobVars
  <2>3. CASE Conclude(p, j, n)
    BY <1>3, <2>3 DEF Conclude
  <2>4. CASE HeartbeatFires(p, j, n)
    BY <2>4 DEF HeartbeatFires, Attempted, Heartbeat, jobVars
  <2>5. CASE TimeoutFires(p, j, n) \/ \E r \in {"succeeded", "failed"} : HandlerEnds(p, j, n, r)
    BY <2>5 DEF TimeoutFires, HandlerEnds, jobVars
  <2> QED BY <1>6, <2>1, <2>2, <2>3, <2>4, <2>5 DEF AttemptStep
<1>7. CASE TimePasses \/ \E j \in Jobs, k \in Kinds : Submit(j, k)
  BY <1>7 DEF TimePasses, Tick, Submit, Enqueue
<1> QED BY <1>5, <1>6, <1>7 DEF SchedulerNext

\* The jobs in the map of p.
InMap(p) == {j \in Jobs : active[p][j] # 0}

LEMMA MapFinite == \A p \in Owners : IsFiniteSet(InMap(p))
BY JobsAssumption, FS_Subset DEF InMap

\* A process that waits until its map is empty owns nothing any more.
LEMMA EmptyOwnsNothing ==
  ASSUME SchedulerInv, AloneInv, NEW p \in Owners, Alive(p), ActiveSize(p) = 0, NEW i \in Jobs
  PROVE  owner[i] # p
<1> SUFFICES ASSUME owner[i] = p PROVE FALSE
  OBVIOUS
<1>1. InMap(p) = {}
  <2>1. Cardinality(InMap(p)) = 0 /\ IsFiniteSet(InMap(p))
    BY MapFinite DEF ActiveSize, InMap
  <2> QED BY <2>1, FS_EmptySet
<1>2. state[i] \in Held
  BY OwnerAssumption DEF SchedulerInv, SafetyInv, RowOK
<1>3. HolderOK(i) /\ attempts[i] \in AttemptNumbers
  BY <1>2 DEF AloneInv, RowsInv, HolderOK
<1>4. att[i][attempts[i]].by = p /\ att[i][attempts[i]].phase \in Unfinished
  BY <1>2, <1>3 DEF HolderOK, Held, Unfinished
<1>5. active[p][i] = attempts[i]
  BY <1>3, <1>4 DEF AloneInv, RowsInv, WorkOK
<1>6. attempts[i] # 0
  BY <1>3, NumberType
<1> QED BY <1>1, <1>5, <1>6 DEF InMap

LEMMA ProcessMovesOn ==
  ASSUME SchedulerInv, SchedulerNext, NEW q \in Owners
  PROVE  /\ proc'[q] = "new" => proc[q] = "new"
         /\ proc'[q] = "exited" => proc[q] = "exited" \/ Exit(q)
         /\ proc'[q] = "forcing" =>
              \/ pc'[q] = "idle"
              \/ proc[q] = "forcing" /\ pc'[q] = pc[q]
<1> DEFINE Goal ==
      /\ proc'[q] = "new" => proc[q] = "new"
      /\ proc'[q] = "exited" => proc[q] = "exited" \/ Exit(q)
      /\ proc'[q] = "forcing" =>
           \/ pc'[q] = "idle"
           \/ proc[q] = "forcing" /\ pc'[q] = pc[q]
<1> USE DEF ProcessesTyped
<1>1. ProcessesTyped
  BY WholeInv
<1>2. CASE UNCHANGED <<proc, pc>>
  BY <1>2
<1>3. ASSUME NEW p \in Owners, ProcessStep(p) PROVE Goal
  <2>1. CASE \E j \in Jobs : ClaimNext(p, j) \/ CancelAt(p, j) \/ ForceInterrupt(p, j)
    BY <1>2, <2>1 DEF ClaimNext, CancelAt, ForceInterrupt
  <2>2. CASE StartUp(p) \/ Pump(p) \/ Stop(p) \/ PumpEnds(p)
    BY <1>1, <2>2 DEF StartUp, Pump, Stop, PumpEnds
  <2>3. CASE GraceEnds(p)
    BY <1>1, <2>3 DEF GraceEnds, Serving
  <2>4. CASE Exit(p)
    BY <1>1, <2>4 DEF Exit, Die
  <2>5. CASE Crash(p)
    BY <1>1, <2>5 DEF Crash, Die
  <2> QED BY <1>3, <2>1, <2>2, <2>3, <2>4, <2>5 DEF ProcessStep
<1>4. ASSUME NEW p \in Owners, NEW j \in Jobs, NEW n \in AttemptNumbers, AttemptStep(p, j, n)
      PROVE  Goal
  <2>1. UNCHANGED <<proc, pc>>
    BY <1>4 DEF AttemptStep, Launch, FailUnhandled, HandlerEnds, HeartbeatFires, TimeoutFires,
                Conclude
  <2> QED BY <1>2, <2>1
<1>5. CASE TimePasses \/ \E j \in Jobs, k \in Kinds : Submit(j, k)
  BY <1>2, <1>5 DEF TimePasses, Submit, schedVars
<1> QED BY <1>3, <1>4, <1>5 DEF SchedulerNext

LEMMA SlotsKept ==
  ASSUME SchedulerInv, NEW p \in Owners, MovesOn(p), NEW q \in Owners, ActiveSize(q) <= Concurrency
  PROVE  ActiveSize(q)' <= Concurrency
<1>1. MapsTyped /\ IsFiniteSet(InMap(q)) /\ Cardinality(InMap(q)) \in Nat
  BY PartOfInv, MapFinite, FS_CardinalityType DEF AttemptsInv
<1>2. Cardinality(InMap(q)) <= Concurrency /\ Concurrency \in Nat
  BY SchedulerAssumption DEF ActiveSize, InMap
<1>3. ASSUME InMap(q)' \subseteq InMap(q) PROVE Cardinality(InMap(q)') <= Concurrency
  <2>1. Cardinality(InMap(q)') <= Cardinality(InMap(q)) /\ Cardinality(InMap(q)') \in Nat
    BY <1>1, <1>3, FS_Subset, FS_CardinalityType
  <2> QED BY <1>1, <1>2, <2>1
<1>4. CASE Rests \/ \E j \in Jobs, n \in AttemptNumbers : Works(p, j, n)
  BY <1>3, <1>4 DEF Rests, Works, InMap, ActiveSize
<1>5. ASSUME NEW j \in Jobs, NEW n \in AttemptNumbers, Ends(p, j, n)
      PROVE  ActiveSize(q)' <= Concurrency
  <2>1. active' = [active EXCEPT ![p][j] = 0]
    BY <1>5 DEF Ends, Finalize
  <2>2. active \in [Owners -> [Jobs -> AttemptNumbers \cup {0}]]
    BY <1>1 DEF MapsTyped
  <2>3. \A i \in Jobs : active'[q][i] # 0 => active[q][i] # 0
    BY <2>1, <2>2
  <2>4. InMap(q)' \subseteq InMap(q)
    BY <2>3 DEF InMap
  <2> QED BY <1>3, <2>4 DEF ActiveSize, InMap
<1>6. CASE Dies(p)
  <2>1. active' = [active EXCEPT ![p] = [j \in Jobs |-> 0]]
    BY <1>6 DEF Dies, Die
  <2>2. \A i \in Jobs : active'[q][i] # 0 => active[q][i] # 0
    BY <1>1, <2>1 DEF MapsTyped
  <2>3. InMap(q)' \subseteq InMap(q)
    BY <2>2 DEF InMap
  <2> QED BY <1>3, <2>3 DEF ActiveSize, InMap
<1>7. ASSUME NEW j \in Jobs, ClaimNext(p, j) PROVE ActiveSize(q)' <= Concurrency
  <2>1. active' = [active EXCEPT ![p][j] = attempts[j] + 1] /\ HasSlot(p)
    BY <1>7 DEF ClaimNext
  <2>2. active \in [Owners -> [Jobs -> AttemptNumbers \cup {0}]]
    BY <1>1 DEF MapsTyped
  <2>3. CASE q # p
    <3>1. \A i \in Jobs : active'[q][i] = active[q][i]
      BY <2>1, <2>2, <2>3
    <3>2. InMap(q)' \subseteq InMap(q)
      BY <3>1 DEF InMap
    <3> QED BY <1>3, <3>2 DEF ActiveSize, InMap
  <2>4. CASE q = p
    <3>1. \A i \in Jobs : i # j => active'[q][i] = active[q][i]
      BY <2>1, <2>2
    <3>2. InMap(q)' \subseteq InMap(q) \cup {j}
      BY <3>1 DEF InMap
    <3>3. Cardinality(InMap(q)) < Concurrency
      BY <2>1, <2>4 DEF HasSlot, ActiveSize, InMap
    <3>4. /\ IsFiniteSet(InMap(q) \cup {j})
          /\ Cardinality(InMap(q) \cup {j}) <= Cardinality(InMap(q)) + 1
          /\ Cardinality(InMap(q) \cup {j}) \in Nat
      <4>1. IsFiniteSet(InMap(q) \cup {j})
        BY <1>1, FS_AddElement
      <4>2. Cardinality(InMap(q) \cup {j}) =
              IF j \in InMap(q) THEN Cardinality(InMap(q)) ELSE Cardinality(InMap(q)) + 1
        BY <1>1, FS_AddElement
      <4> QED BY <1>1, <4>1, <4>2, FS_CardinalityType
    <3>5. /\ Cardinality(InMap(q)') <= Cardinality(InMap(q) \cup {j})
          /\ Cardinality(InMap(q)') \in Nat
      BY <3>2, <3>4, FS_Subset, FS_CardinalityType
    <3>6. Cardinality(InMap(q)') <= Concurrency
      BY <1>1, <1>2, <3>3, <3>4, <3>5
    <3> QED BY <3>6 DEF ActiveSize, InMap
  <2> QED BY <2>3, <2>4
<1> QED BY <1>4, <1>5, <1>6, <1>7 DEF MovesOn

LEMMA AloneKept ==
  ASSUME Punctual = Owners, SchedulerInv, AloneInv, SchedulerNext PROVE AloneInv'
<1>1. RowsInv'
  BY RowsKept
<1>2. ASSUME NEW q \in Owners PROVE ProcessOK(q)'
  <2>1. ProcessOK(q)
    BY DEF AloneInv
  <2>2. ASSUME proc'[q] \in {"new", "exited"}, NEW i \in Jobs PROVE owner'[i] # q
    <3>1. CASE Exit(q)
      <4>1. owner'[i] = owner[i] /\ Alive(q) /\ ActiveSize(q) = 0
        BY <3>1 DEF Exit, Die, Alive, jobVars
      <4> QED BY <4>1, EmptyOwnsNothing
    <3>2. CASE proc'[q] = proc[q]
      <4>1. owner[i] # q /\ ~Alive(q) /\ q # None
        BY <2>1, <2>2, <3>2, OwnerAssumption DEF ProcessOK, Alive
      <4> QED BY <4>1, OwnersKept
    <3> QED BY <2>2, <3>1, <3>2, ProcessMovesOn
  <2>3. proc'[q] = "forcing" => pc'[q] = "idle"
    BY <2>1, ProcessMovesOn DEF ProcessOK
  <2>4. ActiveSize(q)' <= Concurrency
    <3>1. ActiveSize(q) <= Concurrency
      BY <2>1 DEF ProcessOK
    <3>2. CASE Rests
      BY <3>1, <3>2 DEF Rests, ActiveSize
    <3> QED BY <3>1, <3>2, SchedulerMoves, SlotsKept
  <2> QED BY <2>2, <2>3, <2>4 DEF ProcessOK
<1> QED BY <1>1, <1>2 DEF AloneInv

LEMMA AloneStarts == SchedulerInit => AloneInv
<1> SUFFICES ASSUME SchedulerInit PROVE AloneInv
  OBVIOUS
<1>1. /\ state = [j \in Jobs |-> "absent"] /\ owner = [j \in Jobs |-> None]
      /\ proc = [p \in Owners |-> "new"]
      /\ active = [p \in Owners |-> [j \in Jobs |-> 0]]
      /\ att = [j \in Jobs |-> [n \in AttemptNumbers |-> NoAttempt]]
  BY DEF SchedulerInit, Init
<1>2. \A p \in Owners : ActiveSize(p) = 0
  <2>1. \A p \in Owners : {j \in Jobs : active[p][j] # 0} = {}
    BY <1>1
  <2> QED BY <2>1, FS_EmptySet DEF ActiveSize
<1>3. \A p \in Owners : ProcessOK(p)
  BY <1>1, <1>2, OwnerAssumption, SchedulerAssumption DEF ProcessOK
<1>4. RowsInv
  BY <1>1 DEF RowsInv, HolderOK, WorkOK, NoAttempt, Unfinished, Held
<1> QED BY <1>3, <1>4 DEF AloneInv

\* Different attempts in progress are at different jobs, each in the map.
LEMMA WithinSlots ==
  ASSUME SchedulerInv, AloneInv, NEW p \in Owners
  PROVE  Cardinality(InPhase(p, Unfinished)) <= Concurrency
<1> DEFINE S == InPhase(p, Unfinished)
           f == [a \in S |-> a[1]]
<1>1. ASSUME NEW a \in S
      PROVE  /\ a[1] \in InMap(p) /\ a = <<a[1], active[p][a[1]]>>
  <2>1. PICK j \in Jobs, n \in AttemptNumbers : a = <<j, n>>
    BY DEF InPhase, Mine
  <2>2. att[j][n].by = p /\ att[j][n].phase \in Unfinished
    BY <2>1 DEF InPhase, Mine
  <2>3. active[p][j] = n /\ n # 0
    BY <2>2, NumberType DEF AloneInv, RowsInv, WorkOK
  <2> QED BY <2>1, <2>3 DEF InMap
<1>2. f \in Injection(S, InMap(p))
  <2> HIDE DEF S
  <2>1. \A a \in S : f[a] = a[1] /\ a[1] \in InMap(p)
    BY <1>1
  <2>2. f \in [S -> InMap(p)]
    BY <2>1
  <2>3. ASSUME NEW a \in S, NEW b \in S, f[a] = f[b] PROVE a = b
    <3>1. a[1] = b[1]
      BY <2>1, <2>3
    <3>2. a = <<a[1], active[p][a[1]]>> /\ b = <<b[1], active[p][b[1]]>>
      BY <1>1
    <3> QED BY <3>1, <3>2, Zenon
  <2>4. \A a, b \in S : f[a] = f[b] => a = b
    BY <2>3
  <2> HIDE DEF f
  <2>5. DOMAIN f = S
    BY <2>2
  <2>6. IsInjective(f)
    BY <2>4, <2>5 DEF IsInjective
  <2> QED BY <2>2, <2>6 DEF Injection
<1>3. IsFiniteSet(InMap(p)) /\ Cardinality(InMap(p)) \in Nat
  BY MapFinite, FS_CardinalityType
<1>4. IsFiniteSet(S) /\ Cardinality(S) <= Cardinality(InMap(p)) /\ Cardinality(S) \in Nat
  BY <1>2, <1>3, FS_Injection, FS_CardinalityType
<1>5. Cardinality(InMap(p)) <= Concurrency
  BY DEF AloneInv, ProcessOK, ActiveSize, InMap
<1> QED BY <1>3, <1>4, <1>5, SchedulerAssumption

LEMMA AloneInvariant ==
  ASSUME Punctual = Owners
  PROVE  SchedulerSpec => [](SchedulerInv /\ AloneInv)
<1>1. SchedulerInv /\ AloneInv /\ [SchedulerNext]_vars => AloneInv'
  <2>1. ASSUME SchedulerInv, AloneInv, SchedulerNext PROVE AloneInv'
    BY <2>1, AloneKept
  <2>2. ASSUME AloneInv, UNCHANGED vars PROVE AloneInv'
    BY <2>2 DEF vars, schedVars, jobVars, AloneInv, RowsInv, HolderOK, WorkOK, CallOK, ProcessOK,
       ActiveSize, Alive, LeaseAlive
  <2> QED BY <2>1, <2>2
<1> QED BY <1>1, AloneStarts, SchedulerInvariant, PTL DEF SchedulerSpec

\* If no heartbeat of a living process comes too late, then whatever crashes,
\* stops, times out or is cancelled, and however often jobs are retried and
\* recovered: a job is worked on by at most one process at a time, by the one
\* that owns its row, and on nothing but its newest attempt.
THEOREM OneWorkerPerJob ==
  ASSUME Punctual = Owners
  PROVE  SchedulerSpec => []HeldIsWorkedOn
<1>1. SchedulerInv /\ AloneInv => HeldIsWorkedOn
  <2> SUFFICES ASSUME SchedulerInv, AloneInv, NEW j \in Jobs
               PROVE  /\ state[j] \in Held /\ Alive(owner[j]) =>
                           /\ att[j][attempts[j]].by = owner[j]
                           /\ att[j][attempts[j]].phase \in Unfinished
                      /\ \A n \in AttemptNumbers :
                           att[j][n].phase \in Unfinished /\ Alive(att[j][n].by) => n = attempts[j]
    BY DEF HeldIsWorkedOn
  <2> QED BY DEF AloneInv, RowsInv, HolderOK, WorkOK, Held, Unfinished
<1> QED BY <1>1, AloneInvariant, PTL

\* Under the same assumption no process works on more jobs than it has slots:
\* what pump counts before it claims is what the process is working on.
THEOREM SlotsSuffice ==
  ASSUME Punctual = Owners
  PROVE  SchedulerSpec => []BoundedConcurrency
<1>1. SchedulerInv /\ AloneInv => BoundedConcurrency
  BY WithinSlots DEF BoundedConcurrency
<1> QED BY <1>1, AloneInvariant, PTL

\* And one that has exited owns no row: a graceful stop leaves nothing that
\* only the end of a lease could release.
THEOREM ExitedOwnsNothing ==
  ASSUME Punctual = Owners
  PROVE  SchedulerSpec => []CleanExit
<1>1. AloneInv => CleanExit
  BY DEF AloneInv, ProcessOK, CleanExit
<1> QED BY <1>1, AloneInvariant, PTL

-----------------------------------------------------------------------------
\* Whatever the schedulers do is done by the transactions of the queue, so all
\* that is proved of the queue holds of them.
THEOREM SchedulersUseTheQueue == SchedulerSpec => Spec
<1>1. SchedulerInit => Init
  BY DEF SchedulerInit
<1>2. SchedulerInv /\ [SchedulerNext]_vars => [Next]_jobVars
  BY SchedulerMoves DEF vars
<1> QED BY <1>1, <1>2, SchedulerInvariant, PTL DEF SchedulerSpec, Spec

\* In particular each job goes through the abstract lifecycle, whichever
\* processes take it up, lose it and take it up again.
THEOREM SchedulersKeepLifecycle == SchedulerSpec => LifecycleSpec
BY SchedulersUseTheQueue, ImplementsLifecycle
=============================================================================
