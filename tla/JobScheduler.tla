---------------------------- MODULE JobScheduler ----------------------------
(***************************************************************************)
(* Scheduler processes working on one durable queue                        *)
(* (src/server/src/jobs/scheduler.ts with scheduler-handler.ts,            *)
(* scheduler-terminalizer.ts and the abort controllers of runtime.ts).     *)
(*                                                                         *)
(* An owner of DurableJobs is one process incarnation: it starts once,     *)
(* and stops gracefully, crashes, or runs on.  JavaScript runs a callback  *)
(* to completion, but every repository call is a transaction of its own,   *)
(* so other processes and crashes come between the transactions of one     *)
(* callback; pc[p] is "idle" only outside such a callback.                 *)
(*                                                                         *)
(* The n-th claim of job j creates the attempt <<j, n>> (an ActiveJob).    *)
(* Its handler is a promise of unknown code: it may settle at any moment,  *)
(* or never, whether or not it has been aborted.  Timers fire late by any  *)
(* amount, except that the heartbeats of a process in Punctual come before *)
(* its lease ends.                                                         *)
(***************************************************************************)
EXTENDS DurableJobs

CONSTANTS
  Concurrency,  \* slots of one scheduler
  Handled,      \* kinds with a registered definition
  Punctual,     \* processes whose heartbeats are never late
  MayCrash,     \* processes that may die between two steps
  MayStop       \* processes that may be told to stop

ASSUME SchedulerAssumption ==
  /\ Concurrency \in Nat \ {0}
  /\ Handled \subseteq Kinds
  /\ Punctual \cup MayCrash \cup MayStop \subseteq Owners

AttemptNumbers == UNION {1 .. MaxAttempts[k] : k \in Kinds}

VARIABLES
  proc,     \* "new", "up", "stopping", "forcing", "exited" or "crashed"
  pc,       \* "idle", or where pump() stands
  armed,    \* is the idle timer set?
  woken,    \* is a "done.then(wake)" microtask pending?
  active,   \* the Map from job id to ActiveJob: an attempt number, or 0
  aborter,  \* the runtime's Map from job id to AbortController, likewise
  att       \* every attempt ever made

schedVars == <<proc, pc, armed, woken, active, aborter, att>>
vars == <<jobVars, schedVars>>

NoAttempt == [phase |-> "none", by |-> None, abort |-> "no", result |-> "none", ran |-> FALSE]

SchedulerInit ==
  /\ Init
  /\ proc    = [p \in Owners |-> "new"]
  /\ pc      = [p \in Owners |-> "idle"]
  /\ armed   = [p \in Owners |-> FALSE]
  /\ woken   = [p \in Owners |-> FALSE]
  /\ active  = [p \in Owners |-> [j \in Jobs |-> 0]]
  /\ aborter = [p \in Owners |-> [j \in Jobs |-> 0]]
  /\ att     = [j \in Jobs |-> [n \in AttemptNumbers |-> NoAttempt]]

Alive(p)      == proc[p] \in {"up", "stopping", "forcing"}
Serving(p)    == proc[p] \in {"up", "stopping"} /\ pc[p] = "idle"
Unfinished    == {"claimed", "unhandled", "running", "settled"}
Mine(p)       == {a \in Jobs \X AttemptNumbers : att[a[1]][a[2]].by = p}
InPhase(p, S) == {a \in Mine(p) : att[a[1]][a[2]].phase \in S}
ActiveSize(p) == Cardinality({j \in Jobs : active[p][j] # 0})

\* Mutant: one job more than there are slots.
HasSlot_OneMore(p) == ActiveSize(p) <= Concurrency

HasSlot(p) == ActiveSize(p) < Concurrency

\* Timers fire once the microtasks of earlier callbacks have run.
Quiet(p) == Serving(p) /\ ~woken[p] /\ InPhase(p, {"settled"}) = {}

\* A repository call that may find its guard false and then raises a
\* JobTransitionError, which its caller swallows.
Attempted(guard, op) == IF guard THEN op ELSE UNCHANGED jobVars

Reconcile == Attempted(Stale # {}, RecoverExpired)

-----------------------------------------------------------------------------
(***************************************************************************)
(* Starting, pumping and launching.                                        *)
(***************************************************************************)

StartUp(p) ==
  /\ proc[p] = "new"
  /\ proc' = [proc EXCEPT ![p] = "up"]
  /\ Reconcile
  /\ pc' = [pc EXCEPT ![p] = "wake"]
  /\ UNCHANGED <<armed, woken, active, aborter, att>>

\* wake and the first transaction of pump: from start, from a finished
\* attempt or from the idle timer.
Pump(p) ==
  /\ proc[p] = "up"
  /\ \/ pc[p] = "wake"
     \/ pc[p] = "idle" /\ woken[p]
     \/ Quiet(p) /\ armed[p]
  /\ armed' = [armed EXCEPT ![p] = FALSE]
  /\ woken' = [woken EXCEPT ![p] = FALSE]
  /\ Reconcile
  /\ pc' = [pc EXCEPT ![p] = "claim"]
  /\ UNCHANGED <<proc, active, aborter, att>>

Claiming(p) ==
  /\ Alive(p) /\ pc[p] = "claim"
  /\ InPhase(p, {"claimed", "unhandled"}) = {}

ClaimNext(p, j) ==
  /\ Claiming(p)
  /\ HasSlot(p)
  /\ Claim(j, p)
  /\ att' = [att EXCEPT ![j][attempts[j] + 1] = [NoAttempt EXCEPT !.phase = "claimed", !.by = p]]
  /\ active' = [active EXCEPT ![p][j] = attempts[j] + 1]
  /\ UNCHANGED <<proc, pc, armed, woken, aborter>>

\* Nothing to claim: only now is the idle timer set.  With every slot taken
\* the loop just ends, and the next finished attempt wakes the scheduler.
PumpEnds(p) ==
  /\ Claiming(p)
  /\ \/ ~HasSlot(p) /\ UNCHANGED armed
     \/ /\ HasSlot(p)
        /\ \A j \in Jobs : ~Claimable(j)
        /\ armed' = [armed EXCEPT ![p] = TRUE]
  /\ pc' = [pc EXCEPT ![p] = "idle"]
  /\ UNCHANGED <<jobVars, proc, woken, active, aborter, att>>

\* Mutants: a finished attempt does not wake the scheduler, or stays in
\* the map.
Finalize_NoWake(p, j, n, a) ==
  /\ att' = [att EXCEPT ![j][n] = [a EXCEPT !.phase = "done"]]
  /\ active' = [active EXCEPT ![p][j] = 0]
  /\ aborter' = [aborter EXCEPT ![p][j] = IF @ = n THEN 0 ELSE @]
  /\ UNCHANGED woken
Finalize_KeepsEntry(p, j, n, a) ==
  /\ att' = [att EXCEPT ![j][n] = [a EXCEPT !.phase = "done"]]
  /\ aborter' = [aborter EXCEPT ![p][j] = IF @ = n THEN 0 ELSE @]
  /\ woken' = [woken EXCEPT ![p] = proc[p] = "up"]
  /\ UNCHANGED active

\* finalize deletes the map entry of the job, whichever attempt it holds,
\* but takes back the abort controller only if it is its own.  A stopped
\* scheduler is not woken.
Finalize(p, j, n, a) ==
  /\ att' = [att EXCEPT ![j][n] = [a EXCEPT !.phase = "done"]]
  /\ active' = [active EXCEPT ![p][j] = 0]
  /\ aborter' = [aborter EXCEPT ![p][j] = IF @ = n THEN 0 ELSE @]
  /\ woken' = [woken EXCEPT ![p] = proc[p] = "up"]

\* execute, up to its first await.
Launch(p, j, n) ==
  LET a == att[j][n] IN
  /\ Alive(p) /\ a.by = p /\ a.phase = "claimed"
  /\ Attempted(CanStart(j, p), Start(j, p))
  /\ IF ~CanStart(j, p)
     THEN Finalize(p, j, n, a)
     ELSE IF kind[j] \in Handled
     THEN /\ att' = [att EXCEPT ![j][n] = [a EXCEPT !.phase = "running", !.ran = TRUE]]
          /\ aborter' = [aborter EXCEPT ![p][j] = n]
          /\ UNCHANGED <<active, woken>>
     ELSE /\ att' = [att EXCEPT ![j][n] = [a EXCEPT !.phase = "unhandled"]]
          /\ UNCHANGED <<active, woken, aborter>>
  /\ UNCHANGED <<proc, pc, armed>>

FailUnhandled(p, j, n) ==
  LET a == att[j][n] IN
  /\ Alive(p) /\ a.by = p /\ a.phase = "unhandled"
  /\ Attempted(CanFinish(j, p), Fail(j, p))
  /\ Finalize(p, j, n, a)
  /\ UNCHANGED <<proc, pc, armed>>

-----------------------------------------------------------------------------
(***************************************************************************)
(* A running attempt: its handler, its timers, and its end.                *)
(***************************************************************************)

\* AbortController.abort: the first reason stays; every reason but
\* "shutdown" settles runHandler's promise at once.
Abort(a, reason) ==
  IF a.abort # "no" THEN a
  ELSE IF a.phase = "running" /\ reason # "shutdown"
  THEN [a EXCEPT !.abort = reason, !.phase = "settled", !.result = "aborted"]
  ELSE [a EXCEPT !.abort = reason]

\* The handler's promise settles.  A handler that outlives its attempt settles
\* unheard: runHandler's promise is resolved only once.
HandlerEnds(p, j, n, r) ==
  LET a == att[j][n] IN
  /\ Serving(p) /\ a.by = p /\ a.phase = "running"
  /\ att' = [att EXCEPT ![j][n] = [a EXCEPT !.phase = "settled", !.result = r]]
  /\ UNCHANGED <<jobVars, proc, pc, armed, woken, active, aborter>>

HeartbeatFires(p, j, n) ==
  LET a == att[j][n] IN
  /\ Quiet(p) /\ a.by = p /\ a.phase = "running"
  /\ Attempted(CanHeartbeat(j, p), Heartbeat(j, p))
  /\ att' = IF CanHeartbeat(j, p) THEN att ELSE [att EXCEPT ![j][n] = Abort(a, "lost_lease")]
  /\ UNCHANGED <<proc, pc, armed, woken, active, aborter>>

TimeoutFires(p, j, n) ==
  LET a == att[j][n] IN
  /\ Quiet(p) /\ a.by = p /\ a.phase = "running"
  /\ att' = [att EXCEPT ![j][n] = Abort(a, "timeout")]
  /\ UNCHANGED <<jobVars, proc, pc, armed, woken, active, aborter>>

\* Mutants: a rejected promise counts as success; a timeout asks for nothing.
Verdict_FailedSucceeds(a) ==
  CASE a.result # "none" /\ a.abort = "timeout" -> "fail"
    [] a.result # "none" /\ a.abort = "cancel" -> "cancel"
    [] a.result \in {"succeeded", "failed"} /\ a.abort = "no" -> "succeed"
    [] OTHER -> "nothing"
Verdict_NoTimeout(a) ==
  CASE a.result = "failed" -> "fail"
    [] a.result # "failed" /\ a.abort = "cancel" -> "cancel"
    [] a.result = "succeeded" /\ a.abort = "no" -> "succeed"
    [] OTHER -> "nothing"

\* What execute asks the repository for when runHandler's promise settles.
Verdict(a) ==
  CASE a.result = "failed" \/ (a.result # "none" /\ a.abort = "timeout") -> "fail"
    [] a.result # "failed" /\ a.abort = "cancel" -> "cancel"
    [] a.result = "succeeded" /\ a.abort = "no" -> "succeed"
    [] a.result = "succeeded" /\ a.abort = "shutdown" -> "interrupt"
    [] OTHER -> "nothing"

\* repository.terminal: a guard that fails changes nothing.
Terminalize(j, p, verdict) ==
  CASE verdict = "succeed"   -> Attempted(CanFinish(j, p), Succeed(j, p))
    [] verdict = "fail"      -> Attempted(CanFinish(j, p), Fail(j, p))
    [] verdict = "cancel"    -> Attempted(CanFinishCancellation(j, p), FinishCancellation(j, p))
    [] verdict = "interrupt" -> Attempted(CanInterrupt(j, p), Interrupt(j, p))
    [] OTHER                 -> UNCHANGED jobVars

\* execute after its await, up to its end; a finalized attempt returns at once.
Conclude(p, j, n) ==
  LET a == att[j][n] IN
  /\ Serving(p) /\ a.by = p /\ a.phase = "settled"
  /\ Terminalize(j, p, Verdict(a))
  /\ Finalize(p, j, n, a)
  /\ UNCHANGED <<proc, pc, armed>>

-----------------------------------------------------------------------------
(***************************************************************************)
(* Cancellation, shutdown, crashes, time.                                  *)
(***************************************************************************)

\* JobRuntime.cancel on process p: the row first, then the abort
\* controller p itself may have for the job.
CancelAt(p, j) ==
  LET n == aborter[p][j] IN
  /\ Serving(p) /\ j \in Enqueued
  /\ Attempted(CanCancel(j), Cancel(j))
  /\ att' = IF n = 0 THEN att ELSE [att EXCEPT ![j][n] = Abort(@, "cancel")]
  /\ UNCHANGED <<proc, pc, armed, woken, active, aborter>>

Stop(p) ==
  /\ p \in MayStop
  /\ proc[p] = "up" /\ Quiet(p)
  /\ proc' = [proc EXCEPT ![p] = "stopping"]
  /\ armed' = [armed EXCEPT ![p] = FALSE]
  /\ UNCHANGED <<jobVars, pc, woken, active, aborter, att>>

\* Every attempt is done, or the grace period is over.
GraceEnds(p) ==
  /\ proc[p] = "stopping" /\ Serving(p)
  /\ proc' = [proc EXCEPT ![p] = "forcing"]
  /\ UNCHANGED <<jobVars, pc, armed, woken, active, aborter, att>>

ForceInterrupt(p, j) ==
  LET n == active[p][j] IN
  /\ proc[p] = "forcing" /\ n # 0
  /\ Attempted(CanInterrupt(j, p) /\ kind[j] \in Handled, Interrupt(j, p))
  /\ Finalize(p, j, n, Abort(att[j][n], "shutdown"))
  /\ UNCHANGED <<proc, pc, armed>>

\* The memory of a process is gone with it, and its handlers end.
Die(p, how) ==
  /\ proc' = [proc EXCEPT ![p] = how]
  /\ pc' = [pc EXCEPT ![p] = "idle"]
  /\ armed' = [armed EXCEPT ![p] = FALSE]
  /\ woken' = [woken EXCEPT ![p] = FALSE]
  /\ active' = [active EXCEPT ![p] = [j \in Jobs |-> 0]]
  /\ aborter' = [aborter EXCEPT ![p] = [j \in Jobs |-> 0]]
  /\ att' = [j \in Jobs |-> [n \in AttemptNumbers |->
               IF att[j][n].by # p THEN att[j][n]
               ELSE [att[j][n] EXCEPT !.phase = "done"]]]
  /\ UNCHANGED jobVars

\* Mutant: the process does not interrupt what is left before it exits.
Exit_AtOnce(p) == proc[p] = "forcing" /\ Die(p, "exited")

Exit(p) == proc[p] = "forcing" /\ ActiveSize(p) = 0 /\ Die(p, "exited")

Crash(p) == p \in MayCrash /\ Alive(p) /\ Die(p, "crashed")

Submit(j, k) == Enqueue(j, k) /\ UNCHANGED schedVars

\* No lease of a living punctual process runs out.
TimePasses ==
  /\ \A j \in Jobs : owner[j] \in Punctual /\ Alive(owner[j]) => leaseLeft[j] > 1
  /\ Tick
  /\ UNCHANGED schedVars

AttemptStep(p, j, n) ==
  \/ Launch(p, j, n) \/ FailUnhandled(p, j, n)
  \/ \E r \in {"succeeded", "failed"} : HandlerEnds(p, j, n, r)
  \/ HeartbeatFires(p, j, n) \/ TimeoutFires(p, j, n) \/ Conclude(p, j, n)

ProcessStep(p) ==
  \/ StartUp(p) \/ Pump(p) \/ PumpEnds(p)
  \/ \E j \in Jobs : ClaimNext(p, j) \/ CancelAt(p, j) \/ ForceInterrupt(p, j)
  \/ Stop(p) \/ GraceEnds(p) \/ Exit(p) \/ Crash(p)

SchedulerNext ==
  \/ \E j \in Jobs, k \in Kinds : Submit(j, k)
  \/ \E p \in Owners : ProcessStep(p)
  \/ \E p \in Owners, j \in Jobs, n \in AttemptNumbers : AttemptStep(p, j, n)
  \/ TimePasses

SchedulerSpec == SchedulerInit /\ [][SchedulerNext]_vars

-----------------------------------------------------------------------------
(***************************************************************************)
(* Correctness, with late timers and crashes.                              *)
(***************************************************************************)

SchedulerTypeOK ==
  /\ proc \in [Owners -> {"new", "up", "stopping", "forcing", "exited", "crashed"}]
  /\ pc \in [Owners -> {"idle", "wake", "claim"}]
  /\ armed \in [Owners -> BOOLEAN]
  /\ woken \in [Owners -> BOOLEAN]
  /\ active \in [Owners -> [Jobs -> AttemptNumbers \cup {0}]]
  /\ aborter \in [Owners -> [Jobs -> AttemptNumbers \cup {0}]]
  /\ att \in [Jobs -> [AttemptNumbers ->
       [phase: Unfinished \cup {"none", "done"},
        by: Owners \cup {None},
        abort: {"no", "timeout", "cancel", "shutdown", "lost_lease"},
        result: {"none", "succeeded", "failed", "aborted"},
        ran: BOOLEAN]]]

\* The handler of an external job starts at most once, over all processes,
\* crashes, recoveries and shutdowns.
ExternalOnce ==
  \A j \in Enqueued :
    RetryClass[kind[j]] = "external" =>
      Cardinality({n \in AttemptNumbers : att[j][n].ran}) <= 1

\* A job succeeds only if one of its handlers did, and never after that
\* attempt had been given up for a timeout, a cancellation or a lost lease.
SuccessEarned ==
  \A j \in Jobs :
    state[j] = "succeeded" =>
      \E n \in AttemptNumbers : att[j][n].result = "succeeded" /\ att[j][n].abort = "no"

\* A scheduler waiting for its event loop always has something that will
\* wake it: the idle timer, a pending wake, or an attempt still in progress.
NoLostWakeup ==
  \A p \in Owners :
    proc[p] = "up" /\ pc[p] = "idle" =>
      armed[p] \/ woken[p] \/ InPhase(p, {"running", "settled"}) # {}

\* While its lease is alive a running job leaves that state only in the
\* step in which its owner ends one of its own attempts at it: neither the
\* recovery of another process, nor its cancel request, nor a stale attempt of
\* another process ends it.
OnlyHolderEnds ==
  [][\A j \in Jobs :
       state[j] = "running" /\ LeaseAlive(j) /\ state'[j] # "running" =>
         \E n \in AttemptNumbers :
           /\ att[j][n].by = owner[j]
           /\ att[j][n].phase # "done" /\ att'[j][n].phase = "done"]_vars

-----------------------------------------------------------------------------
(***************************************************************************)
(* Correctness when heartbeats are in time.                                *)
(***************************************************************************)

\* No scheduler has more attempts in progress than slots.
BoundedConcurrency ==
  \A p \in Owners : Alive(p) => Cardinality(InPhase(p, Unfinished)) <= Concurrency

\* A job is in progress at most once: a held row belongs to its newest
\* attempt, which its living owner is still working on; so two processes never
\* work on a job at the same time.
HeldIsWorkedOn ==
  \A j \in Jobs :
    /\ state[j] \in Held /\ Alive(owner[j]) =>
         /\ att[j][attempts[j]].by = owner[j]
         /\ att[j][attempts[j]].phase \in Unfinished
    /\ \A n \in AttemptNumbers :
         att[j][n].phase \in Unfinished /\ Alive(att[j][n].by) => n = attempts[j]

\* A process that stopped gracefully leaves no row behind that only the
\* end of a lease could release.
CleanExit == \A p \in Owners : proc[p] = "exited" => \A j \in Jobs : owner[j] # p

-----------------------------------------------------------------------------
(***************************************************************************)
(* Liveness.  The event loop of a process that stays up runs every         *)
(* callback that is due, its timers fire, and time passes.  Nobody has to  *)
(* enqueue, cancel, stop or crash, and a handler need not ever settle.     *)
(***************************************************************************)

Callbacks(p) ==
  \/ StartUp(p) \/ Pump(p) \/ PumpEnds(p) \/ GraceEnds(p) \/ Exit(p)
  \/ \E j \in Jobs : ClaimNext(p, j) \/ ForceInterrupt(p, j)
  \/ \E j \in Jobs, n \in AttemptNumbers :
       Launch(p, j, n) \/ FailUnhandled(p, j, n) \/ Conclude(p, j, n)

Fairness ==
  /\ WF_vars(TimePasses)
  /\ \A p \in Owners :
       /\ WF_vars(Callbacks(p))
       /\ \A j \in Jobs, n \in AttemptNumbers :
            WF_vars(TimeoutFires(p, j, n)) /\ WF_vars(HeartbeatFires(p, j, n))

FairSpec == SchedulerSpec /\ Fairness

\* A job for the application ends, although handlers may hang and other
\* processes crash while they hold it, as long as one scheduler stays up.
EveryJobEnds ==
  \A j \in Jobs :
    state[j] = "queued" /\ Target[kind[j]] = "app" ~> state[j] \in Terminal

\* A requested cancellation is carried out, whichever process received
\* it and whatever becomes of the process that runs the job.
CancellationEnds == \A j \in Jobs : cancelReq[j] ~> state[j] = "cancelled"

\* A graceful stop comes to its end even with handlers that hang.
StopEnds == \A p \in Owners : proc[p] = "stopping" ~> proc[p] \in {"exited", "crashed"}
=============================================================================
