----------------------------- MODULE DurableJobs -----------------------------
(***************************************************************************)
(* The durable job queue: the table durable_jobs, its audit log            *)
(* durable_job_events, and the operations of JobsRepository                *)
(* (src/server/src/jobs/repository.ts, repository-transitions.ts).  Each   *)
(* operation is one immediate SQLite transaction, so one action; owners    *)
(* (scheduler incarnations) call them in any order and at any time.        *)
(*                                                                         *)
(* Time.  The program stores the instants lease_expires_at and             *)
(* next_attempt_at and compares them with "now".  Here leaseLeft and       *)
(* retryLeft hold what is left of each, and Tick makes them smaller: a     *)
(* lease is alive iff leaseLeft > 0 (lease_expires_at > now), a job is due *)
(* iff retryLeft = 0 (next_attempt_at <= now or NULL).                     *)
(*                                                                         *)
(* A job stands for one idempotency key, and a kind for everything else    *)
(* enqueue compares: kind, payload, retry class, target and attempts.      *)
(* Progress events and the error texts are left out.                       *)
(***************************************************************************)
EXTENDS Integers, Sequences, FiniteSets

CONSTANTS
  Jobs,          \* idempotency keys
  Kinds,         \* what may be enqueued under a key
  RetryClass,    \* [Kinds -> {"local", "external"}]
  MaxAttempts,   \* [Kinds -> positive numbers]
  Target,        \* [Kinds -> {"app", "runner"}]
  Owners,        \* scheduler incarnations, one UUID each
  None,          \* SQL NULL as a lease owner
  LeaseTicks,    \* leaseMilliseconds
  RetryDelay     \* the delay after the n-th attempt, see RetryPolicy

ASSUME JobsAssumption == IsFiniteSet(Jobs)

ASSUME PolicyAssumption ==
  /\ RetryClass \in [Kinds -> {"local", "external"}]
  /\ MaxAttempts \in [Kinds -> Nat \ {0}]
  /\ Target \in [Kinds -> {"app", "runner"}]

ASSUME OwnerAssumption == None \notin Owners

ASSUME TimeAssumption ==
  /\ LeaseTicks \in Nat \ {0}
  /\ \A k \in Kinds : \A n \in 1 .. MaxAttempts[k] : RetryDelay[n] \in Nat

Terminal == {"succeeded", "failed", "cancelled"}
Held     == {"leased", "running"}
States   == {"queued"} \cup Held \cup Terminal
Events   == States \cup {"retry_scheduled", "cancellation_requested"}

VARIABLES
  state,       \* "absent" until the row is inserted, then its state
  kind,        \* the enqueued kind
  rank,        \* position in ORDER BY created_at, rowid
  owner,       \* lease_owner
  leaseLeft,   \* lease_expires_at - now, not below 0; 0 when NULL
  retryLeft,   \* next_attempt_at - now, not below 0; 0 when NULL
  attempts,    \* attempt_count
  cancelReq,   \* cancellation_requested_at IS NOT NULL
  log          \* the job's events, in sequence order

jobVars == <<state, kind, rank, owner, leaseLeft, retryLeft, attempts, cancelReq, log>>

Init ==
  /\ state     = [j \in Jobs |-> "absent"]
  /\ kind      = [j \in Jobs |-> None]
  /\ rank      = [j \in Jobs |-> 0]
  /\ owner     = [j \in Jobs |-> None]
  /\ leaseLeft = [j \in Jobs |-> 0]
  /\ retryLeft = [j \in Jobs |-> 0]
  /\ attempts  = [j \in Jobs |-> 0]
  /\ cancelReq = [j \in Jobs |-> FALSE]
  /\ log       = [j \in Jobs |-> <<>>]

Enqueued      == {j \in Jobs : state[j] # "absent"}
LeaseAlive(j) == leaseLeft[j] > 0
Record(j, e)  == log' = [log EXCEPT ![j] = Append(@, e)]
Enter(j, s)   == state' = [state EXCEPT ![j] = s]

\* Mutant: the owner column is not cleared.
Release_KeepsOwner(j) == UNCHANGED owner /\ leaseLeft' = [leaseLeft EXCEPT ![j] = 0]

\* A row loses its owner and its lease whenever it leaves Held.
Release(j) ==
  /\ owner' = [owner EXCEPT ![j] = None]
  /\ leaseLeft' = [leaseLeft EXCEPT ![j] = 0]

-----------------------------------------------------------------------------
(***************************************************************************)
(* Operations.                                                             *)
(***************************************************************************)

\* enqueue: a key already in the table returns the existing row or raises
\* IdempotencyConflictError; either way nothing changes.
Enqueue(j, k) ==
  /\ state[j] = "absent"
  /\ Enter(j, "queued")
  /\ kind' = [kind EXCEPT ![j] = k]
  /\ rank' = [rank EXCEPT ![j] = Cardinality(Enqueued) + 1]
  /\ Record(j, "queued")
  /\ UNCHANGED <<owner, leaseLeft, retryLeft, attempts, cancelReq>>

Claimable(j) ==
  /\ state[j] = "queued"
  /\ Target[kind[j]] = "app"
  /\ retryLeft[j] = 0

Oldest(j) == \A i \in Jobs : Claimable(i) => rank[j] <= rank[i]

Claim(j, o) ==
  /\ Claimable(j) /\ Oldest(j)
  /\ Enter(j, "leased")
  /\ owner' = [owner EXCEPT ![j] = o]
  /\ leaseLeft' = [leaseLeft EXCEPT ![j] = LeaseTicks]
  /\ attempts' = [attempts EXCEPT ![j] = @ + 1]
  /\ Record(j, "leased")
  /\ UNCHANGED <<kind, rank, retryLeft, cancelReq>>

CanStart(j, o) == state[j] = "leased" /\ owner[j] = o /\ LeaseAlive(j)

Start(j, o) ==
  /\ CanStart(j, o)
  /\ Enter(j, "running")
  /\ Record(j, "running")
  /\ UNCHANGED <<kind, rank, owner, leaseLeft, retryLeft, attempts, cancelReq>>

CanHeartbeat(j, o) == state[j] \in Held /\ owner[j] = o /\ LeaseAlive(j)

Heartbeat(j, o) ==
  /\ CanHeartbeat(j, o)
  /\ leaseLeft' = [leaseLeft EXCEPT ![j] = LeaseTicks]
  /\ UNCHANGED <<state, kind, rank, owner, retryLeft, attempts, cancelReq, log>>

Cancelled(j) ==
  /\ Enter(j, "cancelled")
  /\ Release(j)
  /\ Record(j, "cancelled")
  /\ UNCHANGED <<kind, rank, retryLeft, attempts, cancelReq>>

CanFinish(j, o) == state[j] = "running" /\ owner[j] = o /\ LeaseAlive(j)

Succeeded(j) ==
  /\ Enter(j, "succeeded")
  /\ Release(j)
  /\ Record(j, "succeeded")
  /\ UNCHANGED <<kind, rank, retryLeft, attempts, cancelReq>>

\* Mutant: success does not look at the cancellation request.
Succeed_IgnoresRequest(j, o) == CanFinish(j, o) /\ Succeeded(j)

Succeed(j, o) ==
  /\ CanFinish(j, o)
  /\ IF cancelReq[j] THEN Cancelled(j) ELSE Succeeded(j)

\* Mutants: one attempt too many; the retry class is forgotten.
ShouldRetry_OneMore(j) == RetryClass[kind[j]] = "local" /\ attempts[j] <= MaxAttempts[kind[j]]
ShouldRetry_AnyClass(j) == attempts[j] < MaxAttempts[kind[j]]

ShouldRetry(j) == RetryClass[kind[j]] = "local" /\ attempts[j] < MaxAttempts[kind[j]]

\* Mutant: the retry is decided before the cancellation.
FailureState_RetryFirst(j) == IF ShouldRetry(j) THEN "queued"
                              ELSE IF cancelReq[j] THEN "cancelled" ELSE "failed"

\* resolveFailure, applied to every job of S in one transaction: a requested
\* cancellation comes before a retry, a retry before failure.
FailureState(j) == IF cancelReq[j] THEN "cancelled"
                   ELSE IF ShouldRetry(j) THEN "queued" ELSE "failed"
FailureEvent(j) == IF FailureState(j) = "queued" THEN "retry_scheduled" ELSE FailureState(j)

ResolveFailures(S) ==
  /\ state'     = [j \in Jobs |-> IF j \in S THEN FailureState(j) ELSE state[j]]
  /\ owner'     = [j \in Jobs |-> IF j \in S THEN None ELSE owner[j]]
  /\ leaseLeft' = [j \in Jobs |-> IF j \in S THEN 0 ELSE leaseLeft[j]]
  /\ retryLeft' = [j \in Jobs |-> IF j \in S /\ FailureState(j) = "queued"
                                  THEN RetryDelay[attempts[j]] ELSE retryLeft[j]]
  /\ log'       = [j \in Jobs |-> IF j \in S THEN Append(log[j], FailureEvent(j)) ELSE log[j]]
  /\ UNCHANGED <<kind, rank, attempts, cancelReq>>

Fail(j, o) == CanFinish(j, o) /\ ResolveFailures({j})

\* Mutant: the event is written, the column is not.
RequestCancellation_EventOnly(j) ==
  Record(j, "cancellation_requested")
  /\ UNCHANGED <<state, kind, rank, owner, leaseLeft, retryLeft, attempts, cancelReq>>

RequestCancellation(j) ==
  /\ cancelReq' = [cancelReq EXCEPT ![j] = TRUE]
  /\ Record(j, "cancellation_requested")
  /\ UNCHANGED <<state, kind, rank, owner, leaseLeft, retryLeft, attempts>>

\* Mutants: requests are repeated; terminal jobs can be cancelled.
CanCancel_Again(j)  == state[j] \in States \ Terminal
CanCancel_Always(j) == state[j] \in States /\ ~cancelReq[j]

\* cancel: terminal jobs and repeated requests are left as they are.
CanCancel(j) == state[j] \in States \ Terminal /\ ~cancelReq[j]

Cancel(j) ==
  /\ CanCancel(j)
  /\ IF state[j] = "running" THEN RequestCancellation(j) ELSE Cancelled(j)

\* finishCancellation and interrupt look at the owner, not at the lease.
CanFinishCancellation(j, o) == state[j] = "running" /\ owner[j] = o

FinishCancellation(j, o) == CanFinishCancellation(j, o) /\ Cancelled(j)

CanInterrupt(j, o) == state[j] \in Held /\ owner[j] = o

Interrupt(j, o) == CanInterrupt(j, o) /\ ResolveFailures({j})

\* Mutants: recovery forgets leased rows, forgets rows with a cancellation
\* request, or does not wait for the lease.
Stale_RunningOnly   == {j \in Jobs : state[j] = "running" /\ ~LeaseAlive(j)}
Stale_NotRequested  == {j \in Jobs : state[j] \in Held /\ ~LeaseAlive(j) /\ ~cancelReq[j]}
Stale_AliveToo      == {j \in Jobs : state[j] \in Held}

Stale == {j \in Jobs : state[j] \in Held /\ ~LeaseAlive(j)}

\* recoverExpired: every stale row, whoever owns it, in one transaction.
RecoverExpired == Stale # {} /\ ResolveFailures(Stale)

Minus1(f) == [j \in Jobs |-> IF f[j] > 0 THEN f[j] - 1 ELSE 0]

Tick ==
  /\ leaseLeft' = Minus1(leaseLeft)
  /\ retryLeft' = Minus1(retryLeft)
  /\ UNCHANGED <<state, kind, rank, owner, attempts, cancelReq, log>>

OwnerStep(j, o) ==
  \/ Claim(j, o) \/ Start(j, o) \/ Heartbeat(j, o)
  \/ Succeed(j, o) \/ Fail(j, o) \/ FinishCancellation(j, o) \/ Interrupt(j, o)

Next ==
  \/ \E j \in Jobs, k \in Kinds : Enqueue(j, k)
  \/ \E j \in Jobs, o \in Owners : OwnerStep(j, o)
  \/ \E j \in Jobs : Cancel(j)
  \/ RecoverExpired
  \/ Tick

Spec == Init /\ [][Next]_jobVars

-----------------------------------------------------------------------------
(***************************************************************************)
(* Correctness.                                                            *)
(***************************************************************************)

\* Every column keeps its type.
TypeOK ==
  /\ state \in [Jobs -> States \cup {"absent"}]
  /\ kind \in [Jobs -> Kinds \cup {None}]
  /\ rank \in [Jobs -> Nat]
  /\ owner \in [Jobs -> Owners \cup {None}]
  /\ leaseLeft \in [Jobs -> Nat]
  /\ retryLeft \in [Jobs -> Nat]
  /\ attempts \in [Jobs -> Nat]
  /\ cancelReq \in [Jobs -> BOOLEAN]
  /\ log \in [Jobs -> Seq(Events)]

\* How often a job of this kind may be claimed: an external effect is never
\* tried twice, whatever maxAttempts says.
Budget(k) == IF RetryClass[k] = "external" THEN 1 ELSE MaxAttempts[k]

\* No sequence of failures, interruptions and expired leases claims a job
\* more often than its policy allows, and a job waiting in the queue always has
\* an attempt left (shouldRetry and the attempt_count + 1 of claim agree).
WithinBudget ==
  \A j \in Enqueued : /\ attempts[j] <= Budget(kind[j])
                      /\ state[j] = "queued" => attempts[j] < Budget(kind[j])

\* A requested cancellation wins: from the request on the job is running or
\* cancelled, never succeeded, failed or queued again, whichever of
\* success, failure, timeout, interruption and lease expiry comes next.
CancellationWins == \A j \in Jobs : cancelReq[j] => state[j] \in {"running", "cancelled"}

\* A row is owned exactly while it is leased or running, and only then has
\* it a lease; so nobody can heartbeat, start or finish a released row.
OwnedIffHeld ==
  \A j \in Jobs : /\ owner[j] # None <=> state[j] \in Held
                  /\ LeaseAlive(j) => state[j] \in Held

\* What an event of the audit log may be followed by.
Successors(e) ==
  CASE e \in {"queued", "retry_scheduled"} -> {"leased", "cancelled"}
    [] e = "leased"  -> {"running", "cancelled", "retry_scheduled", "failed"}
    [] e = "running" -> {"cancellation_requested", "retry_scheduled"} \cup Terminal
    [] e = "cancellation_requested" -> {"cancelled"}
    [] e \in Terminal -> {}

\* The state an event leaves its job in.
StateAfter(e) == CASE e = "retry_scheduled" -> "queued"
                   [] e = "cancellation_requested" -> "running"
                   [] OTHER -> e

\* The audit log tells the truth about the row: it starts with "queued",
\* follows the lifecycle event by event, so that at most one event is terminal
\* and nothing comes after it, and its last event gives the row's state.
AuditTrail ==
  \A j \in Jobs :
    /\ state[j] = "absent" <=> log[j] = <<>>
    /\ log[j] # <<>> => /\ log[j][1] = "queued"
                        /\ StateAfter(log[j][Len(log[j])]) = state[j]
    /\ \A i \in 1 .. Len(log[j]) - 1 : log[j][i + 1] \in Successors(log[j][i])

\* The log alone gives the attempt count and tells whether a cancellation was
\* requested: no update of the row goes without its event, nor twice with it.
LogCountsRow ==
  \A j \in Jobs :
    LET At(e) == {i \in 1 .. Len(log[j]) : log[j][i] = e}
    IN /\ attempts[j] = Cardinality(At("leased"))
       /\ cancelReq[j] <=> At("cancellation_requested") # {}

\* A key is bound once: after the first enqueue its kind, its place in
\* the queue, and, once terminal, its whole row and log never change.
BoundOnce ==
  [][\A j \in Enqueued :
       /\ kind'[j] = kind[j] /\ rank'[j] = rank[j]
       /\ state[j] \in Terminal =>
            /\ state'[j] = state[j] /\ attempts'[j] = attempts[j]
            /\ cancelReq'[j] = cancelReq[j] /\ log'[j] = log[j]]_jobVars

\* The queue implements JobLifecycle: leases, owners and the log are hidden,
\* leased and running are both "working".
PhaseOf(s) == CASE s = "absent" -> "none" [] s = "queued" -> "waiting"
                [] s \in Held -> "working" [] OTHER -> s

Lifecycle == INSTANCE JobLifecycle WITH
  phase  <- [j \in Jobs |-> PhaseOf(state[j])],
  runs   <- attempts,
  budget <- [j \in Jobs |-> IF state[j] = "absent" THEN 0 ELSE Budget(kind[j])],
  asked  <- cancelReq

\* Every step of the queue is a step of JobLifecycle or a stutter.
LifecycleSpec == Lifecycle!Spec
=============================================================================
