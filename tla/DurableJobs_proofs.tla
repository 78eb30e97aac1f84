------------------------- MODULE DurableJobs_proofs -------------------------
(***************************************************************************)
(* Proofs that the durable job queue keeps its promises for any number of  *)
(* jobs, kinds, owners and attempts.                                       *)
(***************************************************************************)
EXTENDS DurableJobs, FiniteSetTheorems, TLAPS

-----------------------------------------------------------------------------
(***************************************************************************)
(* Type correctness.                                                       *)
(***************************************************************************)

\* A kind's delays are natural numbers as far as its attempts go, and the
\* transactions that use one know the kind.  So typing needs a first invariant
\* relating kind, attempts and state.
Known(j) ==
  /\ state[j] = "absent" => attempts[j] = 0 /\ ~cancelReq[j] /\ log[j] = <<>>
  /\ state[j] # "absent" => kind[j] \in Kinds
  /\ state[j] \in Held => attempts[j] > 0

TypeInv == TypeOK /\ \A j \in Jobs : Known(j)

LEMMA RankType == TypeOK => Cardinality(Enqueued) + 1 \in Nat
<1>1. IsFiniteSet(Enqueued)
  BY JobsAssumption, FS_Subset DEF Enqueued
<1>2. QED
  BY <1>1, FS_CardinalityType

LEMMA TypeInit == Init => TypeInv
BY DEF Init, TypeInv, TypeOK, Known, States, Held, Terminal

\* Every transaction of an owner, and every cancellation.
LEMMA TypeStep == TypeInv /\ [Next]_jobVars => TypeInv'
<1> SUFFICES ASSUME TypeInv, [Next]_jobVars PROVE TypeInv'
  OBVIOUS
<1> USE DEF TypeInv, TypeOK, Known, States, Held, Terminal, Events
<1>1. ASSUME NEW j \in Jobs, NEW k \in Kinds, Enqueue(j, k) PROVE TypeInv'
  <2>1. Cardinality(Enqueued) + 1 \in Nat
    BY RankType
  <2>2. QED
    BY <1>1, <2>1 DEF Enqueue, Enter, Record
<1>2. ASSUME NEW j \in Jobs, NEW o \in Owners, Claim(j, o) PROVE TypeInv'
  BY <1>2, TimeAssumption DEF Claim, Claimable, Enter, Record
<1>3. ASSUME NEW j \in Jobs, NEW o \in Owners, Start(j, o) PROVE TypeInv'
  BY <1>3 DEF Start, CanStart, Enter, Record
<1>4. ASSUME NEW j \in Jobs, NEW o \in Owners, Heartbeat(j, o) PROVE TypeInv'
  BY <1>4, TimeAssumption DEF Heartbeat, CanHeartbeat
<1>5. ASSUME NEW j \in Jobs, state[j] # "absent", Cancelled(j) PROVE TypeInv'
  BY <1>5 DEF Cancelled, Enter, Record, Release
<1>6. ASSUME NEW j \in Jobs, state[j] # "absent", Succeeded(j) PROVE TypeInv'
  BY <1>6 DEF Succeeded, Enter, Record, Release
<1>7. ASSUME NEW S \in SUBSET Jobs, \A j \in S : state[j] \in Held, ResolveFailures(S)
      PROVE TypeInv'
  <2>1. ASSUME NEW j \in S, FailureState(j) = "queued"
        PROVE RetryDelay[attempts[j]] \in Nat
    BY <1>7, <2>1, TimeAssumption, PolicyAssumption DEF FailureState, ShouldRetry
  <2>2. \A j \in S : FailureState(j) \in {"cancelled", "queued", "failed"}
                     /\ FailureEvent(j) \in Events
    BY DEF FailureState, FailureEvent
  <2>3. state' \in [Jobs -> States \cup {"absent"}]
    BY <1>7, <2>2 DEF ResolveFailures
  <2>4. /\ owner' \in [Jobs -> Owners \cup {None}]
        /\ leaseLeft' \in [Jobs -> Nat]
    BY <1>7 DEF ResolveFailures
  <2>5. retryLeft' \in [Jobs -> Nat]
    BY <1>7, <2>1 DEF ResolveFailures
  <2>6. log' \in [Jobs -> Seq(Events)]
    <3>1. \A j \in S : Append(log[j], FailureEvent(j)) \in Seq(Events)
      BY <2>2
    <3>2. QED
      BY <1>7, <3>1 DEF ResolveFailures
  <2>7. ASSUME NEW j \in Jobs PROVE Known(j)'
    BY <1>7, <2>2 DEF ResolveFailures
  <2>8. QED
    BY <1>7, <2>3, <2>4, <2>5, <2>6, <2>7 DEF ResolveFailures
<1>8. ASSUME NEW j \in Jobs, state[j] = "running", RequestCancellation(j) PROVE TypeInv'
  BY <1>8 DEF RequestCancellation, Record
<1>9. ASSUME Tick PROVE TypeInv'
  BY <1>9 DEF Tick, Minus1
<1>10. ASSUME UNCHANGED jobVars PROVE TypeInv'
  BY <1>10 DEF jobVars
<1>11. ASSUME NEW j \in Jobs, NEW o \in Owners, OwnerStep(j, o) PROVE TypeInv'
  <2>1. CASE Succeed(j, o)
    BY <2>1, <1>5, <1>6 DEF Succeed, CanFinish
  <2>2. CASE Fail(j, o)
    BY <2>2, <1>7 DEF Fail, CanFinish
  <2>3. CASE FinishCancellation(j, o)
    BY <2>3, <1>5 DEF FinishCancellation, CanFinishCancellation
  <2>4. CASE Interrupt(j, o)
    BY <2>4, <1>7 DEF Interrupt, CanInterrupt
  <2>5. QED
    BY <1>2, <1>3, <1>4, <1>11, <2>1, <2>2, <2>3, <2>4 DEF OwnerStep
<1>12. ASSUME NEW j \in Jobs, Cancel(j) PROVE TypeInv'
  BY <1>12, <1>5, <1>8 DEF Cancel, CanCancel
<1>13. ASSUME RecoverExpired PROVE TypeInv'
  BY <1>13, <1>7 DEF RecoverExpired, Stale
<1>14. QED
  BY <1>1, <1>9, <1>10, <1>11, <1>12, <1>13 DEF Next

\* Every column of durable_jobs keeps its type, for every set of jobs,
\* kinds and owners.
THEOREM TypeCorrect == Spec => []TypeOK
<1>1. TypeInv => TypeOK
  BY DEF TypeInv
<1>2. QED
  BY TypeInit, TypeStep, <1>1, PTL DEF Spec

-----------------------------------------------------------------------------
(***************************************************************************)
(* Attempts, cancellation and ownership, row by row.  None of the three    *)
(* is inductive alone: that a retry keeps to the budget needs the retry    *)
(* class, that a cancellation wins needs that only running rows carry a    *)
(* request, and that in turn needs who owns a row.                         *)
(***************************************************************************)

RowOK(j) ==
  /\ state[j] # "absent" => attempts[j] <= Budget(kind[j])
  /\ state[j] = "queued" => attempts[j] < Budget(kind[j])
  /\ cancelReq[j] => state[j] \in {"running", "cancelled"}
  /\ owner[j] # None <=> state[j] \in Held
  /\ LeaseAlive(j) => state[j] \in Held

SafetyInv == TypeInv /\ \A j \in Jobs : RowOK(j)

LEMMA SafetyInit == Init => SafetyInv
BY TypeInit DEF Init, SafetyInv, RowOK, Held, LeaseAlive

LEMMA BudgetType == ASSUME NEW k \in Kinds
                    PROVE  Budget(k) \in Nat \ {0} /\ Budget(k) <= MaxAttempts[k]
BY PolicyAssumption DEF Budget

LEMMA SafetyStep == SafetyInv /\ [Next]_jobVars => SafetyInv'
<1> SUFFICES ASSUME SafetyInv, [Next]_jobVars, NEW i \in Jobs PROVE RowOK(i)'
  BY TypeStep DEF SafetyInv
<1> USE DEF SafetyInv, TypeInv, TypeOK, Known, RowOK, Held, LeaseAlive, States, Terminal
<1>1. ASSUME NEW j \in Jobs, NEW k \in Kinds, Enqueue(j, k) PROVE RowOK(i)'
  BY <1>1, BudgetType DEF Enqueue, Enter
<1>2. ASSUME NEW j \in Jobs, NEW o \in Owners, Claim(j, o) PROVE RowOK(i)'
  BY <1>2, BudgetType, OwnerAssumption DEF Claim, Claimable, Enter
<1>3. ASSUME NEW j \in Jobs, NEW o \in Owners, Start(j, o) PROVE RowOK(i)'
  BY <1>3 DEF Start, CanStart, Enter
<1>4. ASSUME NEW j \in Jobs, NEW o \in Owners, Heartbeat(j, o) PROVE RowOK(i)'
  BY <1>4 DEF Heartbeat, CanHeartbeat
<1>5. ASSUME NEW j \in Jobs, state[j] # "absent", Cancelled(j) PROVE RowOK(i)'
  BY <1>5 DEF Cancelled, Enter, Release
<1>6. ASSUME NEW j \in Jobs, state[j] # "absent", ~cancelReq[j], Succeeded(j) PROVE RowOK(i)'
  BY <1>6 DEF Succeeded, Enter, Release
<1>7. ASSUME NEW S \in SUBSET Jobs, \A j \in S : state[j] \in Held, ResolveFailures(S)
      PROVE RowOK(i)'
  <2>1. ASSUME i \in S, FailureState(i) = "queued"
        PROVE attempts[i] < Budget(kind[i]) /\ ~cancelReq[i]
    BY <1>7, <2>1, PolicyAssumption DEF FailureState, ShouldRetry, Budget
  <2>2. i \in S => /\ FailureState(i) \in {"cancelled", "queued", "failed"}
                   /\ cancelReq[i] => FailureState(i) = "cancelled"
    BY DEF FailureState
  <2>3. CASE i \in S
    BY <1>7, <2>1, <2>2, <2>3 DEF ResolveFailures
  <2>4. CASE i \notin S
    BY <1>7, <2>4 DEF ResolveFailures
  <2>5. QED
    BY <2>3, <2>4
<1>8. ASSUME NEW j \in Jobs, state[j] = "running", RequestCancellation(j) PROVE RowOK(i)'
  BY <1>8 DEF RequestCancellation
<1>9. ASSUME Tick PROVE RowOK(i)'
  BY <1>9 DEF Tick, Minus1
<1>10. ASSUME UNCHANGED jobVars PROVE RowOK(i)'
  BY <1>10 DEF jobVars
<1>11. ASSUME NEW j \in Jobs, NEW o \in Owners, OwnerStep(j, o) PROVE RowOK(i)'
  <2>1. CASE Succeed(j, o)
    BY <2>1, <1>5, <1>6 DEF Succeed, CanFinish
  <2>2. CASE Fail(j, o)
    BY <2>2, <1>7 DEF Fail, CanFinish
  <2>3. CASE FinishCancellation(j, o)
    BY <2>3, <1>5 DEF FinishCancellation, CanFinishCancellation
  <2>4. CASE Interrupt(j, o)
    BY <2>4, <1>7 DEF Interrupt, CanInterrupt
  <2>5. QED
    BY <1>2, <1>3, <1>4, <1>11, <2>1, <2>2, <2>3, <2>4 DEF OwnerStep
<1>12. ASSUME NEW j \in Jobs, Cancel(j) PROVE RowOK(i)'
  BY <1>12, <1>5, <1>8 DEF Cancel, CanCancel
<1>13. ASSUME RecoverExpired PROVE RowOK(i)'
  BY <1>13, <1>7 DEF RecoverExpired, Stale
<1>14. QED
  BY <1>1, <1>9, <1>10, <1>11, <1>12, <1>13 DEF Next

LEMMA SafetyInvariant == Spec => []SafetyInv
BY SafetyInit, SafetyStep, PTL DEF Spec

\* No job is claimed more often than its retry class and maxAttempts allow;
\* an external one at most once.
THEOREM AttemptsBounded == Spec => []WithinBudget
<1>1. SafetyInv => WithinBudget
  BY DEF SafetyInv, RowOK, WithinBudget, Enqueued
<1>2. QED
  BY SafetyInvariant, <1>1, PTL

\* Once a running job has been asked to stop it can only become cancelled.
THEOREM CancellationIsFinal == Spec => []CancellationWins
<1>1. SafetyInv => CancellationWins
  BY DEF SafetyInv, RowOK, CancellationWins
<1>2. QED
  BY SafetyInvariant, <1>1, PTL

\* Rows have an owner, and a lease, only while leased or running.
THEOREM OwnershipMatchesState == Spec => []OwnedIffHeld
<1>1. SafetyInv => OwnedIffHeld
  BY DEF SafetyInv, RowOK, OwnedIffHeld
<1>2. QED
  BY SafetyInvariant, <1>1, PTL

-----------------------------------------------------------------------------
(***************************************************************************)
(* The queue implements JobLifecycle.  Every transaction moves each job by *)
(* one of the abstract steps or leaves it alone.                           *)
(***************************************************************************)

Phase(i) == PhaseOf(state[i])
Limit(i) == IF state[i] = "absent" THEN 0 ELSE Budget(kind[i])

\* The abstract step of one job, stated on the concrete columns.
LEMMA JobMoves ==
  ASSUME NEW i \in Jobs,
         \/ /\ Phase(i) = "none" /\ Phase(i)' = "waiting"
            /\ attempts'[i] = 0 /\ Limit(i)' \in Nat \ {0} /\ cancelReq'[i] = FALSE
         \/ /\ Phase(i) = "waiting" /\ Phase(i)' = "working"
            /\ attempts[i] < Limit(i) /\ attempts'[i] = attempts[i] + 1
            /\ Limit(i)' = Limit(i) /\ cancelReq[i] = FALSE /\ cancelReq'[i] = FALSE
         \/ /\ Phase(i) = "working" /\ Phase(i)' = "waiting"
            /\ attempts[i] < Limit(i) /\ attempts'[i] = attempts[i]
            /\ Limit(i)' = Limit(i) /\ cancelReq[i] = FALSE /\ cancelReq'[i] = FALSE
         \/ /\ \/ Phase(i) = "working" /\ Phase(i)' \in Terminal
               \/ Phase(i) = "waiting" /\ Phase(i)' = "cancelled"
            /\ cancelReq[i] => Phase(i)' = "cancelled"
            /\ attempts'[i] = attempts[i] /\ Limit(i)' = Limit(i)
            /\ cancelReq'[i] = cancelReq[i]
         \/ /\ Phase(i) = "working" /\ Phase(i)' = "working"
            /\ cancelReq[i] = FALSE /\ cancelReq'[i] = TRUE
            /\ attempts'[i] = attempts[i] /\ Limit(i)' = Limit(i)
         \/ /\ Phase(i)' = Phase(i) /\ attempts'[i] = attempts[i]
            /\ Limit(i)' = Limit(i) /\ cancelReq'[i] = cancelReq[i]
  PROVE  Lifecycle!JobStep(i) \/ Lifecycle!Same(i)
BY DEF Phase, Limit, Terminal, Lifecycle!JobStep, Lifecycle!Same, Lifecycle!Submit,
       Lifecycle!TakeUp, Lifecycle!PutBack, Lifecycle!End, Lifecycle!AskToStop,
       Lifecycle!Move, Lifecycle!Outcomes

LEMMA LifecycleStep == SafetyInv /\ [Next]_jobVars => [Lifecycle!Next]_(Lifecycle!vars)
<1> SUFFICES ASSUME SafetyInv, Next PROVE Lifecycle!Next
  BY DEF jobVars, Lifecycle!vars
<1> SUFFICES ASSUME NEW i \in Jobs PROVE Lifecycle!JobStep(i) \/ Lifecycle!Same(i)
  BY DEF Lifecycle!Next
<1> USE DEF SafetyInv, TypeInv, TypeOK, Known, RowOK, Held, LeaseAlive, States, Terminal,
            Phase, Limit, PhaseOf
<1>1. ASSUME NEW j \in Jobs, NEW k \in Kinds, Enqueue(j, k)
      PROVE Lifecycle!JobStep(i) \/ Lifecycle!Same(i)
  BY <1>1, BudgetType, JobMoves DEF Enqueue, Enter
<1>2. ASSUME NEW j \in Jobs, NEW o \in Owners, Claim(j, o)
      PROVE Lifecycle!JobStep(i) \/ Lifecycle!Same(i)
  <2>1. CASE i = j
    <3>1. /\ Phase(i) = "waiting" /\ Phase(i)' = "working"
          /\ attempts[i] < Limit(i) /\ attempts'[i] = attempts[i] + 1
          /\ Limit(i)' = Limit(i) /\ cancelReq[i] = FALSE /\ cancelReq'[i] = FALSE
      BY <1>2, <2>1 DEF Claim, Claimable, Enter
    <3>2. QED
      BY <3>1, JobMoves
  <2>2. CASE i # j
    BY <1>2, <2>2, JobMoves DEF Claim, Enter
  <2>3. QED
    BY <2>1, <2>2
<1>3. ASSUME NEW j \in Jobs, NEW o \in Owners, Start(j, o) \/ Heartbeat(j, o)
      PROVE Lifecycle!JobStep(i) \/ Lifecycle!Same(i)
  BY <1>3, JobMoves DEF Start, CanStart, Heartbeat, CanHeartbeat, Enter
<1>4. ASSUME NEW j \in Jobs, state[j] \in States \ Terminal, Cancelled(j)
      PROVE Lifecycle!JobStep(i) \/ Lifecycle!Same(i)
  BY <1>4, JobMoves DEF Cancelled, Enter
<1>5. ASSUME NEW j \in Jobs, state[j] = "running", ~cancelReq[j], Succeeded(j)
      PROVE Lifecycle!JobStep(i) \/ Lifecycle!Same(i)
  BY <1>5, JobMoves DEF Succeeded, Enter
<1>6. ASSUME NEW S \in SUBSET Jobs, \A j \in S : state[j] \in Held, ResolveFailures(S)
      PROVE Lifecycle!JobStep(i) \/ Lifecycle!Same(i)
  <2>1. ASSUME FailureState(i) = "queued", i \in S
        PROVE attempts[i] < Budget(kind[i]) /\ ~cancelReq[i]
    BY <1>6, <2>1, PolicyAssumption DEF FailureState, ShouldRetry, Budget
  <2>2. /\ FailureState(i) \in {"cancelled", "queued", "failed"}
        /\ cancelReq[i] => FailureState(i) = "cancelled"
    BY DEF FailureState
  <2>3. CASE i \in S
    BY <1>6, <2>1, <2>2, <2>3, JobMoves DEF ResolveFailures
  <2>4. CASE i \notin S
    BY <1>6, <2>4, JobMoves DEF ResolveFailures
  <2>5. QED
    BY <2>3, <2>4
<1>7. ASSUME NEW j \in Jobs, state[j] = "running", ~cancelReq[j], RequestCancellation(j)
      PROVE Lifecycle!JobStep(i) \/ Lifecycle!Same(i)
  BY <1>7, JobMoves DEF RequestCancellation
<1>8. ASSUME Tick
      PROVE Lifecycle!JobStep(i) \/ Lifecycle!Same(i)
  BY <1>8, JobMoves DEF Tick
<1>9. ASSUME NEW j \in Jobs, NEW o \in Owners, OwnerStep(j, o)
      PROVE Lifecycle!JobStep(i) \/ Lifecycle!Same(i)
  <2>1. CASE Succeed(j, o)
    BY <2>1, <1>4, <1>5 DEF Succeed, CanFinish
  <2>2. CASE Fail(j, o)
    BY <2>2, <1>6 DEF Fail, CanFinish
  <2>3. CASE FinishCancellation(j, o)
    BY <2>3, <1>4 DEF FinishCancellation, CanFinishCancellation
  <2>4. CASE Interrupt(j, o)
    BY <2>4, <1>6 DEF Interrupt, CanInterrupt
  <2>5. QED
    BY <1>2, <1>3, <1>9, <2>1, <2>2, <2>3, <2>4 DEF OwnerStep
<1>10. ASSUME NEW j \in Jobs, Cancel(j)
       PROVE Lifecycle!JobStep(i) \/ Lifecycle!Same(i)
  BY <1>10, <1>4, <1>7 DEF Cancel, CanCancel
<1>11. ASSUME RecoverExpired
       PROVE Lifecycle!JobStep(i) \/ Lifecycle!Same(i)
  BY <1>11, <1>6 DEF RecoverExpired, Stale
<1>12. QED
  BY <1>1, <1>8, <1>9, <1>10, <1>11 DEF Next

LEMMA LifecycleInit == Init => Lifecycle!Init
<1> SUFFICES ASSUME Init PROVE Lifecycle!Init
  OBVIOUS
<1>1. \A j \in Jobs : PhaseOf(state[j]) = "none" /\ state[j] = "absent"
  BY DEF Init, PhaseOf, Held
<1>2. QED
  BY <1>1 DEF Init, Lifecycle!Init

\* The queue, with its leases, owners, clocks and recovery, is an
\* implementation of JobLifecycle.
THEOREM ImplementsLifecycle == Spec => LifecycleSpec
BY LifecycleInit, LifecycleStep, SafetyInvariant, PTL DEF Spec, LifecycleSpec, Lifecycle!Spec

-----------------------------------------------------------------------------
(***************************************************************************)
(* The audit log.  Its last event says which event may come next; that     *)
(* it is the cancellation request exactly for running rows carrying one is *)
(* what makes the succession inductive.                                    *)
(***************************************************************************)

LastEvent(j) == log[j][Len(log[j])]

TrailOK(j) ==
  /\ state[j] = "absent" <=> log[j] = <<>>
  /\ log[j] # <<>> => /\ log[j][1] = "queued"
                      /\ StateAfter(LastEvent(j)) = state[j]
                      /\ LastEvent(j) = "cancellation_requested"
                           <=> state[j] = "running" /\ cancelReq[j]
  /\ \A n \in 1 .. Len(log[j]) - 1 : log[j][n + 1] \in Successors(log[j][n])

TrailInv == SafetyInv /\ \A j \in Jobs : TrailOK(j)

\* One more event that may follow the last one keeps the trail.
LEMMA TrailGrows ==
  ASSUME NEW j \in Jobs, TypeOK, TrailOK(j), NEW e \in Events,
         log'[j] = Append(log[j], e), log[j] # <<>>, e \in Successors(LastEvent(j)),
         state'[j] = StateAfter(e), state'[j] # "absent",
         e = "cancellation_requested" <=> state'[j] = "running" /\ cancelReq'[j]
  PROVE  TrailOK(j)'
<1> DEFINE l == log[j]
<1>1. /\ l \in Seq(Events)
      /\ Len(l) \in Nat \ {0}
      /\ log'[j] \in Seq(Events)
      /\ Len(log'[j]) = Len(l) + 1
      /\ log'[j][Len(l) + 1] = e
      /\ \A n \in 1 .. Len(l) : log'[j][n] = l[n]
  BY DEF TypeOK
<1>2. ASSUME NEW n \in 1 .. Len(log'[j]) - 1
      PROVE  log'[j][n + 1] \in Successors(log'[j][n])
  <2>1. CASE n = Len(l)
    BY <1>1, <2>1 DEF LastEvent
  <2>2. CASE n \in 1 .. Len(l) - 1
    BY <1>1, <2>2 DEF TrailOK
  <2>3. QED
    BY <1>1, <2>1, <2>2
<1>3. log'[j] # <<>> /\ log'[j][1] = "queued" /\ LastEvent(j)' = e
  BY <1>1 DEF TrailOK, LastEvent
<1>4. QED
  BY <1>2, <1>3 DEF TrailOK

LEMMA TrailStays ==
  ASSUME NEW j \in Jobs, TrailOK(j),
         log'[j] = log[j], state'[j] = state[j], cancelReq'[j] = cancelReq[j]
  PROVE  TrailOK(j)'
BY DEF TrailOK, LastEvent

LEMMA TrailStep == TrailInv /\ [Next]_jobVars => TrailInv'
<1> SUFFICES ASSUME TrailInv, [Next]_jobVars, NEW i \in Jobs PROVE TrailOK(i)'
  BY SafetyStep DEF TrailInv
<1>0. SafetyInv /\ TypeInv /\ TypeOK /\ Known(i) /\ RowOK(i) /\ TrailOK(i)
  BY DEF TrailInv, SafetyInv, TypeInv
<1>a. i \in Enqueued => log[i] # <<>> /\ StateAfter(LastEvent(i)) = state[i]
                        /\ LastEvent(i) \in Events
                        /\ (LastEvent(i) = "cancellation_requested"
                              <=> state[i] = "running" /\ cancelReq[i])
  <2>1. ASSUME log[i] # <<>> PROVE Len(log[i]) \in 1 .. Len(log[i])
    BY <1>0, <2>1 DEF TypeOK
  <2>2. QED
    BY <1>0, <2>1 DEF Enqueued, TrailOK, LastEvent, TypeOK
<1> USE DEF Held, States, Terminal, Events
\* What may follow, state by state.
<1>b. /\ state[i] = "queued" => Successors(LastEvent(i)) = {"leased", "cancelled"}
      /\ state[i] = "leased" => Successors(LastEvent(i)) =
                                  {"running", "cancelled", "retry_scheduled", "failed"}
      /\ state[i] = "running" /\ ~cancelReq[i] =>
           Successors(LastEvent(i)) =
             {"cancellation_requested", "retry_scheduled", "succeeded", "failed", "cancelled"}
      /\ state[i] = "running" /\ cancelReq[i] => Successors(LastEvent(i)) = {"cancelled"}
  BY <1>a DEF Enqueued, StateAfter, Successors
<1>1. ASSUME NEW j \in Jobs, NEW k \in Kinds, Enqueue(j, k) PROVE TrailOK(i)'
  <2>1. CASE i = j
    <3>1. log[i] = <<>> /\ log'[i] = Append(<<>>, "queued") /\ state'[i] = "queued"
          /\ cancelReq'[i] = cancelReq[i]
      BY <1>1, <1>0, <2>1 DEF Enqueue, Enter, Record, TrailOK, TypeOK
    <3>2. log'[i] # <<>> /\ Len(log'[i]) = 1 /\ log'[i][1] = "queued"
      BY <3>1
    <3>3. QED
      BY <3>1, <3>2 DEF TrailOK, LastEvent, StateAfter
  <2>2. CASE i # j
    BY <1>1, <1>0, <2>2, TrailStays DEF Enqueue, Enter, Record, TypeOK
  <2>3. QED
    BY <2>1, <2>2
<1>2. ASSUME NEW j \in Jobs, NEW o \in Owners, Claim(j, o) PROVE TrailOK(i)'
  <2>1. CASE i = j
    BY <1>2, <1>0, <1>a, <1>b, <2>1, TrailGrows
       DEF Claim, Claimable, Enter, Record, TypeOK, Enqueued, StateAfter, RowOK
  <2>2. CASE i # j
    BY <1>2, <1>0, <2>2, TrailStays DEF Claim, Enter, Record, TypeOK
  <2>3. QED
    BY <2>1, <2>2
<1>3. ASSUME NEW j \in Jobs, NEW o \in Owners, Start(j, o) PROVE TrailOK(i)'
  <2>1. CASE i = j
    BY <1>3, <1>0, <1>a, <1>b, <2>1, TrailGrows
       DEF Start, CanStart, Enter, Record, TypeOK, Enqueued, StateAfter, RowOK
  <2>2. CASE i # j
    BY <1>3, <1>0, <2>2, TrailStays DEF Start, Enter, Record, TypeOK
  <2>3. QED
    BY <2>1, <2>2
<1>4. ASSUME NEW j \in Jobs, NEW o \in Owners, Heartbeat(j, o) PROVE TrailOK(i)'
  BY <1>4, <1>0, TrailStays DEF Heartbeat
<1>5. ASSUME NEW j \in Jobs, state[j] \in States \ Terminal, Cancelled(j) PROVE TrailOK(i)'
  <2>1. CASE i = j
    BY <1>5, <1>0, <1>a, <1>b, <2>1, TrailGrows
       DEF Cancelled, Enter, Record, TypeOK, Enqueued, StateAfter
  <2>2. CASE i # j
    BY <1>5, <1>0, <2>2, TrailStays DEF Cancelled, Enter, Record, TypeOK
  <2>3. QED
    BY <2>1, <2>2
<1>6. ASSUME NEW j \in Jobs, state[j] = "running", ~cancelReq[j], Succeeded(j) PROVE TrailOK(i)'
  <2>1. CASE i = j
    BY <1>6, <1>0, <1>a, <1>b, <2>1, TrailGrows
       DEF Succeeded, Enter, Record, TypeOK, Enqueued, StateAfter
  <2>2. CASE i # j
    BY <1>6, <1>0, <2>2, TrailStays DEF Succeeded, Enter, Record, TypeOK
  <2>3. QED
    BY <2>1, <2>2
<1>7. ASSUME NEW S \in SUBSET Jobs, \A j \in S : state[j] \in Held, ResolveFailures(S)
      PROVE TrailOK(i)'
  <2>1. CASE i \in S
    <3>1. /\ state'[i] = FailureState(i) /\ cancelReq'[i] = cancelReq[i]
          /\ log'[i] = Append(log[i], FailureEvent(i))
      BY <1>7, <2>1 DEF ResolveFailures
    <3>2. state[i] \in Held
      BY <1>7, <2>1
    <3>3. CASE cancelReq[i]
      <4>1. FailureState(i) = "cancelled" /\ FailureEvent(i) = "cancelled"
        BY <3>3 DEF FailureState, FailureEvent
      <4>2. state[i] = "running"
        BY <3>2, <3>3, <1>0 DEF RowOK
      <4>3. QED
        BY <3>1, <3>3, <4>1, <4>2, <1>0, <1>a, <1>b, TrailGrows DEF Enqueued, StateAfter
    <3>4. CASE ~cancelReq[i]
      <4>1. \/ FailureState(i) = "queued" /\ FailureEvent(i) = "retry_scheduled"
            \/ FailureState(i) = "failed" /\ FailureEvent(i) = "failed"
        BY <3>4 DEF FailureState, FailureEvent
      <4>2. QED
        BY <3>1, <3>2, <3>4, <4>1, <1>0, <1>a, <1>b, TrailGrows DEF Enqueued, StateAfter
    <3>5. QED
      BY <3>3, <3>4
  <2>2. CASE i \notin S
    BY <1>7, <1>0, <2>2, TrailStays DEF ResolveFailures
  <2>3. QED
    BY <2>1, <2>2
<1>8. ASSUME NEW j \in Jobs, state[j] = "running", ~cancelReq[j], RequestCancellation(j)
      PROVE TrailOK(i)'
  <2>1. CASE i = j
    BY <1>8, <1>0, <1>a, <1>b, <2>1, TrailGrows
       DEF RequestCancellation, Record, TypeOK, Enqueued, StateAfter
  <2>2. CASE i # j
    BY <1>8, <1>0, <2>2, TrailStays DEF RequestCancellation, Record, TypeOK
  <2>3. QED
    BY <2>1, <2>2
<1>9. ASSUME Tick \/ UNCHANGED jobVars PROVE TrailOK(i)'
  BY <1>9, <1>0, TrailStays DEF Tick, jobVars
<1>10. ASSUME NEW j \in Jobs, NEW o \in Owners, OwnerStep(j, o) PROVE TrailOK(i)'
  <2>1. CASE Succeed(j, o)
    BY <2>1, <1>5, <1>6 DEF Succeed, CanFinish
  <2>2. CASE Fail(j, o)
    BY <2>2, <1>7 DEF Fail, CanFinish
  <2>3. CASE FinishCancellation(j, o)
    BY <2>3, <1>5 DEF FinishCancellation, CanFinishCancellation
  <2>4. CASE Interrupt(j, o)
    BY <2>4, <1>7 DEF Interrupt, CanInterrupt
  <2>5. QED
    BY <1>2, <1>3, <1>4, <1>10, <2>1, <2>2, <2>3, <2>4 DEF OwnerStep
<1>11. ASSUME NEW j \in Jobs, Cancel(j) PROVE TrailOK(i)'
  BY <1>11, <1>5, <1>8 DEF Cancel, CanCancel
<1>12. ASSUME RecoverExpired PROVE TrailOK(i)'
  BY <1>12, <1>7 DEF RecoverExpired, Stale
<1>13. QED
  BY <1>1, <1>9, <1>10, <1>11, <1>12 DEF Next

LEMMA TrailInit == Init => TrailInv
BY SafetyInit DEF Init, TrailInv, TrailOK

\* The audit log of every job follows the lifecycle, ends at most once,
\* and its last event is the truth about the row.
THEOREM AuditTrailTrue == Spec => []AuditTrail
<1>1. TrailInv => AuditTrail
  BY DEF TrailInv, TrailOK, AuditTrail, LastEvent
<1>2. QED
  BY TrailInit, TrailStep, <1>1, PTL DEF Spec

\* What no step of the queue does to a row.
Bound(j) ==
  /\ kind'[j] = kind[j] /\ rank'[j] = rank[j]
  /\ state[j] \in Terminal =>
       /\ state'[j] = state[j] /\ attempts'[j] = attempts[j]
       /\ cancelReq'[j] = cancelReq[j] /\ log'[j] = log[j]

LEMMA BoundStep == ASSUME SafetyInv, Next, NEW j \in Enqueued PROVE Bound(j)
<1> USE DEF Bound
<1> USE DEF SafetyInv, TypeInv, TypeOK, Enqueued, Held, States, Terminal, Enter, Record
<1>1. CASE \E i \in Jobs, k \in Kinds : Enqueue(i, k)
  BY <1>1 DEF Enqueue
<1>2. CASE \E i \in Jobs, o \in Owners : OwnerStep(i, o)
  BY <1>2 DEF OwnerStep, Claim, Claimable, Start, CanStart, Heartbeat, CanHeartbeat,
              Succeed, Succeeded, Cancelled, Fail, CanFinish, FinishCancellation,
              CanFinishCancellation, Interrupt, CanInterrupt, ResolveFailures
<1>3. CASE \E i \in Jobs : Cancel(i)
  BY <1>3 DEF Cancel, CanCancel, Cancelled, RequestCancellation
<1>4. CASE RecoverExpired
  BY <1>4 DEF RecoverExpired, Stale, ResolveFailures
<1>5. CASE Tick
  BY <1>5 DEF Tick
<1>6. QED
  BY <1>1, <1>2, <1>3, <1>4, <1>5 DEF Next

LEMMA TerminalStays ==
  ASSUME SafetyInv, [Next]_jobVars, NEW j \in Jobs, state[j] \in Terminal
  PROVE  state'[j] = state[j]
<1>1. CASE Next
  BY <1>1, BoundStep DEF Bound, Enqueued, Terminal
<1>2. CASE UNCHANGED jobVars
  BY <1>2 DEF jobVars
<1>3. QED
  BY <1>1, <1>2

\* A key is bound to its kind and place once and for all, and a terminal row
\* and its log never change.
THEOREM KeysBoundOnce == Spec => BoundOnce
<1>1. SafetyInv /\ [Next]_jobVars => [\A j \in Enqueued : Bound(j)]_jobVars
  BY BoundStep
<1>2. QED
  BY SafetyInvariant, <1>1, PTL DEF Spec, BoundOnce, Bound

-----------------------------------------------------------------------------
(***************************************************************************)
(* The log and the columns.  Every transaction that writes an event counts *)
(* it in the row, and no other changes what is counted.                    *)
(***************************************************************************)

Occurs(j, e) == {n \in 1 .. Len(log[j]) : log[j][n] = e}

CountsOK(j) ==
  /\ attempts[j] = Cardinality(Occurs(j, "leased"))
  /\ cancelReq[j] <=> Occurs(j, "cancellation_requested") # {}

CountsInv == TypeInv /\ \A j \in Jobs : CountsOK(j)

\* What a transaction does to a job whose event it writes.
Counted(j, e) ==
  /\ log'[j] = Append(log[j], e)
  /\ attempts'[j] = IF e = "leased" THEN attempts[j] + 1 ELSE attempts[j]
  /\ cancelReq'[j] = (cancelReq[j] \/ e = "cancellation_requested")

Uncounted(j) == log'[j] = log[j] /\ attempts'[j] = attempts[j] /\ cancelReq'[j] = cancelReq[j]

LEMMA CountsGrow ==
  ASSUME NEW j \in Jobs, TypeOK, CountsOK(j), NEW e \in Events, Counted(j, e)
  PROVE  CountsOK(j)'
<1> DEFINE l == log[j]
           m == Len(l) + 1
<1>1. /\ l \in Seq(Events) /\ Len(l) \in Nat
      /\ Len(log'[j]) = m /\ log'[j][m] = e
      /\ \A n \in 1 .. Len(l) : log'[j][n] = l[n]
  BY DEF TypeOK, Counted
<1>2. ASSUME NEW f PROVE Occurs(j, f)' = IF f = e THEN Occurs(j, f) \cup {m} ELSE Occurs(j, f)
  BY <1>1 DEF Occurs
<1>3. ASSUME NEW f
      PROVE  IsFiniteSet(Occurs(j, f)) /\ m \notin Occurs(j, f)
  <2>1. IsFiniteSet(1 .. Len(l))
    BY <1>1, FS_Interval
  <2>2. QED
    BY <1>1, <2>1, FS_Subset DEF Occurs
<1>4. attempts'[j] = Cardinality(Occurs(j, "leased")')
  <2>1. CASE e = "leased"
    <3> DEFINE claims == Occurs(j, "leased")
    <3>1. IsFiniteSet(claims) /\ m \notin claims
      BY <1>3
    <3>2. Cardinality(claims \cup {m}) = Cardinality(claims) + 1
      BY <3>1, FS_AddElement
    <3>3. Occurs(j, "leased")' = claims \cup {m}
      BY <1>2, <2>1
    <3>4. attempts[j] = Cardinality(claims) /\ attempts'[j] = attempts[j] + 1
      BY <2>1 DEF CountsOK, Counted
    <3>5. QED
      BY <3>2, <3>3, <3>4
  <2>2. CASE e # "leased"
    BY <1>2, <2>2 DEF CountsOK, Counted
  <2>3. QED
    BY <2>1, <2>2
<1>5. cancelReq'[j] <=> Occurs(j, "cancellation_requested")' # {}
  BY <1>2 DEF CountsOK, Counted
<1>6. QED
  BY <1>4, <1>5 DEF CountsOK

LEMMA CountsStay == ASSUME NEW j \in Jobs, CountsOK(j), Uncounted(j) PROVE CountsOK(j)'
BY DEF CountsOK, Occurs, Uncounted

LEMMA CountsStep == CountsInv /\ [Next]_jobVars => CountsInv'
<1> SUFFICES ASSUME CountsInv, [Next]_jobVars, NEW i \in Jobs
             PROVE  Uncounted(i) \/ \E e \in Events : Counted(i, e)
  BY TypeStep, CountsGrow, CountsStay DEF CountsInv, TypeInv
<1> DEFINE Goal == Uncounted(i) \/ \E e \in Events : Counted(i, e)
<1> USE DEF CountsInv, TypeInv, TypeOK, Counted, Uncounted, Events, States, Held, Terminal
<1>1. ASSUME NEW j \in Jobs, NEW k \in Kinds, Enqueue(j, k) PROVE Goal
  BY <1>1 DEF Enqueue, Record
<1>2. ASSUME NEW j \in Jobs, NEW o \in Owners, Claim(j, o) PROVE Goal
  BY <1>2 DEF Claim, Record
<1>3. ASSUME NEW j \in Jobs, NEW o \in Owners, Start(j, o) PROVE Goal
  BY <1>3 DEF Start, Record
<1>4. ASSUME NEW j \in Jobs, NEW o \in Owners, Heartbeat(j, o) PROVE Goal
  BY <1>4 DEF Heartbeat
<1>5. ASSUME NEW j \in Jobs, Cancelled(j) PROVE Goal
  BY <1>5 DEF Cancelled, Record
<1>6. ASSUME NEW j \in Jobs, Succeeded(j) PROVE Goal
  BY <1>6 DEF Succeeded, Record
<1>7. ASSUME NEW S \in SUBSET Jobs, ResolveFailures(S) PROVE Goal
  <2>1. FailureEvent(i) \in {"cancelled", "retry_scheduled", "failed"}
    BY DEF FailureEvent, FailureState
  <2>2. QED
    BY <1>7, <2>1 DEF ResolveFailures
<1>8. ASSUME NEW j \in Jobs, RequestCancellation(j) PROVE Goal
  BY <1>8 DEF RequestCancellation, Record
<1>9. ASSUME Tick \/ UNCHANGED jobVars PROVE Goal
  BY <1>9 DEF Tick, jobVars
<1>10. ASSUME NEW j \in Jobs, NEW o \in Owners, OwnerStep(j, o) PROVE Goal
  BY <1>2, <1>3, <1>4, <1>5, <1>6, <1>7, <1>10
     DEF OwnerStep, Succeed, Fail, FinishCancellation, Interrupt
<1>11. ASSUME NEW j \in Jobs, Cancel(j) PROVE Goal
  BY <1>5, <1>8, <1>11 DEF Cancel
<1>12. ASSUME RecoverExpired PROVE Goal
  BY <1>7, <1>12 DEF RecoverExpired, Stale
<1>13. QED
  BY <1>1, <1>9, <1>10, <1>11, <1>12 DEF Next

\* The audit log alone tells how often a job was claimed and whether its
\* cancellation was requested.
THEOREM LogTellsRow == Spec => []LogCountsRow
<1>1. Init => CountsInv
  <2>1. ASSUME Init, NEW j \in Jobs, NEW e PROVE Occurs(j, e) = {}
    BY <2>1 DEF Init, Occurs
  <2>2. Cardinality({}) = 0
    BY FS_EmptySet
  <2>3. ASSUME Init, NEW j \in Jobs PROVE CountsOK(j)
    <3>1. attempts[j] = 0 /\ cancelReq[j] = FALSE
      BY <2>3 DEF Init
    <3>2. Occurs(j, "leased") = {} /\ Occurs(j, "cancellation_requested") = {}
      BY <2>1, <2>3
    <3>3. QED
      BY <2>2, <3>1, <3>2 DEF CountsOK
  <2>4. QED
    BY TypeInit, <2>3 DEF CountsInv
<1>2. CountsInv => LogCountsRow
  BY DEF CountsInv, CountsOK, Occurs, LogCountsRow
<1>3. QED
  BY <1>1, <1>2, CountsStep, PTL DEF Spec
=============================================================================
