-------------------------- MODULE Generation_proofs --------------------------
(***************************************************************************)
(* Proofs that consent is used once and for what was shown, and that       *)
(* drafts come from paid, successful runs, for any number of previews,     *)
(* confirmations, tasks, series, versions and capabilities.                *)
(***************************************************************************)
EXTENDS Generation, FiniteSetTheorems, TLAPS

-----------------------------------------------------------------------------
(***************************************************************************)
(* Type correctness.  Revisions are numbered by counting, so typing needs  *)
(* that there are finitely many; and whoever writes one has a series.      *)
(***************************************************************************)

Busy == Stages \ {"idle", "over"}

TypeInv ==
  /\ TypeOK
  /\ IsFiniteSet(revisions)
  /\ \A t \in Tasks : task[t].stage \in Busy => task[t].series \in Series

LEMMA NumberType ==
  ASSUME IsFiniteSet(revisions), NEW s \in Series
  PROVE  Cardinality(RevisionsOf(s)) \in Nat
<1>1. IsFiniteSet(RevisionsOf(s))
  BY FS_Subset DEF RevisionsOf
<1>2. QED
  BY <1>1, FS_CardinalityType

LEMMA TypeInit == Init => TypeInv
BY FS_EmptySet, GenerationAssumption
   DEF Init, TypeInv, TypeOK, Idle, Settings, Shown, Stages, Handlers, Busy

LEMMA StageType ==
  ASSUME TypeOK, NEW t \in Tasks, NEW stage \in Stages, Stage(t, stage)
  PROVE  /\ task' \in [Tasks -> Handlers]
         /\ \A u \in Tasks : /\ task'[u].series = task[u].series
                            /\ task'[u].stage = IF u = t THEN stage ELSE task[u].stage
BY DEF TypeOK, Stage, Handlers

LEMMA TypeStep == TypeInv /\ [Next]_vars => TypeInv'
<1> SUFFICES ASSUME TypeInv, [Next]_vars PROVE TypeInv'
  OBVIOUS
<1> USE GenerationAssumption DEF TypeInv, TypeOK
<1> /\ Busy = {"paid", "calling", "answered", "stored"}
    /\ "over" \in Stages /\ Busy \subseteq Stages
  BY DEF Stages, Busy
<1>1. ASSUME NEW p \in Previews, NEW v \in 1 .. MaxVersions, Preview(p, v) PROVE TypeInv'
  BY <1>1 DEF Preview, Shown
<1>2. ASSUME NEW c \in Confirmations, NEW p \in Previews, Confirm(c, p) PROVE TypeInv'
  BY <1>2 DEF Confirm, Consents
<1>3. ASSUME NEW p \in Previews, Expire(p) PROVE TypeInv'
  BY <1>3 DEF Expire
<1>4. ASSUME NEW t \in Tasks, NEW c \in Confirmations, NEW v \in 1 .. MaxVersions,
             NEW s \in Series, Start(t, c, v, s)
      PROVE TypeInv'
  <2>1. CASE Stage(t, "over") /\ UNCHANGED conf
    BY <1>4, <2>1, StageType DEF Start
  <2>2. CASE ~(Stage(t, "over") /\ UNCHANGED conf)
    <3> DEFINE started == [stage |-> "paid", conf |-> c, version |-> v, series |-> s,
                           found |-> series[s], sent |-> current, under |-> setting,
                           aborted |-> FALSE]
    <3>1. /\ CanConsume(c, v) /\ series[s] \in {"absent", "draft"}
          /\ conf' = [conf EXCEPT ![c].task = t]
          /\ task' = [task EXCEPT ![t] = started]
      BY <1>4, <2>2 DEF Start
    <3>2. started \in Handlers
      BY <3>1 DEF Handlers, Stages
    <3>3. /\ task' \in [Tasks -> Handlers]
          /\ \A u \in Tasks : task'[u].stage \in Busy => task'[u].series \in Series
      BY <3>1, <3>2
    <3>4. conf' \in [Confirmations -> Consents \cup {None}]
      BY <3>1 DEF CanConsume, Consents
    <3>5. QED
      BY <1>4, <3>3, <3>4 DEF Start
  <2>3. QED
    BY <2>1, <2>2
<1>5. ASSUME NEW t \in Tasks, Call(t) PROVE TypeInv'
  BY <1>5, StageType DEF Call
<1>6. ASSUME NEW t \in Tasks, Abort(t) PROVE TypeInv'
  <2> DEFINE aborted == [task[t] EXCEPT !.aborted = TRUE]
  <2>1. task[t] \in Handlers
    OBVIOUS
  <2>2. /\ aborted \in Handlers
        /\ aborted.series = task[t].series /\ aborted.stage = task[t].stage
    BY <2>1, Zenon DEF Handlers
  <2>3. task' = [task EXCEPT ![t] = aborted]
    BY <1>6 DEF Abort
  <2>4. /\ task' \in [Tasks -> Handlers]
        /\ \A u \in Tasks : task'[u].series = task[u].series /\ task'[u].stage = task[u].stage
    BY <2>2, <2>3
  <2>5. QED
    BY <1>6, <2>4 DEF Abort
<1>7. ASSUME NEW t \in Tasks, NEW result \in Results, Answer(t, result) PROVE TypeInv'
  BY <1>7, StageType DEF Answer, Ended, Results
<1>8. ASSUME NEW t \in Tasks, Store(t) PROVE TypeInv'
  <2>1. /\ task' \in [Tasks -> Handlers]
        /\ \A u \in Tasks : task'[u].stage \in Busy => task'[u].series \in Series
    BY <1>8, StageType DEF Store
  <2>2. QED
    BY <1>8, <2>1 DEF Store
<1>9. ASSUME NEW t \in Tasks, Revise(t) PROVE TypeInv'
  <2>1. /\ task' \in [Tasks -> Handlers]
        /\ \A u \in Tasks : task'[u].stage \in Busy => task'[u].series \in Series
    BY <1>9, StageType DEF Revise
  <2>2. CASE revisions' = revisions
    BY <1>9, <2>1, <2>2 DEF Revise
  <2>3. CASE revisions' # revisions
    <3> DEFINE new == [task |-> t, series |-> task[t].series,
                       number |-> Cardinality(RevisionsOf(task[t].series)) + 1,
                       current |-> current, capabilities |-> setting.capabilities]
    <3>1. revisions' = revisions \cup {new} /\ SeriesOpen(t)
      BY <1>9, <2>3 DEF Revise
    <3>2. task[t].series \in Series
      BY <1>9 DEF Revise
    <3>3. new \in Revisions
      BY <3>2, NumberType DEF Revisions, Settings
    <3>4. revisions' \subseteq Revisions /\ IsFiniteSet(revisions')
      BY <3>1, <3>3, FS_AddElement
    <3>5. QED
      BY <1>9, <2>1, <3>4 DEF Revise
  <2>4. QED
    BY <2>2, <2>3
<1>10. ASSUME Upload PROVE TypeInv'
  BY <1>10 DEF Upload
<1>11. ASSUME NEW to \in {"archived", "deleted"}, Withdraw(to) PROVE TypeInv'
  BY <1>11 DEF Withdraw
<1>12. ASSUME NEW s \in Series, NEW to \in {"archived", "deleted"}, Retire(s, to) PROVE TypeInv'
  BY <1>12 DEF Retire
<1>13. ASSUME NEW x \in Settings, Configure(x) PROVE TypeInv'
  BY <1>13 DEF Configure
<1>14. ASSUME Crash PROVE TypeInv'
  <2>1. /\ task' \in [Tasks -> Handlers]
        /\ \A u \in Tasks : task'[u].stage \in {"idle", "over"}
    BY <1>14 DEF Crash, Handlers
  <2>2. QED
    BY <1>14, <2>1 DEF Crash
<1>15. ASSUME UNCHANGED vars PROVE TypeInv'
  BY <1>15 DEF vars
<1>16. QED
  BY <1>1, <1>2, <1>3, <1>4, <1>5, <1>6, <1>7, <1>8, <1>9, <1>10, <1>11, <1>12, <1>13, <1>14,
     <1>15 DEF Next, TaskStep

\* Every table and every handler keeps its type, for any number of previews,
\* confirmations, tasks, series and versions.
THEOREM GenerationTypeCorrect == Spec => []TypeOK
<1>1. TypeInv => TypeOK
  BY DEF TypeInv
<1>2. QED
  BY TypeInit, TypeStep, <1>1, PTL DEF Spec

-----------------------------------------------------------------------------
(***************************************************************************)
(* Consent.  That one preview pays for one run, and that what is sent was  *)
(* shown, follow from how previews, confirmations and tasks refer to each  *)
(* other: no two confirmations share a preview, a confirmation keeps the   *)
(* setting that was shown, and it knows the only task that uses it.        *)
(***************************************************************************)

ConsentInv ==
  /\ \A c, d \in Confirmations :
       conf[c] # None /\ conf[d] # None /\ conf[c].preview = conf[d].preview => c = d
  /\ \A c \in Confirmations :
       conf[c] # None => /\ shown[conf[c].preview] # None
                         /\ shown[conf[c].preview].setting = conf[c].setting
  /\ \A t \in Tasks :
       Paid(t) => conf[task[t].conf] # None /\ conf[task[t].conf].task = t
  /\ SentAsShown

\* What a handler does after it has started leaves alone what it was started with.
SameOrder(t) == \A field \in {"conf", "version", "series", "under"} :
                  task'[t][field] = task[t][field]

LEMMA StageKeepsOrder ==
  ASSUME TypeOK, NEW t \in Tasks, NEW stage \in Stages, Stage(t, stage)
  PROVE  \A u \in Tasks : SameOrder(u) /\ task'[u].aborted = task[u].aborted
BY DEF TypeOK, Stage, Handlers, SameOrder

LEMMA OrderKept ==
  ASSUME TypeInv, [Next]_vars,
         ~\E p \in Previews, v \in 1 .. MaxVersions : Preview(p, v),
         ~\E c \in Confirmations, p \in Previews : Confirm(c, p),
         ~\E t \in Tasks, c \in Confirmations, v \in 1 .. MaxVersions, s \in Series :
            Start(t, c, v, s) /\ ~UNCHANGED conf
  PROVE  /\ UNCHANGED <<conf, shown>>
         /\ \A t \in Tasks : SameOrder(t)
<1> /\ "over" \in Stages /\ "calling" \in Stages /\ "answered" \in Stages /\ "stored" \in Stages
  BY DEF Stages
<1> TypeOK
  BY DEF TypeInv
<1>1. ASSUME NEW t \in Tasks, TaskStep(t) PROVE UNCHANGED <<conf, shown>> /\ \A u \in Tasks : SameOrder(u)
  <2>1. CASE Call(t)
    BY <2>1, StageKeepsOrder DEF Call
  <2>2. CASE Abort(t)
    BY <2>2 DEF Abort, SameOrder, TypeOK, Handlers
  <2>3. CASE Store(t)
    BY <2>3, StageKeepsOrder DEF Store
  <2>4. CASE Revise(t)
    BY <2>4, StageKeepsOrder DEF Revise
  <2>5. ASSUME NEW result \in Results, Answer(t, result) PROVE UNCHANGED <<conf, shown>> /\ \A u \in Tasks : SameOrder(u)
    BY <2>5, StageKeepsOrder DEF Answer
  <2>6. ASSUME NEW c \in Confirmations, NEW v \in 1 .. MaxVersions, NEW s \in Series,
               Start(t, c, v, s)
        PROVE  UNCHANGED <<conf, shown>> /\ \A u \in Tasks : SameOrder(u)
    <3>1. UNCHANGED conf
      BY <2>6
    <3>2. Stage(t, "over") \/ (conf' = [conf EXCEPT ![c].task = t] /\ CanConsume(c, v))
      BY <2>6, Zenon DEF Start
    <3>3. CASE Stage(t, "over")
      BY <2>6, <3>1, <3>3, StageKeepsOrder DEF Start
    <3>4. CASE conf' = [conf EXCEPT ![c].task = t] /\ CanConsume(c, v)
      <4>1. conf'[c].task = t /\ conf[c].task = None
        BY <3>4 DEF CanConsume, TypeOK
      <4>2. QED
        BY <3>1, <4>1, GenerationAssumption
    <3>5. QED
      BY <3>2, <3>3, <3>4
  <2>7. QED
    BY <1>1, <2>1, <2>2, <2>3, <2>4, <2>5, <2>6 DEF TaskStep
<1>2. CASE Crash
  BY <1>2 DEF Crash, SameOrder, TypeOK, Handlers
<1>3. CASE UNCHANGED vars
  BY <1>3 DEF vars, SameOrder
<1>4. QED
  BY <1>1, <1>2, <1>3 DEF Next, Expire, Upload, Withdraw, Retire, Configure, SameOrder

LEMMA ConsentInit == Init => ConsentInv
BY GenerationAssumption DEF Init, Idle, ConsentInv, SentAsShown, Paid

LEMMA ConsentStep == TypeInv /\ ConsentInv /\ [Next]_vars => ConsentInv'
<1> SUFFICES ASSUME TypeInv, ConsentInv, [Next]_vars PROVE ConsentInv'
  OBVIOUS
<1> USE GenerationAssumption DEF ConsentInv, SentAsShown, Paid, TypeInv, TypeOK
<1>1. ASSUME NEW p \in Previews, NEW v \in 1 .. MaxVersions, Preview(p, v) PROVE ConsentInv'
  <2>1. \A c \in Confirmations :
          conf[c] # None => conf[c].preview # p /\ shown'[conf[c].preview] = shown[conf[c].preview]
    BY <1>1 DEF Preview
  <2>2. UNCHANGED <<conf, task>>
    BY <1>1 DEF Preview
  <2>3. \A t \in Tasks : task[t].conf # None => task[t].conf \in Confirmations
    BY DEF Handlers
  <2>4. QED
    BY <2>1, <2>2, <2>3
<1>2. ASSUME NEW c \in Confirmations, NEW p \in Previews, Confirm(c, p) PROVE ConsentInv'
  <2>1. /\ \A d \in Confirmations : d # c => conf'[d] = conf[d]
        /\ conf'[c].preview = p /\ conf'[c].setting = setting
        /\ conf[c] = None
        /\ UNCHANGED <<shown, task>>
    BY <1>2 DEF Confirm
  <2>2. /\ shown[p] # None /\ shown[p].setting = setting
        /\ \A d \in Confirmations : conf[d] # None => conf[d].preview # p
    BY <1>2 DEF Confirm, Unconfirmed
  <2>3. \A t \in Tasks : task[t].conf # None => task[t].conf \in Confirmations \ {c}
    BY <2>1 DEF Handlers
  <2>4. QED
    BY <2>1, <2>2, <2>3
<1>3. ASSUME NEW t \in Tasks, NEW c \in Confirmations, NEW v \in 1 .. MaxVersions,
             NEW s \in Series, Start(t, c, v, s), ~UNCHANGED conf
      PROVE ConsentInv'
  <2>1. /\ CanConsume(c, v) /\ UNCHANGED shown
        /\ conf' = [conf EXCEPT ![c].task = t]
        /\ \A u \in Tasks : u # t => task'[u] = task[u]
        /\ task'[t].conf = c /\ task'[t].version = v /\ task'[t].under = setting
    BY <1>3 DEF Start
  <2>2. conf[c] # None /\ conf[c] \in Consents
    BY <2>1 DEF CanConsume
  <2>3. /\ \A d \in Confirmations : d # c => conf'[d] = conf[d]
        /\ conf'[c].preview = conf[c].preview /\ conf'[c].setting = conf[c].setting
        /\ conf'[c].task = t /\ conf'[c] # None
    <3>1. [conf[c] EXCEPT !.task = t] \in Consents
      BY <2>2 DEF Consents
    <3>2. QED
      BY <2>1, <2>2, <3>1 DEF Consents
  <2>4. \A u \in Tasks : u # t /\ task[u].conf # None => task[u].conf \in Confirmations \ {c}
    BY <2>1, <2>2 DEF CanConsume, Handlers
  <2>5. /\ shown[conf[c].preview].version = v
        /\ shown[conf[c].preview].setting = setting
    BY <2>1, <2>2 DEF CanConsume
  <2>6. ASSUME NEW u \in Tasks, task'[u].conf # None
        PROVE  /\ conf'[task'[u].conf] # None /\ conf'[task'[u].conf].task = u
               /\ shown[conf'[task'[u].conf].preview].version = task'[u].version
               /\ shown[conf'[task'[u].conf].preview].setting = task'[u].under
    <3>1. CASE u = t
      BY <2>1, <2>3, <2>5, <3>1
    <3>2. CASE u # t
      BY <2>1, <2>3, <2>4, <2>6, <3>2
    <3>3. QED
      BY <3>1, <3>2
  <2>7. /\ \A d, e \in Confirmations :
             conf'[d] # None /\ conf'[e] # None /\ conf'[d].preview = conf'[e].preview => d = e
        /\ \A d \in Confirmations :
             conf'[d] # None => /\ shown[conf'[d].preview] # None
                                /\ shown[conf'[d].preview].setting = conf'[d].setting
    BY <2>2, <2>3
  <2>8. QED
    BY <2>1, <2>6, <2>7
<1>4. CASE UNCHANGED <<conf, shown>> /\ \A t \in Tasks : SameOrder(t)
  BY <1>4 DEF SameOrder
<1>5. QED
  BY <1>1, <1>2, <1>3, <1>4, OrderKept

\* One look at a disclosure pays for at most one provider call, whatever is
\* confirmed twice, submitted twice or crashes.
THEOREM OnePreviewOneRun == Spec => []OneRunPerPreview
<1>1. TypeInv /\ ConsentInv => OneRunPerPreview
  BY DEF TypeInv, TypeOK, Handlers, ConsentInv, OneRunPerPreview, Paid
<1>2. QED
  BY TypeInit, TypeStep, ConsentInit, ConsentStep, <1>1, PTL DEF Spec

\* What is sent to the provider, and the settings it is sent under, were
\* shown to the user who confirmed them.
THEOREM OnlyTheShownIsSent == Spec => []SentAsShown
<1>1. ConsentInv => SentAsShown
  BY DEF ConsentInv
<1>2. QED
  BY TypeInit, TypeStep, ConsentInit, ConsentStep, <1>1, PTL DEF Spec

-----------------------------------------------------------------------------
(***************************************************************************)
(* Drafts.  A revision's backing is decided before it is stored: whoever   *)
(* is about to store has paid, its run has succeeded and it has not been   *)
(* given up; and once it has stored it is over, and nothing about it       *)
(* changes any more.                                                       *)
(***************************************************************************)

Backing(t) ==
  /\ task[t].stage \in Busy => Paid(t)
  /\ task[t].stage \in {"answered", "stored"} => run[t] = "succeeded"
  /\ task[t].stage = "stored" => ~task[t].aborted

DraftInv ==
  /\ \A t \in Tasks : Backing(t)
  /\ \A r \in revisions : task[r.task].stage = "over"
  /\ DraftsBacked

LEMMA DraftInit == Init => DraftInv
<1> SUFFICES ASSUME Init PROVE DraftInv
  OBVIOUS
<1>1. \A s \in Series : RevisionsOf(s) = {}
  BY DEF Init, RevisionsOf
<1>2. Cardinality({}) = 0 /\ 1 .. 0 = {}
  BY FS_EmptySet
<1>3. \A s \in Series : {r.number : r \in RevisionsOf(s)} = 1 .. Cardinality(RevisionsOf(s))
  BY <1>1, <1>2
<1>4. QED
  BY <1>3 DEF Init, Idle, DraftInv, DraftsBacked, Backing, Busy, Stages

\* A handler that is over stays as it is.
LEMMA OverKept ==
  ASSUME TypeInv, [Next]_vars, NEW t \in Tasks, task[t].stage = "over"
  PROVE  task'[t].stage = "over" /\ task'[t].conf = task[t].conf
         /\ task'[t].series = task[t].series /\ task'[t].aborted = task[t].aborted
         /\ run'[t] = run[t]
<1> USE DEF TypeInv, TypeOK
<1>1. ASSUME NEW u \in Tasks, TaskStep(u) PROVE task'[t] = task[t] /\ run'[t] = run[t]
  <2>1. u # t
    BY <1>1 DEF TaskStep, Start, Call, Abort, Answer, Store, Revise
  <2>2. QED
    BY <1>1, <2>1 DEF TaskStep, Start, Call, Abort, Answer, Store, Revise, Stage
<1>2. CASE Crash
  BY <1>2 DEF Crash, Handlers
<1>3. CASE UNCHANGED <<task, run>>
  BY <1>3
<1>4. QED
  BY <1>1, <1>2, <1>3
     DEF Next, Preview, Confirm, Expire, Upload, Withdraw, Configure, Retire, vars

LEMMA BackingStep ==
  ASSUME TypeInv, \A t \in Tasks : Backing(t), [Next]_vars
  PROVE  \A t \in Tasks : Backing(t)'
<1> USE DEF TypeInv, TypeOK, Backing, Paid
<1> Busy = {"paid", "calling", "answered", "stored"}
  BY DEF Busy, Stages
<1> "over" \in Stages /\ Busy \subseteq Stages
  BY DEF Stages
<1> TypeOK
  OBVIOUS
<1>1. ASSUME NEW t \in Tasks, TaskStep(t) PROVE \A u \in Tasks : Backing(u)'
  <2>1. CASE Call(t)
    BY <2>1, StageType, StageKeepsOrder DEF Call, SameOrder
  <2>2. CASE Abort(t)
    BY <2>2 DEF Abort, Handlers
  <2>3. CASE Store(t)
    BY <2>3, StageType, StageKeepsOrder DEF Store, GivenUp, SameOrder
  <2>4. CASE Revise(t)
    BY <2>4, StageType, StageKeepsOrder DEF Revise, SameOrder
  <2>5. ASSUME NEW result \in Results, Answer(t, result) PROVE \A u \in Tasks : Backing(u)'
    BY <2>5, StageType, StageKeepsOrder DEF Answer, Ended, SameOrder
  <2>6. ASSUME NEW c \in Confirmations, NEW v \in 1 .. MaxVersions, NEW s \in Series,
               Start(t, c, v, s)
        PROVE  \A u \in Tasks : Backing(u)'
    <3>1. CASE Stage(t, "over")
      BY <2>6, <3>1, StageType, StageKeepsOrder DEF Start, SameOrder
    <3>2. CASE ~Stage(t, "over")
      BY <2>6, <3>2, GenerationAssumption DEF Start
    <3>3. QED
      BY <3>1, <3>2
  <2>7. QED
    BY <1>1, <2>1, <2>2, <2>3, <2>4, <2>5, <2>6 DEF TaskStep
<1>2. CASE Crash
  BY <1>2 DEF Crash, Handlers
<1>3. CASE UNCHANGED <<task, run>>
  BY <1>3
<1>4. QED
  BY <1>1, <1>2, <1>3
     DEF Next, Preview, Confirm, Expire, Upload, Withdraw, Configure, Retire, vars

\* Counting the revisions of a series gives the next number.
LEMMA NextNumber ==
  ASSUME IsFiniteSet(revisions), NEW new, new \notin revisions, NEW s \in Series,
         new.number = Cardinality(RevisionsOf(new.series)) + 1,
         {r.number : r \in RevisionsOf(s)} = 1 .. Cardinality(RevisionsOf(s)),
         revisions' = revisions \cup {new}
  PROVE  {r.number : r \in RevisionsOf(s)'} = 1 .. Cardinality(RevisionsOf(s)')
<1>1. CASE new.series # s
  BY <1>1 DEF RevisionsOf
<1>2. CASE new.series = s
  <2> DEFINE old == RevisionsOf(s)
             all == RevisionsOf(s)'
  <2>1. all = old \cup {new} /\ new \notin old
    BY <1>2 DEF RevisionsOf
  <2>2. IsFiniteSet(old)
    BY FS_Subset DEF RevisionsOf
  <2>3. Cardinality(all) = Cardinality(old) + 1 /\ Cardinality(old) \in Nat
    BY <2>1, <2>2, FS_AddElement, FS_CardinalityType
  <2>4. {r.number : r \in all} = {r.number : r \in old} \cup {Cardinality(old) + 1}
    BY <1>2, <2>1
  <2>5. \A n \in Nat : 1 .. (n + 1) = (1 .. n) \cup {n + 1}
    OBVIOUS
  <2>6. QED
    BY <2>3, <2>4, <2>5
<1>3. QED
  BY <1>1, <1>2

LEMMA DraftStep ==
  TypeInv /\ ConsentInv /\ ConsentInv' /\ DraftInv /\ [Next]_vars => DraftInv'
<1> SUFFICES ASSUME TypeInv, ConsentInv, ConsentInv', DraftInv, [Next]_vars PROVE DraftInv'
  OBVIOUS
<1>1. \A t \in Tasks : Backing(t)'
  BY BackingStep DEF DraftInv
<1>2. \A r \in revisions : r.task \in Tasks
  BY DEF TypeInv, TypeOK, Revisions
<1>3. ASSUME NEW r \in revisions
      PROVE  /\ task'[r.task].stage = "over"
             /\ run'[r.task] = "succeeded" /\ ~task'[r.task].aborted
             /\ task'[r.task].conf # None /\ conf'[task'[r.task].conf].task = r.task
             /\ task'[r.task].series = r.series
  BY <1>2, OverKept DEF DraftInv, DraftsBacked, ConsentInv, Paid
<1>4. CASE UNCHANGED revisions
  <2>1. \A s \in Series : RevisionsOf(s)' = RevisionsOf(s)
    BY <1>4 DEF RevisionsOf
  <2>2. QED
    BY <1>1, <1>3, <1>4, <2>1 DEF DraftInv, DraftsBacked, Paid
<1>5. ASSUME NEW t \in Tasks, Revise(t), revisions' # revisions PROVE DraftInv'
  <2> DEFINE new == [task |-> t, series |-> task[t].series,
                     number |-> Cardinality(RevisionsOf(task[t].series)) + 1,
                     current |-> current, capabilities |-> setting.capabilities]
  <2>1. /\ task[t].stage = "stored" /\ Stage(t, "over")
        /\ revisions' = revisions \cup {new}
        /\ UNCHANGED <<conf, run>>
    BY <1>5 DEF Revise
  <2>2. \A r \in revisions : r.task # t
    BY <2>1 DEF DraftInv
  <2>3. /\ task'[t].stage = "over" /\ ~task'[t].aborted
        /\ task'[t].conf = task[t].conf /\ task'[t].series = task[t].series
    BY <2>1, StageType, StageKeepsOrder DEF TypeInv, DraftInv, Backing, Stages, SameOrder
  <2>4. run[t] = "succeeded" /\ Paid(t) /\ conf[task[t].conf].task = t
    BY <2>1 DEF DraftInv, Backing, Busy, Stages, ConsentInv
  <2>5. ASSUME NEW s \in Series
        PROVE  {r.number : r \in RevisionsOf(s)'} = 1 .. Cardinality(RevisionsOf(s)')
    BY <2>1, <2>2, NextNumber DEF TypeInv, DraftInv, DraftsBacked
  <2>6. \A q, r \in revisions' : q.task = r.task => q = r
    BY <2>1, <2>2 DEF DraftInv, DraftsBacked
  <2>7. ASSUME NEW r \in revisions'
        PROVE  /\ task'[r.task].stage = "over"
               /\ run'[r.task] = "succeeded" /\ ~task'[r.task].aborted
               /\ task'[r.task].conf # None /\ conf'[task'[r.task].conf].task = r.task
               /\ task'[r.task].series = r.series
    <3>1. CASE r = new
      BY <2>1, <2>3, <2>4, <3>1 DEF Paid
    <3>2. QED
      BY <1>3, <2>1, <3>1
  <2>8. QED
    BY <1>1, <2>5, <2>6, <2>7 DEF DraftInv, DraftsBacked, Paid
<1>6. QED
  BY <1>4, <1>5 DEF Next, TaskStep, Preview, Confirm, Expire, Start, Call, Abort, Answer, Store,
     Upload, Withdraw, Configure, Retire, Crash, vars

\* Each revision comes from one run, which was paid for, succeeded and was
\* not given up; those of a series are numbered without gaps.
THEOREM DraftsAreBacked == Spec => []DraftsBacked
<1>1. DraftInv => DraftsBacked
  BY DEF DraftInv
<1>2. QED
  BY TypeInit, TypeStep, ConsentInit, ConsentStep, DraftInit, DraftStep, <1>1, PTL DEF Spec

\* An archived or deleted series gets no more revisions, even from handlers
\* that found it open.
THEOREM RetiredStaysClosed == Spec => RetiredIsClosed
<1> DEFINE Closed == \A s \in Series : series[s] \in {"archived", "deleted"} =>
                       RevisionsOf(s) = {r \in revisions' : r.series = s}
<1>1. ASSUME [Next]_vars PROVE [Closed]_vars
  <2>1. CASE UNCHANGED revisions
    BY <2>1 DEF RevisionsOf
  <2>2. ASSUME NEW t \in Tasks, Revise(t) PROVE Closed
    BY <2>2 DEF Revise, SeriesOpen, RevisionsOf
  <2>3. QED
    BY <1>1, <2>1, <2>2 DEF Next, TaskStep, Preview, Confirm, Expire, Start, Call, Abort, Answer,
       Store, Upload, Withdraw, Configure, Retire, Crash, vars
<1>2. QED
  BY <1>1, PTL DEF Spec, RetiredIsClosed
=============================================================================
