------------------------------ MODULE Generation ------------------------------
(***************************************************************************)
(* Preparation drafts: a disclosure is shown and confirmed, paid for with  *)
(* one provider run, and the answer becomes a revision of a draft series   *)
(* (src/server/src/disclosures/service.ts, workflows/strands-executor.ts   *)
(* and service.ts, artifacts/draft-artifact-service.ts and                 *)
(* draft-artifact-repository.ts).                                          *)
(*                                                                         *)
(* Between the provider's call and its answer is the only await; sources,  *)
(* settings and series may change meanwhile.  Before and after it the      *)
(* handler runs without interruption, but commits several times, so a      *)
(* crash may fall between two commits.                                     *)
(*                                                                         *)
(* One document is the source, and a request names one of its versions; a  *)
(* version never changes.  Versions are numbers, and the newest one is     *)
(* current.  A setting is the provider's row of provider_settings: whether *)
(* it is enabled, whether it selects the provider's model or none, and its *)
(* capabilities.  All tasks are of the kind of their series, and a task    *)
(* without a series names one that is absent.                              *)
(***************************************************************************)
EXTENDS Naturals, FiniteSets

CONSTANTS
  Previews,      \* previews, one nonce each
  Confirmations, \* ids of disclosure_confirmations
  Tasks,         \* jobs of kind ui.preparation
  Series,        \* series ids
  Capabilities,  \* what the capabilities of a setting may be
  None,
  MaxVersions    \* bound: versions of the document

Settings == [enabled: BOOLEAN, selected: BOOLEAN, capabilities: Capabilities]

Consents == [preview: Previews, setting: Settings, task: Tasks \cup {None}]

ASSUME GenerationAssumption ==
  /\ MaxVersions \in Nat \ {0}
  /\ None \notin Previews \cup Confirmations \cup Tasks \cup Consents

VARIABLES
  current,    \* the document's current version
  document,   \* its state
  setting,    \* the provider's setting
  series,     \* status of each series, "absent" without a row
  shown,      \* each preview: the version, current version and setting it shows
  expired,    \* previews, with their confirmations, that have expired
  conf,       \* each confirmation: its preview and the task that consumed it
  task,       \* each task's handler
  run,        \* status of each task's provider run, "none" without a row
  revisions   \* draft_artifact_revisions

vars == <<current, document, setting, series, shown, expired, conf, task, run, revisions>>

\* stage: "idle", then "paid" once the confirmation is consumed, "calling"
\* during the await, "answered" and "stored" between the commits after it, and
\* "over".  sent and under are the current version and the setting when the
\* prompt was built, found the status of the series then.
Idle == [stage |-> "idle", conf |-> None, version |-> 0, series |-> None, found |-> "absent",
         sent |-> 0, under |-> None, aborted |-> FALSE]

Init ==
  /\ current = 1 /\ document = "active"
  /\ setting \in Settings
  /\ series = [s \in Series |-> "absent"]
  /\ shown = [p \in Previews |-> None] /\ expired = {}
  /\ conf = [c \in Confirmations |-> None]
  /\ task = [t \in Tasks |-> Idle]
  /\ run = [t \in Tasks |-> "none"]
  /\ revisions = {}

\* A handler that is not waiting for its provider has the event loop.
Quiet == \A t \in Tasks : task[t].stage \in {"idle", "calling", "over"}

Resolvable == document # "deleted"

\* Without it providerFingerprint raises.  resolveProvider, which a revision
\* and its provenance use, does not mind a setting that selects no model.
Fingerprinted == setting.enabled /\ setting.selected

-----------------------------------------------------------------------------
(***************************************************************************)
(* Disclosures.                                                            *)
(***************************************************************************)

Preview(p, v) ==
  /\ Quiet /\ shown[p] = None
  /\ Resolvable /\ v <= current /\ Fingerprinted
  /\ shown' = [shown EXCEPT ![p] = [version |-> v, current |-> current, setting |-> setting]]
  /\ UNCHANGED <<current, document, setting, series, expired, conf, task, run, revisions>>

\* Mutant: the nonce is not unique.
Unconfirmed_Always(p) == TRUE

Unconfirmed(p) == \A c \in Confirmations : conf[c] # None => conf[c].preview # p

\* The manifest and the fingerprint are computed again and compared.
Confirm(c, p) ==
  /\ Quiet /\ conf[c] = None
  /\ shown[p] # None /\ p \notin expired
  /\ Resolvable /\ Fingerprinted
  /\ shown[p].current = current /\ shown[p].setting = setting
  /\ Unconfirmed(p)
  /\ conf' = [conf EXCEPT ![c] = [preview |-> p, setting |-> setting, task |-> None]]
  /\ UNCHANGED <<current, document, setting, series, shown, expired, task, run, revisions>>

Expire(p) ==
  /\ shown[p] # None
  /\ expired' = expired \cup {p}
  /\ UNCHANGED <<current, document, setting, series, shown, conf, task, run, revisions>>

\* Mutants: a consumed confirmation is consumed again; the fingerprint is not
\* compared.
CanConsume_Again(c, v) ==
  /\ conf[c] # None /\ conf[c].preview \notin expired
  /\ shown[conf[c].preview].version = v /\ Resolvable
  /\ Fingerprinted /\ setting = conf[c].setting
CanConsume_AnySetting(c, v) ==
  /\ conf[c] # None /\ conf[c].task = None /\ conf[c].preview \notin expired
  /\ shown[conf[c].preview].version = v /\ Resolvable
  /\ Fingerprinted

\* consumeTransaction: the hashes compared are those of versions, which do
\* not change; the current version is not looked at again.
CanConsume(c, v) ==
  /\ conf[c] # None /\ conf[c].task = None /\ conf[c].preview \notin expired
  /\ shown[conf[c].preview].version = v /\ Resolvable
  /\ Fingerprinted /\ setting = conf[c].setting

-----------------------------------------------------------------------------
(***************************************************************************)
(* A task: run and execute.                                                *)
(***************************************************************************)

Stage(t, stage) == task' = [task EXCEPT ![t].stage = stage]

Start(t, c, v, s) ==
  /\ Quiet /\ task[t].stage = "idle"
  /\ IF series[s] \in {"absent", "draft"} /\ Resolvable /\ CanConsume(c, v)
     THEN /\ conf' = [conf EXCEPT ![c].task = t]
          /\ task' = [task EXCEPT ![t] =
               [stage |-> "paid", conf |-> c, version |-> v, series |-> s, found |-> series[s],
                sent |-> current, under |-> setting, aborted |-> FALSE]]
     ELSE Stage(t, "over") /\ UNCHANGED conf
  /\ UNCHANGED <<current, document, setting, series, shown, expired, run, revisions>>

\* createRunning, and the call.
Call(t) ==
  /\ task[t].stage = "paid"
  /\ run' = [run EXCEPT ![t] = "running"]
  /\ Stage(t, "calling")
  /\ UNCHANGED <<current, document, setting, series, shown, expired, conf, revisions>>

\* The job is cancelled, times out, loses its lease or is shut down.
Abort(t) ==
  /\ Quiet /\ task[t].stage = "calling" /\ ~task[t].aborted
  /\ task' = [task EXCEPT ![t].aborted = TRUE]
  /\ UNCHANGED <<current, document, setting, series, shown, expired, conf, run, revisions>>

\* How the run ends; the kernel completes no call without structured output.
Ended(result) == IF result = "completed" THEN "succeeded" ELSE result

\* An abort after the kernel's last look at the signal leaves the call completed.
Answer(t, result) ==
  /\ Quiet /\ task[t].stage = "calling"
  /\ run' = [run EXCEPT ![t] = Ended(result)]
  /\ Stage(t, IF result = "completed" THEN "answered" ELSE "over")
  /\ UNCHANGED <<current, document, setting, series, shown, expired, conf, revisions>>

\* Mutant: the signal is not looked at.
GivenUp_Never(t) == FALSE

GivenUp(t) == task[t].aborted

\* Back in run(): a series that was not there before the await is created,
\* which raises if it is there now.
Store(t) ==
  LET k == task[t] IN
  /\ k.stage = "answered"
  /\ IF GivenUp(t) \/ (k.found = "absent" /\ series[k.series] # "absent")
     THEN Stage(t, "over") /\ UNCHANGED series
     ELSE /\ Stage(t, "stored")
          /\ series' = IF k.found = "absent" THEN [series EXCEPT ![k.series] = "draft"] ELSE series
  /\ UNCHANGED <<current, document, setting, shown, expired, conf, run, revisions>>

RevisionsOf(s) == {r \in revisions : r.series = s}

\* Mutant: the series was looked at before the await, and that is enough.
SeriesOpen_AsFound(t) == task[t].found \in {"absent", "draft"}

SeriesOpen(t) == series[task[t].series] = "draft"

\* createRevision records the capabilities and the current version of this moment.
Revise(t) ==
  LET k == task[t] IN
  /\ k.stage = "stored"
  /\ revisions' =
       IF setting.enabled /\ Resolvable /\ SeriesOpen(t)
       THEN revisions \cup
              {[task |-> t, series |-> k.series, number |-> Cardinality(RevisionsOf(k.series)) + 1,
                current |-> current, capabilities |-> setting.capabilities]}
       ELSE revisions
  /\ Stage(t, "over")
  /\ UNCHANGED <<current, document, setting, series, shown, expired, conf, run>>

-----------------------------------------------------------------------------
(***************************************************************************)
(* Everybody else.                                                         *)
(***************************************************************************)

Upload ==
  /\ Quiet /\ document = "active" /\ current < MaxVersions
  /\ current' = current + 1
  /\ UNCHANGED <<document, setting, series, shown, expired, conf, task, run, revisions>>

Withdraw(to) ==
  /\ Quiet
  /\ document \in IF to = "archived" THEN {"active"} ELSE {"active", "archived"}
  /\ document' = to
  /\ UNCHANGED <<current, setting, series, shown, expired, conf, task, run, revisions>>

Configure(x) ==
  /\ Quiet /\ x # setting
  /\ setting' = x
  /\ UNCHANGED <<current, document, series, shown, expired, conf, task, run, revisions>>

Retire(s, to) ==
  /\ Quiet
  /\ series[s] \in IF to = "archived" THEN {"draft"} ELSE {"draft", "archived"}
  /\ series' = [series EXCEPT ![s] = to]
  /\ UNCHANGED <<current, document, setting, shown, expired, conf, task, run, revisions>>

\* The server is killed.  Its jobs are external, so none is tried again, and
\* nobody ends their provider runs.
Crash ==
  /\ \E t \in Tasks : task[t].stage \notin {"idle", "over"}
  /\ task' = [t \in Tasks |-> IF task[t].stage = "idle" THEN task[t]
                              ELSE [task[t] EXCEPT !.stage = "over"]]
  /\ UNCHANGED <<current, document, setting, series, shown, expired, conf, run, revisions>>

Results == {"completed", "failed", "cancelled"}

TaskStep(t) ==
  \/ \E c \in Confirmations, v \in 1 .. MaxVersions, s \in Series : Start(t, c, v, s)
  \/ Call(t) \/ Abort(t) \/ Store(t) \/ Revise(t)
  \/ \E result \in Results : Answer(t, result)

Next ==
  \/ \E p \in Previews, v \in 1 .. MaxVersions : Preview(p, v)
  \/ \E c \in Confirmations, p \in Previews : Confirm(c, p)
  \/ \E p \in Previews : Expire(p)
  \/ \E t \in Tasks : TaskStep(t)
  \/ Upload
  \/ \E to \in {"archived", "deleted"} : Withdraw(to) \/ \E s \in Series : Retire(s, to)
  \/ \E x \in Settings : Configure(x)
  \/ Crash

Spec == Init /\ [][Next]_vars

-----------------------------------------------------------------------------
(***************************************************************************)
(* Correctness.                                                            *)
(***************************************************************************)

Stages == {"idle", "paid", "calling", "answered", "stored", "over"}

Handlers == [stage: Stages, conf: Confirmations \cup {None}, version: 0 .. MaxVersions,
             series: Series \cup {None}, found: {"absent", "draft"}, sent: 0 .. MaxVersions,
             under: Settings \cup {None}, aborted: BOOLEAN]

Revisions == [task: Tasks, series: Series, number: Nat, current: 1 .. MaxVersions,
              capabilities: Capabilities]

Shown == [version: 1 .. MaxVersions, current: 1 .. MaxVersions, setting: Settings]

TypeOK ==
  /\ current \in 1 .. MaxVersions
  /\ document \in {"active", "archived", "deleted"}
  /\ setting \in Settings
  /\ series \in [Series -> {"absent", "draft", "archived", "deleted"}]
  /\ shown \in [Previews -> Shown \cup {None}]
  /\ expired \in SUBSET Previews
  /\ conf \in [Confirmations -> Consents \cup {None}]
  /\ task \in [Tasks -> Handlers]
  /\ run \in [Tasks -> {"none", "running", "succeeded", "failed", "cancelled"}]
  /\ revisions \subseteq Revisions

Paid(t) == task[t].conf # None

\* One look at a disclosure pays for one provider call: however often it is
\* confirmed or submitted, and whatever crashes in between, two tasks never run on
\* the same preview.
OneRunPerPreview ==
  \A t, u \in Tasks :
    Paid(t) /\ Paid(u) /\ t # u => conf[task[t].conf].preview # conf[task[u].conf].preview

\* Whatever was sent had been shown: the version, and the setting under which
\* the provider was called, are those of the preview the user confirmed.
SentAsShown ==
  \A t \in Tasks :
    Paid(t) => LET p == shown[conf[task[t].conf].preview]
               IN task[t].version = p.version /\ task[t].under = p.setting

\* A revision is the answer of a run that succeeded, was paid for and had
\* not been given up; each run makes at most one, and those of a series are
\* numbered without gaps.
DraftsBacked ==
  /\ \A r \in revisions : /\ run[r.task] = "succeeded" /\ ~task[r.task].aborted
                          /\ Paid(r.task) /\ conf[task[r.task].conf].task = r.task
                          /\ task[r.task].series = r.series
  /\ \A q, r \in revisions : q.task = r.task => q = r
  /\ \A s \in Series :
       {r.number : r \in RevisionsOf(s)} = 1 .. Cardinality(RevisionsOf(s))

\* A series that was archived or deleted, be it while the provider was
\* answering, gets no more revisions.
RetiredIsClosed ==
  [][\A s \in Series : series[s] \in {"archived", "deleted"} =>
       RevisionsOf(s) = {r \in revisions' : r.series = s}]_vars

\* getProvenance: why a revision is stale now.
StaleReasons(r) ==
  (IF ~Resolvable THEN {"source_unavailable"}
   ELSE IF current # r.current THEN {"source_current_version_changed"} ELSE {})
  \cup (IF ~setting.enabled THEN {"provider_disabled"}
        ELSE IF setting.capabilities # r.capabilities THEN {"provider_changed"} ELSE {})

\* A draft whose source or provider has changed since it was generated is
\* reported as stale.  The code does not do this for a change during the
\* generation: see the README.
ChangeReported ==
  \A r \in revisions :
    \/ current # task[r.task].sent
    \/ setting.capabilities # task[r.task].under.capabilities
    => StaleReasons(r) # {}
=============================================================================
