---------------------------- MODULE Applications ----------------------------
(***************************************************************************)
(* Hiring applications, the postings they answer and the pipelines of      *)
(* stages they move along: server/src/applications/repository.ts and       *)
(* service.ts, with the tables and triggers of server/src/db/schema.ts.    *)
(*                                                                         *)
(* Every operation is one synchronous transaction, except the ones that    *)
(* store a posting's text: they check the posting, await the blob store    *)
(* (or a file extraction, or a fetch) and write their version afterwards,  *)
(* and anything may happen in between.                                     *)
(*                                                                         *)
(* A posting's pipeline is a sequence of stages: the position column is    *)
(* its order, and only the order is read.  The order of pipeline_stages is *)
(* read once, when a posting copies the system stages: it is left out, and *)
(* a posting finds any order that reorderStages may have left.  A stage's  *)
(* name and an event's text are left out, so are the operations that only  *)
(* change a name.                                                          *)
(***************************************************************************)
EXTENDS Naturals, Sequences, FiniteSets, SequencesExt

CONSTANTS
  Posts,         \* ids of postings
  Applicants,    \* ids of applications
  Keys,          \* idempotency keys a client may send
  SystemStages,  \* the stages the migration inserts
  Applied,       \* the system stage whose key is "applied"
  Outcomes,      \* the system stages with an outcome
  Customs,       \* ids of stages a user may add
  Uploads,       \* requests that add a version to a posting
  MaxEvents,     \* bound: events of one application
  MaxVersions    \* bound: versions of one posting

ASSUME StagesAssumption ==
  /\ Applied \in SystemStages \ Outcomes
  /\ Outcomes \subseteq SystemStages
  /\ Customs \cap SystemStages = {}
  /\ IsFiniteSet(SystemStages)

VARIABLES
  custom,   \* the stages of pipeline_stages that users have added
  pipe,     \* job_post_pipeline_stages of each posting, by position
  post,     \* job_posts: state, versions in the order written, current one
  app,      \* applications
  events,   \* application_events of each application, by sequence
  upload    \* the requests in flight, at the await of storeContent

applicationsVars == <<custom, pipe, post, app, events, upload>>

Stages == SystemStages \cup Customs
NoPost == [state |-> "none", versions |-> <<>>, current |-> 0]
NoApp == [exists |-> FALSE]
NoUpload == [busy |-> FALSE]

Live(a) == app[a].exists
Outcome(s) == s \in Outcomes

\* The rows applications() returns: an inner join with the posting's pipeline.
Listed == {a \in Applicants : Live(a) /\ app[a].stage \in ToSet(pipe[app[a].post])}

ApplicationsInit ==
  /\ custom = {}
  /\ pipe = [p \in Posts |-> <<>>]
  /\ post = [p \in Posts |-> NoPost]
  /\ app = [a \in Applicants |-> NoApp]
  /\ events = [a \in Applicants |-> <<>>]
  /\ upload = [u \in Uploads |-> NoUpload]
-----------------------------------------------------------------------------
(* The pipeline every new posting starts from.                             *)

CreateStage(s) ==
  /\ s \in Customs \ custom
  /\ custom' = custom \cup {s}
  /\ UNCHANGED <<pipe, post, app, events, upload>>

\* A custom stage may go when neither a posting's pipeline (a foreign key)
\* nor an application (a trigger) refers to it.
DeleteStage(s) ==
  /\ s \in custom
  /\ \A p \in Posts : s \notin ToSet(pipe[p])
  /\ \A a \in Applicants : Live(a) => app[a].stage # s
  /\ custom' = custom \ {s}
  /\ UNCHANGED <<pipe, post, app, events, upload>>
-----------------------------------------------------------------------------
(* A posting's own pipeline.                                               *)

\* post() finds archived postings too: their pipelines may still be edited.
CreatePostStage(p, s) ==
  /\ post[p].state # "none"
  /\ s \in Customs \ custom
  /\ custom' = custom \cup {s}
  /\ pipe' = [pipe EXCEPT ![p] = Append(@, s)]
  /\ UNCHANGED <<post, app, events, upload>>

ReorderPostStages(p) ==
  /\ \E order \in SetToSeqs(ToSet(pipe[p])) : pipe' = [pipe EXCEPT ![p] = order]
  /\ UNCHANGED <<custom, post, app, events, upload>>

\* Mutant: an archived application no longer holds its stage.
InUse_Active(p, s) ==
  \E a \in Applicants : Live(a) /\ ~app[a].archived /\ app[a].post = p /\ app[a].stage = s

InUse(p, s) == \E a \in Applicants : Live(a) /\ app[a].post = p /\ app[a].stage = s

DeletePostStage(p, s) ==
  /\ Len(pipe[p]) > 1
  /\ ~InUse(p, s)
  /\ \E i \in DOMAIN pipe[p] : pipe[p][i] = s /\ pipe' = [pipe EXCEPT ![p] = RemoveAt(@, i)]
  /\ UNCHANGED <<custom, post, app, events, upload>>
-----------------------------------------------------------------------------
(* Postings and their versions.                                            *)

\* persistPost awaits the text first: nothing refers to a posting before this
\* transaction, which copies the system stages and writes the first version.
CreatePost(p) ==
  /\ post[p].state = "none"
  /\ post' = [post EXCEPT ![p] = [state |-> "active", versions |-> <<1>>, current |-> 1]]
  /\ \E order \in SetToSeqs(SystemStages) : pipe' = [pipe EXCEPT ![p] = order]
  /\ UNCHANGED <<custom, app, events, upload>>

\* assertActivePost, then the await.
BeginPostVersion(u, p) ==
  /\ ~upload[u].busy
  /\ post[p].state = "active"
  /\ upload' = [upload EXCEPT ![u] = [busy |-> TRUE, post |-> p]]
  /\ UNCHANGED <<custom, pipe, post, app, events>>

\* Mutant: the version is written whatever became of the posting.
AddPostVersion_Unchecked(u) ==
  /\ upload[u].busy
  /\ LET p == upload[u].post
         n == Len(post[p].versions) + 1
     IN IF n <= MaxVersions
        THEN post' = [post EXCEPT ![p].versions = Append(@, n), ![p].current = n]
        ELSE UNCHANGED post
  /\ upload' = [upload EXCEPT ![u] = NoUpload]
  /\ UNCHANGED <<custom, pipe, app, events>>

\* The UPDATE that makes the version current finds no active posting when it
\* was archived during the await: the INSERT is rolled back with it.
AddPostVersion(u) ==
  /\ upload[u].busy
  /\ LET p == upload[u].post
         n == Len(post[p].versions) + 1
     IN IF post[p].state = "active" /\ n <= MaxVersions
        THEN post' = [post EXCEPT ![p].versions = Append(@, n), ![p].current = n]
        ELSE UNCHANGED post
  /\ upload' = [upload EXCEPT ![u] = NoUpload]
  /\ UNCHANGED <<custom, pipe, app, events>>

ArchivePost(p) ==
  /\ post[p].state = "active"
  /\ post' = [post EXCEPT ![p].state = "archived"]
  /\ UNCHANGED <<custom, pipe, app, events, upload>>
-----------------------------------------------------------------------------
(* Applications.                                                           *)

Room(a) == Len(events[a]) < MaxEvents

\* The request with key k: repeated, it returns the application the first one
\* created, archived or not, and writes nothing.
CreateApplication(a, p, k) ==
  /\ ~Live(a)
  /\ \A b \in Listed : app[b].key # k
  /\ pipe[p] # <<>>
  /\ post[p].state = "active"
  /\ \A b \in Applicants : Live(b) /\ app[b].post = p => app[b].archived
  /\ app' = [app EXCEPT ![a] =
        [exists |-> TRUE, post |-> p, key |-> k, stage |-> Head(pipe[p]), status |-> "saved",
         applied |-> FALSE, outcome |-> FALSE, archived |-> FALSE]]
  /\ events' = [events EXCEPT ![a] =
        <<[kind |-> "created", from |-> "none", to |-> Head(pipe[p])]>>]
  /\ UNCHANGED <<custom, pipe, post, upload>>

StatusOf(s) ==
  IF Outcome(s) THEN s ELSE IF s \in SystemStages THEN s ELSE "interviewing"

Movable(a, s) ==
  /\ a \in Listed
  /\ ~app[a].archived
  /\ s \in ToSet(pipe[app[a].post])
  /\ ~Outcome(app[a].stage)
  /\ s # app[a].stage

Transition(a, s) ==
  /\ Movable(a, s)
  /\ Room(a)
  /\ app' = [app EXCEPT ![a].stage = s,
                        ![a].status = StatusOf(s),
                        ![a].applied = @ \/ s = Applied,
                        ![a].outcome = @ \/ Outcome(s)]
  /\ events' = [events EXCEPT ![a] =
        Append(@, [kind |-> "stage_changed", from |-> app[a].stage, to |-> s])]
  /\ UNCHANGED <<custom, pipe, post, upload>>

\* addNote and scheduleInterview: an event that moves nothing.
Record(a) ==
  /\ a \in Listed
  /\ ~app[a].archived
  /\ Room(a)
  /\ events' = [events EXCEPT ![a] =
        Append(@, [kind |-> "recorded", from |-> app[a].stage, to |-> app[a].stage])]
  /\ UNCHANGED <<custom, pipe, post, app, upload>>

ArchiveApplication(a) ==
  /\ Live(a)
  /\ ~app[a].archived
  /\ app' = [app EXCEPT ![a].archived = TRUE]
  /\ UNCHANGED <<custom, pipe, post, events, upload>>

ApplicationsNext ==
  \/ \E s \in Customs : CreateStage(s) \/ DeleteStage(s)
  \/ \E p \in Posts :
       \/ CreatePost(p) \/ ArchivePost(p) \/ ReorderPostStages(p)
       \/ \E s \in Customs : CreatePostStage(p, s)
       \/ \E s \in Stages : DeletePostStage(p, s)
       \/ \E u \in Uploads : BeginPostVersion(u, p)
       \/ \E a \in Applicants, k \in Keys : CreateApplication(a, p, k)
  \/ \E u \in Uploads : AddPostVersion(u)
  \/ \E a \in Applicants :
       \/ \E s \in Stages : Transition(a, s)
       \/ Record(a) \/ ArchiveApplication(a)

ApplicationsSpec == ApplicationsInit /\ [][ApplicationsNext]_applicationsVars
-----------------------------------------------------------------------------
(* Properties.                                                             *)

\* Every stored application is one that applications() returns: the queries
\* join it with its posting's pipeline, so an application whose stage were
\* missing there could no longer be seen, moved or found by its key.
NoneDisappears == \A a \in Applicants : Live(a) => a \in Listed

\* A posting has at most one application that is not archived, and an
\* idempotency key names at most one application, archived ones included.
OneApplication ==
  \A a, b \in Applicants : Live(a) /\ Live(b) /\ a # b =>
    /\ app[a].key # app[b].key
    /\ app[a].post = app[b].post => app[a].archived \/ app[b].archived

\* The events explain the row: each stage change starts where the one before
\* ended, the last ends at the current stage, and applied_at and outcome_at
\* are set exactly when the application has been moved to such a stage.
Explained(a) ==
  LET e == events[a]
      Moved(S) == \E i \in DOMAIN e : e[i].kind = "stage_changed" /\ e[i].to \in S
  IN /\ e # <<>> /\ e[1].kind = "created"
     /\ \A i \in 2..Len(e) : e[i].kind # "created" /\ e[i].from = e[i - 1].to
     /\ Last(e).to = app[a].stage
     /\ app[a].applied = Moved({Applied})
     /\ app[a].outcome = Moved(Outcomes)

\* Each application is explained by its own events.
HistoryExplains == \A a \in Applicants : Live(a) => Explained(a)

\* What the pages of a user's applications rely on, whatever was done to the
\* pipelines meanwhile.
ApplicationsSound == NoneDisappears /\ OneApplication /\ HistoryExplains

\* What is closed stays as it was: an archived posting gains no version, even
\* from a request that found it active and awaited the text; an archived
\* application changes in nothing; one that reached an outcome keeps it.
ClosedIsFinal ==
  [][/\ \A p \in Posts : post[p].state = "archived" => post'[p] = post[p]
     /\ \A a \in Applicants : Live(a) =>
          /\ app[a].archived => app'[a] = app[a] /\ events'[a] = events[a]
          /\ app[a].outcome => app'[a].stage = app[a].stage /\ app'[a].status = app[a].status]_applicationsVars
=============================================================================
