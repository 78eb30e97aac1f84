# Verification of oh-my-interview-helper

TLA+ modules for the server's core (the durable job queue and its scheduler,
the event stream of a job, the provider invocation job, the path from a
confirmed disclosure to a stored draft), for the link to the CLI runner, for the
workspace around it (applications, documents, research, chat), for what these
call (providers and their models, the agents of this machine, pages of the web,
uploaded files), for the start of the server and for the client's views that
wait for it. TLC checks them on small instances, TLAPS
proves the central ones for every value of their constants. Paths below
are relative to `src/`; every module's header names the files it models, and
`PROJECT.json` maps each definition to its lines.

## The system and its parts

One Bun process (`server/src/index.ts`) serves an HTTP API and a Vue client
from one SQLite database and a directory of blobs. Work that takes long is a
*job*: a row that a scheduler in the same process claims, runs and ends. Most
job handlers call a model provider once, after the user has seen and confirmed
what will be sent, and store the answer. A separate runner process may connect
over a WebSocket to run providers' command line tools.

| Part | State it keeps | Operations | What must hold |
|---|---|---|---|
| Durable job queue, `server/src/jobs/repository*.ts` | `durable_jobs` (state, owner, lease, attempts, cancellation), `durable_job_events` | enqueue, claim, start, heartbeat, succeed, fail, cancel, finishCancellation, interrupt, recoverExpired, appendProgress, retainEvents | attempts stay within the policy, cancellation wins, the log agrees with the row, terminal rows are final |
| Job scheduler, `jobs/scheduler*.ts`, `runtime.ts` | active map, abort controllers, idle timer, heartbeat and timeout timers | start, pump, launch, execute, stop, forced interruption, cancel | external effects at most once, bounded concurrency, no lost wake-up, every job ends, a stop ends |
| Job event stream, `routes/job-sse-session.ts`, `routes/jobs.ts` | per connection: replay position, buffers, the write in flight | connect, receive, replay, drain, heartbeat, overflow, close | in order, nothing twice, no silent gap, the stream ends |
| Provider invocation job, `agents/provider-invoke-*.ts` | `provider_runs`, the coordinator's map of outcomes | run, report, terminal hook, reconcile | run and job agree, every run ends |
| Disclosures and generation, `disclosures/`, `workflows/`, `artifacts/` | confirmations, provider runs, draft series and revisions | preview, confirm, consume, call, store, provenance | one preview pays for one run, only what was shown is sent, drafts are backed and their staleness is reported |
| Runner link, `runner/`, `packages/runner/` | pairing codes, registration, sockets, pending streams, leases; on the runner its token, running CLIs and stored results | issue, pair, revoke, authenticate, claim, acknowledge, output, complete, fail, cancel, reconnect, restart of either end | what is yielded is what was printed, a revoked runner is out, a claimed run ends |
| Chat, `workflows/chat-service.ts` | conversations and messages | preview, send, cancel, time out | turns are whole, in their place, and agree with their job |
| Applications, `applications/` | stages, posts with versions and pipelines, applications, events | create, reorder, delete, move, note, archive | no application disappears, one per post, the log explains the row, what is closed stays |
| Documents and blobs, `documents/`, `storage/` | documents and versions, files named by hash, reference rows, the profile's selection | upload, upload many, select, archive, delete, collect | a version's file exists, nothing shelved grows |
| Research, `research/` | records with the blobs of their sources and analysis | run, refresh | a record's files exist |
| Prompt texts, `disclosures/sources.ts`, `workflows/source-content.ts` | what a preview showed, what was sent, what is recorded | preview, confirm, send, cite, store, compare | the texts sent are those shown and within their limits, and what is kept about them is what was sent |
| Web client, `client/src/` | task ids in the browser's storage, request numbers, pending flags, what is shown | submit, poll, resume, switch context, load, change, follow | what is shown belongs to the context, and is what the server has once all requests are over |
| Changes of the client, `security/local-security.ts` | the browser's one CSRF cookie, the server's secret | issue, send, validate, restart | only a change whose token was overtaken is refused |
| Providers' models, `providers/cli-runner.ts`, `local-cli.ts`, `direct-api.ts` | per stream: transport, child process, its directory, lines read | stream, health | an answer is whole or reported as failed, nothing is left behind |
| Provider kernel, `agents/kernel.ts`, `registry.ts` | per call: signals, timer, tool uses, failed outputs, usage | stream, abort, time out | a call ends once, and what it says last is true |
| Local agents, `job-search/`, `research/local-agent-*.ts`, `providers/local-cli.ts` | child processes and their directories | discover, analyse, stream, abort, time out | what one child lost costs nothing another found; only known sources are cited |
| Ingestion, `ingest/` | a fetch with its pinned address and timer; a staged file | resolve, connect, redirect, read; stage, extract, clean up | limits hold through redirects, a connection goes to an address that was checked, nothing stays |
| Start-up and migrations, `index.ts`, `db/` | `schema_migrations`, the exclusive transaction, the port | migrate, start the scheduler, listen, shut down | a process works on the schema of its release |
| Settings, statistics, configuration | wiring and validation; what their routes change is in the pages that call them | | |

Components interact by calls within one event loop (routes enqueue and cancel
jobs, the scheduler runs handlers, hooks run in the transaction that ends a
job), by subscriptions (the runtime publishes committed events to sessions),
through the database (another process on it sees rows, not events), through the
blob directory (the library and the research store the same contents), with
the runner by messages over a connection that breaks, and with the client by
requests whose answers may be lost or overtake one another.

The hard behaviours are what happens around an `await`, between two commits of
one handler and between two processes on one database: a lease that expires
under a handler that is still running, a timer later than its deadline, a
cancellation that races a result, an event published while a frame is being
written, a setting changed while a provider answers, a posting archived while
its text is stored, a user who changes the application while a view waits, a
timer that fires between a model's answer and its use, a host that is looked up
again, a server started while another one migrates, a crash anywhere.
`PROJECT.json` lists these hazards at their lines with the properties that
cover them, or the reason none does.

## Modules

| Module | Models | EXTENDS / INSTANCE |
|---|---|---|
| `JobLifecycle` | the abstract job: waiting, working, ended; what the queue promises | |
| `RetryPolicy` | `retryDelayMilliseconds` as a function, scaled | |
| `DurableJobs` | every transaction on `durable_jobs`, with the event each one writes | INSTANCE `JobLifecycle` |
| `JobScheduler` | several scheduler processes on one queue | `DurableJobs` |
| `ProviderInvoke` | the `provider-invoke` handler, its terminal hook and reconciliation | `JobScheduler` |
| `JobEventStream` | one job's events and one client of its stream | |
| `Generation` | from preview to draft revision, with everybody who may interfere | |
| `RunnerLink` | the server's and the runner's end of the link, and the link | |
| `Applications` | postings, pipelines, applications, events | |
| `Library` | documents, their contents on disk and in the database | |
| `Research` | studies and their records, beside the library in one store | `Library` |
| `Chat` | the turns of conversations | |
| `TaskView` | what the pages with background tasks have in common | |
| `ChatPage`, `PreparationPage`, `ResearchPage`, `SearchPage` | `WorkspaceChat.vue`, `PreparationView.vue`, `ResearchView.vue`, `JobSearchView.vue` | `TaskView` |
| `ListPage` | what the pages with lists have in common | |
| `DocumentsPage`, `ApplicationsPage`, `SettingsPage` | `DocumentsView.vue`, `ApplicationsView.vue`, `SettingsView.vue`, button by button | `ListPage` |
| `OverviewPages` | `HomeView.vue`, `SearchView.vue`, `JobWorkspaceView.vue` | `ListPage` |
| `StatsPage` | `StatsView.vue`, which polls | `ListPage` |
| `ClientChanges` | the token and the cookie a change needs | |
| `PromptSources` | the texts of a prompt: shown, confirmed, sent, cited, recorded | |
| `ProviderCall` | one call of a provider through the kernel | |
| `ProviderModels` | the stream of a provider's model, and its health probe | |
| `LocalAgents` | a call of the machine's own agents: job search, discovery and analysis of sources, model | |
| `PublicFetch` | the text of a public page | |
| `FilePreview` | the text of an uploaded file | |
| `Startup` | servers that come and go on one data directory | |
| `MCWorkspace` | chooses one part of the workspace | `Applications`, `Research`, `Chat`, `Startup`, the pages but `StatsPage` |
| `MCProviderInvoke` | chooses the job or one of the things jobs call | `ProviderInvoke`, `ProviderCall`, `ProviderModels`, `LocalAgents`, `PublicFetch`, `FilePreview`, `PromptSources` |
| `MCJobEventStream` | chooses the stream, the statistics page or concurrent changes | `JobEventStream`, `StatsPage`, `ClientChanges` |
| `MCDurableJobs`, `MCJobScheduler`, `MCGeneration`, `MCRunnerLink` | constants and symmetry | the module of their name |
| `DurableJobs_proofs`, `JobScheduler_proofs`, `Generation_proofs`, `RunnerLink_proofs`, `Applications_proofs` | theorems | the modules they are about |
| `ProviderInvoke_proofs` | theorems about `ProviderInvoke`, `ProviderCall`, `ProviderModels`, `LocalAgents`, `PublicFetch`, `FilePreview`, `PromptSources` | `MCProviderInvoke`, `JobScheduler_proofs` |
| `JobEventStream_proofs` | theorems about `JobEventStream`, `ClientChanges`, `StatsPage` | `MCJobEventStream` |
| `Workspace_proofs` | theorems about `Startup`, `Library`, `Research`, `Chat`, `TaskView`, `ListPage` and their pages, and about the parts together | `MCWorkspace`, `Applications_proofs` |

`DurableJobs`: the columns are the variables; a job is its idempotency key, an
owner a scheduler's id. One action per repository call, and the guard is the
WHERE clause of its UPDATE. `ResolveFailures` is `resolveFailure` for a set of
jobs, as `recoverExpiredJobs` applies it. Time is `Tick`, which lets the
leases and retry delays run down; only whether they have run out matters.
`rank` is the order by creation.

`JobScheduler`: an owner is one incarnation of a process. A callback runs to
its end without another one of the same process, but each of its transactions
is a step, so that crashes and other processes come in between; `pc` tells
where `pump()` is. The n-th claim of a job is an attempt of its own (`att`),
since a handler that has lost its job goes on running. `active` and `aborter`
are the two maps keyed by job id, in which a later attempt overwrites an
earlier one, as in the code.

`ProviderInvoke` conjoins each scheduler action with what the handler or the
hook does in it: `Invoke` inserts the run, `InvokeConclude` and `InvokeForce`
end it in the job's transaction, `InvokePump` collects what `recoverExpired`
ended and `ReconcileRun` ends those runs one transaction at a time. There,
processes follow one another on a database, as `index.ts` has them.

`JobEventStream`: `sess` is a `JobSseSession` with the local state of the route
that drives it. `Commit` appends and publishes in one callback; whatever the
code awaits (a frame in flight) is a state between two actions.

`Generation`: a handler has no interleaving except at its one await (`Quiet`),
but its commits are separate steps, so a crash falls between them. A task
remembers what it read before the await (`found`) and, as history, what was
current when it built the prompt (`sent`, `under`).

`RunnerLink`: `hub` is what the server knows of a socket, `link` what the
connection is; they differ between the break and the hub's `close`. `up` and
`down` are the messages on their way: what the runner had sent on a dead link may
still be read, what the hub had sent is lost. `stream` is a pending entry with
its consumer, `lease` the ledger, `kept` the runner's `terminal` map. `ran` is
history: what each execution of a command printed, by which runner process.

`Applications`: every operation is one transaction, except that a version is
stored after an await (`upload` holds the requests there). `pipe` is the order of
a posting's stages; `Listed` is the join that `applications()` reads.

`Library` and `Research`: a content passes from its temporary file to its link, its
row and the version or record that refers to it; `Write`, `Link`, `Exists` and
`Verified` are the awaits of `BlobStore.put`. `Research` EXTENDS `Library`, since
its crashes and collections meet the same files.

`Chat`: a turn is a job; `Execute` runs to the await, `Answer` from it to the end
of the job, `Abort` is a cancellation or a timeout meanwhile, and `ChatCrash` may
fall between the run's end, the conversation, the question, the answer and the job's
end.

Parts that share no state are checked in one run: a variable `part` of the MC module
says which one moves, the others rest in an initial state, as interleaving them
would reach nothing more.

`TaskView`: `view` names which of the four pages it is (they differ in whether a
task belongs to a context, what is tested after each await and what is loaded).
A `thread` is an asynchronous function of the page (a submission, a poll, a load)
suspended at an await; threads are a bag, as only what they hold tells them apart.
After some awaits the code does not compare its context (`Careless`): that of a
token, and those of what a finished task is followed by. A context that is left
just then shows a result of another one; `calm` is the history that this has not
happened, and `ShownBelongs` is stated under it (see Observations).
A context is what a task is resumed by: an application, or on the research page
a posting, a kind of subject and a section; `PostingOf` says which contexts are of
one posting. The server has research by posting alone, so what a page lists is of
its `Kin`: on the research page all contexts of its posting, on the others its own.
`ShownBelongs` therefore asks of what is shown that it be of the page's kin, and of
what the page's own functions bring that it be of the page's very context.

`ListPage`: `page` names the page; a `call` is a request of its with the number it
was given; what a sheet shows is the states of the items when it was served, and
whether the server has changed since. A button is in a card only under the
conditions of its template (`v-if`, `:disabled`), so the guards of what the user
does are those of the page. `OverviewPages` has several requests answered at moments
of their own, while another tab adds things. `StatsPage` numbers nothing:
an answer is taken whenever it comes.

`ClientChanges`: a change fetches its token, is sent with it and with whatever the cookie
is by then, and is judged later; `overtaken` is history: whose token was replaced
in the cookie or outlived the secret.

`PromptSources`: a text is its reference and its length in units; there is one parent
of each kind, whose versions never change. `consent` is what was shown, `turn` what was
sent and cited, `recorded` what the database keeps of it, `moved` is history.

`ProviderCall`: `phase` is where the generator is suspended; `yielded` is what its
consumer has got. The agent of the SDK is a choice of events, with the promises the
kernel relies on named in the module's header. An event that ends the call carries,
as history, the signals as they were when it was decided.

`ProviderModels`: `answer` is what the agent would say if it is let finish, `heard` how
much of it the stream has taken, `given` what the kernel has got of it. An adapter is
`via`: a tool, on a paired machine or this one, or an API.

`LocalAgents`: `purpose` names the caller, and they differ in which tools are asked
in which order, whether there is a signal, and what becomes of a failure. `batch`
is one child at a time per batch of platforms; `Exits` is what follows its end, up
to the next child. What it printed is a choice of recommendations or citations.

`PublicFetch`: one action per await and outcome. `pinned` is the address a request
will use with the answer it was taken from, `trail` the connections made. Which
addresses are unsafe is a constant.

`FilePreview`: what the steps of `previewFile` find in the file is in `file` from the
beginning; `ReadDirectory` is the loop of `readZipEntries`.

`Startup`: a release is a function from migration ids to checksums. `draft` is the
database as the exclusive transaction sees it; `made` is which migrations' SQL has
taken effect, which the code never records.

An operator `X_Something` next to `X` is a plausible mistake in `X`: each property
is paired with one that it must catch.

## What is checked

| Run | Instance | Shows |
|---|---|---|
| `queue` | 2 keys, 2 owners, 3 kinds (local with a retry, external, runner), leases of 2 ticks | `WithinBudget`, `CancellationWins`, `OwnedIffHeld`, `AuditTrail`, `LogCountsRow`, `BoundOnce`, and that the queue implements `JobLifecycle` |
| `scheduler_crash` | 1 job of any kind, 3 processes: one crashes, one stops, late timers | `ExternalOnce`, `SuccessEarned`, `NoLostWakeup`, `OnlyHolderEnds` |
| `scheduler_punctual` | 2 jobs, 2 processes, heartbeats in time, the first may crash or stop | `BoundedConcurrency`, `HeldIsWorkedOn`, `CleanExit` |
| `scheduler_liveness` | 1 job of any kind, 2 processes, one crashes or stops | `EveryJobEnds`, `CancellationEnds`, `StopEnds` |
| `scheduler_late` | 2 jobs, 1 process with late timers | violates `BoundedConcurrency`: finding 1 |
| `provider_invoke` | 1 external job, 3 incarnations, two may crash; a call of 4 events, 1 tool; 2 batches, 3 postings, 2 scores; 3 pages, 2 redirects; 3 names of entries; 4 sets of inputs, 2 versions; 4 outputs of a model | `RunAgrees`, `NoStrayOutcome`, `RunEnds`, `AgentCallsSound` (`CallTells`, `AgentsSound`, `ModelsTell`), `IngestionSound` (`FetchSound`, `PreviewSound`, `TextsSound`) |
| `event_stream` | 4 events, buffers of 3, pruning, disconnections; 2 jobs on a page, 2 requests; 2 changes, 6 tokens | `StreamSound` (`NoSilentGap`, `NothingDropped`), `PagesTell` (`StatsSound`, `RefusedIfOvertaken`), `InOrder`, `FeedsDeliver` (`ReplayDelivers`, `JobsSettle`) |
| `event_stream_heartbeat` | 2 events | violates `TerminalDelivered`: finding 2 |
| `generation` | 2 previews, 2 confirmations, 2 tasks, 1 series, 2 versions, 2 sets of capabilities | `OneRunPerPreview`, `SentAsShown`, `DraftsBacked`, `RetiredIsClosed` |
| `generation_stale` | as `generation` | violates `ChangeReported`: finding 3 |
| `runner_link` | 1 run, 1 pairing code, 4 sockets, 2 runner processes, 3 possible outputs | `RunsFaithful`, `RevokedIsOut`, `RunSettles` |
| `workspace` | 1 posting, 2 applications; 2 documents, 2 contents, 1 upload, 1 study; 3 turns; 2 servers, 5 releases; 3 contexts (two of one posting), 2 tasks; 2 items, 2 requests, 3 clicks | `ApplicationsSound`, `StoreSound`, `ConversationSound`, `SchemaSound`, `ViewSound` (`ShownBelongs`, `BusyEnds`), `PagesSound` (`PageFresh`, `OneChange`, `OverviewSound`), `NothingReopens` (`ClosedIsFinal`, `ShelvedIsFinal`) |

Bounds, and why they are enough to see the interesting cases:

- Jobs interact only through the order of claims and the slots, so two are
  enough for one to overtake, fill or outlive the other. The scheduler runs use
  one job where the question is about several processes, two where it is about
  slots.
- A job is claimed at most `MaxAttempts` (2) times: the second attempt is the
  one that meets the remains of the first. There is no third kind of attempt.
- `LeaseTicks` is 1 or 2: late timers need a lease that ends at once, punctual
  ones a lease with time to renew it.
- Three processes let a job be lost twice; in `ProviderInvoke`, the
  third is the one that must clean up after two crashes.
- `MaxEvents` 4 with `MaxBuffered` 3: pruning in the middle of the log, a
  buffer that is filled, and one that is exceeded. `Reset` and reconnections
  are unbounded.
- In `Generation`, two tasks are enough for a confirmation to be used twice, and
  for one to find its series created, archived or extended by the other; two
  previews let both tasks have paid, which series need.
- In `RunnerLink`, one socket pairs, one is lost while messages are on their way
  in either direction, one is opened by the same or another runner process, and
  one more after that. The outputs are the three that the hub treats differently:
  lines that end in another chunk or never, a malformed line, and stderr.
- In `workspace`, two applications compete for one posting, two keys and a custom
  stage; two contents let an upload share one with a study and differ in the
  other; a third turn is needed for one to overlap another and start from the
  history of the two; two contexts are enough to leave one and come back, and on the
  research page two are of one posting and the third is of another. `FewContexts`
  keeps the chat and the preparation in the first two, and has nothing asked for in the
  third: there it matters only that nothing of the first two is shown.
  `MaxThreads` (3) and `MCCalls` (2) limit what is awaited at a time: an older answer,
  a newer one and, for a view, a poll. `MaxClicks` (3) is what a user of a list does: enough
  to open the details of an item, change it and go to another. The releases grow, fork,
  or lack a migration in the middle, and two servers start at the same time or one
  after the other.
- In `provider_invoke`, beside the job: four events of an agent are a tool's use and its
  end, twice: the second failed output must end the call. Three postings in two answers
  of two fill a result of `MaxShown` (2) and leave one out; a score of 0 is an invalid one.
  Two redirects are one allowed after the first and one refused. Two entries within a
  limit of two, three beyond it; sizes of 1 and 2 meet `MaxUnpacked` (3) or exceed it.
  Texts of 3 units exceed `MaxSource` (2), two of 2 exceed `MaxTotal` (3), and an empty
  text is one of the lengths; the inputs contain an older version, the same source
  twice, and a revision of the series itself. The outputs of a model are none, one
  text, one after noise and before its usage, and two of each.
- In `event_stream`, beside the stream: two jobs let one be retried into the other, and
  two requests overtake each other. Two changes overlap in every way; six tokens are
  more than can be in use, so a new one is always new.
- Parts of a run share no state, so one moves at a time, and for the same reason they
  may share model values (see `MCWorkspace`).

Deadlock is checked in all runs but `runner_link`, `workspace` and `provider_invoke`: a
link has a last socket and a revoked runner cannot pair again; events, versions,
turns and clicks run out; a call that has ended takes no more steps. Symmetry is
used over jobs, owners, the tables of `Generation` and the ids of `workspace`, in
runs without liveness properties only.

The type invariants are there for proofs to rest on and are no property of a run:
what could break them breaks a property that is. Those of `DurableJobs` and
`Generation` are proved, those of other modules where a proof needs them.

## Fairness

- `JobScheduler`: weak fairness of the callbacks of each process, of each
  timer and of time. The event loop runs what is due and timers fire, although
  late by any amount. Nobody has to enqueue, cancel, stop or crash, and **no
  handler has to settle**: `EveryJobEnds` rests on timeouts and leases alone.
  Not every process may crash, or nobody would be left to recover jobs; this is
  the operator who starts the server again.
- `ProviderInvoke`: the same; the provider need not answer.
- `JobEventStream`: writes get done and the client reads. It need not
  connect again, and no further event need be committed: this is what makes
  finding 2 a lost event and not a slow one.
- `RunnerLink`: the event loops of both ends read what has arrived and hear of
  closed sockets, the runner connects again (`superviseOutboundRunner` tries every
  second), and a CLI ends (`RunnerProcessExecutor` kills it after two minutes).
  Links need not stay up; they may be lost as often as the sockets last.
- `StatsPage`: the page's timer goes on (`setInterval` is cleared only when it is left),
  a request that changes something or asks for events ends, and of ever so many lists
  asked for, one is served and one arrives. No single request has to be answered.
- The other modules have no liveness properties and no fairness. Where parts share a
  run, the fairness is that of the part that moves (`MCFairness`).

## What is proved

For every set of jobs, kinds, owners, policies and lease lengths
(`DurableJobs_proofs`), from the named assumptions of `DurableJobs` (finitely many
jobs, positive attempts, delays that are natural numbers, `None` is no owner):

- `TypeCorrect`. `TypeOK` is not inductive: the retry delay is looked up by the
  number of attempts, so the row of an enqueued job must have a kind (`Known`).
- `AttemptsBounded`, `CancellationIsFinal`, `OwnershipMatchesState`, from one
  invariant per row (`RowOK`): a queued row has an attempt left, a request is
  only found on running or cancelled rows, a row has an owner exactly while it
  is held. Each is needed for another: success is decided by the request,
  a retry by attempts and request, both only for held rows.
- `AuditTrailTrue`: that each event may follow the one before needs that the last
  event tells the state, and that it is `cancellation_requested` exactly while
  a running row has a request (`TrailOK`).
- `LogTellsRow`: attempts and requests are what the log says (`CountsOK`). Each
  transaction either appends one event and counts it or does neither.
- `KeysBoundOnce`: no step changes a key's kind, its place or a terminal row.
- `ImplementsLifecycle`: initial states map to initial states, and each step to
  one `JobStep` per job or a stutter (`JobMoves`, `LifecycleStep`).

For any number of scheduler processes, with late timers, hanging handlers, crashes
and stops (`JobScheduler_proofs`), assuming that there is at least one slot. Every
step does one of five things to the attempts: nothing (`Rests`), make one
(`ClaimNext`), carry one on (`Works`), finish one (`Ends`) or abandon those of a process
(`Dies`). `SchedulerMoves` shows this once, and the invariants are shown on the
five:

- `SchedulerTypeCorrect`, `ExternalRunsOnce`, `SuccessIsEarned`, from `SchedulerInv`:
  attempts are numbered by the claims of their job, so what bounds the claims
  (`SafetyInv` of the queue) bounds the calls of handlers; the maps of a process name
  attempts of its own that are not finished (`EntryOK`), so no process writes on
  another's; a success is that of an attempt that is over (`Earned`), which no
  step changes any more.
- `HolderEndsIt`, an action property: what reconciles, claims or recovers spares a
  running row whose lease is alive (`SparesAll`).
- `SchedulerWakes`, from `Awake` for each process: with every slot taken no timer is set,
  and there is a slot only because the map is not empty.
- `SchedulersUseTheQueue`, `SchedulersKeepLifecycle`: each of the five is a step of
  `DurableJobs` or leaves it alone, so the processes promise what the queue promises.
- **Assuming that no timer of a living process is late** (`Punctual = Owners`; finding 1
  is what happens otherwise), three theorems from `AloneInv`: an unfinished attempt is
  the newest of its job, its process lives and has it in its map, and the row is that
  process's or has come to its end (`WorkOK`); a row held by a living process has a
  living lease, and its newest attempt stands where the row says (`HolderOK`).
  `OneWorkerPerJob` reads `HeldIsWorkedOn` off it. `SlotsSuffice` is
  `BoundedConcurrency`: the attempts map injectively into the process's own map
  (`WithinSlots`), which `pump` counts before it claims. `ExitedOwnsNothing` is
  `CleanExit`: who has stopped had waited for an empty map.

For any number of provider jobs and scheduler processes (`ProviderInvoke_proofs`), with
the assumptions of the scheduler:

- `InvokeIsScheduled`: a step of the provider job is a step of the scheduler, with the
  handler's work in between as a stutter.
- `RunsAgree`, from `RunInv`: whose outcome is still to be written has come to its
  end, so that nothing moves its row again, and the provider run follows the row.
- `NothingStrays`, from `OutcomeInv`, with one process at a time (`OneAlive`, which the
  module models), **assuming that all these jobs are external**, as `enqueue` has them
  (`server/src/agents/provider-invoke-job.ts:60`): a job that may be put back would take
  the outcome of its first attempt along.

For any number of previews, confirmations, tasks, series, versions and
capabilities (`Generation_proofs`), assuming that `None` is none of the values it
stands for:

- `GenerationTypeCorrect`, with the finiteness of the revisions, which are
  numbered by counting.
- `OnePreviewOneRun` and `OnlyTheShownIsSent`, from `ConsentInv`: no two
  confirmations share a preview, a confirmation keeps the setting that was shown,
  and knows the one task that has used it. After its start a handler changes none
  of this (`OrderKept`).
- `DraftsAreBacked`, from `DraftInv`: who is about to store has paid, its run
  has succeeded and it was not given up; who has stored is over, and `OverKept`
  says that nothing about it changes any more. `NextNumber` is the counting.
- `RetiredStaysClosed`, an action property.

For any servers and any releases (`Workspace_proofs`), assuming that a release has
finitely many migrations with natural numbers as ids:

- `SchemaIsSound`, from `SchemaInv`: who has the transaction is the one process at
  work, its draft extends the rows, and the rows it adds are the first of its
  release (`Partly`), so that each id is greater than those before (`RecordNext`).
  At the commit the others keep what they have (`FitsLonger`): all that is new
  comes after their own migrations. `QuietStep` is every step that leaves the
  database alone.

For any documents, contents, uploads and studies, with crashes at any moment and
collections between requests (`Workspace_proofs`):

- `StoreIsSound`, from `StoreInv`: what is registered is on disk; versions are sequences of
  registered contents, records name registered ones; a request in flight knows what it
  aims at, and no other upload creates the same new document (`RequestOK`); what is
  being verified is still on disk, whoever else dies (`StudiesInv`).
- `ShelvedStays`, an action property, from the same invariant: an upload looks again at
  the state of its document when it registers, so one that found it active adds nothing
  to it once it is archived.

For any conversations and turns (`Workspace_proofs`):

- `ConversationsAreSound`, from `ChatInv`: a provider run is running only during its job,
  unless the process died (`LifeOK`); conversations only grow, so what was disclosed
  stays a beginning of its conversation (`HistoryOK`); what is kept belongs to a run that
  succeeded (`TellsOK`); a turn's messages are neighbours in one conversation (`PlaceOK`),
  the question with its answer next to it unless the process died between them
  (`WholeAt`).

For any contexts and tasks, and any number of functions of a page at their awaits
(`Workspace_proofs`):

- `ViewsAreSound`, from `ViewInv`. A task is `OwnedBy` the context it was asked for in;
  what is kept in the browser's storage for each context, and what a function that
  submits or resumes has in hand while it is `here`, is owned by the right one; what
  is shown, and what a function that opens has in hand, is `Showable`: owned, or on
  the research page asked for in a context of the same posting (`PageOK`, `ThreadOK`).
  `OwnedBy` says nothing once `calm` is over, because the storage then names a task of
  another context for good; as long as it holds, who is at an await after which
  nothing is compared (`Unchecked`) is here. A flag stays set because a function of
  this context is there to reset it (`Busy`, `InReview`, `Opens`), and the step that
  ends that function is the one that resets the flag, or the one that changes the
  context resets it. The functions are a bag: a page may have two that are alike, so
  one that goes on leaves the others (`RestIs`, `Placed`), and what is done to all of
  them is done to each kind (`EachIs`).

For any finite set of runs, any outputs, registrations and connections, with lost and
repeated messages, reconnections and restarts on both sides (`RunnerLink_proofs`):

- `RunsAreFaithful` and `RevokedRunnerIsOut`, from `LinkInv`. What is on its way was
  sent by an execution, after all that precedes it there (`Backed`); the ledger has a
  beginning of an execution's output, and `seen` its numbers (`LedgerOK`); the
  stream stays read when it is over (`ReadOK`); a process remembers what it
  executes (`ExecutedOK`); to a run that was not claimed nothing has happened
  (`UntouchedOK`); only active registrations have sockets and pending runs
  (`ActiveOK`). `Backed` is needed for `LedgerOK`, which accepts a chunk by its number
  alone: the number says the place only because the sender counts. `StdoutAppend` and
  `StdoutPrefix` are about the recursive function that collects the output, and
  are shown by the least counterexample.

For any postings, applications, keys and stages (`Applications_proofs`), assuming
that the system stages are finitely many and that no custom one is among them:

- `ApplicationsStaySound`, from `ApplicationsInv`: an application's posting exists
  (`PostsExist`), or creating one would replace the pipeline the application stands
  in; then a pipeline's editing matters only for the stages of its applications
  (`PipelinesKeep`, which rests on `OrderedAll` and `PlaceRemoved`), an event that
  starts at the stage of its row continues the history (`LoggedExplains`), and keys
  are told apart because no application is missing in the list in which they
  are looked for.
- `ClosedStaysClosed`, an action property, with `OutcomesStay`: what was moved to an
  outcome stands there, and is not `Movable`.

For one stream with any number of events and buffers of any size (`JobEventStream_proofs`):

- `StreamIsSound`, from `StreamInv`. `NoSilentGap` is about the client alone and is not
  inductive: a gap would be made long before the client could read it. So the
  invariant follows an event from the log on. Up to `latest` each has left the
  session, is the frame in flight or was deleted before the client started
  (`SentOK`); behind `latest` a queue has no gap either (`QueuesOK`, `GapFree`), although
  every commit offers the whole log again, so that the queue is not sorted; a
  session that is not over has in its hands all it has not sent (`NothingLost`); what is
  on the wire is in order (`ClientOK`). After a pruning it is `CursorLost`
  that tells whether something the client has not read is gone: it must look at
  the watermark, and not at the id alone.
- `EventsInOrder`, an action property, from `ClientOK`: what is sent is larger than all
  that was sent.
- The log's order (`InLogOrderAscends`, `StoredAfterIs`, `BySequenceIs`) and one publication
  (`OfferFollows`, `OfferOK`) are recursive functions, and their lemmas are shown by the
  least counterexample; `ReceiveOK` is the step of the latter.

For any number of pages and tokens (`JobEventStream_proofs`), assuming that a new token is
nobody's:

- `OnlyOvertakenIsRefused`, from `OvertakenTold`: at every moment a change is overtaken
  exactly if it would not be accepted, because no two have the same token.

For any jobs of the statistics page and any number of its calls (`JobEventStream_proofs`):

- `StatsAreSound`, from `StatsInv`: an answer is true of the server as it was, a job that is
  over stays over (`Onwards`), so no old list shows one as over that is not; the events
  are asked for and kept by the job that is expanded; each flag has a call that lowers it.
  The page numbers nothing, and none of this needs it to.
- `PagesTellWhatIs` puts the parts of the run together: the one that moves keeps its
  invariant, the other rests.

For any items of the pages with lists and any number of their calls (`Workspace_proofs`):

- `PagesAreFresh`, from `ListInv`, which follows each sheet (`FollowedOK`). `PageFresh` speaks
  of a page at rest only and is far from inductive. Until then a sheet that is
  not up to date has a newest fetch that will bring it (`Brings`), or a function that
  will still fetch it (`Pursues`: a change that was served, before its own reload). A
  newest fetch whose answer is out of date already is the hard case: a change was
  served after it, so somebody pursues the sheet again or an error says so. Each flag has
  a call that lowers it (`FlagsHeld`). `OneChange` needs that a guarded function has
  its flag up from the click to the reload, and that no other function has such a flag
  (`GuardsOK`). The details of an application are not followed (`DetailsOK`).
- `OverviewsAreSound`, from `OverviewInv`: each answer a load has lies between what there was
  when the page was opened and what there is (`RowsOK`), as facts only come and come in an
  order (`Causal`); so what several answers say together is not torn. `JobInv`,
  `SearchInv` and `HomeInv` say what the load under way will still bring. Proving it
  showed that the lists of a load are told apart only if no posting is named like one
  (`OverviewAssumption`), and that two guards in `Wanted` overlapped.
- `PagesAreSound` puts the pages of the run together.
- `PartsAreAlone`: in the whole workspace, the pipelines, the library with the research,
  the conversations and the start-up each behave as their own specification says, so
  the theorems about them hold there. `NoneReopens` follows from it with
  `ClosedStaysClosed` and `ShelvedStays`.

For any pages, files and requests that jobs work on (`ProviderInvoke_proofs`):

- `FetchesAreSound`, from `FetchInv`: between the lookup and the connection, `pinned` is an
  address of the answer that was checked, for the host of the request (`Safe` says this of
  each connection made), and the last connection is to what the text is kept for.
- `TextsAreSound`, from `PromptInv`: what was sent is the preview's prompt, made of the
  texts of the request that came with the confirmation (`SentOK`), each within its share
  of the total, so that they fit however many they are (`TogetherBound`); of each input
  kept, its parent has moved on or is gone exactly if it is among `moved` (`KeptOK`).
- `PreviewsAreSound`, from `PreviewInv`: what each stage leaves under `preview-uploads`, and
  that the entries read so far have different, safe names and are within the limit
  (`GoodUpTo`, by induction along the archive).
- `IngestionIsSound` puts the three together.

For any calls that jobs make of agents (`ProviderInvoke_proofs`), whatever is printed
(sequences of `Items`) and whatever postings, batches and limits there are:

- `CallsTell`, from `CallInv`: until a call ends, nothing it told is an end; then exactly the
  last event is, and agrees with the signals as they were (`EndOK`), for both are read in
  the step that ends it. A result is told only of the tool in `use`, whose start is the
  last of the tools' events (`StartedOK`), so no other call comes between.
- `ModelsTell`, from `ModelsInv`: what was given so far is the texts among what was
  heard so far, each at the place of its number (`GivenTo`, by one more text
  at a time); a stream that is done has heard all (`Whole`). The usage it gives is that of
  the last one, which `Largest` shows to exist.
- `SearchesAreSound`, from `AgentsInv`: a result holds only once no child runs, so what it
  was merged from stays. The rest is about `Merge`: what was gathered keeps each posting
  once with the best of its scores (`KeepsBest`, recommendation by
  recommendation and batch by batch, by the least counterexample); the places of a
  stable sort are a permutation (`Place` is an injection of a finite set into itself), so the
  sorted list has the same entries, the best first (`Leads`), and a prefix of
  it leaves out none better than one it shows (`ShowsBest`).
- `AgentCallsAreSound` puts the three together (`PartsInv`: of what jobs call, one part moves).

The lists of `LocalAgents` are recursive functions, and its stable sort gives an entry the
place after all that come before it: the folds and sorts of the libraries take
operators, which the provers cannot instantiate.

Only model-checked: all liveness (`EveryJobEnds`, `CancellationEnds`, `StopEnds`,
`FeedsDeliver`, `RunEnds`, `RunSettles`), out of the prover's reach under fairness. Every
invariant and action property of the passing runs is stated by a theorem.

## Findings

1. `scheduler_late`. `pump()` recovers expired leases before it claims, its own
   included (`server/src/jobs/scheduler.ts:83`). If a heartbeat is later than the
   lease, a scheduler requeues the job its own handler is working on, claims it
   again and overwrites the first attempt's entry in `active`: it then runs more
   handlers than `concurrency`, and a local job twice at a time. With punctual heartbeats
   (`scheduler_punctual`) this does not happen.
2. `event_stream_heartbeat`. An event published while a heartbeat is being written
   stays in `pending`: `drain()` returns because of `writing`, `heartbeat()` does
   not drain when it is done, and later heartbeats return because `pending` is
   not empty (`server/src/routes/job-sse-session.ts:73`). If it was the job's last
   event, the client never gets it and the stream stays open.
3. `generation_stale`. `createRevision` records the sources' current versions and the
   provider's capabilities after the provider has answered
   (`server/src/artifacts/draft-artifact-service.ts:91`). What changed meanwhile
   is recorded as if it had been there from the beginning, and the draft is
   not reported as stale.

## Observations

What the models show beside the findings. No document promises otherwise, or it
is reached only in a way the runs leave out; whoever changes the code should know.

- Runner link. The hub counts a chunk as processed before it parses it
  (`server/src/runner/websocket-hub.ts:125`): a malformed line closes the connection
  and is passed over when it is sent again, and if it was the completion's rest, the
  lease is completed and the run stays pending. After a restart of the runner the
  command of a pending claim runs again; the `outputHash` of the completion is not
  compared with what the ledger holds. `cancel` goes to the socket of the claim,
  which is dead after a reconnection. After a close with 1008 the runner gives up
  but its CLIs go on. A revoked name cannot be paired again, and its code is spent.
- Research. `ui.research` gives its signal to the discovery of sources only: cancelled
  or timed out later, it still stores its record. Two sources that lead to the same
  page make `save` fail, and the whole study with it.
- Applications. An application that was created while an outcome was the first stage
  of its posting's pipeline can never be moved.
- Pages with tasks. A poll that ends late may erase the id of a newer task. What follows
  an await without a look at the context (`Careless`) may show another context's result.
  The research page resumes tasks by posting, kind of subject and section, but lists
  records by posting alone (`ResearchView.vue:137-148`, `research/repository.ts:108-115`)
  and opens the newest, of whatever kind: the people area of a posting opens its company
  research, with no race involved. The chat opens the oldest conversation, `at(-1)` of
  a list whose newest is first (`WorkspaceChat.vue:210`).
  The chat may show a turn's messages twice, and may preselect research sources that it
  does not list. `PreparationView` loads a culture interview's sources without a look at
  the context, and an older provenance stays beside a newer revision until its own is
  there. In `JobSearchView`, an older discovery that is resumed may overwrite a newer one
  and erase its id, and a late load may un-mark a posting that was saved meanwhile.
- Pages with lists. `savePosting` and `addNote` clear what was typed during their request.
  `addPostingVersion` clears its flag at the end of the first of two submissions.
  `archivePosting` does not raise the number of the versions' requests. An application's
  open history is not fetched again after a move, a comparison of postings never.
- Overviews. Home, search, statistics and job search show an error when they are left
  before they have loaded. Home may show the stage of an application beside another
  posting's title if both were made between its requests, and sorts with NaN where an
  application has no date. Search says that nothing was found while it is still
  loading. The counts of a posting's workspace stay the previous posting's until it has
  loaded.
- Statistics. An older list may replace a newer one until the next poll. `retryJob` may
  show a job twice. Which job is being cancelled or retried is one value for all, and
  `eventsLoading` is lowered by whichever fetch ends.
- Changes. Two pages or tabs that change something at the same time overtake each other's
  cookie: one of the changes is refused with an error, and has to be repeated by hand.
- Prompts. The same source twice in a request passes preview, confirmation and payment and
  is refused by the primary key of `draft_artifact_inputs` when the revision is stored,
  which leaves an empty new series. A draft made from a revision of its own series is
  stale from the start.
- Models. A local tool that ignores SIGTERM keeps its stream and its directory: nothing
  kills it. The stream of a tool gives its start event before it finds that no machine
  is connected. One misconfigured API keeps the server from starting.
- Provider kernel. `usage` is overwritten by each turn of the agent, not summed. A call
  that its caller cancelled is reported as a retryable timeout if the timer fires
  before the agent stops. Neither the signal nor a timer interrupts `health()`.
- Local agents. An answer that does not parse fails its batch at once; the other tool is
  asked only if there was none. `run` and `LocalCliTransport` listen for an abort that
  never comes again if the signal was aborted before they started: such a child has
  no timeout. The analyzer passes no signal on.
- Ingestion. The timer of a fetch does not interrupt a lookup. A write or rename that
  fails, or a crash, leaves a file in `preview-uploads` that nothing removes. A PDF that
  timed out is read to its end in the background.
- Start-up. When `Bun.serve` raises (the port is taken) the scheduler has started
  already: the process stays alive and works on the jobs of the same database beside
  the server that holds the port. Signals are handled only once it listens.
- Queue and generation: see the hazards without a property in `PROJECT.json`.

## What is not modelled, and why

- Database errors: a statement of SQLite that fails. The repository calls commit
  or are refused; so a `pump()` that raises, and a hook that does, are outside.
- In `DurableJobs`: `appendProgress` and `retainEvents`, which write no column of
  the job; they are in `JobEventStream`. Payloads, error texts and timestamps.
- In `JobEventStream`: other clients (sessions share nothing), the polling
  route, events of other processes, which are not published.
- In `ProviderInvoke`: two jobs with the same run id; two processes at a time.
- In `Generation`: other kinds of sources (they resolve as documents do), the prompt
  registry (fixed at start-up), contents, citations and hashes, a series of
  another kind than the task's (refused like an archived one), renamed documents.
- In `RunnerLink`: several runner names and providers (`ready` chooses among sockets
  of one), messages with another lease or hash than the claim's (the runner sends
  none), heartbeats (they write `last_seen_at`), the probe of the CLIs.
- In `Applications`: names, dates and texts, search and paging, `startApplication`
  (two of the requests here). In `Library`: titles, kinds, extraction and previews;
  an upload during a collection, which nothing in production starts. In
  `Research`: citations, lineage and the job. In `Chat`: the cut of the history
  to its last twenty messages, and archived conversations, which no route makes.
- In the pages: what is drawn; forms; requests that the server processes after the client
  saw them fail; several uploads at once; the comparison of postings; the shell
  (`AppShell.vue`, which counts active jobs as `StatsPage` does) and its settings;
  `CultureInterviewView.vue`, which shows the preparation view again. A list of several
  requests is answered as of one moment, but in `OverviewPages`.
- In `ClientChanges`: the checks of origin and host, which look at one request alone, and
  the lifetime of a cookie.
- In `PromptSources`: wording, prompts' templates, what a citation quotes, hashes (two texts
  are the same if they are of the same version), several parents of a kind.
- In `ProviderCall`: the SDK's agent (any events in the order the header names), the limits
  given to it, costs, the contents of messages. In `ProviderModels`: the configuration of
  an API, the vendors' formats, the tools' arguments.
- In `LocalAgents`: prompts, the formats of what children print, their arguments.
- In `PublicFetch` and `FilePreview`: how text is taken from HTML, XML and PDF, the table
  of unsafe addresses, the bytes of an archive's directory, several entries of one
  name in different spellings other than a separator.
- In `Startup`: what migrations create; `enableWal` (a start that may fail).
- Settings, statistics and configuration: validation, wiring, the queries of the figures,
  the choice of a provider at start-up. Locales, styles, and the views without requests
  of their own.

## Plan

Done, in this order: `JobLifecycle`, `DurableJobs`, its proofs, `JobScheduler`,
`JobEventStream`, `ProviderInvoke`, `Generation`, its proofs, `RunnerLink`,
`Applications`, `Library`, `Research`, `Chat`, `ProviderCall`, `LocalAgents`,
`PublicFetch`, `FilePreview`, `Startup`, its proofs, `TaskView` and `ListPage` with
their pages, `StatsPage`, `OverviewPages`, `PromptSources`, `ClientChanges`,
`ProviderModels`, the proofs of `Applications`, `ClientChanges` and `JobScheduler`, of
`ProviderInvoke`, `Library`, `Research`, `Chat`, `RunnerLink`, `JobEventStream`,
`TaskView`, `PublicFetch`, `StatsPage`, `OverviewPages`, `ListPage`, `PromptSources`,
`FilePreview`, `ProviderCall`, `ProviderModels` and `LocalAgents`.

Next proofs: those of the models below, once they exist; what is left of these is liveness.

Next models: a variant of `ProviderInvoke` with two jobs that name the same run, and
of `JobScheduler` with transactions that may fail; the shell and its settings store; the
comparison of postings; the automatic choice of a provider.
