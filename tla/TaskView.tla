------------------------------ MODULE TaskView ------------------------------
(***************************************************************************)
(* What the pages of the web client that start a task, watch it and show   *)
(* what came of it have in common: client/src/lib/background-task.ts and   *)
(* parts of WorkspaceChat.vue, PreparationView.vue, ResearchView.vue and   *)
(* JobSearchView.vue (modules ChatPage, PreparationPage, ResearchPage and  *)
(* SearchPage).                                                            *)
(*                                                                         *)
(* A page belongs to a context that the user may change at any time        *)
(* without leaving the page: an application for the chat, a posting and    *)
(* the kind of draft for the preparation, a posting, the kind of subject   *)
(* and the section for the research.  Its functions                        *)
(* are async: a thread is one of them, held at an await.  A function       *)
(* remembers contextId when it starts and compares it later; loads and     *)
(* openings number themselves in the same way.  The numbers only grow, so  *)
(* a thread keeps just whether its own is still the current one.  Threads  *)
(* have no identity otherwise: they are a bag.                             *)
(*                                                                         *)
(* The id of the task in hand is kept in the browser, by scope (the kind   *)
(* of page and its context), and found again when the context is loaded.   *)
(***************************************************************************)
EXTENDS Naturals, FiniteSets, Bags

CONSTANTS
  Contexts,    \* what scopes are made of
  PostingOf,   \* the posting of each context of the research page
  Tasks,       \* jobs the page may enqueue
  MaxThreads,  \* bound: async functions at an await
  NoTask

ASSUME TaskViewAssumption == MaxThreads \in Nat \ {0} /\ NoTask \notin Tasks

VARIABLES
  view,      \* which of the pages this is
  ctx,       \* the context in the page's route
  ready,     \* the context has been loaded
  shown,     \* tasks whose result is on the page
  aside,     \* the task whose provenance is shown, or whose record is being opened
  reviewing, \* a review is on its way
  reviewed,  \* the context of the request in the review dialog, or "none"
  running,   \* the page's busy flag
  store,     \* localStorage, by the context of the scope
  task,      \* the server's jobs: state, and the context of their request
  thread,    \* async functions
  calm       \* history: no context was left while one of them was Careless

viewVars == <<view, ctx, ready, shown, aside, reviewing, reviewed, running, store, task, thread, calm>>

NoThread == [pc |-> "idle", op |-> "none", here |-> FALSE, latest |-> FALSE,
             task |-> NoTask, scope |-> "none"]

One(t) == SetToBag({t})
Threads == BagToSet(thread)
Rest(t) == thread (-) One(t)
\* The awaits after which a function does not compare its context with the
\* page's: that of a token, after which the scope is read, and those of a
\* revision or a list fetched for a task that is done.
Careless == {"token", "fetching", "reloading"}
\* The threads of a bag, each going on as its image says.
Each(threads, image) ==
  LET copies == UNION {{t} \X (1 .. threads[t]) : t \in BagToSet(threads)}
  IN [u \in {image[t] : t \in BagToSet(threads)} |-> Cardinality({c \in copies : image[c[1]] = u})]
MayStart == BagCardinality(thread) < MaxThreads
LoadThread == One([NoThread EXCEPT !.pc = "loading", !.op = "load", !.latest = TRUE])

TaskViewInit(v) ==
  /\ view = v
  /\ ctx \in Contexts
  /\ ready = FALSE /\ shown = {} /\ aside = NoTask
  /\ reviewing = FALSE /\ reviewed = "none" /\ running = FALSE
  /\ store = [c \in Contexts |-> NoTask]
  /\ task = [j \in Tasks |-> [state |-> "none", of |-> ctx]]
  /\ thread = LoadThread
  /\ calm = TRUE

Cleared ==
  /\ ready' = FALSE /\ shown' = {} /\ aside' = NoTask
  /\ reviewing' = FALSE /\ reviewed' = "none" /\ running' = FALSE

\* A page's watcher: what is shown goes, every number grows, a load starts.
SwitchTo(c) ==
  /\ c # ctx /\ MayStart
  /\ calm' = (calm /\ \A t \in Threads : t.pc \notin Careless)
  /\ ctx' = c /\ Cleared
  /\ thread' = Each(thread, [t \in Threads |-> [t EXCEPT !.here = FALSE, !.latest = FALSE]]) (+) LoadThread
  /\ UNCHANGED <<view, store, task>>

\* The page is closed, its requests are aborted, and one like it opens in c.
Reopen(c) ==
  /\ ctx' = c /\ Cleared
  /\ thread' = LoadThread
  /\ UNCHANGED <<view, store, task, calm>>

TaskEnds(j, state) ==
  /\ task[j].state = "active"
  /\ task' = [task EXCEPT ![j].state = state]
  /\ UNCHANGED <<view, ctx, ready, shown, aside, reviewing, reviewed, running, store, thread, calm>>
-----------------------------------------------------------------------------
(* Parts of the pages' functions.                                          *)

\* The function goes on as u.
Become(t, u) == thread' = Rest(t) (+) One(u)

\* finally: the busy flag is the current context's.
Finish(t) ==
  /\ thread' = Rest(t)
  /\ running' = (running /\ ~(t.here /\ t.op \in {"send", "resume"}))

\* Mutant: a result is shown wherever the user is by now.
Mine_Always(t) == TRUE

\* The function's own contextId is still the page's.
Mine(t) == t.here

\* What loads, or opens, or fetches a provenance is superseded by what starts now.
Superseded(threads, pcs) ==
  Each(threads, [t \in BagToSet(threads) |-> [t EXCEPT !.latest = @ /\ t.pc \notin pcs]])

\* A review of what the page would send is asked for.
Review ==
  /\ MayStart
  /\ reviewing' = TRUE
  /\ thread' = thread (+) One([NoThread EXCEPT !.pc = "reviewing", !.op = "review", !.here = TRUE,
                                              !.scope = ctx])
  /\ UNCHANGED <<view, ctx, ready, shown, aside, reviewed, running, store, task, calm>>

\* The dialog opens, in the context of the review only.
Reviewed(t) ==
  /\ t.pc = "reviewing"
  /\ reviewed' = IF Mine(t) THEN t.scope ELSE reviewed
  /\ reviewing' = (reviewing /\ ~t.here)
  /\ thread' = Rest(t)
  /\ UNCHANGED <<view, ctx, ready, shown, aside, running, store, task, calm>>

CloseReview ==
  /\ reviewed # "none"
  /\ reviewed' = "none"
  /\ UNCHANGED <<view, ctx, ready, shown, aside, reviewing, running, store, task, thread, calm>>

\* A request for task j starts at the given await; results is what is shown then.
Send(j, pc, results) ==
  /\ ~running /\ MayStart
  /\ task[j].state = "none"
  /\ task' = [task EXCEPT ![j] = [state |-> "asked", of |-> ctx]]
  /\ running' = TRUE /\ shown' = results
  /\ thread' = thread (+) One([NoThread EXCEPT !.pc = pc, !.op = "send", !.here = TRUE, !.task = j])
  /\ UNCHANGED <<view, ctx, ready, aside, reviewing, reviewed, store, calm>>

\* The disclosure is confirmed.
Confirmed(t) ==
  /\ t.pc = "confirming"
  /\ IF Mine(t)
     THEN Become(t, [t EXCEPT !.pc = "token"]) /\ UNCHANGED running
     ELSE Finish(t)
  /\ UNCHANGED <<view, ctx, ready, shown, aside, reviewing, reviewed, store, task, calm>>

\* The arguments of runBackgroundTask are complete: the scope is read after
\* the await of the token, the request was not.
Token(t) ==
  /\ t.pc = "token"
  /\ Become(t, [t EXCEPT !.pc = "posting", !.scope = ctx])
  /\ UNCHANGED <<view, ctx, ready, shown, aside, reviewing, reviewed, running, store, task, calm>>

\* The job is enqueued and its id stored.
Posted(t) ==
  /\ t.pc = "posting"
  /\ task' = [task EXCEPT ![t.task].state = "active"]
  /\ store' = [store EXCEPT ![t.scope] = t.task]
  /\ Become(t, [t EXCEPT !.pc = "waiting"])
  /\ UNCHANGED <<view, ctx, ready, shown, aside, reviewing, reviewed, running, calm>>

\* One of the requests fails: the catch shows a toast.
Failed(t) ==
  /\ t.pc # "loading"
  /\ reviewing' = (reviewing /\ ~(t.op = "review" /\ t.here))
  /\ aside' = IF t.pc = "opening" /\ t.latest THEN NoTask ELSE aside
  /\ Finish(t)
  /\ UNCHANGED <<view, ctx, ready, shown, reviewed, store, task, calm>>

\* resumeTask, in the context of now.
Resumed == IF store[ctx] = NoTask THEN EmptyBag
  ELSE One([NoThread EXCEPT !.pc = "waiting", !.op = "resume", !.here = TRUE,
                            !.task = store[ctx], !.scope = ctx])

\* load returns; whether it was superseded or not, its resumeTask follows.
Loaded(t, results) ==
  /\ t.pc = "loading"
  /\ thread' = Rest(t) (+) Resumed
  /\ ready' = (ready \/ t.latest)
  /\ shown' = IF t.latest THEN results ELSE shown
  /\ UNCHANGED <<view, ctx, aside, reviewing, reviewed, running, store, task, calm>>

\* A failure is thrown only by the load in force: the other one is followed
\* by resumeTask all the same.
LoadFails(t) ==
  /\ t.pc = "loading"
  /\ thread' = Rest(t) (+) (IF t.latest THEN EmptyBag ELSE Resumed)
  /\ UNCHANGED <<view, ctx, ready, shown, aside, reviewing, reviewed, running, store, task, calm>>

\* The contexts whose results the page lists: its own and, as the server has
\* research by posting, all contexts of the posting on the research page.
Kin == {c \in Contexts : IF view = "research" THEN PostingOf[c] = PostingOf[ctx] ELSE c = ctx}

\* Mutant: a list holds what was asked for anywhere.
Known_Everywhere == {j \in Tasks : task[j].state = "done"}

\* What the server lists for the page's context.
Known == {j \in Tasks : task[j].state = "done" /\ task[j].of \in Kin}

\* A poll that finds a progress event: only resumeTask's callback tells the page.
Poll(t) ==
  /\ t.pc = "waiting" /\ t.op = "resume" /\ Mine(t)
  /\ running' = TRUE
  /\ UNCHANGED <<view, ctx, ready, shown, aside, reviewing, reviewed, store, task, thread, calm>>

\* monitorBackgroundTask returns: the task is over, with a result or not;
\* whatever id its scope holds is removed.
Monitored(t, done) ==
  /\ t.pc = "waiting" /\ task[t.task].state = IF done THEN "done" ELSE "failed"
  /\ store' = [store EXCEPT ![t.scope] = NoTask]

\* The task failed, or nobody looks at its result.
Dropped(t, done) ==
  /\ Monitored(t, done)
  /\ Finish(t)
  /\ UNCHANGED <<view, ctx, ready, shown, aside, reviewing, reviewed, task, calm>>

\* What the pages have in common.
TaskViewStep ==
  \/ Reopen(ctx)
  \/ \E j \in Tasks, state \in {"done", "failed"} : TaskEnds(j, state)
  \/ \E t \in Threads :
       \/ Token(t) \/ Posted(t) \/ Failed(t) \/ Poll(t) \/ Dropped(t, FALSE)
-----------------------------------------------------------------------------
(* Properties.                                                             *)

\* What a page's own functions bring was asked for in the very context it is in,
\* and what it shows or opens in one of the same posting (the research page) or
\* in that context (the others), if the user left none while a function of it
\* was at a careless await; what it would disclose is always of its context.
ShownBelongs ==
  /\ calm =>
       /\ \A j \in shown \cup ({aside} \ {NoTask}) : task[j].of \in Kin
       /\ \A t \in Threads : t.here /\ t.op \in {"send", "resume"} => task[t.task].of = ctx
  /\ reviewed \in {"none", ctx}

\* A page is busy, or opens, or reviews, only while a function of this context
\* will end it: it never refuses requests for good.
BusyEnds ==
  /\ running => \E t \in Threads : t.here /\ t.op \in {"send", "resume"}
  /\ reviewing => \E t \in Threads : t.here /\ t.op = "review"
  /\ aside # NoTask /\ view = "research" => \E t \in Threads : t.latest /\ t.pc = "opening"

\* What a user of the page relies on.
ViewSound == ShownBelongs /\ BusyEnds
=============================================================================
