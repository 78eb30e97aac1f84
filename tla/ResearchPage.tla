---------------------------- MODULE ResearchPage ----------------------------
(***************************************************************************)
(* ResearchView.vue: research about someone, its records and one of them   *)
(* opened.  A task that ends is followed by a load and by its record.      *)
(*                                                                         *)
(* Tasks are resumed by posting, kind of subject and section, but records  *)
(* are listed by posting alone, so that a context's list, and the record   *)
(* opened from it, may be of another kind of subject than the page's.      *)
(***************************************************************************)
EXTENDS TaskView

ResearchPageInit == TaskViewInit("research")

\* Another posting, or another kind of subject.
LeaveResearch(c) == SwitchTo(c)

\* Another area of the workspace, which has a research page of its own.
OtherArea(c) == c # ctx /\ Reopen(c)

\* The list is there; unless a record is shown already, the newest one of the
\* posting is opened, of whatever kind, by a function of its own.
ResearchLoaded(t) ==
  LET opens == t.latest /\ shown = {} /\ Known # {} IN
  \/ ~opens /\ Loaded(t, shown)
  \/ /\ opens /\ t.pc = "loading" /\ MayStart
     /\ \E j \in Known :
          /\ thread' = Superseded(Rest(t), {"opening"}) (+) Resumed (+)
               One([NoThread EXCEPT !.pc = "opening", !.op = "open", !.latest = TRUE, !.task = j])
          /\ aside' = j
     /\ ready' = TRUE
     /\ UNCHANGED <<view, ctx, shown, reviewing, reviewed, running, store, task, calm>>

\* The form, and the refresh of the record that is shown.
ResearchForm == IF running THEN {} ELSE {"run"} \cup (IF shown = {} THEN {} ELSE {"refresh"})

\* The records that may be opened: those of the posting.
RecordList == IF ready /\ ~running THEN Known \ {aside} ELSE {}

Submit(j) == ResearchForm # {} /\ Send(j, "token", shown)

\* The task is done: the list is loaded again.
Reloading(t) ==
  /\ Monitored(t, TRUE) /\ Mine(t)
  /\ thread' = Superseded(Rest(t), {"loading", "reloading"}) (+)
       One([t EXCEPT !.pc = "reloading", !.latest = TRUE])
  /\ UNCHANGED <<view, ctx, ready, shown, aside, reviewing, reviewed, running, task, calm>>

\* The list is there, in whatever context: openRecord starts in that one.
Reloaded(t) ==
  /\ t.pc = "reloading"
  /\ thread' = Superseded(Rest(t), {"opening"}) (+) One([t EXCEPT !.pc = "opening", !.latest = TRUE])
  /\ aside' = t.task
  /\ ready' = (ready \/ t.latest)
  /\ UNCHANGED <<view, ctx, shown, reviewing, reviewed, running, store, task, calm>>

\* openRecord, for the user.
OpenRecord(j) ==
  /\ j \in RecordList /\ MayStart
  /\ aside' = j
  /\ thread' = Superseded(thread, {"opening"}) (+)
       One([NoThread EXCEPT !.pc = "opening", !.op = "open", !.latest = TRUE, !.task = j])
  /\ UNCHANGED <<view, ctx, ready, shown, reviewing, reviewed, running, store, task, calm>>

Opened(t) ==
  /\ t.pc = "opening"
  /\ shown' = IF t.latest THEN {t.task} ELSE shown
  /\ aside' = IF t.latest THEN NoTask ELSE aside
  /\ Finish(t)
  /\ UNCHANGED <<view, ctx, ready, reviewing, reviewed, store, task, calm>>

ResearchPageNext ==
  /\ view = "research"
  /\ \/ TaskViewStep
     \/ \E c \in Contexts : LeaveResearch(c) \/ OtherArea(c)
     \/ \E j \in Tasks : Submit(j) \/ OpenRecord(j)
     \/ \E t \in Threads :
          \/ ResearchLoaded(t) \/ LoadFails(t) \/ Reloading(t) \/ Reloaded(t) \/ Opened(t)
          \/ ~Mine(t) /\ Dropped(t, TRUE)
=============================================================================
