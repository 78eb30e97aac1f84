-------------------------- MODULE PreparationPage --------------------------
(***************************************************************************)
(* PreparationView.vue: a draft of some kind for a posting.  What goes to  *)
(* the provider is reviewed first; the revision that comes of it is        *)
(* fetched, and its provenance after it.                                   *)
(*                                                                         *)
(* The research sources of a culture interview are left out.               *)
(***************************************************************************)
EXTENDS TaskView

PreparationPageInit == TaskViewInit("preparation")

\* Another posting, or another kind of draft.
LeavePreparation(c) == SwitchTo(c)

PreparationLoaded(t) == Loaded(t, shown)

\* The buttons of the form, of the result and of the dialog that are enabled;
\* Escape closes the dialog whether it is busy or not.
PreparationForm == IF ready /\ ~reviewing /\ ~running THEN {"review"} ELSE {}
ResultCard == IF shown = {} THEN {}
  ELSE PreparationForm \cup (IF running THEN {} ELSE {"refreshProvenance"})
PreparationDialog == IF reviewed = "none" THEN {}
  ELSE {"close"} \cup (IF running THEN {} ELSE {"confirm"})

ReviewDraft == "review" \in PreparationForm \cup ResultCard /\ Review
CloseDraft == "close" \in PreparationDialog /\ CloseReview
Generate(j) == "confirm" \in PreparationDialog /\ Send(j, "confirming", shown)

\* The task is done: revisionFromTaskResult asks for the revision.  resumeTask
\* looks at the context before it, generate after it.
FetchRevision(t) ==
  /\ Monitored(t, TRUE) /\ (Mine(t) \/ t.op = "send")
  /\ Become(t, [t EXCEPT !.pc = "fetching"])
  /\ UNCHANGED <<view, ctx, ready, shown, aside, reviewing, reviewed, running, task, calm>>

\* The revision is there and its provenance asked for, in the context of now.
Fetched(t) ==
  /\ t.pc = "fetching"
  /\ IF Mine(t) \/ t.op = "resume"
     THEN /\ shown' = {t.task} /\ reviewed' = "none"
          /\ thread' = Superseded(Rest(t), {"proving"}) (+)
               One([t EXCEPT !.pc = "proving", !.latest = TRUE])
          /\ UNCHANGED running
     ELSE Finish(t) /\ UNCHANGED <<shown, reviewed>>
  /\ UNCHANGED <<view, ctx, ready, aside, reviewing, store, task, calm>>

\* loadProvenance for the revision that is shown.
RefreshProvenance(j) ==
  /\ "refreshProvenance" \in ResultCard /\ j \in shown /\ MayStart
  /\ thread' = Superseded(thread, {"proving"}) (+)
       One([NoThread EXCEPT !.pc = "proving", !.op = "prove", !.here = TRUE, !.latest = TRUE,
                            !.task = j])
  /\ UNCHANGED <<view, ctx, ready, shown, aside, reviewing, reviewed, running, store, task, calm>>

\* Mutant: whose provenance it is is not looked at.
ProofFits_Always(t) == TRUE

\* The provenance in force, of the revision that is still shown.
ProofFits(t) == t.latest /\ t.task \in shown

Proved(t) ==
  /\ t.pc = "proving"
  /\ aside' = IF ProofFits(t) THEN t.task ELSE aside
  /\ Finish(t)
  /\ UNCHANGED <<view, ctx, ready, shown, reviewing, reviewed, store, task, calm>>

PreparationPageNext ==
  /\ view = "preparation"
  /\ \/ TaskViewStep
     \/ \E c \in Contexts : LeavePreparation(c)
     \/ ReviewDraft \/ CloseDraft
     \/ \E j \in Tasks : Generate(j) \/ RefreshProvenance(j)
     \/ \E t \in Threads :
          \/ PreparationLoaded(t) \/ LoadFails(t) \/ Reviewed(t) \/ Confirmed(t)
          \/ FetchRevision(t) \/ Fetched(t) \/ Proved(t)
          \/ ~Mine(t) /\ t.op = "resume" /\ Dropped(t, TRUE)
=============================================================================
