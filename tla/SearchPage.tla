----------------------------- MODULE SearchPage -----------------------------
(***************************************************************************)
(* JobSearchView.vue: recommended postings.  The page has one scope and no *)
(* context to change; what it loads (documents, the urls that are saved)   *)
(* and the saving of a recommendation are left out.                        *)
(***************************************************************************)
EXTENDS TaskView

SearchPageInit == TaskViewInit("search")

\* onMounted goes on.
SearchLoaded(t) == Loaded(t, shown)

SearchForm == IF running THEN {} ELSE {"discover"}

\* What was recommended so far goes.
Discover(j) == "discover" \in SearchForm /\ Send(j, "token", {})

\* applyTaskResult: the recommendations of whichever task ended last.
Recommended(t) ==
  /\ Monitored(t, TRUE)
  /\ shown' = {t.task}
  /\ Finish(t)
  /\ UNCHANGED <<view, ctx, ready, aside, reviewing, reviewed, task, calm>>

SearchPageNext ==
  /\ view = "search"
  /\ \/ TaskViewStep
     \/ \E j \in Tasks : Discover(j)
     \/ \E t \in Threads : SearchLoaded(t) \/ Recommended(t)
=============================================================================
