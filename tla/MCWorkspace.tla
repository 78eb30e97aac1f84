---------------------------- MODULE MCWorkspace ----------------------------
(***************************************************************************)
(* The parts of the workspace that share no state, one at a time: which    *)
(* one moves is chosen at the start and the others rest, as interleaving   *)
(* them would reach nothing more.  For the same reason they may share      *)
(* model values: a and b stand for applications, documents, contexts or    *)
(* items, k and l for keys, contents or tasks.                             *)
(***************************************************************************)
EXTENDS Applications, Research, Chat, Startup,
        ChatPage, PreparationPage, ResearchPage, SearchPage,
        DocumentsPage, ApplicationsPage, SettingsPage, OverviewPages, TLC

VARIABLE part

MCCalls == 1 .. 2
MCSymmetry == Permutations(Applicants) \cup Permutations(Keys)

\* Migrations by id: two releases that grow, one with another second migration
\* and one that lacks it.
MCReleases == {(1 :> "x"), (1 :> "x" @@ 2 :> "y"), (1 :> "x" @@ 2 :> "z"),
               (1 :> "x" @@ 3 :> "y"), (1 :> "x" @@ 2 :> "y" @@ 3 :> "y")}

\* Two contexts of one posting and one of another.
MCPostingOf == [c \in Contexts |-> c \in Applicants]

\* Bound: the chat and the preparation, where postings do not matter, stay in
\* the first two, and the third is one to look into, where nothing is asked for.
FewContexts ==
  /\ view \in {"chat", "preparation"} => ctx \in Applicants
  /\ view = "research" =>
       \A j \in Tasks : task[j].state # "none" => task[j].of \in Applicants

ViewRests ==
  /\ view = "none" /\ ctx = "none" /\ calm = TRUE /\ ready = FALSE
  /\ shown = {} /\ aside = NoTask /\ reviewing = FALSE /\ reviewed = "none" /\ running = FALSE
  /\ store = <<>> /\ task = <<>> /\ thread = EmptyBag

PageRests ==
  /\ page = "none" /\ backend = <<>> /\ sheet = <<>>
  /\ flags = {} /\ errors = {} /\ call = <<>> /\ clicks = 0

\* A part that rests is in one of its initial states, or has none.
MCInit ==
  /\ part \in {"applications", "research", "chat", "startup", "view", "page"}
  /\ ApplicationsInit /\ ResearchInit /\ ChatInit /\ StartupInit
  /\ IF part = "view"
     THEN ChatPageInit \/ PreparationPageInit \/ ResearchPageInit \/ SearchPageInit
     ELSE ViewRests
  /\ IF part = "page"
     THEN DocumentsInit \/ ApplicationsPageInit \/ SettingsInit \/ OverviewInit
     ELSE PageRests

MCNext ==
  /\ \/ part = "applications" /\ ApplicationsNext
        /\ UNCHANGED <<researchVars, chatVars, startupVars, viewVars, listPageVars>>
     \/ part = "research" /\ ResearchNext
        /\ UNCHANGED <<applicationsVars, chatVars, startupVars, viewVars, listPageVars>>
     \/ part = "chat" /\ ChatNext
        /\ UNCHANGED <<applicationsVars, researchVars, startupVars, viewVars, listPageVars>>
     \/ part = "startup" /\ StartupNext
        /\ UNCHANGED <<applicationsVars, researchVars, chatVars, viewVars, listPageVars>>
     \/ part = "view"
        /\ (ChatPageNext \/ PreparationPageNext \/ ResearchPageNext \/ SearchPageNext)
        /\ UNCHANGED <<applicationsVars, researchVars, chatVars, startupVars, listPageVars>>
     \/ part = "page"
        /\ (DocumentsPageNext \/ ApplicationsPageNext \/ SettingsPageNext \/ OverviewNext)
        /\ UNCHANGED <<applicationsVars, researchVars, chatVars, startupVars, viewVars>>
  /\ UNCHANGED part

MCVars == <<applicationsVars, researchVars, chatVars, startupVars, viewVars, listPageVars, part>>
MCSpec == MCInit /\ [][MCNext]_MCVars
-----------------------------------------------------------------------------
\* The pages with lists end up as the server has them, and never send changes
\* of one posting or application that do not go together; the pages that bring
\* things together show what there was, each with what it belongs to.
PagesSound ==
  /\ page \in {"documents", "applications", "settings"} => PageFresh /\ OneChange
  /\ OverviewSound

\* An application, posting or document that was closed stays so, and what it
\* had is not lost, whatever was under way when it was closed.
NothingReopens == ClosedIsFinal /\ ShelvedIsFinal
=============================================================================
