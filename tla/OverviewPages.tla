--------------------------- MODULE OverviewPages ---------------------------
(***************************************************************************)
(* The pages that bring together what others keep: HomeView.vue,           *)
(* SearchView.vue and JobWorkspaceView.vue with its overview of a posting. *)
(*                                                                         *)
(* Each asks for several things at once, and the server answers each at a  *)
(* moment of its own, while another tab may add to what there is; the last *)
(* two go on to ask for what the first answers lead to.  The workspace of  *)
(* a posting stays when the user goes to another posting, and numbers its  *)
(* loads; the other pages load once.                                       *)
(*                                                                         *)
(* A posting may be listed, have an application with an interview, and     *)
(* records of research.  None of it goes away: no route deletes a posting  *)
(* or an application.  The documents, fetched beside these, are left out.  *)
(***************************************************************************)
EXTENDS ListPage

Facts == {"listed", "applied", "scheduled", "studied"}

\* What is asked for besides the research of a posting, which is named like it.
Lookups == {"postings", "applications", "research", "history", "general"}

\* Postings have names of their own.
ASSUME OverviewAssumption == Items \cap (Lookups \cup {"before", "-"}) = {}

\* What a fact of a posting takes.
Before(fact) ==
  CASE fact = "listed" -> {}
    [] fact = "scheduled" -> {"listed", "applied"}
    [] OTHER -> {"listed"}

NoInterviews(i) == [Blank EXCEPT !.of = i, !.rows = {}]
PageLoading == <<"loading", NoItem>>

\* A load keeps, with its answers, what there was when it began, as history.  (Only
\* the home page raises the flag.)
Load(i) == [NoCall EXCEPT !.at = "lists", !.item = i, !.newest = TRUE,
                          !.flag = PageLoading, !.rows = [before |-> backend]]

\* A page as it is opened, or with one thing of it already there.
OverviewInit ==
  /\ page \in {"home", "search", "job"}
  /\ backend \in [Items -> {{}, {"listed", "applied"}, Facts}]
  /\ \E i \in Items :
       /\ sheet = [k \in {"lists", "research", "interviews"} |->
                     IF k = "interviews" THEN NoInterviews(i) ELSE Blank]
       /\ call = [t \in Calls |-> IF \A u \in Calls : t <= u THEN Load(i) ELSE NoCall]
  /\ flags = IF page = "home" THEN {PageLoading} ELSE {}
  /\ errors = {} /\ clicks = 0

\* The posting of the route.
Here == sheet["interviews"].of
-----------------------------------------------------------------------------
(* The server.                                                             *)

\* Somebody adds to a posting, in another tab.
Becomes(i, fact) ==
  /\ Click /\ fact \notin backend[i] /\ Before(fact) \subseteq backend[i]
  /\ backend' = [backend EXCEPT ![i] = @ \cup {fact}]
  /\ UNCHANGED <<page, sheet, flags, errors, call>>

With(fact) == {i \in Items : fact \in backend[i]}

\* The answer to a request of a load for posting i; research is asked for by
\* posting, or without one.
Reply(r, i) ==
  CASE r = "postings" -> With("listed")
    [] r = "applications" -> With("applied")
    [] r = "research" -> {i} \cap With("studied")
    [] r = "history" -> {i} \cap With("scheduled")
    [] r \in Items -> {r} \cap With("studied")
    [] OTHER -> {}

\* Mutant: research is asked for without a posting only.
ResearchOf_General(postings) == {"general"}

\* loadResearch: all research there is, by asking for each posting's.
ResearchOf(postings) == {"general"} \cup postings

\* What a load asks for next, all at once.
Wanted(t) ==
  CASE call[t].at = "research" -> ResearchOf(call[t].rows["postings"])
    [] call[t].at = "history" -> {"history"}
    [] call[t].at = "lists" /\ page = "home" -> {"postings", "applications"}
    [] call[t].at = "lists" /\ page = "search" -> {"postings"}
    [] OTHER -> {"postings", "applications", "research"}

Unanswered(t) == Wanted(t) \ DOMAIN call[t].rows

Answered(t, r) ==
  LET rows == call[t].rows IN
  /\ call[t].at # "idle" /\ r \in Unanswered(t)
  /\ call' = [call EXCEPT ![t].rows =
       [q \in DOMAIN rows \cup {r} |-> IF q = r THEN Reply(r, call[t].item) ELSE rows[q]]]
  /\ UNCHANGED <<page, backend, sheet, flags, errors, clicks>>
-----------------------------------------------------------------------------
(* The workspace of a posting.                                             *)

\* The user goes to another posting: the interviews are taken away at once, the
\* rest stays until the load for this posting ends.
OpenPosting(i) ==
  /\ page = "job" /\ Click /\ FreeCalls # {} /\ i # Here
  /\ sheet' = [sheet EXCEPT !["interviews"] = NoInterviews(i)]
  /\ call' = [Outdated(Outdated(call, "lists"), "history") EXCEPT ![FreeCall] = Load(i)]
  /\ errors' = {}
  /\ UNCHANGED <<page, backend, flags>>

\* A posting that has an application: its history comes next.
WorkspaceGoesOn(t) ==
  /\ page = "job" /\ call[t].at = "lists" /\ Unanswered(t) = {}
  /\ call[t].item \in call[t].rows["applications"]
  /\ call' = [call EXCEPT ![t].at = "history"]
  /\ UNCHANGED <<page, backend, sheet, flags, errors, clicks>>

\* Mutant: a load is taken whenever it ends.
IsNewest_Always(t) == TRUE

\* No other load has been started since, and the route is still the same.
IsNewest(t) == call[t].newest /\ call[t].item = Here

WorkspaceLoaded(t) ==
  LET me == call[t] IN
  /\ page = "job" /\ Unanswered(t) = {}
  /\ \/ me.at = "history"
     \/ me.at = "lists" /\ me.item \notin me.rows["applications"]
  /\ sheet' = IF ~IsNewest(t) THEN sheet ELSE
       [sheet EXCEPT
         !["lists"] = [of |-> me.item, content |-> "old", rows |-> me.rows],
         !["interviews"].content = "old",
         !["interviews"].rows = IF me.at = "history" THEN me.rows["history"] ELSE {}]
  /\ End(t)
  /\ UNCHANGED <<page, backend, errors, clicks>>

\* A load that was overtaken fails in silence.
WorkspaceFails(t) ==
  /\ page = "job" /\ call[t].at # "idle"
  /\ errors' = IF call[t].newest THEN errors \cup {"lists"} ELSE errors
  /\ End(t)
  /\ UNCHANGED <<page, backend, sheet, clicks>>

\* What the overview shows: the interviews, whether there is an application, and
\* which of the next actions are recommended, the others being done.
InterviewsShown == sheet["interviews"].rows
ApplicationShown == sheet["lists"].content # "none" /\ Here \in sheet["lists"].rows["applications"]

Done(action) ==
  CASE action = "research" -> sheet["lists"].rows["research"] # {}
    [] action = "interview" -> InterviewsShown # {}

Advised == {action \in {"research", "interview"} : ~Done(action)}
-----------------------------------------------------------------------------
(* The search and the home page.                                           *)

\* Postings and documents are shown as they come, then the research is fetched.
SearchGoesOn(t) ==
  /\ page = "search" /\ call[t].at = "lists" /\ Unanswered(t) = {}
  /\ sheet' = [sheet EXCEPT !["lists"] = [Received(t, NoItem) EXCEPT !.rows = call[t].rows]]
  /\ call' = [call EXCEPT ![t].at = "research"]
  /\ UNCHANGED <<page, backend, flags, errors, clicks>>

\* The records of all answers together.
RecordsLoaded(t) ==
  LET rows == call[t].rows IN
  /\ call[t].at = "research" /\ Unanswered(t) = {}
  /\ sheet' = [sheet EXCEPT !["research"] =
       [Blank EXCEPT !.content = "old", !.rows = UNION {rows[r] : r \in Wanted(t)}]]
  /\ End(t)
  /\ UNCHANGED <<page, backend, errors, clicks>>

\* What such a query finds.
Results ==
  (IF sheet["lists"].content = "none" THEN {} ELSE {"posting"} \X sheet["lists"].rows["postings"])
  \cup (IF sheet["research"].content = "none" THEN {} ELSE {"research"} \X sheet["research"].rows)

\* What it says to a query that fits all there is.
SearchSays == IF Results = {} THEN "empty" ELSE "results"

HomeLoaded(t) ==
  /\ page = "home" /\ call[t].at = "lists" /\ Unanswered(t) = {}
  /\ sheet' = [sheet EXCEPT !["lists"] = [Received(t, NoItem) EXCEPT !.rows = call[t].rows]]
  /\ End(t)
  /\ UNCHANGED <<page, backend, errors, clicks>>

\* An answer of either that is no list, or none: the user is told.
OverviewFails(t) ==
  /\ page \in {"home", "search"} /\ call[t].at # "idle"
  /\ errors' = errors \cup {call[t].at}
  /\ End(t)
  /\ UNCHANGED <<page, backend, sheet, clicks>>

\* What the cards count, which is nothing while the page loads.
Summary ==
  IF PageLoading \in flags THEN {"-"}
  ELSE IF sheet["lists"].content = "none" THEN {}
  ELSE sheet["lists"].rows["postings"] \cup sheet["lists"].rows["applications"]

\* Mutant: the first posting is in focus.
FocusPosting_First(a) ==
  LET postings == sheet["lists"].rows["postings"]
  IN IF postings = {} THEN NoItem ELSE CHOOSE p \in postings : TRUE

\* The posting shown beside application a, the latest: its own, or else any.
FocusPosting(a) ==
  LET postings == sheet["lists"].rows["postings"]
  IN IF a \in postings THEN a
     ELSE IF postings = {} THEN NoItem ELSE CHOOSE p \in postings : TRUE

\* The stages of the latest application may be shown beside these postings.
InFocus ==
  IF sheet["lists"].content = "none" THEN {}
  ELSE {<<a, FocusPosting(a)>> : a \in sheet["lists"].rows["applications"]}

OverviewNext ==
  /\ page \in {"home", "search", "job"}
  /\ \/ \E i \in Items : OpenPosting(i) \/ \E fact \in Facts : Becomes(i, fact)
     \/ \E t \in Calls :
          \/ \E r \in Unanswered(t) : Answered(t, r)
          \/ WorkspaceGoesOn(t) \/ WorkspaceLoaded(t) \/ WorkspaceFails(t)
          \/ SearchGoesOn(t) \/ RecordsLoaded(t) \/ HomeLoaded(t) \/ OverviewFails(t)
-----------------------------------------------------------------------------
(* Properties.  Rested is that no load is under way.                       *)

Rested == \A t \in Calls : call[t].at = "idle"
Then(fact) == {i \in Items : fact \in sheet["lists"].rows["before"][i]}

\* In a posting's workspace no interview of another one is ever shown, nor one
\* without the application; once it rests without an error, what is recommended is
\* what has not been done for this posting now, and was not when it was opened.
WorkspaceSound ==
  page = "job" =>
    /\ InterviewsShown \subseteq {Here}
    /\ InterviewsShown # {} => ApplicationShown
    /\ Rested /\ errors = {} =>
         /\ sheet["lists"].of = Here
         /\ Here \in Then("studied") => "research" \notin Advised
         /\ Here \in Then("scheduled") => "interview" \notin Advised
         /\ Here \in With("studied") \/ "research" \in Advised
         /\ Here \in With("scheduled") \/ "interview" \in Advised

\* The search never finds what there is not; once it rests without an error, it
\* finds every posting that there was when it was opened and every record of one.
SearchSound ==
  page = "search" =>
    /\ Results \subseteq {"posting"} \X With("listed") \cup {"research"} \X With("studied")
    /\ Rested /\ errors = {} =>
         /\ {"posting"} \X Then("listed") \cup {"research"} \X Then("studied") \subseteq Results
         /\ SearchSays = "empty" => Then("listed") = {}

\* The home page does not stay loading; once it is done, it says that this failed
\* or counts all that there was, and an application never stands beside a posting
\* that is not its own if its own was there when the page was opened.
HomeSound ==
  page = "home" =>
    /\ Rested => Summary # {"-"} /\ (errors = {} => Then("listed") \subseteq Summary)
    /\ \A f \in InFocus : f[1] \in Then("listed") => f[1] = f[2]

OverviewSound == WorkspaceSound /\ SearchSound /\ HomeSound
=============================================================================
