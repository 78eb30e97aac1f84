-------------------------- MODULE ApplicationsPage --------------------------
(***************************************************************************)
(* ApplicationsView.vue: job postings, the application made to each, the   *)
(* history of one application and the versions of one posting.  load       *)
(* throws, and whoever called it shows the error; the panels open when     *)
(* their details arrive, and whether they are up to date is not followed,  *)
(* nor are errors about them.  A posting has at most one application here. *)
(***************************************************************************)
EXTENDS ListPage

Posting(row) == row[1]
AppliedTo(row) == row[2]

\* Postings that are not saved yet, or have an application.
ApplicationsPageInit ==
  /\ page = "applications"
  /\ backend \in [Items -> {<<"absent", "none">>, <<"active", "open">>}]
  /\ sheet = [k \in {"list", "history", "versions"} |-> Blank]
  /\ flags = {} /\ errors = {} /\ clicks = 0
  /\ call = [t \in Calls |-> IF \A u \in Calls : t <= u
               THEN [NoCall EXCEPT !.at = "list", !.newest = TRUE] ELSE NoCall]

\* What is listed stays shown while it is loaded again.
Row(i) == sheet["list"].rows[i]
PostingListed(i) == sheet["list"].content # "none" /\ Posting(Row(i)) # "absent"
ApplicationListed(i) == sheet["list"].content # "none" /\ AppliedTo(Row(i)) # "none"

Starting(i) == <<"starting", i>>
PendingPost(i) == <<"pendingPost", i>>
PendingApplication(i) == <<"pendingApplication", i>>
Saving == <<"saving", NoItem>>
Form == <<"form", NoItem>>
Noting == <<"noting", NoItem>>
Scheduling == <<"scheduling", NoItem>>
Updating == <<"updating", NoItem>>
StagesBusy == <<"stages", NoItem>>

\* Mutant: only archiving holds a posting.
PostingBusy_Archiving(i) == PendingPost(i) \in flags

PostingBusy(i) == {Starting(i), PendingPost(i)} \cap flags # {}

\* The buttons of the page that are there and enabled, card by card.
FormCard == IF Form \in flags /\ Saving \notin flags THEN {"savePosting"} ELSE {}

PostingCard(i) ==
  IF ~PostingListed(i) THEN {}
  ELSE {"editStages"} \cup (IF Updating \in flags THEN {} ELSE {"showVersions"}) \cup
       (IF Posting(Row(i)) # "active" \/ PostingBusy(i) THEN {}
        ELSE (IF AppliedTo(Row(i)) \in {"open", "over"} THEN {} ELSE {"startApplication"}) \cup
             (IF Updating \in flags /\ sheet["versions"].of = i THEN {} ELSE {"archivePosting"}))

VersionsCard(i) ==
  IF sheet["versions"].of = i /\ sheet["versions"].rows = <<"active">> /\ Updating \notin flags
  THEN {"addPostingVersion"} ELSE {}

ApplicationCard(i) ==
  IF ~ApplicationListed(i) THEN {}
  ELSE {"showHistory"} \cup
       (IF PendingApplication(i) \in flags THEN {}
        ELSE (IF AppliedTo(Row(i)) = "open" THEN {"move"} ELSE {}) \cup
             (IF AppliedTo(Row(i)) # "archived" THEN {"archiveApplication"} ELSE {}))

HistoryCard(i) ==
  IF sheet["history"].of # i THEN {}
  ELSE (IF Noting \in flags THEN {} ELSE {"addNote"}) \cup
       (IF Scheduling \in flags THEN {} ELSE {"schedule"})

\* Stages may be edited whatever the state of the posting.
StagesCard(i) ==
  IF "editStages" \in PostingCard(i) /\ StagesBusy \notin flags
  THEN {"addStage", "renameStage", "moveStage", "deleteStage"} ELSE {}
-----------------------------------------------------------------------------
(* What the user does.                                                     *)

ToggleForm ==
  /\ Click
  /\ flags' = IF Form \in flags THEN flags \ {Form} ELSE flags \cup {Form}
  /\ UNCHANGED <<page, backend, sheet, errors, call>>

\* The posting that comes of it is named in advance.
SavePosting(i) ==
  /\ "savePosting" \in FormCard /\ backend[i] = <<"absent", "none">>
  /\ SendChange("savePosting", i, Saving)

StartApplication(i) ==
  /\ "startApplication" \in PostingCard(i)
  /\ SendChange("startApplication", i, Starting(i))

AskMove(i) ==
  /\ "move" \in ApplicationCard(i)
  /\ SendChange("move", i, PendingApplication(i))

AskArchiveApplication(i) ==
  /\ "archiveApplication" \in ApplicationCard(i)
  /\ SendChange("archiveApplication", i, PendingApplication(i))

AddNote(i) ==
  /\ "addNote" \in HistoryCard(i)
  /\ SendChange("addNote", i, Noting)

Schedule(i) ==
  /\ "schedule" \in HistoryCard(i)
  /\ SendChange("schedule", i, Scheduling)

ArchivePosting(i) ==
  /\ "archivePosting" \in PostingCard(i)
  /\ SendChange("archivePosting", i, PendingPost(i))

AddPostingVersion(i) ==
  /\ "addPostingVersion" \in VersionsCard(i)
  /\ SendChange("addPostingVersion", i, Updating)

\* editStages chooses the posting, then one of its stages is edited.
AskAddStage(i) == "addStage" \in StagesCard(i) /\ SendChange("editStages", i, StagesBusy)
AskRenameStage(i) == "renameStage" \in StagesCard(i) /\ SendChange("editStages", i, StagesBusy)
AskMoveStage(i) == "moveStage" \in StagesCard(i) /\ SendChange("editStages", i, StagesBusy)
AskDeleteStage(i) == "deleteStage" \in StagesCard(i) /\ SendChange("editStages", i, StagesBusy)

ShowApplicationHistory(i) ==
  /\ Click /\ FreeCalls # {} /\ "showHistory" \in ApplicationCard(i)
  /\ call' = Shown("history", i, <<>>)
  /\ UNCHANGED <<page, backend, sheet, flags, errors>>

\* The posting is taken along as it is listed now.
ShowVersions(i) ==
  /\ Click /\ FreeCalls # {} /\ "showVersions" \in PostingCard(i)
  /\ call' = Shown("versions", i, <<Posting(Row(i))>>)
  /\ UNCHANGED <<page, backend, sheet, flags, errors>>
-----------------------------------------------------------------------------
(* What becomes of it.                                                     *)

\* What the server accepts: an archived posting is not applied to and gets no
\* version, its stages may still be edited; a move that reaches an outcome ends
\* the application.  (Only the first application to a posting is followed.)
PostingSteps == LET P == {"active", "archived"}
                    A == {"none", "open", "over", "archived"}
  IN {<<"savePosting", <<"absent", "none">>, <<"active", "none">>>>,
      <<"startApplication", <<"active", "none">>, <<"active", "open">>>>} \cup
     {<<"archivePosting", <<"active", x>>, <<"archived", x>>>> : x \in A} \cup
     {<<"addPostingVersion", <<"active", x>>, <<"active", x>>>> : x \in A} \cup
     {<<"editStages", <<p, x>>, <<p, x>>>> : p \in P, x \in A}

ApplicationSteps == LET P == {"active", "archived"} IN
  {<<"move", <<p, "open">>, <<p, x>>>> : p \in P, x \in {"open", "over"}} \cup
  {<<"archiveApplication", <<p, x>>, <<p, "archived">>>> : p \in P, x \in {"open", "over"}} \cup
  {<<fn, <<p, x>>, <<p, x>>>> : fn \in {"addNote", "schedule"}, p \in P, x \in {"open", "over"}}

\* A note or an interview is not listed.
ApplicationsServed(t) ==
  \/ ServeChange(t, PostingSteps \cup ApplicationSteps,
       IF call[t].fn \in {"addNote", "schedule"} THEN {} ELSE {"list"})
  \/ ServeFetch(t, {"active", "archived"} \X {"none", "open", "over", "archived"})

\* The change is made.  archiveApplication closes the history whatever is on its
\* way to it, archivePosting just the versions shown; savePosting closes the
\* form.  Then the list is loaded, except after a note or an interview.
ApplicationsChanged(t) ==
  LET me == call[t]
      closed == IF me.fn = "archiveApplication" /\ sheet["history"].of = me.item THEN {"history"}
                ELSE IF me.fn = "archivePosting" /\ sheet["versions"].of = me.item THEN {"versions"}
                ELSE {}
  IN /\ me.at = "sending" /\ me.served /\ me.fn \notin {"addNote", "schedule"}
     /\ sheet' = [k \in DOMAIN sheet |-> IF k \in closed THEN Blank ELSE sheet[k]]
     /\ call' = Fetch(IF "history" \in closed THEN Outdated(call, "history") ELSE call, t, "list")
     /\ flags' = IF me.fn = "savePosting" THEN flags \ {Form} ELSE flags
     /\ errors' = errors \ {"list"}
     /\ UNCHANGED <<page, backend, clicks>>

\* addNote and schedule fetch the history again if it is still shown.
NoteAdded(t) ==
  LET me == call[t] IN
  /\ me.at = "sending" /\ me.served /\ me.fn \in {"addNote", "schedule"}
  /\ IF sheet["history"].of = me.item
     THEN call' = Fetch(call, t, "history") /\ UNCHANGED flags
     ELSE End(t)
  /\ UNCHANGED <<page, backend, sheet, errors, clicks>>

\* catch: an error is shown; a move loads the list all the same, once.
ApplicationsCaught(t) ==
  IF call[t].fn = "move"
  THEN /\ call' = Fetch([call EXCEPT ![t].fn = "moved"], t, "list")
       /\ errors' = {}
       /\ UNCHANGED flags
  ELSE /\ errors' = {"list"}
       /\ End(t)

ApplicationsFails(t) ==
  /\ call[t].at = "sending" \/ (call[t].at = "list" /\ call[t].newest)
  /\ ApplicationsCaught(t)
  /\ UNCHANGED <<page, backend, sheet, clicks>>

\* load returns: a page without postings opens the form; addPostingVersion then
\* lowers its flag and, if the posting is listed and still shown, shows its
\* versions again.
ApplicationsLoaded(t) ==
  LET me == call[t]
      list == IF me.newest THEN Received(t, NoItem) ELSE sheet["list"]
      lowered == IF me.newest /\ \A i \in Items : Posting(me.rows[i]) = "absent"
                 THEN flags \cup {Form} ELSE flags
      again == /\ me.fn = "addPostingVersion" /\ list.content # "none"
               /\ Posting(list.rows[me.item]) # "absent"
               /\ sheet["versions"].of = me.item
  IN /\ me.at = "list" /\ (me.newest => me.served)
     /\ sheet' = [sheet EXCEPT !["list"] = list]
     /\ flags' = lowered \ {me.flag}
     /\ IF again
        THEN call' = Fetch([call EXCEPT ![t].rows = <<Posting(list.rows[me.item])>>], t, "versions")
        ELSE call' = [call EXCEPT ![t] = NoCall]
     /\ UNCHANGED <<page, backend, errors, clicks>>

\* showHistory or showVersions ends.  addPostingVersion lowers its flag again,
\* though another one may have raised it since.
DetailsFetched(t, k) ==
  LET me == call[t] IN
  /\ me.at = k
  /\ \/ /\ me.served
        /\ sheet' = IF me.newest THEN [sheet EXCEPT ![k] = Received(t, me.item)] ELSE sheet
     \/ UNCHANGED sheet
  /\ End(t)
  /\ UNCHANGED <<page, backend, errors, clicks>>

ApplicationsPageNext ==
  /\ page = "applications"
  /\ \/ ToggleForm
     \/ \E i \in Items :
          \/ SavePosting(i) \/ StartApplication(i) \/ AskMove(i) \/ AskArchiveApplication(i)
          \/ AddNote(i) \/ Schedule(i) \/ ArchivePosting(i) \/ AddPostingVersion(i)
          \/ AskAddStage(i) \/ AskRenameStage(i) \/ AskMoveStage(i) \/ AskDeleteStage(i)
          \/ ShowApplicationHistory(i) \/ ShowVersions(i)
     \/ \E t \in Calls :
          \/ ApplicationsServed(t) \/ ApplicationsChanged(t) \/ NoteAdded(t)
          \/ ApplicationsFails(t) \/ ApplicationsLoaded(t)
          \/ \E k \in {"history", "versions"} : DetailsFetched(t, k)
-----------------------------------------------------------------------------
(* Properties.                                                             *)

\* A posting is never applied to while it is being archived, and of an
\* application at most one change is on its way, from the click until the list
\* has been loaded again.  (Versions may be added while a posting is archived.)
OneChange ==
  \A t, u \in Calls :
    /\ call[t].at # "idle" /\ call[u].at # "idle" /\ t # u /\ call[t].item = call[u].item
    => \A fns \in {{"startApplication", "archivePosting"}, {"move", "moved", "archiveApplication"}} :
         ~(call[t].fn \in fns /\ call[u].fn \in fns)
=============================================================================
