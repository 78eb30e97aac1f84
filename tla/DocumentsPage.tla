--------------------------- MODULE DocumentsPage ---------------------------
(***************************************************************************)
(* DocumentsView.vue: the documents, the preview of one and the history of *)
(* one.  load catches its failures and returns; showPreview and            *)
(* showHistory open their panel at once.                                   *)
(***************************************************************************)
EXTENDS ListPage

DocumentsInit ==
  /\ page = "documents"
  /\ backend \in [Items -> {"absent", "active"}]
  /\ sheet = [k \in {"list", "preview", "history"} |-> Blank]
  /\ flags = {} /\ errors = {} /\ clicks = 0
  /\ call = [t \in Calls |-> IF \A u \in Calls : t <= u
               THEN [NoCall EXCEPT !.at = "list", !.newest = TRUE] ELSE NoCall]

\* A deleted document is neither listed nor shown.
Kept == {"active", "archived"}

\* The list is hidden while it is loading.
DocumentListed(i, states) ==
  /\ ~Loading("list") /\ sheet["list"].content # "none"
  /\ sheet["list"].rows[i] \in states

\* The buttons of a document's card that are there and enabled.
DocumentCard(i) ==
  IF ~DocumentListed(i, Kept) \/ <<"pending", i>> \in flags THEN {}
  ELSE {"showPreview", "showHistory", "delete"} \cup
       (IF DocumentListed(i, {"active"}) THEN {"toggleSelection", "uploadVersion", "archive"} ELSE {})
-----------------------------------------------------------------------------
(* What the user does.                                                     *)

\* The document that comes of the upload is named in advance.
UploadFiles(i) ==
  /\ backend[i] = "absent"
  /\ SendChange("uploadFiles", i, <<"uploading", NoItem>>)

UploadVersion(i) ==
  /\ "uploadVersion" \in DocumentCard(i)
  /\ SendChange("uploadVersion", i, <<"pending", i>>)

ToggleSelection(i) ==
  /\ "toggleSelection" \in DocumentCard(i)
  /\ SendChange("toggleSelection", i, <<"pending", i>>)

\* The function of that name, archiving or deleting.
DocumentTransition(i, action) ==
  /\ action \in DocumentCard(i)
  /\ SendChange(action, i, <<"pending", i>>)

\* The panel opens, empty.
PanelOpened(sheets, k, i) == [sheets EXCEPT ![k] = [Blank EXCEPT !.of = i]]

ShowPreview(i) ==
  /\ Click /\ FreeCalls # {} /\ "showPreview" \in DocumentCard(i)
  /\ call' = Shown("preview", i, <<>>)
  /\ sheet' = PanelOpened(sheet, "preview", i)
  /\ errors' = errors \ {"preview"}
  /\ UNCHANGED <<page, backend, flags>>

ShowDocumentHistory(i) ==
  /\ Click /\ FreeCalls # {} /\ "showHistory" \in DocumentCard(i)
  /\ call' = Shown("history", i, <<>>)
  /\ sheet' = PanelOpened(sheet, "history", i)
  /\ errors' = errors \ {"history"}
  /\ UNCHANGED <<page, backend, flags>>

\* The close button is there once something is shown.
ClosePreview ==
  /\ Click
  /\ sheet["preview"].content # "none"
  /\ sheet' = [sheet EXCEPT !["preview"] = Blank]
  /\ call' = Outdated(call, "preview")
  /\ UNCHANGED <<page, backend, flags, errors>>

CloseHistory ==
  /\ Click
  /\ sheet["history"].content # "none"
  /\ sheet' = [sheet EXCEPT !["history"] = Blank]
  /\ call' = Outdated(call, "history")
  /\ UNCHANGED <<page, backend, flags, errors>>
-----------------------------------------------------------------------------
(* What becomes of it.                                                     *)

\* What the server accepts: versions and selection are for active documents.
DocumentSteps ==
  {<<"uploadFiles", "absent", "active">>, <<"uploadVersion", "active", "active">>,
   <<"toggleSelection", "active", "active">>, <<"archive", "active", "archived">>,
   <<"delete", "active", "deleted">>, <<"delete", "archived", "deleted">>}

DocumentServed(t) ==
  \/ ServeChange(t, DocumentSteps, {"list"} \cup
       IF call[t].fn = "uploadVersion" THEN {"preview", "history"} ELSE {})
  \/ ServeFetch(t, Kept)

\* A deleted document's panels close, whatever is still on its way to them;
\* then the list is loaded.
DocumentChanged(t) ==
  LET me == call[t]
      closed == IF me.fn = "delete"
                THEN {k \in {"preview", "history"} : sheet[k].of = me.item} ELSE {}
  IN /\ me.at = "sending" /\ me.served
     /\ sheet' = [k \in DOMAIN sheet |-> IF k \in closed THEN Blank ELSE sheet[k]]
     /\ call' = Fetch([u \in Calls |-> IF call[u].at \in closed
                         THEN [call[u] EXCEPT !.newest = FALSE] ELSE call[u]], t, "list")
     /\ errors' = errors \ {"list"}
     /\ UNCHANGED <<page, backend, flags, clicks>>

\* A failed change, made or not, leaves the page as it is, with an error.
DocumentFails(t) ==
  /\ call[t].at = "sending"
  /\ errors' = DOMAIN sheet
  /\ End(t)
  /\ UNCHANGED <<page, backend, sheet, clicks>>

\* uploadVersion goes on to fetch the preview and then the history again, each
\* if it is about this document by then.
DocumentFollow(t, panels, sheets, wrong) ==
  LET me == call[t]
      open == {k \in panels : me.fn = "uploadVersion" /\ sheets[k].of = me.item}
      k == IF "preview" \in open THEN "preview" ELSE "history"
  IN IF open = {}
     THEN End(t) /\ sheet' = sheets /\ errors' = wrong
     ELSE /\ call' = Fetch(call, t, k)
          /\ sheet' = PanelOpened(sheets, k, me.item)
          /\ errors' = wrong \ {k}
          /\ UNCHANGED flags

\* Whether load succeeded or not: only the newest one is noticed.
DocumentsLoaded(t) ==
  LET me == call[t] IN
  /\ me.at = "list"
  /\ \/ /\ me.served
        /\ DocumentFollow(t, {"preview", "history"},
             IF me.newest THEN [sheet EXCEPT !["list"] = Received(t, NoItem)] ELSE sheet, errors)
     \/ DocumentFollow(t, {"preview", "history"}, sheet,
          IF me.newest THEN errors \cup {"list"} ELSE errors)
  /\ UNCHANGED <<page, backend, clicks>>

\* showPreview or showHistory ends; when the newest one fails, its panel closes.
PanelFetched(t, k) ==
  LET me == call[t]
      rest == IF k = "preview" THEN {"history"} ELSE {}
  IN /\ me.at = k
     /\ \/ /\ me.served
           /\ DocumentFollow(t, rest,
                IF me.newest THEN [sheet EXCEPT ![k] = Received(t, me.item)] ELSE sheet, errors)
        \/ DocumentFollow(t, rest,
             IF me.newest THEN [sheet EXCEPT ![k].of = NoItem] ELSE sheet,
             IF me.newest THEN errors \cup {k} ELSE errors)
     /\ UNCHANGED <<page, backend, clicks>>

DocumentsPageNext ==
  /\ page = "documents"
  /\ \/ \E i \in Items :
          \/ UploadFiles(i) \/ UploadVersion(i) \/ ToggleSelection(i)
          \/ \E action \in {"archive", "delete"} : DocumentTransition(i, action)
          \/ ShowPreview(i) \/ ShowDocumentHistory(i)
     \/ ClosePreview \/ CloseHistory
     \/ \E t \in Calls :
          \/ DocumentServed(t) \/ DocumentChanged(t) \/ DocumentFails(t)
          \/ DocumentsLoaded(t)
          \/ \E k \in {"preview", "history"} : PanelFetched(t, k)
=============================================================================
