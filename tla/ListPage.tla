------------------------------ MODULE ListPage ------------------------------
(***************************************************************************)
(* What the pages of the web client that list things and change them have  *)
(* in common: DocumentsView.vue, ApplicationsView.vue and SettingsView.vue *)
(* (modules DocumentsPage, ApplicationsPage and SettingsPage).  StatsPage  *)
(* and OverviewPages use its state for pages that fetch in other ways.     *)
(*                                                                         *)
(* A page has sheets: what it has fetched, its lists as well as the        *)
(* details of one item.  Its functions are async: a call is one of them,   *)
(* held at the await of a change it sent or of a sheet it fetches.         *)
(* Fetches of a sheet are numbered, and only the newest one's answer is    *)
(* taken; as numbers only grow, a call keeps just whether its own is the   *)
(* newest.  A request is served some time before its answer arrives, and   *)
(* may fail before or after that.  What a sheet shows is abstracted to the *)
(* states of the items and whether the server has changed since.           *)
(*                                                                         *)
(* A list may take several requests (postings, applications and stages);   *)
(* it is answered as of one moment, since what the page changes in between *)
(* makes it load again.                                                    *)
(***************************************************************************)
EXTENDS Naturals, FiniteSets

CONSTANTS
  Items,   \* documents; postings, each with its application; settings
  Calls,   \* bound: async functions at an await, numbered
  MaxClicks,  \* bound: what the user does
  NoItem

ASSUME ListPageAssumption ==
  Calls \subseteq Nat /\ Calls # {} /\ MaxClicks \in Nat /\ NoItem \notin Items

VARIABLES
  page,    \* which page this is
  backend,  \* the server's state of each item
  sheet,   \* by its name: the item it is about, what it shows of it, the states
  flags,   \* what the page is busy with or has open, each with its item
  errors,  \* the sheets of which a shown error says that they may be out of date
  call,    \* async functions
  clicks   \* what the user has done, counted

listPageVars == <<page, backend, sheet, flags, errors, call, clicks>>

FreeCalls == {t \in Calls : call[t].at = "idle"}
FreeCall == CHOOSE t \in FreeCalls : \A u \in FreeCalls : t <= u
NoCall == [at |-> "idle", fn |-> "none", item |-> NoItem, flag |-> <<"none", NoItem>>,
           newest |-> FALSE, served |-> FALSE, rows |-> <<>>, fresh |-> FALSE]
Blank == [of |-> NoItem, content |-> "none", rows |-> <<>>]

\* The sheets that list all items; the others are about one.
Lists == {"list", "providers", "runners", "jobs"}

Loading(k) == \E t \in Calls : call[t].at = k /\ call[t].newest
-----------------------------------------------------------------------------
(* Parts of the functions.  calls is the calls before the part.            *)

Click == clicks < MaxClicks /\ clicks' = clicks + 1

\* A change is sent, with its flag raised.
SendChange(fn, i, flag) ==
  /\ Click /\ FreeCalls # {} /\ flag \notin flags
  /\ flags' = flags \cup {flag}
  /\ call' = [call EXCEPT ![FreeCall] =
       [NoCall EXCEPT !.at = "sending", !.fn = fn, !.item = i, !.flag = flag]]
  /\ UNCHANGED <<page, backend, sheet, errors>>

Outdated(calls, k) ==
  [u \in Calls |-> IF calls[u].at = k THEN [calls[u] EXCEPT !.newest = FALSE] ELSE calls[u]]

\* Mutant: fetches are not numbered; every answer is taken.
Fetch_Unnumbered(calls, t, k) ==
  [calls EXCEPT ![t].at = k, ![t].newest = TRUE, ![t].served = FALSE]

\* Call t goes on to fetch sheet k: every other fetch of it is superseded.
Fetch(calls, t, k) ==
  [Outdated(calls, k) EXCEPT ![t].at = k, ![t].newest = TRUE, ![t].served = FALSE]

\* The call that fetches sheet k of item i for the user.
\* row is what the page takes along of the item.
Shown(k, i, row) ==
  Fetch([call EXCEPT ![FreeCall] = [NoCall EXCEPT !.fn = "show", !.item = i, !.rows = row]],
        FreeCall, k)

\* finally.
End(t) ==
  /\ call' = [call EXCEPT ![t] = NoCall]
  /\ flags' = flags \ {call[t].flag}

\* Sheet k as the answer of call t has it.
Received(t, of) == [of |-> of, content |-> IF call[t].fresh THEN "new" ELSE "old", rows |-> call[t].rows]
-----------------------------------------------------------------------------
(* What becomes of a request.                                              *)

\* The change is made, if steps has one from the item's state; what was fetched
\* of the sheets it shows in is no longer what the server would answer now.
ServeChange(t, steps, shows) ==
  LET me == call[t]
      Shows(k, i) == k \in shows /\ (k \in Lists \/ i = me.item)
  IN /\ me.at = "sending" /\ ~me.served
     /\ \E s \in steps :
          /\ s[1] = me.fn /\ s[2] = backend[me.item]
          /\ backend' = [backend EXCEPT ![me.item] = s[3]]
     /\ sheet' = [k \in DOMAIN sheet |->
          IF Shows(k, sheet[k].of) /\ sheet[k].content = "new"
          THEN [sheet[k] EXCEPT !.content = "old"] ELSE sheet[k]]
     /\ call' = [u \in Calls |->
          IF u = t THEN [me EXCEPT !.served = TRUE]
          ELSE IF Shows(call[u].at, call[u].item) THEN [call[u] EXCEPT !.fresh = FALSE] ELSE call[u]]
     /\ UNCHANGED <<page, flags, errors, clicks>>

\* A sheet is answered; there is one of an item only in the given states.
ServeFetch(t, there) ==
  LET me == call[t] IN
  /\ me.at \notin {"idle", "sending"} /\ ~me.served
  /\ me.at \notin Lists => backend[me.item] \in there
  /\ call' = [call EXCEPT ![t].served = TRUE, ![t].fresh = TRUE,
                          ![t].rows = IF me.at \in Lists THEN backend ELSE @]
  /\ UNCHANGED <<page, backend, sheet, flags, errors, clicks>>
-----------------------------------------------------------------------------
(* Properties.                                                             *)

\* Once all calls are over, no flag is left behind, and every list is as the
\* server has it unless a shown error says otherwise, in whatever order requests
\* were served and answers came; so are a document's preview and history.  (The
\* other details are fetched again after some changes only; whether they are up
\* to date is not followed.)
PageFresh ==
  (\A t \in Calls : call[t].at = "idle") =>
    /\ \A f \in flags : f[1] = "form"
    /\ \A k \in DOMAIN sheet :
         k \in errors \/ sheet[k].content = "new" \/ (k \notin Lists /\ sheet[k] = Blank)
=============================================================================
