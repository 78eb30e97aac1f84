----------------------------- MODULE StatsPage -----------------------------
(***************************************************************************)
(* StatsView.vue: the jobs and the events of one of them.  The list is     *)
(* fetched again and again by a timer, and nothing numbers its fetches: an *)
(* answer is taken whenever it comes.  Which job is being cancelled, and   *)
(* which one retried, is one value each.  (AppShell.vue counts the active  *)
(* jobs in the same way, on every page.)                                   *)
(*                                                                         *)
(* The kinds of job are left out: every one that failed may be retried.    *)
(* So are the figures of the page that are fetched once, with the first    *)
(* list of jobs.                                                           *)
(***************************************************************************)
EXTENDS ListPage

\* A job is active (queued, leased or running), over (failed or cancelled) or
\* done, or is not there yet.
StatsInit ==
  /\ page = "stats"
  /\ backend \in [Items -> {"absent", "active", "over"}]
  /\ sheet = [k \in {"jobs", "events"} |-> Blank]
  /\ flags = {} /\ errors = {} /\ clicks = 0
  /\ call = [t \in Calls |-> IF \A u \in Calls : t <= u
               THEN [NoCall EXCEPT !.at = "jobs", !.fn = "load"] ELSE NoCall]

JobListed(i, state) == sheet["jobs"].content # "none" /\ sheet["jobs"].rows[i] = state
Expanded == sheet["events"].of

Cancelling(i) == <<"cancelling", i>>
Retrying(i) == <<"retrying", i>>
EventsLoading == <<"events", NoItem>>

\* A flag that is one value: raising it for one job lowers it for any other.
Raised(flag) == {f \in flags : f[1] # flag[1]} \cup {flag}

\* The buttons of a job that are there and enabled.
JobRow(i) ==
  (IF sheet["jobs"].content # "none" /\ sheet["jobs"].rows[i] # "absent" THEN {"events"} ELSE {}) \cup
  (IF JobListed(i, "over") /\ Retrying(i) \notin flags THEN {"retry"} ELSE {}) \cup
  (IF JobListed(i, "active") /\ Cancelling(i) \notin flags THEN {"cancel"} ELSE {})

Starts(at, fn, i, flag) ==
  /\ FreeCalls # {}
  /\ call' = [call EXCEPT ![FreeCall] =
       [NoCall EXCEPT !.at = at, !.fn = fn, !.item = i, !.flag = flag]]
-----------------------------------------------------------------------------
(* What the timers and the user do.                                        *)

\* Mutant: the list is fetched until it is there.
Poll_Once ==
  /\ sheet["jobs"].content = "none"
  /\ Starts("jobs", "poll", NoItem, NoCall.flag)
  /\ UNCHANGED <<page, backend, sheet, flags, errors, clicks>>

\* The timer calls refreshJobs.
Poll ==
  /\ Starts("jobs", "poll", NoItem, NoCall.flag)
  /\ UNCHANGED <<page, backend, sheet, flags, errors, clicks>>

RefreshJobs ==
  /\ Click /\ Starts("jobs", "poll", NoItem, NoCall.flag)
  /\ UNCHANGED <<page, backend, sheet, flags, errors>>

CancelJob(i) ==
  /\ Click /\ "cancel" \in JobRow(i)
  /\ Starts("sending", "cancel", i, Cancelling(i))
  /\ flags' = Raised(Cancelling(i))
  /\ UNCHANGED <<page, backend, sheet, errors>>

\* The job that comes of it, n, is named in advance.
RetryJob(i, n) ==
  /\ Click /\ "retry" \in JobRow(i) /\ backend[n] = "absent"
  /\ Starts("sending", "retry", n, Retrying(i))
  /\ flags' = Raised(Retrying(i))
  /\ UNCHANGED <<page, backend, sheet, errors>>

\* toggleEvents: the events of the job are closed, or opened and fetched.
ToggleEvents(i) ==
  /\ Click /\ "events" \in JobRow(i)
  /\ IF Expanded = i
     THEN sheet' = [sheet EXCEPT !["events"] = Blank] /\ UNCHANGED <<flags, call>>
     ELSE /\ sheet' = [sheet EXCEPT !["events"] = [Blank EXCEPT !.of = i]]
          /\ Starts("events", "show", i, EventsLoading)
          /\ flags' = Raised(EventsLoading)
  /\ UNCHANGED <<page, backend, errors>>
-----------------------------------------------------------------------------
(* What becomes of it.                                                     *)

\* A job ends by itself.
JobMoves(i) ==
  /\ backend[i] = "active"
  /\ \E state \in {"over", "done"} : backend' = [backend EXCEPT ![i] = state]
  /\ UNCHANGED <<page, sheet, flags, errors, call, clicks>>

\* A running job is asked to stop, another one is cancelled at once; a job that
\* has ended is left alone.  What is retried is another job.
JobSteps ==
  {<<"cancel", "active", "active">>, <<"cancel", "active", "over">>,
   <<"cancel", "over", "over">>, <<"cancel", "done", "done">>, <<"retry", "absent", "active">>}

\* The answer holds the job as it is after the change, or the list, or the
\* events of the job.
JobServed(t) ==
  LET me == call[t] IN
  /\ me.at = "sending" /\ ~me.served
  /\ \E s \in JobSteps :
       /\ s[1] = me.fn /\ s[2] = backend[me.item]
       /\ backend' = [backend EXCEPT ![me.item] = s[3]]
       /\ call' = [call EXCEPT ![t].served = TRUE, ![t].rows = <<s[3]>>]
  /\ UNCHANGED <<page, sheet, flags, errors, clicks>>

SheetServed(t, k) ==
  /\ call[t].at = k /\ ~call[t].served
  /\ call' = [call EXCEPT ![t].served = TRUE, ![t].fresh = TRUE,
                          ![t].rows = IF k = "events" THEN <<call[t].item>> ELSE backend]
  /\ UNCHANGED <<page, backend, sheet, flags, errors, clicks>>

\* finally: whichever job the flag is raised for.
EndJobCall(t) ==
  /\ call' = [call EXCEPT ![t] = NoCall]
  /\ flags' = {f \in flags : f[1] # call[t].flag[1]}

\* The job takes its place in the list: a cancelled one if it is there.
JobChanged(t) ==
  LET me == call[t]
      listed == sheet["jobs"].rows[me.item] # "absent" \/ me.fn = "retry"
  IN /\ me.at = "sending" /\ me.served
     /\ sheet' = IF listed THEN [sheet EXCEPT !["jobs"].rows[me.item] = me.rows[1]] ELSE sheet
     /\ EndJobCall(t)
     /\ UNCHANGED <<page, backend, errors, clicks>>

\* Whatever fails: the list is fetched again after a cancel only.
JobCallFails(t) ==
  /\ call[t].at # "idle"
  /\ IF call[t].at = "sending" /\ call[t].fn = "cancel"
     THEN call' = [call EXCEPT ![t].at = "jobs", ![t].served = FALSE] /\ UNCHANGED flags
     ELSE EndJobCall(t)
  /\ UNCHANGED <<page, backend, sheet, errors, clicks>>

\* Mutant: events are shown whatever is expanded by now.
EventsFit_Always(t) == TRUE

\* The job is still the expanded one.
EventsFit(t) == call[t].item = Expanded

JobSheetFetched(t, k) ==
  /\ call[t].at = k /\ call[t].served
  /\ sheet' = IF k = "events"
              THEN IF EventsFit(t) THEN [sheet EXCEPT ![k] = Received(t, Expanded)] ELSE sheet
              ELSE [sheet EXCEPT ![k] = Received(t, NoItem)]
  /\ EndJobCall(t)
  /\ UNCHANGED <<page, backend, errors, clicks>>

StatsPageNext ==
  /\ page = "stats"
  /\ \/ Poll \/ RefreshJobs
     \/ \E i \in Items :
          \/ CancelJob(i) \/ ToggleEvents(i) \/ JobMoves(i)
          \/ \E n \in Items : RetryJob(i, n)
     \/ \E t \in Calls :
          \/ JobServed(t) \/ JobChanged(t) \/ JobCallFails(t)
          \/ \E k \in {"jobs", "events"} : SheetServed(t, k) \/ JobSheetFetched(t, k)

\* The timer goes on, requests end, and now and then a list is answered.
StatsFairness ==
  /\ WF_listPageVars(page = "stats" /\ Poll)
  /\ SF_listPageVars(\E t \in Calls : SheetServed(t, "jobs"))
  /\ SF_listPageVars(\E t \in Calls : JobSheetFetched(t, "jobs"))
  /\ \A t \in Calls : WF_listPageVars(call[t].at \in {"sending", "events"} /\ JobCallFails(t))
-----------------------------------------------------------------------------
(* Properties.                                                             *)

\* The events shown are the expanded job's, no job is shown as over or done that
\* is not, though answers come in any order, and once all calls are over nothing
\* is busy.
StatsSound ==
  /\ sheet["events"].content # "none" => sheet["events"].rows = <<Expanded>>
  /\ sheet["jobs"].content # "none" =>
       \A i \in Items : sheet["jobs"].rows[i] \in {"over", "done"}
         => sheet["jobs"].rows[i] = backend[i]
  /\ (\A t \in Calls : call[t].at = "idle") => flags = {}

\* Once no job is active any more, the list comes to say so and goes on saying
\* so, whatever answers are still on their way.
JobsSettle ==
  <>[](\A i \in Items : backend[i] # "active") => <>[](sheet["jobs"].rows = backend)
=============================================================================
