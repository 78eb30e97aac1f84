-------------------------- MODULE MCJobEventStream --------------------------
(***************************************************************************)
(* A job's events on their way to a client, with a log long enough to be   *)
(* pruned in the middle and buffers that both suffice and overflow; or the *)
(* page that fetches the jobs and their events now and then; or two pages  *)
(* that change something at once.  The parts share no state, so one of     *)
(* them moves, chosen at the start.                                        *)
(***************************************************************************)
EXTENDS JobEventStream, StatsPage, ClientChanges

VARIABLE part

MCCalls == 1 .. 2

StatsRests ==
  /\ page = "none" /\ backend = [i \in Items |-> "absent"]
  /\ sheet = [k \in {"jobs", "events"} |-> Blank]
  /\ flags = {} /\ errors = {} /\ call = [t \in Calls |-> NoCall] /\ clicks = 0

MCInit ==
  /\ part \in {"stream", "page", "changes"}
  /\ Init
  /\ IF part = "page" THEN StatsInit ELSE StatsRests
  /\ ChangesInit

MCNext ==
  /\ \/ part = "stream" /\ Next /\ UNCHANGED <<listPageVars, changeVars>>
     \/ part = "page" /\ StatsPageNext /\ UNCHANGED <<vars, changeVars>>
     \/ part = "changes" /\ ChangesNext /\ UNCHANGED <<vars, listPageVars>>
  /\ UNCHANGED part

\* A part that rests is owed no step.
MCSpec ==
  /\ MCInit /\ [][MCNext]_<<vars, listPageVars, changeVars, part>>
  /\ WF_vars(part = "stream" /\ Server) /\ WF_vars(part = "stream" /\ Client)
  /\ StatsFairness
-----------------------------------------------------------------------------
\* What there is to see of a job that is over is seen in the end: its events by
\* the client of a stream that stays connected, its state on the page.
FeedsDeliver == (part = "stream" => ReplayDelivers) /\ (part = "page" => JobsSettle)

\* What a page shows is what there is (StatsPage), and a change it sends is
\* refused only when overtaken (ClientChanges).
PagesTell == (part = "page" => StatsSound) /\ (part = "changes" => RefusedIfOvertaken)
=============================================================================
