---------------------------- MODULE ProviderModels ----------------------------
(***************************************************************************)
(* What a provider's model gives the kernel, event by event, and what its  *)
(* health probe says: server/src/providers/cli-runner.ts, local-cli.ts and *)
(* direct-api.ts.                                                          *)
(*                                                                         *)
(* A command line tool runs on a paired machine if one is connected when   *)
(* the stream starts, else on this one, where its output is read whole     *)
(* when it has exited and is then given line by line; a signal or the      *)
(* timeout only has the child terminated.  An API is called with one       *)
(* request.  The kernel takes an event at a time and may leave after any.  *)
(* RunnerLink is about the paired machine, ProviderCall about the kernel.  *)
(***************************************************************************)
EXTENDS Naturals, Sequences, FiniteSets, SequencesExt

CONSTANT Printed \* bound: what an agent has to say, texts, usages and noise

Items == [kind : {"text", "usage", "noise"}, n : Nat]

ASSUME ProviderModelsAssumption == \A p \in Printed : p \in Seq(Items)

VARIABLES
  reach,     \* the transports connected
  answer,    \* what the agent has to say, if it is let finish
  via,       \* how it is asked
  streaming, \* how far the stream is
  said,      \* how much the agent has said
  heard,     \* how much of it the stream has taken
  given,     \* events given to the kernel
  signalled, \* the caller's signal, or a timeout
  workdir,   \* the child's directory is there
  probe      \* what the health probe says, and whether its timer is armed

modelVars == <<reach, answer, via, streaming, said, heard, given, signalled, workdir, probe>>

Event(kind, n) == [kind |-> kind, n |-> n]

ModelsInit ==
  /\ reach \in SUBSET {"remote", "local"} /\ answer \in Printed /\ via \in {"cli", "api"}
  /\ streaming = "idle" /\ said = 0 /\ heard = 0 /\ given = <<>>
  /\ signalled = FALSE /\ workdir = FALSE
  /\ probe = [says |-> "nothing", timer |-> FALSE]

\* A machine is paired or leaves, a tool is installed or removed.
ReachChanges(t) ==
  /\ reach' = IF t \in reach THEN reach \ {t} ELSE reach \cup {t}
  /\ UNCHANGED <<answer, via, streaming, said, heard, given, signalled, workdir, probe>>
-----------------------------------------------------------------------------
(* The stream.                                                             *)

\* PreferredCliTransport, which looks who is connected now.
Transport == IF "remote" \in reach THEN "remote" ELSE IF "local" \in reach THEN "local" ELSE "none"

\* The first event is given before anybody is asked.
OpenStream ==
  /\ streaming = "idle"
  /\ given' = <<Event("start", 0)>>
  /\ via' = IF via = "cli" THEN Transport ELSE via
  /\ streaming' = CASE via' = "none" -> "raised" [] via' = "local" -> "running" [] OTHER -> "open"
  /\ workdir' = (via' = "local")
  /\ UNCHANGED <<reach, answer, said, heard, signalled, probe>>

\* The two are one signal, for a child and for a request.
Signal ==
  /\ streaming \in {"open", "running", "giving"} /\ ~signalled
  /\ signalled' = TRUE
  /\ UNCHANGED <<reach, answer, via, streaming, said, heard, given, workdir, probe>>

\* Mutant: only the exit of a child is looked at.
Wasted_ByCode(ok) == ~ok

\* ok: it exited with 0 and printed no more than 4 MiB.
Wasted(ok) == signalled \/ ~ok

\* Mutant: the directory of a child whose output is not used stays.
WorkdirAfter_Wasted(ok) == TRUE

WorkdirAfter(ok) == ~Wasted(ok)

\* One that was told to end may exit with 0 as well, having said less.
ChildExits(ok, n) ==
  /\ streaming = "running" /\ n <= Len(answer) /\ (ok /\ ~signalled => n = Len(answer))
  /\ said' = n
  /\ streaming' = IF Wasted(ok) THEN "raised" ELSE "giving"
  /\ workdir' = WorkdirAfter(ok)
  /\ UNCHANGED <<reach, answer, via, heard, given, signalled, probe>>

\* The next line of a child, or what comes from elsewhere as it comes; noise
\* is normalised to nothing, and a usage kept for the end.
Hear ==
  /\ \/ streaming = "giving" /\ heard < said /\ UNCHANGED said
     \/ streaming = "open" /\ heard < Len(answer) /\ said' = said + 1
  /\ heard' = heard + 1
  /\ given' = IF answer[heard + 1].kind = "text" THEN Append(given, answer[heard + 1]) ELSE given
  /\ UNCHANGED <<reach, answer, via, streaming, signalled, workdir, probe>>

\* Mutant: the usage seen first.
UsageOf_First(items) == SelectInSeq(items, LAMBDA i : i.kind = "usage")

\* The usage seen last; 0 for none.
UsageOf(items) == SelectLastInSeq(items, LAMBDA i : i.kind = "usage")

Closing ==
  LET at == UsageOf(SubSeq(answer, 1, heard))
  IN (IF at = 0 THEN <<>> ELSE <<answer[at]>>) \o <<Event("stop", 0)>>

EndStream ==
  /\ \/ streaming = "giving" /\ heard = said
     \/ streaming = "open" /\ heard = Len(answer)
  /\ given' = given \o Closing
  /\ streaming' = "done" /\ workdir' = FALSE
  /\ UNCHANGED <<reach, answer, via, said, heard, signalled, probe>>

\* The connection or the request fails or is aborted; or the kernel, which has
\* got an event, does not ask for another.
StreamBreaks ==
  /\ \/ streaming = "open" /\ streaming' = "raised"
     \/ streaming \in {"open", "giving"} /\ streaming' = "left"
  /\ workdir' = FALSE
  /\ UNCHANGED <<reach, answer, via, said, heard, given, signalled, probe>>
-----------------------------------------------------------------------------
(* The health of a provider; asked before the stream, as one or the other. *)

Says(what) == probe' = [says |-> what, timer |-> FALSE] /\
              UNCHANGED <<reach, answer, via, streaming, said, heard, given, signalled, workdir>>

AskHealth ==
  /\ streaming = "idle" /\ probe.says = "nothing"
  /\ IF via = "cli" THEN Says(IF Transport # "none" THEN "healthy" ELSE "unreachable")
     ELSE /\ probe' = [says |-> "asked", timer |-> TRUE]
          /\ UNCHANGED <<reach, answer, via, streaming, said, heard, given, signalled, workdir>>

\* probeHealth: any answer but an ok one, an error and the timer are the same.
HealthTold(ok) ==
  /\ probe.says = "asked"
  /\ Says(IF ok THEN "healthy" ELSE "unreachable")

ModelsNext ==
  \/ \E t \in {"remote", "local"} : ReachChanges(t)
  \/ OpenStream \/ Signal \/ Hear \/ EndStream \/ StreamBreaks \/ AskHealth
  \/ \E ok \in BOOLEAN : HealthTold(ok) \/ \E n \in 0 .. Len(answer) : ChildExits(ok, n)
-----------------------------------------------------------------------------
\* What the agent has to say, by kind, and which of its texts one is.
TextsSaid == {i \in DOMAIN answer : answer[i].kind = "text"}
UsagesSaid == {i \in DOMAIN answer : answer[i].kind = "usage"}
Nth(i) == Cardinality({k \in TextsSaid : k <= i})

\* Only a whole answer is given an end, with all its texts and the usage its
\* agent gave last; what was cut short, be it by a signal that the agent took
\* for a reason to exit in order, never is, whatever of it was given before:
\* that is, after the start, the first of its texts in their order.
AnswerWhole ==
  IF streaming = "done"
  THEN /\ \A i \in TextsSaid : given[Nth(i) + 1] = answer[i]
       /\ \A i \in UsagesSaid : (\A k \in UsagesSaid : k <= i) => given[Len(given) - 1] = answer[i]
       /\ Last(given).kind = "stop"
       /\ Len(given) = Cardinality(TextsSaid) + (IF UsagesSaid = {} THEN 2 ELSE 3)
  ELSE /\ \A n \in DOMAIN given : n > 1 => \E i \in TextsSaid : Nth(i) = n - 1 /\ given[n] = answer[i]
       /\ \A n \in DOMAIN given : given[n].kind # "stop"

\* The directory of a child and the timer of a probe do not outlive them.
NothingLeft ==
  /\ workdir <=> via = "local" /\ streaming \in {"running", "giving"}
  /\ probe.timer <=> probe.says = "asked"

ModelsTell == AnswerWhole /\ NothingLeft
=============================================================================
