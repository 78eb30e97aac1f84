----------------------------- MODULE LocalAgents -----------------------------
(***************************************************************************)
(* Calls of the agents' command line tools on the server's own machine:    *)
(* the job search of job-search/service.ts, the discovery of sources and   *)
(* the analysis of research/local-agent-discoverer.ts and -analyzer.ts,    *)
(* and the model of providers/local-cli.ts (under server/src).             *)
(*                                                                         *)
(* Each call runs a child process in a directory of its own and awaits its *)
(* end; a signal or the timeout only has it killed.  A job search runs one *)
(* child for every two platforms at a time and merges what they found.  A  *)
(* search or an analysis that got nothing from one tool asks the other.    *)
(* What a child prints is a choice: prompts and texts are left out.        *)
(***************************************************************************)
EXTENDS Naturals, Sequences, FiniteSets, SequencesExt

CONSTANTS
  Postings,   \* what a recommendation is about: host and path of its address
  MaxScore,   \* scores run from 1 to this; 0 stands for one that is not valid
  MaxListed,  \* bound: recommendations in one answer, at most 20 in the code
  MaxShown,   \* recommendations in the result, 18 in the code
  MaxBatches, \* bound: batches of two platforms, at most 3 in the code
  Sources     \* ids of the sources that an analysis was given

ASSUME LocalAgentsAssumption ==
  MaxScore \in Nat /\ MaxListed \in Nat /\ MaxShown \in Nat /\ MaxBatches \in Nat \ {0}

VARIABLES
  purpose,    \* what the call is for
  installed,  \* the tools found on the machine
  stopped,    \* the signal of the job or request, if the call takes one
  batch,      \* the children, one after the other in each batch
  workdirs,   \* temporary directories of children
  result      \* what the call returned

agentVars == <<purpose, installed, stopped, batch, workdirs, result>>

Purposes == {"jobs", "sources", "analysis", "model"}
BatchIds == 1 .. MaxBatches
Unknown == "unknown source"

NoAnswer == [list |-> <<>>, cites |-> {}]
Batch(pc, left, answer) == [pc |-> pc, left |-> left, overdue |-> FALSE, answer |-> answer]
NoBatch == Batch("none", <<>>, NoAnswer)
Result(kind, list, cites) == [kind |-> kind, list |-> list, cites |-> cites]
Pending == Result("pending", <<>>, {})

LocalAgentsInit ==
  /\ purpose \in Purposes
  /\ installed \in SUBSET {"codex", "claude"}
  /\ stopped \in BOOLEAN /\ (purpose = "analysis" => ~stopped)
  /\ batch = [b \in BatchIds |-> NoBatch]
  /\ workdirs = {}
  /\ result = Pending
-----------------------------------------------------------------------------
(* Children.                                                               *)

\* The tools to ask, in order: runLocalWebAgent, availableCli, and the one
\* tool of a provider.
Candidates ==
  CASE purpose \in {"jobs", "analysis"} -> SelectSeq(<<"codex", "claude">>, LAMBDA c : c \in installed)
    [] purpose = "sources" /\ "claude" \in installed -> <<"claude">>
    [] OTHER -> IF "codex" \in installed THEN <<"codex">> ELSE <<>>

\* The next tool, if there is one; a batch without a child has got nothing.
Spawn(left) ==
  IF left = <<>> THEN Batch("nothing", <<>>, NoAnswer) ELSE Batch("running", left, NoAnswer)

WorkdirsOf(children) == {b \in BatchIds : children[b].pc = "running"}

\* discover, analyze or stream: all batches start at once.
StartCall(n) ==
  /\ result = Pending /\ \A b \in BatchIds : batch[b].pc = "none"
  /\ purpose # "jobs" => n = 1
  /\ batch' = [b \in BatchIds |-> IF b <= n THEN Spawn(Candidates) ELSE NoBatch]
  /\ workdirs' = WorkdirsOf(batch')
  /\ UNCHANGED <<purpose, installed, stopped, result>>

\* A document of the search is not there, no longer active or has no text; or
\* an analysis has no sources.
RefuseCall ==
  /\ result = Pending /\ \A b \in BatchIds : batch[b].pc = "none"
  /\ \/ purpose = "jobs" /\ result' = Result("document_unavailable", <<>>, {})
     \/ purpose = "analysis" /\ result' = Result("local", <<>>, {})
  /\ UNCHANGED <<purpose, installed, stopped, batch, workdirs>>

StopCall ==
  /\ purpose # "analysis" /\ ~stopped
  /\ stopped' = TRUE
  /\ UNCHANGED <<purpose, installed, batch, workdirs, result>>

\* Each child has a timeout of its own.
Overdue(b) ==
  /\ batch[b].pc = "running" /\ ~batch[b].overdue
  /\ batch' = [batch EXCEPT ![b].overdue = TRUE]
  /\ UNCHANGED <<purpose, installed, stopped, workdirs, result>>

\* Only the whole of an answer whose every entry is bad is refused.
Valid(r) == r.score > 0
Readable(answer) == answer.list = <<>> \/ \E i \in DOMAIN answer.list : Valid(answer.list[i])

\* A child is over, killed or not, and its output read.  ok: it exited with 0
\* and printed no more than 4 MiB; parses: so does what it printed.
Exits(b, ok, parses, answer) ==
  /\ batch[b].pc = "running"
  /\ ~(ok /\ parses) => answer = NoAnswer
  /\ LET wasted == stopped \/ batch[b].overdue \/ ~ok
         next == IF purpose = "model" \/ stopped THEN <<>> ELSE Tail(batch[b].left)
     IN batch' = [batch EXCEPT ![b] =
          IF wasted THEN Spawn(next)
          ELSE IF parses /\ Readable(answer) THEN Batch("answered", <<>>, answer)
          ELSE Batch("failed", <<>>, NoAnswer)]
  /\ workdirs' = WorkdirsOf(batch')
  /\ UNCHANGED <<purpose, installed, stopped, result>>
-----------------------------------------------------------------------------
(* What comes of it.                                                       *)

\* Mutant: the last one about a posting wins.
Better_Always(r, current) == TRUE
Better(r, current) == r.score > current.score

\* A Map keeps the place of a key whose value is replaced.
Take(kept, r) ==
  LET at == SelectInSeq(kept, LAMBDA k : k.posting = r.posting)
  IN IF at = 0 THEN Append(kept, r)
     ELSE IF Better(r, kept[at]) THEN [kept EXCEPT ![at] = r] ELSE kept

\* The valid ones of an answer, one after the other.
TakeAll(kept, list) ==
  LET upTo[n \in 0 .. Len(list)] ==
        IF n = 0 THEN kept
        ELSE IF Valid(list[n]) THEN Take(upTo[n - 1], list[n]) ELSE upTo[n - 1]
  IN upTo[Len(list)]

\* Those of the batches that got an answer, in the order of the batches.
Answered == {b \in BatchIds : batch[b].pc = "answered"}
Gathered ==
  LET upTo[b \in 0 .. MaxBatches] ==
        IF b = 0 THEN <<>>
        ELSE IF b \in Answered THEN TakeAll(upTo[b - 1], batch[b].answer.list) ELSE upTo[b - 1]
  IN upTo[MaxBatches]

\* sort is stable: what comes before an entry.
Ahead(kept, i, j) ==
  kept[i].score > kept[j].score \/ (kept[i].score = kept[j].score /\ i < j)
Place(kept, j) == Cardinality({i \in DOMAIN kept : Ahead(kept, i, j)}) + 1
Sorted(kept) == [n \in DOMAIN kept |-> kept[CHOOSE j \in DOMAIN kept : Place(kept, j) = n]]

\* mergeJobRecommendations.
Merge ==
  LET sorted == Sorted(Gathered)
  IN SubSeq(sorted, 1, IF Len(sorted) < MaxShown THEN Len(sorted) ELSE MaxShown)

\* Promise.allSettled, or the await of the one child.
Settles ==
  /\ result = Pending
  /\ \E b \in BatchIds : batch[b].pc # "none"
  /\ \A b \in BatchIds : batch[b].pc # "running"
  /\ result' =
       CASE purpose = "jobs" ->
              IF Answered = {} THEN Result("agent_unavailable", <<>>, {})
              ELSE Result("found", Merge, {})
         [] purpose = "analysis" ->
              IF Answered # {} /\ Unknown \notin batch[1].answer.cites
              THEN Result("found", <<>>, batch[1].answer.cites) ELSE Result("local", <<>>, {})
         [] purpose = "sources" ->
              Result(CASE batch[1].pc = "failed" -> "raised" [] batch[1].pc = "answered" -> "found"
                       [] OTHER -> "nothing", <<>>, {})
         [] OTHER -> Result(IF Answered = {} THEN "raised" ELSE "found", <<>>, {})
  /\ UNCHANGED <<purpose, installed, stopped, batch, workdirs>>

Recommendations == [posting : Postings, score : 0 .. MaxScore]
Answers == IF purpose = "jobs"
  THEN {[list |-> l, cites |-> {}] : l \in UNION {[1 .. n -> Recommendations] : n \in 0 .. MaxListed}}
  ELSE IF purpose = "analysis" THEN {[list |-> <<>>, cites |-> c] : c \in SUBSET (Sources \cup {Unknown})}
  ELSE {NoAnswer}

LocalAgentsNext ==
  \/ \E n \in BatchIds : StartCall(n)
  \/ RefuseCall \/ StopCall \/ Settles
  \/ \E b \in BatchIds :
       \/ Overdue(b)
       \/ \E ok, parses \in BOOLEAN, answer \in Answers : Exits(b, ok, parses, answer)

LocalAgentsSpec == LocalAgentsInit /\ [][LocalAgentsNext]_agentVars
-----------------------------------------------------------------------------
(* Properties.                                                             *)

\* The best score a posting was given in answers that are in order.
Found == {r \in UNION {ToSet(batch[b].answer.list) : b \in Answered} : Valid(r)}
Best(p) == CHOOSE n \in 1 .. MaxScore :
  /\ \E r \in Found : r.posting = p /\ r.score = n
  /\ \A r \in Found : r.posting = p => r.score <= n

\* mergeJobRecommendations against what it is for: each posting once, with its
\* best score, the best first, and those left out no better than those shown.
\* What one batch lost never costs what another found.
MergedBest ==
  purpose = "jobs" /\ result.kind = "found" =>
    LET list == result.list
        shown == {r.posting : r \in ToSet(list)}
        known == {r.posting : r \in Found}
    IN /\ Cardinality(shown) = Len(list)
       /\ \A r \in ToSet(list) : r \in Found /\ r.score = Best(r.posting)
       /\ \A i, j \in DOMAIN list : i < j => list[i].score >= list[j].score
       /\ Len(list) = MaxShown \/ shown = known
       /\ \A p \in known \ shown, r \in ToSet(list) : Best(p) <= r.score

\* A call leaves no child and no directory behind, fails only if no tool
\* answered, and cites only sources that it was given.
AgentsSound ==
  /\ MergedBest
  /\ result # Pending => workdirs = {}
  /\ result.kind = "agent_unavailable" => Answered = {}
  /\ result.cites \subseteq Sources
=============================================================================
