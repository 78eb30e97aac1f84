-------------------------------- MODULE Chat --------------------------------
(***************************************************************************)
(* The conversations of one application: server/src/workflows/             *)
(* chat-service.ts and strands-chat-executor.ts, with the conversations    *)
(* and messages of db/research-conversation-repositories.ts and the task   *)
(* ui.chat of jobs/ui-task-definitions.ts.                                 *)
(*                                                                         *)
(* A turn is a question sent as a job of one attempt.  Its disclosure is   *)
(* shown first and covers the history the provider will be given; the      *)
(* handler awaits the provider and then creates the conversation, if it is *)
(* new, and writes the question and the answer, in a transaction each.     *)
(* Its signal may be aborted meanwhile (a request to cancel, the handler's *)
(* timeout, which ends the job at once, or a lost lease), and the process  *)
(* may die anywhere.  Histories are short enough here never to be cut to   *)
(* their last twenty messages.                                             *)
(***************************************************************************)
EXTENDS Naturals, Sequences, FiniteSets, SequencesExt

CONSTANTS
  Turns,          \* questions, each with its job and its disclosure
  Conversations,  \* ids of conversations
  New             \* the conversationId of a question that opens one

ASSUME NewAssumption == New \notin Conversations

VARIABLES
  messages,  \* of each conversation that exists: <<turn, role>> by sequence
  turn,      \* each turn's job, conversation, history as disclosed, signal
  run        \* status of each turn's provider run, "none" before its row

chatVars == <<messages, turn, run>>

Open == DOMAIN messages
History(c) == IF c = New THEN <<>> ELSE messages[c]
Over == {"succeeded", "failed", "cancelled"}

ChatInit ==
  /\ messages = <<>>
  /\ turn = [t \in Turns |-> [job |-> "none", in |-> New, history |-> <<>>,
                              aborted |-> FALSE, died |-> FALSE]]
  /\ run = [t \in Turns |-> "none"]

\* The disclosure is shown and confirmed, the job enqueued.  Its request hash
\* is that of a prompt with this history.
Ask(t, c) ==
  /\ turn[t].job = "none"
  /\ c \in Open \cup {New}
  /\ turn' = [turn EXCEPT ![t].job = "queued", ![t].in = c, ![t].history = History(c)]
  /\ UNCHANGED <<messages, run>>

\* consumeForProviderRun compares the hash of the prompt as it is now.
SameRequest(t) == turn[t].history = History(turn[t].in)

\* send up to the await: a refusal leaves no provider run behind.
Execute(t) ==
  /\ turn[t].job = "queued"
  /\ IF SameRequest(t)
     THEN /\ turn' = [turn EXCEPT ![t].job = "running"]
          /\ run' = [run EXCEPT ![t] = "running"]
     ELSE /\ turn' = [turn EXCEPT ![t].job = "failed"]
          /\ UNCHANGED run
  /\ UNCHANGED messages

\* A cancelled job ends when its handler gives up, a timed-out one at once.
Abort(t, job) ==
  /\ turn[t].job = "running" /\ ~turn[t].aborted
  /\ turn' = [turn EXCEPT ![t].aborted = TRUE, ![t].job = job]
  /\ UNCHANGED <<messages, run>>

CancelQueued(t) ==
  /\ turn[t].job = "queued"
  /\ turn' = [turn EXCEPT ![t].job = "cancelled"]
  /\ UNCHANGED <<messages, run>>

\* The first n of the two messages of turn t, in its conversation or in d, a
\* new one that is created before the first of them.
Written(t, d, n) ==
  LET c == IF turn[t].in = New THEN d ELSE turn[t].in
      both == << <<t, "user">>, <<t, "assistant">> >>
  IN [x \in Open \cup {c} |-> (IF x \in Open THEN messages[x] ELSE <<>>) \o
                              (IF x = c THEN SubSeq(both, 1, n) ELSE <<>>)]

\* Mutant: send does not look at the signal once the provider has answered.
MayWrite_Aborted(t, answer) == answer = "cited"

\* The answer is structured, the turn is still wanted, every citation allowed.
MayWrite(t, answer) == answer = "cited" /\ ~turn[t].aborted

RunEnd(answer) ==
  CASE answer \in {"cited", "uncited", "unstructured"} -> "succeeded"
    [] OTHER -> answer

\* The provider's stream is over.  Up to the end of the job nothing else runs.
Answer(t, answer, d) ==
  /\ run[t] = "running" /\ ~turn[t].died
  /\ d \in Conversations \ Open
  /\ answer = "cancelled" => turn[t].aborted
  /\ run' = [run EXCEPT ![t] = RunEnd(answer)]
  /\ messages' = IF MayWrite(t, answer) THEN Written(t, d, 2) ELSE messages
  /\ turn' = [turn EXCEPT ![t].job =
        IF @ \in Over THEN @ ELSE IF @ = "cancelling" THEN "cancelled"
        ELSE IF MayWrite(t, answer) THEN "succeeded" ELSE "failed"]

\* The process dies, perhaps while it stores the answer of turn t: the run has
\* ended by then, the conversation is there, the first n - 1 messages are, and
\* the job has not ended.  The next process finds the leases expired; an
\* external job is not tried again.
ChatCrash(t, d, n) ==
  /\ n > 0 => run[t] = "running" /\ ~turn[t].died /\ ~turn[t].aborted
  /\ d \in Conversations \ Open
  /\ messages' = IF n = 0 THEN messages ELSE Written(t, d, n - 1)
  /\ run' = [run EXCEPT ![t] = IF n > 0 THEN "succeeded" ELSE @]
  /\ turn' = [x \in Turns |->
        IF turn[x].job \in {"running", "cancelling"} \/ (x = t /\ n > 0)
        THEN [turn[x] EXCEPT !.job = IF @ \in Over THEN @
                                     ELSE IF @ = "cancelling" THEN "cancelled" ELSE "failed",
                             !.died = TRUE]
        ELSE [turn[x] EXCEPT !.died = @ \/ run[x] = "running"]]
  /\ turn' # turn

ChatNext == \E t \in Turns :
  \/ \E c \in Conversations \cup {New} : Ask(t, c)
  \/ Execute(t) \/ CancelQueued(t)
  \/ \E job \in {"cancelling", "failed"} : Abort(t, job)
  \/ \E d \in Conversations :
       \/ \E answer \in {"cited", "uncited", "unstructured", "failed", "cancelled"} :
            Answer(t, answer, d)
       \/ \E n \in 0..3 : ChatCrash(t, d, n)

ChatSpec == ChatInit /\ [][ChatNext]_chatVars
-----------------------------------------------------------------------------
(* Properties.                                                             *)

Roles(c, t) == {i \in DOMAIN messages[c] : messages[c][i][1] = t}

\* A conversation is a sequence of turns, each a question followed at once by
\* its answer, whatever turns overlapped; only a crash leaves a question alone.
TurnsWhole == \A c \in Open : \A i \in DOMAIN messages[c] :
  LET m == messages[c][i] IN
  IF m[2] = "user"
  THEN turn[m[1]].died \/ (i < Len(messages[c]) /\ messages[c][i + 1] = <<m[1], "assistant">>)
  ELSE i > 1 /\ messages[c][i - 1] = <<m[1], "user">>

\* A turn is stored once, in the conversation it was asked in, after all of the
\* history its answer was given.
InItsPlace == \A c \in Open : \A t \in Turns : Roles(c, t) # {} =>
  /\ turn[t].in \in {c, New}
  /\ Cardinality(Roles(c, t)) <= 2
  /\ \A e \in Open \ {c} : Roles(e, t) = {}
  /\ IsPrefix(turn[t].history, messages[c])

\* The job tells what became of the turn: it succeeded exactly when question
\* and answer are stored, and a stored answer names a provider run that
\* succeeded.  A cancelled or timed-out turn leaves nothing, however late its
\* provider answers.
JobTells == \A t \in Turns :
  LET stored == \E c \in Open : Roles(c, t) # {} IN
  /\ turn[t].job = "succeeded" => stored
  /\ stored => run[t] = "succeeded" /\ (turn[t].job = "succeeded" \/ turn[t].died)

\* What a reader of a conversation may rely on.
ConversationSound == TurnsWhole /\ InItsPlace /\ JobTells
=============================================================================
