---------------------------- MODULE PromptSources ----------------------------
(***************************************************************************)
(* The texts a prompt is made of: server/src/disclosures/sources.ts,       *)
(* workflows/source-content.ts and the executors and services of           *)
(* workflows/, which send them, and artifacts/, which records them.        *)
(*                                                                         *)
(* One request is shown, confirmed, sent and answered.  There is one       *)
(* parent of each kind: a document, a posting, a source of research, and a *)
(* series of drafts, which are cover letters.  A version never changes,    *)
(* and the texts of one kind are equally long.  A series is "active" while *)
(* its status is draft.  Nonces, expiry and settings are in Generation,    *)
(* the turns of a conversation in Chat.                                    *)
(***************************************************************************)
EXTENDS Naturals, Sequences, FiniteSets, SequencesExt

CONSTANTS
  Sizes,       \* what the lengths of the texts may be, in units
  MaxSource,   \* MAX_SOURCE_CHARACTERS, in units
  MaxTotal,    \* MAX_TOTAL_CHARACTERS, in units
  MaxCulture,  \* the total of a culture interview, in units
  MaxInputs,   \* what the schemas allow in one request
  Inputs,      \* bound: the inputs of a request
  Cited,       \* bound: what an answer may cite
  MaxHistory,  \* messages of a conversation in a prompt
  MaxVersions, \* bound: versions of a parent
  MaxMessages  \* bound: messages of the conversation

Parents == {"document", "posting", "research", "draft"}

\* A source of research is a row of its own.
Refs == {r \in [of : Parents, version : 1 .. MaxVersions] : r.of = "research" => r.version = 1}

ASSUME PromptSourcesAssumption ==
  /\ \A inputs \in Inputs : inputs \in Seq(Refs) /\ Len(inputs) \in 1 .. MaxInputs
  /\ Cited \subseteq Refs
  /\ Sizes \subseteq [Parents -> Nat]
  /\ MaxSource \in Nat \ {0} /\ MaxHistory \in Nat /\ MaxVersions \in Nat \ {0}
  /\ MaxInputs \in Nat \ {0} /\ MaxMessages \in Nat /\ MaxCulture \in Nat /\ MaxTotal \in Nat
  /\ MaxInputs <= MaxCulture /\ MaxCulture <= MaxTotal

Requests == [purpose : {"letter", "culture", "chat"}, inputs : Inputs]

VARIABLES
  textSize, \* how long the texts of each parent are
  parent,   \* each parent's state and newest version
  messages, \* how many the conversation has
  consent,  \* the preview: its request, its prompt and its manifest
  turn,     \* how far the request is; what it asks for, what was sent and cited
  recorded, \* the inputs and the citations kept with the answer
  moved     \* parents that got a version or were deleted since it was recorded

promptVars == <<textSize, parent, messages, consent, turn, recorded, moved>>

NoTurn == [stage |-> "new", request |-> [purpose |-> "chat", inputs |-> <<>>], own |-> FALSE,
            sent |-> <<>>, cited |-> {}]

PromptInit ==
  /\ textSize \in Sizes
  /\ \E available \in {"available", "failed"} :
       parent = [k \in Parents |-> [state |-> IF k = "research" THEN available ELSE "active", newest |-> 1]]
  /\ messages = 0 /\ turn = NoTurn
  /\ consent = [request |-> NoTurn.request, prompt |-> <<>>, manifest |-> <<>>]
  /\ recorded = [by |-> "nobody", inputs |-> {}, cited |-> {}] /\ moved = {}
-----------------------------------------------------------------------------
\* DisclosureSourceResolver.resolve: archived is still available.
Available(r) ==
  /\ r.version <= parent[r.of].newest
  /\ parent[r.of].state \in IF r.of = "research" THEN {"available"} ELSE {"active", "archived"}

\* parentCurrentId; a source of research has none.
CurrentOf(r) == IF r.of = "research" THEN 0 ELSE parent[r.of].newest

\* The text of a version, or none: a document may have no text, and research
\* an excerpt of blanks.
HasText(r) == Available(r) /\ textSize[r.of] > 0

Content(r) == [ref |-> r, size |-> IF textSize[r.of] > MaxSource THEN MaxSource ELSE textSize[r.of]]

\* Mutant: the total is not divided among the inputs.
PerSource_Whole(n, total) == IF MaxSource < total THEN MaxSource ELSE total

PerSource(n, total) == IF MaxSource < total \div n THEN MaxSource ELSE total \div n

ResolveAll(inputs, total) ==
  LET per == PerSource(Len(inputs), total)
  IN [i \in DOMAIN inputs |->
        LET c == Content(inputs[i]) IN [c EXCEPT !.size = IF @ > per THEN per ELSE @]]

Total(purpose) == IF purpose = "culture" THEN MaxCulture ELSE MaxTotal

WorkflowMessages(request) ==
  <<request.purpose, ResolveAll(request.inputs, Total(request.purpose)), {}>>

ChatMessages(request, history) == <<"chat", ResolveAll(request.inputs, MaxTotal), history>>

\* prepare of either executor; the history is the newest messages.
Prompt(request) ==
  IF request.purpose = "chat"
  THEN ChatMessages(request, {m \in 1 .. messages : m + MaxHistory > messages})
  ELSE WorkflowMessages(request)

Preparable(request) == \A i \in DOMAIN request.inputs : HasText(request.inputs[i])

AllAvailable(inputs) == \A i \in DOMAIN inputs : Available(inputs[i])

Manifest(inputs) == [i \in DOMAIN inputs |-> <<inputs[i], CurrentOf(inputs[i])>>]
-----------------------------------------------------------------------------
TurnStage(stage) == turn' = [turn EXCEPT !.stage = stage]

ShowPrompt(request) ==
  /\ turn.stage = "new"
  /\ IF Preparable(request)
     THEN /\ TurnStage("shown")
          /\ consent' = [request |-> request, prompt |-> Prompt(request),
                         manifest |-> Manifest(request.inputs)]
     ELSE TurnStage("refused") /\ UNCHANGED consent
  /\ UNCHANGED <<textSize, parent, messages, recorded, moved>>

ConfirmPrompt ==
  LET inputs == consent.request.inputs IN
  /\ turn.stage = "shown"
  /\ TurnStage(IF AllAvailable(inputs) /\ Manifest(inputs) = consent.manifest THEN "confirmed" ELSE "refused")
  /\ UNCHANGED <<textSize, parent, messages, consent, recorded, moved>>

\* Mutant: what is compared is the inputs, not what is made of them.
SameRequest_Inputs(request) == request.inputs = consent.request.inputs

\* The request hash; the other fields are those of the confirmation itself, or
\* the provider's.
SameRequest(request) == Prompt(request) = consent.prompt

\* consumeForProviderRun: the inputs resolved are those confirmed.
Consumable(request) == SameRequest(request) /\ AllAvailable(consent.request.inputs)

\* artifactKindForWorkflow: only a letter may go into the series of letters.
ArtifactKind(purpose) == IF purpose = "letter" THEN "cover_letter" ELSE "interview_brief"

SeriesAccepts(request, own) ==
  own => /\ request.purpose # "chat" /\ ArtifactKind(request.purpose) = "cover_letter"
         /\ parent["draft"].state = "active"

\* Whatever request arrives with the confirmation; own: into the series that
\* is there, or into a new one.
SendPrompt(request, own) ==
  /\ turn.stage = "confirmed"
  /\ IF SeriesAccepts(request, own) /\ Preparable(request) /\ Consumable(request)
     THEN turn' = [turn EXCEPT !.stage = "sent", !.request = request, !.own = own, !.sent = Prompt(request)]
     ELSE TurnStage("refused")
  /\ UNCHANGED <<textSize, parent, messages, consent, recorded, moved>>

\* sanitizeGeneratedCitations.
Sanitized(cited, inputs) == cited \cap ToSet(inputs)

\* Mutant: nobody looks what an answer cites.
CitesUnknown_Never(cited, inputs) == FALSE

\* A citation of anything else spoils the answer.
CitesUnknown(cited, inputs) == ~(cited \subseteq ToSet(inputs))

ReplyTo(cited) ==
  /\ turn.stage = "sent"
  /\ IF turn.request.purpose = "chat"
     THEN turn' = [turn EXCEPT !.cited = cited, !.stage =
                     IF CitesUnknown(cited, turn.request.inputs) THEN "refused" ELSE "answered"]
     ELSE turn' = [turn EXCEPT !.stage = "answered", !.cited = Sanitized(cited, turn.request.inputs)]
  /\ UNCHANGED <<textSize, parent, messages, consent, recorded, moved>>

\* What run does with the answer, and createRevision: each input is resolved
\* again, and is a row of its own, so the same input twice is refused.  The new
\* revision is its series' newest.
RecordDraft ==
  LET inputs == turn.request.inputs IN
  /\ turn.stage = "answered" /\ turn.request.purpose # "chat"
  /\ IF ~CitesUnknown(turn.cited, inputs) /\ AllAvailable(inputs) /\ IsInjective(inputs)
        /\ (turn.own => parent["draft"].state = "active")
     THEN /\ recorded' = [by |-> "draft", inputs |-> ToSet(Manifest(inputs)), cited |-> turn.cited]
          /\ moved' = IF turn.own THEN {"draft"} ELSE {}
          /\ parent' = IF turn.own THEN [parent EXCEPT !["draft"].newest = @ + 1] ELSE parent
          /\ TurnStage("recorded")
     ELSE TurnStage("refused") /\ UNCHANGED <<parent, recorded, moved>>
  /\ UNCHANGED <<textSize, messages, consent>>

\* Nothing is resolved again.
RecordTurn ==
  /\ turn.stage = "answered" /\ turn.request.purpose = "chat"
  /\ recorded' = [by |-> "chat", cited |-> turn.cited,
                  inputs |-> {<<r, 0>> : r \in ToSet(turn.request.inputs)}]
  /\ messages' = messages + 2
  /\ TurnStage("recorded")
  /\ UNCHANGED <<textSize, parent, consent, moved>>
-----------------------------------------------------------------------------
Moves(k) == moved' = IF recorded.by = "draft" THEN moved \cup {k} ELSE moved

NewVersion(k) ==
  /\ k # "research" /\ parent[k].state = "active" /\ parent[k].newest < MaxVersions
  /\ parent' = [parent EXCEPT ![k].newest = @ + 1] /\ Moves(k)
  /\ UNCHANGED <<textSize, messages, consent, turn, recorded>>

ArchiveParent(k) ==
  /\ k # "research" /\ parent[k].state = "active"
  /\ parent' = [parent EXCEPT ![k].state = "archived"]
  /\ UNCHANGED <<textSize, messages, consent, turn, recorded, moved>>

\* No posting is ever deleted.
DeleteParent(k) ==
  /\ k \in {"document", "draft"} /\ parent[k].state # "deleted"
  /\ parent' = [parent EXCEPT ![k].state = "deleted"] /\ Moves(k)
  /\ UNCHANGED <<textSize, messages, consent, turn, recorded>>

\* Another turn of the same conversation.
OtherTurn ==
  /\ messages + 2 <= MaxMessages
  /\ messages' = messages + 2
  /\ UNCHANGED <<textSize, parent, consent, turn, recorded, moved>>

PromptNext ==
  \/ \E request \in Requests : ShowPrompt(request) \/ \E own \in BOOLEAN : SendPrompt(request, own)
  \/ ConfirmPrompt \/ RecordDraft \/ RecordTurn \/ OtherTurn
  \/ \E r, s \in Cited : ReplyTo({r, s})
  \/ \E k \in Parents : NewVersion(k) \/ ArchiveParent(k) \/ DeleteParent(k)

PromptSpec == PromptInit /\ [][PromptNext]_promptVars
-----------------------------------------------------------------------------
Texts(sent) == sent[2]

\* How long the texts are together.
Together(texts) ==
  LET upTo[n \in 0 .. Len(texts)] == IF n = 0 THEN 0 ELSE upTo[n - 1] + texts[n].size
  IN upTo[Len(texts)]

\* Every text has its share of the prompt, none is lost, and together they
\* stay within the limit of the purpose, whatever their number and length.
PromptFits ==
  turn.stage \in {"sent", "answered", "recorded"} =>
    LET texts == Texts(turn.sent) IN
    /\ \A i \in DOMAIN texts : texts[i].size > 0
    /\ Together(texts) <= Total(turn.request.purpose)

\* What was sent is what the user was shown, the words of the conversation
\* included, although other versions and turns come in between; and what is
\* kept with the answer, as its inputs and its citations, was sent.
KeptAsSent ==
  /\ turn.stage \in {"sent", "answered", "recorded"} => turn.sent = consent.prompt
  /\ turn.stage = "recorded" =>
       LET sent == {t.ref : t \in ToSet(Texts(turn.sent))} IN
       /\ {i[1] : i \in recorded.inputs} = sent
       /\ recorded.cited \subseteq sent

\* Mutant: an input that is gone is no reason.
InputStale_Ignored(i) == Available(i[1]) /\ CurrentOf(i[1]) # i[2]

\* getProvenance, of one stored input.
InputStale(i) == ~Available(i[1]) \/ CurrentOf(i[1]) # i[2]

\* A draft is reported stale exactly when one of its inputs got a newer
\* version or went away since the draft was recorded; one made from a draft of
\* its own series is, by its own insertion, from the start.
StaleIfMoved ==
  recorded.by = "draft" =>
    ((\E i \in recorded.inputs : InputStale(i)) <=> (\E i \in recorded.inputs : i[1].of \in moved))

TextsSound == PromptFits /\ KeptAsSent /\ StaleIfMoved
=============================================================================
