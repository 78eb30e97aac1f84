-------------------------- MODULE MCProviderInvoke --------------------------
(***************************************************************************)
(* One external job and three incarnations of the server, of which the     *)
(* first two may crash; or one of what jobs call that keeps no rows: the   *)
(* call of a provider, a call of the machine's own agents, the fetch of a  *)
(* web page, the preview of a file, the texts of a prompt, a model.  The   *)
(* parts share no state, so one of them moves, chosen at the start, and    *)
(* the others rest.                                                        *)
(***************************************************************************)
EXTENDS ProviderInvoke, ProviderCall, LocalAgents, PublicFetch, FilePreview,
        PromptSources, ProviderModels

VARIABLE part

InvokeKinds    == {"provider-invoke"}
MCRetryClass   == [k \in Kinds |-> "external"]
MCMaxAttempts  == [k \in Kinds |-> 1]
MCTarget       == [k \in Kinds |-> "app"]
MCRetryDelay   == [n \in 1 .. 1 |-> 1]

MCSizes == {[k \in Parents |-> 3], [k \in Parents |-> IF k = "document" THEN 0 ELSE 1]}

MCRef(k, v) == [of |-> k, version |-> v]
MCInputs ==
  {<<MCRef("document", 2)>>, <<MCRef("document", 1), MCRef("document", 1)>>,
   <<MCRef("posting", 1), MCRef("research", 1)>>,
   <<MCRef("draft", 1), MCRef("posting", 1)>>}
MCCited == {MCRef("document", 1), MCRef("posting", 1), MCRef("draft", 1)}

MCItem(k, n) == [kind |-> k, n |-> n]
MCPrinted ==
  {<<>>, <<MCItem("text", 1)>>, <<MCItem("noise", 0), MCItem("text", 1), MCItem("usage", 1)>>,
   <<MCItem("text", 1), MCItem("usage", 1), MCItem("text", 2), MCItem("usage", 2)>>}

MCFile == [kind |-> "text", size |-> 1, pages |-> 0, entries |-> <<>>]

\* A part that rests is in one of its initial states.
MCInit ==
  /\ part \in {"invoke", "call", "agents", "fetch", "preview", "prompts", "model"}
  /\ InvokeInit
  /\ ProviderCallInit /\ (part # "call" =>
       /\ invocation = [valid |-> FALSE, structured |-> FALSE, tools |-> {}]
       /\ ~provider.known /\ ~aborted)
  /\ LocalAgentsInit /\ (part # "agents" => purpose = "jobs" /\ installed = {} /\ ~stopped)
  /\ FetchInit /\ (part # "fetch" => fetch.url \in Forbidden)
  /\ IF part = "preview" THEN PreviewInit
     ELSE file = MCFile /\ stage = "new" /\ stored = {} /\ spilled = FALSE /\ previewed = "none"
  /\ PromptInit /\ (textSize["document"] = 0 <=> parent["research"].state = "failed")
  /\ part # "prompts" => textSize["document"] > 0
  /\ ModelsInit /\ (part # "model" => reach = {} /\ answer = <<>> /\ via = "api")

MCNext ==
  /\ \/ part = "invoke" /\ InvokeNext
        /\ UNCHANGED <<callVars, agentVars, fetchVars, previewVars, promptVars, modelVars>>
     \/ part = "call" /\ ProviderCallNext
        /\ UNCHANGED <<allVars, agentVars, fetchVars, previewVars, promptVars, modelVars>>
     \/ part = "agents" /\ LocalAgentsNext
        /\ UNCHANGED <<allVars, callVars, fetchVars, previewVars, promptVars, modelVars>>
     \/ part = "fetch" /\ FetchNext
        /\ UNCHANGED <<allVars, callVars, agentVars, previewVars, promptVars, modelVars>>
     \/ part = "preview" /\ PreviewNext
        /\ UNCHANGED <<allVars, callVars, agentVars, fetchVars, promptVars, modelVars>>
     \/ part = "prompts" /\ PromptNext
        /\ UNCHANGED <<allVars, callVars, agentVars, fetchVars, previewVars, modelVars>>
     \/ part = "model" /\ ModelsNext
        /\ UNCHANGED <<allVars, callVars, agentVars, fetchVars, previewVars, promptVars>>
  /\ UNCHANGED part

MCVars == <<allVars, callVars, agentVars, fetchVars, previewVars, promptVars, modelVars, part>>

\* InvokeFairness, of the part it is about.
MCFairness ==
  LET moves == part = "invoke" IN
  /\ WF_allVars(moves /\ TimePasses /\ UNCHANGED runVars)
  /\ \A p \in Owners :
       /\ WF_allVars(moves /\ InvokeCallbacks(p))
       /\ \A j \in Jobs, n \in AttemptNumbers :
            /\ WF_allVars(moves /\ Free(p) /\ TimeoutFires(p, j, n) /\ UNCHANGED runVars)
            /\ WF_allVars(moves /\ Free(p) /\ HeartbeatFires(p, j, n) /\ UNCHANGED runVars)

MCSpec == MCInit /\ [][MCNext]_MCVars /\ MCFairness
-----------------------------------------------------------------------------
\* What a call of an agent tells its caller, whether the agent is a provider
\* (ProviderCall), its model (ProviderModels) or a tool of this machine
\* (LocalAgents), is true of it.
AgentCallsSound ==
  (part = "call" => CallTells) /\ (part = "agents" => AgentsSound) /\ (part = "model" => ModelsTell)

\* A page of the web (PublicFetch) and a file (FilePreview) give a text only
\* within their limits, and leave nothing behind; the texts of a prompt
\* (PromptSources) are those shown, within theirs, and what is kept was sent.
IngestionSound ==
  (part = "fetch" => FetchSound) /\ (part = "preview" => PreviewSound) /\ (part = "prompts" => TextsSound)
=============================================================================
