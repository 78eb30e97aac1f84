---------------------------- MODULE ProviderCall ----------------------------
(***************************************************************************)
(* One call of a provider: ProviderKernel.stream of server/src/agents/     *)
(* kernel.ts, with registry.ts and kernel-terminal.ts.                     *)
(*                                                                         *)
(* stream() is a generator.  It yields events, ends with one that tells    *)
(* how the call went, and may be held at any yield or await while its      *)
(* caller aborts the call or its timer fires.  Between, an agent of the    *)
(* SDK drives the model and the tools; whatever it does is a choice, but   *)
(* it stops as cancelled only if the signal it was given is aborted, and   *)
(* runs its tools one at a time.  Texts are only valid or not.             *)
(***************************************************************************)
EXTENDS Naturals, Sequences, FiniteSets, SequencesExt

CONSTANTS
  Tools,           \* ids of the tools the server has registered
  ResearchTools,   \* the ones that require cited research
  Foreign,         \* a well-formed tool id that is not registered
  MaxAgentEvents   \* bound: events of the agent that concern the kernel

ASSUME ToolsAssumption ==
  /\ ResearchTools \subseteq Tools
  /\ Foreign \notin Tools
  /\ MaxAgentEvents \in Nat

VARIABLES
  invocation,  \* what is asked for
  provider,    \* the registration of its provider, if it is known
  phase,       \* where the generator is
  aborted,     \* the caller's signal
  timer,       \* the timeout of the call
  use,         \* the tool use under way
  repairs,     \* structuredFailures
  usage,       \* how many usage events came; the last one is reported
  spoke,       \* the agent has produced text
  steps,       \* events of the agent so far
  yielded      \* the events given to the caller, the last one as its result

callVars == <<invocation, provider, phase, aborted, timer, use, repairs, usage, spoke, steps, yielded>>

Invocations == [valid : BOOLEAN, structured : BOOLEAN, tools : SUBSET (Tools \cup {Foreign})]
Providers == [known : BOOLEAN, enabled : BOOLEAN, generation : BOOLEAN,
              structured : BOOLEAN, cited : BOOLEAN, native : BOOLEAN]

ProviderCallInit ==
  /\ invocation \in Invocations /\ provider \in {p \in Providers : p.known \/ p = [f \in DOMAIN p |-> FALSE]}
  /\ phase = "new" /\ aborted \in BOOLEAN /\ timer = "none"
  /\ use = "none" /\ repairs = 0 /\ usage = 0 /\ spoke = FALSE /\ steps = 0
  /\ yielded = <<>>

TimedOut == timer = "fired"
Signalled == aborted \/ TimedOut
-----------------------------------------------------------------------------
(* How a call ends.  aborted and timedOut are history: the signals as they *)
(* were when this was decided.                                             *)

Ending(kind, code, count, parsed) ==
  [kind |-> kind, code |-> code, usage |-> count, structured |-> parsed,
   aborted |-> aborted, timedOut |-> TimedOut]

EndWith(event) == phase' = "ending" /\ yielded' = Append(yielded, event)

\* terminalFailure and terminalCancelled.
FailCall(code, count) == EndWith(Ending("failed", code, count, FALSE))
CancelCall(count) == EndWith(Ending("cancelled", "none", count, FALSE))

\* The signal is aborted: the timer's word counts more than the caller's.
InterruptCall == IF TimedOut THEN FailCall("timeout", usage) ELSE CancelCall(usage)

\* The catch around the agent.
Thrown(code) == IF Signalled THEN InterruptCall ELSE FailCall(code, usage)
-----------------------------------------------------------------------------
(* Before the agent.                                                       *)

CallBegins ==
  /\ phase = "new"
  /\ CASE ~invocation.valid -> FailCall("provider_failure", 0)
       [] invocation.valid /\ aborted -> CancelCall(0)
       [] OTHER -> phase' = "started" /\ yielded' = Append(yielded, [kind |-> "started"])
  /\ UNCHANGED <<invocation, provider, aborted, timer, use, repairs, usage, spoke, steps>>

Capable == provider.generation /\ (invocation.structured => provider.structured)

Preflight ==
  /\ phase = "started"
  /\ CASE ~provider.known -> FailCall("provider_unavailable", 0)
       [] provider.known /\ ~provider.enabled -> FailCall("disabled", 0)
       [] provider.known /\ provider.enabled /\ ~Capable -> FailCall("provider_unavailable", 0)
       [] OTHER -> phase' = "health" /\ UNCHANGED yielded
  /\ UNCHANGED <<invocation, provider, aborted, timer, use, repairs, usage, spoke, steps>>

\* Neither the signal nor a timer interrupts provider.health().
Unhealthy(health) ==
  /\ phase = "health"
  /\ FailCall(CASE health = "throws" -> "provider_failure"
            [] health = "disabled" -> "disabled"
            [] OTHER -> "provider_unavailable", 0)
  /\ UNCHANGED <<invocation, provider, aborted, timer, use, repairs, usage, spoke, steps>>

\* The tools are selected, the timer is armed, the model made.
Healthy ==
  /\ phase = "health"
  /\ CASE ~(invocation.tools \subseteq Tools) -> FailCall("tool_denied", 0) /\ UNCHANGED timer
       [] invocation.tools \subseteq Tools /\ ~provider.cited /\ invocation.tools \cap ResearchTools # {} ->
            FailCall("provider_unavailable", 0) /\ UNCHANGED timer
       [] OTHER -> /\ timer' = "armed"
                   /\ \/ phase' = "agent" /\ UNCHANGED yielded
                      \/ FailCall("provider_failure", 0)
  /\ UNCHANGED <<invocation, provider, aborted, use, repairs, usage, spoke, steps>>
-----------------------------------------------------------------------------
(* consume, with normalize and the callback that counts failed outputs.    *)

AgentStep == phase = "agent" /\ steps < MaxAgentEvents /\ steps' = steps + 1
Keep == UNCHANGED <<phase, yielded>>
Pass(event) == yielded' = Append(yielded, event) /\ UNCHANGED phase

Text ==
  /\ AgentStep
  /\ spoke' = TRUE
  /\ Pass([kind |-> "text_delta"])
  /\ UNCHANGED <<invocation, provider, aborted, timer, use, repairs, usage>>

Usage ==
  /\ AgentStep
  /\ usage' = usage + 1
  /\ Pass([kind |-> "usage"])
  /\ UNCHANGED <<invocation, provider, aborted, timer, use, repairs, spoke>>

\* The SDK's own tool, there for a structured output of a provider that is no
\* runner, is not shown; nor is a name that is no tool id.
Internal == {"structured", "malformed"}
Callable == invocation.tools \cup {Foreign, "malformed"} \cup
            (IF invocation.structured /\ provider.native THEN {"structured"} ELSE {})

ToolStarts(name) ==
  /\ AgentStep
  /\ use = "none" /\ name \in Callable
  /\ use' = name
  /\ IF name \in Internal THEN Keep ELSE Pass([kind |-> "tool_started", tool |-> name])
  /\ UNCHANGED <<invocation, provider, aborted, timer, repairs, usage, spoke>>

\* A first failed output may be repaired, a second may not.
Exhausted(failures) == failures > 1

ToolEnds(status) ==
  /\ AgentStep
  /\ use # "none"
  /\ use' = "none"
  /\ LET failures == repairs + (IF use = "structured" /\ status = "error" THEN 1 ELSE 0) IN
     /\ repairs' = failures
     /\ IF Exhausted(failures) THEN Thrown("invalid_output")
        ELSE IF use \in Internal THEN Keep
        ELSE Pass([kind |-> "tool_result", tool |-> use])
  /\ UNCHANGED <<invocation, provider, aborted, timer, usage, spoke>>

\* Mutant: only the agent's word counts.
Interrupted_StopOnly(stop) == stop = "cancelled"

\* The agent may come to its end after the signal all the same.
Interrupted(stop) == Signalled \/ stop = "cancelled"

\* The agent is done; it has a structured output itself, or its text parses.
AgentEnds(stop, output, parses) ==
  /\ phase = "agent"
  /\ stop = "cancelled" => Signalled
  /\ output => invocation.structured /\ provider.native
  /\ parses => spoke
  /\ CASE Interrupted(stop) -> InterruptCall
       [] ~Interrupted(stop) /\ invocation.structured /\ ~output /\ ~parses ->
            FailCall("invalid_output", usage)
       [] ~Interrupted(stop) /\ (invocation.structured => output \/ parses) /\ stop = "limit" ->
            FailCall("limit_exceeded", usage)
       [] OTHER -> EndWith(Ending("completed", "none", usage, invocation.structured))
  /\ UNCHANGED <<invocation, provider, aborted, timer, use, repairs, usage, spoke, steps>>

\* errorCode: what the agent or a model may throw.
AgentThrows(code) ==
  /\ phase = "agent"
  /\ Thrown(code)
  /\ UNCHANGED <<invocation, provider, aborted, timer, use, repairs, usage, spoke, steps>>
-----------------------------------------------------------------------------
CallAborts ==
  /\ ~aborted /\ phase # "done"
  /\ aborted' = TRUE
  /\ UNCHANGED <<invocation, provider, phase, timer, use, repairs, usage, spoke, steps, yielded>>

Timeout ==
  /\ timer = "armed"
  /\ timer' = "fired"
  /\ UNCHANGED <<invocation, provider, phase, aborted, use, repairs, usage, spoke, steps, yielded>>

\* The caller takes the last event and asks for more: the finally block, and
\* the result.
Return ==
  /\ phase = "ending"
  /\ phase' = "done"
  /\ timer' = IF timer = "armed" THEN "cleared" ELSE timer
  /\ UNCHANGED <<invocation, provider, aborted, use, repairs, usage, spoke, steps, yielded>>
-----------------------------------------------------------------------------
Stops == {"done", "cancelled", "limit"}

ProviderCallNext ==
  \/ CallBegins \/ Preflight \/ Healthy \/ \E health \in {"throws", "disabled", "down"} : Unhealthy(health)
  \/ Text \/ Usage
  \/ \E name \in Tools \cup {Foreign} \cup Internal : ToolStarts(name)
  \/ \E status \in {"success", "error"} : ToolEnds(status)
  \/ \E stop \in Stops, output, parses \in BOOLEAN : AgentEnds(stop, output, parses)
  \/ \E code \in {"provider_failure", "invalid_output", "limit_exceeded"} : AgentThrows(code)
  \/ CallAborts \/ Timeout \/ Return

ProviderCallSpec == ProviderCallInit /\ [][ProviderCallNext]_callVars
-----------------------------------------------------------------------------
EndKinds == {"failed", "cancelled", "completed"}
ToolKinds == {"tool_started", "tool_result"}

\* Where the events of these kinds are.
At(events, kinds) == {i \in DOMAIN events : events[i].kind \in kinds}

\* A call ends once, and what it says last is true of how it went: it timed
\* out exactly if the timer had fired by then, whoever else gave up too; it was
\* cancelled only if its caller asked; it is complete, or its output to blame,
\* only if neither had happened.
EndTells ==
  IF phase \in {"ending", "done"}
  THEN LET end == Last(yielded) IN
       /\ At(yielded, EndKinds) = {Len(yielded)}
       /\ end.timedOut <=> end.code = "timeout"
       /\ end.kind = "cancelled" => end.aborted
       /\ end.kind = "completed" \/ end.code \in {"invalid_output", "limit_exceeded"} => ~end.aborted
       /\ end.usage = Cardinality(At(yielded, {"usage"}))
  ELSE At(yielded, EndKinds) = {}

\* A tool's result comes right after its start.
ResultsFollow(events) ==
  \A i \in At(events, {"tool_result"}) : \E k \in At(events, {"tool_started"}) :
    k < i /\ events[k].tool = events[i].tool /\ At(events, ToolKinds) \cap (k + 1 .. i - 1) = {}

\* Callers of ProviderKernel.stream store its last event as the run's result
\* and count its usage.  It is true however abort, timer and agent interleave;
\* an invocation that wants a structured output is never completed without
\* one; an agent runs on after one failed output at most; tool results follow
\* their starts; and no timer outlives the call.
CallTells ==
  /\ EndTells
  /\ \A i \in At(yielded, {"completed"}) : invocation.structured => yielded[i].structured
  /\ phase = "agent" => repairs <= 1
  /\ ResultsFollow(yielded)
  /\ phase = "done" => timer # "armed"
=============================================================================
