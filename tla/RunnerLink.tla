----------------------------- MODULE RunnerLink -----------------------------
(***************************************************************************)
(* The link between the server and a CLI runner: RunnerWebSocketHub,       *)
(* RunnerLeaseLedger and RunnerPairingService of src/server/src/runner,    *)
(* RunnerConnection, its supervisor and its process executor of            *)
(* src/packages/runner/src.                                                *)
(*                                                                         *)
(* stream() claims a run on one socket and yields what the runner sends    *)
(* back.  Every result is sent at once when the CLI has ended, to whatever *)
(* socket is current, and kept; after a reconnection the hub sends its     *)
(* pending claims again and the runner answers with the kept messages.     *)
(* Sockets are numbered in the order they open.  A dead link keeps what    *)
(* the runner had sent until the hub hears of the close, and loses what    *)
(* the hub had sent.  One runner name, one lease per run: leaseId and      *)
(* requestHash always match and are left out.                              *)
(***************************************************************************)
EXTENDS Naturals, Sequences, SequencesExt, FiniteSets

CONSTANTS
  Runs,        \* calls of stream()
  Codes,       \* pairing codes the settings view may ask for
  Results,     \* what a CLI may print: sequences of Chunk
  MaxSockets,  \* bound: connections in a behaviour
  MaxStarts    \* bound: runner processes started in a behaviour

\* At most 64 KiB of output: the stream it came on, whether the JSON line in
\* it is malformed, and whether the line ends in it.
Chunk == [on : {"stdout", "stderr"}, text : {"a", "b", "bad"}, ends : BOOLEAN]

ASSUME LinkAssumption ==
  /\ IsFiniteSet(Runs) /\ Results \subseteq Seq(Chunk)
  /\ MaxSockets \in Nat /\ MaxStarts \in Nat

Sockets == 1 .. MaxSockets

VARIABLES
  code,    \* pairing codes held in memory
  reg,     \* the row of runner_registrations
  hub,     \* the hub's view of each socket
  link,    \* the connection itself: "refused" is a close with code 1008
  up, down,  \* messages on their way to the hub and to the runner
  stream,  \* each run: the pending entry and its consumer
  lease,   \* the ledger
  cred,    \* the token in the runner's credentials file, 0 before pairing
  proc,    \* the runner process
  conn,    \* its socket, 0 before the first connection
  active,  \* its running CLIs
  kept,    \* its terminal map: the messages of ended runs
  starts, ran  \* processes so far; what the executions of each run printed

hubVars    == <<code, reg, hub, stream, lease>>
runnerVars == <<cred, proc, conn, active, kept, starts, ran>>
vars       == <<hubVars, runnerVars, link, up, down>>

NoStream == [stage |-> "new", socket |-> 0, aborted |-> FALSE, seen |-> {}, got |-> <<>>, buffer |-> <<>>]
NoLease  == [state |-> "none", outputs |-> <<>>]

Init ==
  /\ code = [c \in Codes |-> "none"] /\ reg = [status |-> "none", token |-> 0]
  /\ hub = [s \in Sockets |-> "none"] /\ link = [s \in Sockets |-> "unused"]
  /\ up = [s \in Sockets |-> <<>>] /\ down = [s \in Sockets |-> <<>>]
  /\ stream = [r \in Runs |-> NoStream] /\ lease = [r \in Runs |-> NoLease]
  /\ cred = 0 /\ proc = "off" /\ conn = 0
  /\ active = [r \in Runs |-> "no"] /\ kept = [r \in Runs |-> <<>>]
  /\ starts = 0 /\ ran = [r \in Runs |-> <<>>]

Unused == {s \in Sockets : link[s] = "unused"}
Pending(r) == stream[r].stage = "open"
Leased(r) == lease[r].state \in {"claimed", "running"}

\* A connection opens and its first message is on its way.
Open(s, message) ==
  /\ s \in Unused /\ \A t \in Unused : s <= t
  /\ link' = [link EXCEPT ![s] = "live"] /\ hub' = [hub EXCEPT ![s] = "open"]
  /\ up' = [up EXCEPT ![s] = <<message>>]

\* What is sent on a dead link is lost, without an error.
Sent(wire, s, messages) == IF link[s] = "live" THEN [wire EXCEPT ![s] = @ \o messages] ELSE wire

-----------------------------------------------------------------------------
(* Pairing.                                                                *)

IssueCode(c) ==
  /\ code[c] = "none" /\ code' = [code EXCEPT ![c] = "issued"]
  /\ UNCHANGED <<reg, hub, stream, lease, runnerVars, link, up, down>>

ExpireCode(c) ==
  /\ code[c] = "issued" /\ code' = [code EXCEPT ![c] = "expired"]
  /\ UNCHANGED <<reg, hub, stream, lease, runnerVars, link, up, down>>

\* pairOutboundRunner: a connection of its own, kept until the answer.
PairRequest(s, c) ==
  /\ code[c] # "none" /\ Cardinality(Unused) > 1
  /\ Open(s, [type |-> "pair", code |-> c])
  /\ UNCHANGED <<code, reg, stream, lease, runnerVars, down>>

PairAccepted(s) ==
  /\ link[s] = "live" /\ s # conn /\ down[s] # <<>>
  /\ cred' = Head(down[s]).token
  /\ link' = [link EXCEPT ![s] = "dead"] /\ down' = [down EXCEPT ![s] = <<>>]
  /\ UNCHANGED <<hubVars, proc, conn, active, kept, starts, ran, up>>

\* RunnerPairingService.revoke and the hub's: every socket of the runner is
\* refused and every pending run failed.
Revoke ==
  /\ reg.status = "active" /\ reg' = [reg EXCEPT !.status = "revoked"]
  /\ hub' = [s \in Sockets |-> IF hub[s] = "runner" THEN "gone" ELSE hub[s]]
  /\ link' = [s \in Sockets |-> IF hub[s] = "runner" /\ link[s] = "live" THEN "refused" ELSE link[s]]
  /\ up' = [s \in Sockets |-> IF hub[s] = "runner" THEN <<>> ELSE up[s]]
  /\ stream' = [r \in Runs |-> IF Pending(r) THEN [stream[r] EXCEPT !.stage = "failed"] ELSE stream[r]]
  /\ UNCHANGED <<code, lease, runnerVars, down>>

-----------------------------------------------------------------------------
(* The hub.                                                                *)

\* stream: the first socket of a runner that has the CLI.
Stream(r) ==
  LET ready == {s \in Sockets : hub[s] = "runner"} IN
  /\ stream[r].stage = "new" /\ ready # {}
  /\ \E s \in ready :
       /\ \A t \in ready : s <= t
       /\ stream' = [stream EXCEPT ![r].stage = "open", ![r].socket = s]
       /\ down' = Sent(down, s, <<[type |-> "claim", run |-> r]>>)
  /\ lease' = [lease EXCEPT ![r].state = "claimed"]
  /\ UNCHANGED <<code, reg, hub, runnerVars, link, up>>

\* The signal of the provider call fires: cancel goes to the claim's socket.
Abort(r) ==
  /\ Pending(r) /\ ~stream[r].aborted
  /\ stream' = [stream EXCEPT ![r].aborted = TRUE]
  /\ down' = Sent(down, stream[r].socket, <<[type |-> "cancel", run |-> r]>>)
  /\ UNCHANGED <<code, reg, hub, lease, runnerVars, link, up>>

\* The consumer stops between two values: only an aborted one does.
Leave(r) ==
  /\ Pending(r) /\ stream[r].aborted /\ stream[r].got # <<>>
  /\ stream' = [stream EXCEPT ![r].stage = "left"]
  /\ UNCHANGED <<code, reg, hub, lease, runnerVars, link, up, down>>

\* A message that cannot be taken closes the connection with 1008, and what
\* else was on its way to the hub is not read.
Refuse(s) ==
  /\ link' = [link EXCEPT ![s] = IF @ = "live" THEN "refused" ELSE @]
  /\ up' = [up EXCEPT ![s] = <<>>]

Taken(s) == up' = [up EXCEPT ![s] = Tail(@)] /\ UNCHANGED link

\* A pairing code is spent whether or not the registration succeeds, and a
\* revoked name stays revoked.
Pair(s, m) ==
  /\ code' = [code EXCEPT ![m.code] = "spent"]
  /\ IF code[m.code] = "issued" /\ reg.status # "revoked"
       THEN /\ reg' = [status |-> "active", token |-> reg.token + 1]
            /\ hub' = [hub EXCEPT ![s] = "runner"]
            /\ down' = Sent(down, s, <<[type |-> "accepted", token |-> reg.token + 1]>>)
            /\ Taken(s)
       ELSE Refuse(s) /\ UNCHANGED <<reg, hub, down>>
  /\ UNCHANGED <<stream, lease>>

\* Mutant: a revoked registration still authenticates.
Authenticate_Revoked(s, m) ==
  /\ IF m.token = reg.token
       THEN /\ hub' = [hub EXCEPT ![s] = "runner"]
            /\ down' = Sent(down, s, SetToSeq({[type |-> "claim", run |-> r] : r \in {q \in Runs : Pending(q)}}))
            /\ Taken(s)
       ELSE Refuse(s) /\ UNCHANGED <<hub, down>>
  /\ UNCHANGED <<code, reg, stream, lease>>

\* Mutant: pending claims are not sent again.
Authenticate_NoReclaim(s, m) ==
  /\ IF reg.status = "active" /\ m.token = reg.token
       THEN hub' = [hub EXCEPT ![s] = "runner"] /\ UNCHANGED down /\ Taken(s)
       ELSE Refuse(s) /\ UNCHANGED <<hub, down>>
  /\ UNCHANGED <<code, reg, stream, lease>>

Authenticate(s, m) ==
  /\ IF reg.status = "active" /\ m.token = reg.token
       THEN /\ hub' = [hub EXCEPT ![s] = "runner"]
            /\ down' = Sent(down, s, SetToSeq({[type |-> "claim", run |-> r] : r \in {q \in Runs : Pending(q)}}))
            /\ Taken(s)
       ELSE Refuse(s) /\ UNCHANGED <<hub, down>>
  /\ UNCHANGED <<code, reg, stream, lease>>

Acknowledge(s, m) ==
  /\ IF Leased(m.run)
       THEN lease' = [lease EXCEPT ![m.run].state = "running"] /\ Taken(s)
       ELSE Refuse(s) /\ UNCHANGED lease
  /\ UNCHANGED <<code, reg, hub, stream, down>>

\* The event of a stdout line reaches the consumer when the line has ended;
\* a malformed line is an exception.
Push(st, chunk) ==
  LET line == Append(st.buffer, chunk) IN
  IF chunk.on = "stderr" THEN st
  ELSE IF ~chunk.ends THEN [st EXCEPT !.buffer = line]
  ELSE IF \E i \in 1 .. Len(line) : line[i].text = "bad" THEN [st EXCEPT !.buffer = <<>>]
  ELSE [st EXCEPT !.buffer = <<>>, !.got = @ \o line]

Malformed(st, chunk) ==
  chunk.on = "stdout" /\ chunk.ends /\ \E i \in 1 .. Len(st.buffer) + 1 : Append(st.buffer, chunk)[i].text = "bad"

\* The ledger takes the next sequence number or the same chunk again.
InLedger(r, seq) == seq <= Len(lease[r].outputs)
Fits(r, seq, chunk) ==
  /\ Leased(r)
  /\ IF InLedger(r, seq) THEN lease[r].outputs[seq] = chunk ELSE seq = Len(lease[r].outputs) + 1

\* Mutant: what was processed before is pushed again.
Processed_Never(r, seq) == FALSE
Processed(r, seq) == seq \in stream[r].seen

Output(s, m) ==
  LET st   == stream[m.run]
      seen == [st EXCEPT !.seen = @ \cup {m.seq}] IN
  /\ IF ~Pending(m.run) THEN Taken(s) /\ UNCHANGED <<stream, lease>>
     ELSE IF ~Fits(m.run, m.seq, m.chunk) THEN Refuse(s) /\ UNCHANGED <<stream, lease>>
     ELSE /\ lease' = [lease EXCEPT ![m.run] =
                         IF InLedger(m.run, m.seq) THEN @
                         ELSE [state |-> "running", outputs |-> Append(@.outputs, m.chunk)]]
          /\ IF Processed(m.run, m.seq) THEN Taken(s) /\ UNCHANGED stream
             ELSE /\ stream' = [stream EXCEPT ![m.run] = Push(seen, m.chunk)]
                  /\ IF Malformed(st, m.chunk) THEN Refuse(s) ELSE Taken(s)
  /\ UNCHANGED <<code, reg, hub, down>>

\* The last line need not end in a newline.
Complete(s, m) ==
  LET st == stream[m.run] IN
  /\ IF ~Pending(m.run) THEN Taken(s) /\ UNCHANGED <<stream, lease>>
     ELSE IF ~Leased(m.run) THEN Refuse(s) /\ UNCHANGED <<stream, lease>>
     ELSE /\ lease' = [lease EXCEPT ![m.run].state = "completed"]
          /\ IF \E i \in 1 .. Len(st.buffer) : st.buffer[i].text = "bad"
               THEN Refuse(s) /\ UNCHANGED stream
               ELSE /\ stream' = [stream EXCEPT ![m.run].stage = "ended", ![m.run].buffer = <<>>,
                                                ![m.run].got = @ \o st.buffer]
                    /\ Taken(s)
  /\ UNCHANGED <<code, reg, hub, down>>

Fail(s, m) ==
  /\ IF ~Pending(m.run) THEN Taken(s) /\ UNCHANGED <<stream, lease>>
     ELSE IF ~Leased(m.run) THEN Refuse(s) /\ UNCHANGED <<stream, lease>>
     ELSE /\ lease' = [lease EXCEPT ![m.run].state = m.code]
          /\ stream' = [stream EXCEPT ![m.run].stage = "failed"]
          /\ Taken(s)
  /\ UNCHANGED <<code, reg, hub, down>>

HubReceive(s) ==
  /\ up[s] # <<>> /\ hub[s] \in {"open", "runner"}
  /\ LET m == Head(up[s]) IN
       \/ hub[s] = "open" /\ m.type = "pair" /\ Pair(s, m)
       \/ hub[s] = "open" /\ m.type = "auth" /\ Authenticate(s, m)
       \/ hub[s] = "runner" /\ m.type = "ack" /\ Acknowledge(s, m)
       \/ hub[s] = "runner" /\ m.type = "output" /\ Output(s, m)
       \/ hub[s] = "runner" /\ m.type = "completion" /\ Complete(s, m)
       \/ hub[s] = "runner" /\ m.type = "failure" /\ Fail(s, m)
  /\ UNCHANGED runnerVars

\* The close of a connection reaches the hub: nothing is done to its runs.
HubClose(s) ==
  /\ link[s] \in {"dead", "refused"} /\ hub[s] \in {"open", "runner"}
  /\ hub' = [hub EXCEPT ![s] = "gone"] /\ up' = [up EXCEPT ![s] = <<>>]
  /\ UNCHANGED <<code, reg, stream, lease, runnerVars, link, down>>

\* Everything but the registration is in memory.
HubRestart ==
  /\ Unused # {} /\ \E s \in Sockets : hub[s] # "none"
  /\ code' = [c \in Codes |-> IF code[c] = "issued" THEN "expired" ELSE code[c]]
  /\ hub' = [s \in Sockets |-> IF hub[s] = "none" THEN "none" ELSE "gone"]
  /\ link' = [s \in Sockets |-> IF link[s] = "live" THEN "dead" ELSE link[s]]
  /\ up' = [s \in Sockets |-> <<>>]
  /\ stream' = [r \in Runs |-> IF Pending(r) THEN [stream[r] EXCEPT !.stage = "lost"] ELSE stream[r]]
  /\ lease' = [r \in Runs |-> NoLease]
  /\ UNCHANGED <<reg, runnerVars, down>>

LinkLost(s) ==
  /\ link[s] = "live" /\ Unused # {}
  /\ link' = [link EXCEPT ![s] = "dead"] /\ down' = [down EXCEPT ![s] = <<>>]
  /\ UNCHANGED <<hubVars, runnerVars, up>>

-----------------------------------------------------------------------------
(* The runner.                                                             *)

Start ==
  /\ proc \in {"off", "exited"} /\ cred # 0 /\ starts < MaxStarts
  /\ proc' = "up" /\ conn' = 0 /\ starts' = starts + 1
  /\ active' = [r \in Runs |-> "no"] /\ kept' = [r \in Runs |-> <<>>]
  /\ UNCHANGED <<hubVars, cred, ran, link, up, down>>

\* superviseOutboundRunner and attach.
Connect(s) ==
  /\ proc = "up" /\ conn = 0
  /\ Open(s, [type |-> "auth", token |-> cred]) /\ conn' = s
  /\ UNCHANGED <<code, reg, stream, lease, cred, proc, active, kept, starts, ran, down>>

\* onclose: after 1008 the supervisor gives up, and the process ends once its
\* CLIs have; nothing aborts them.
Closed ==
  /\ conn # 0 /\ proc = "up"
  /\ \/ link[conn] = "dead" /\ conn' = 0 /\ UNCHANGED proc
     \/ link[conn] = "refused" /\ down[conn] = <<>> /\ proc' = "exited" /\ UNCHANGED conn
  /\ UNCHANGED <<hubVars, cred, active, kept, starts, ran, link, up, down>>

Die ==
  /\ proc = "up" /\ starts < MaxStarts /\ Unused # {}
  /\ proc' = "off" /\ active' = [r \in Runs |-> "no"]
  /\ link' = [s \in Sockets |-> IF s = conn /\ link[s] = "live" THEN "dead" ELSE link[s]]
  /\ down' = [s \in Sockets |-> IF s = conn THEN <<>> ELSE down[s]]
  /\ UNCHANGED <<hubVars, cred, conn, kept, starts, ran, up>>

\* Mutant: a claim that is being worked on is started again.
Claimed_Again(r) ==
  IF kept[r] # <<>> THEN up' = Sent(up, conn, kept[r]) /\ UNCHANGED <<active, ran>>
  ELSE /\ up' = Sent(up, conn, <<[type |-> "ack", run |-> r]>>)
       /\ active' = [active EXCEPT ![r] = "running"] /\ ran' = [ran EXCEPT ![r] = Append(@, [by |-> starts, out |-> <<>>, done |-> FALSE])]

\* execute: an ended run is answered from memory, a running one acknowledged.
Claimed(r) ==
  IF kept[r] # <<>> THEN up' = Sent(up, conn, kept[r]) /\ UNCHANGED <<active, ran>>
  ELSE /\ up' = Sent(up, conn, <<[type |-> "ack", run |-> r]>>)
       /\ IF active[r] # "no" THEN UNCHANGED <<active, ran>>
          ELSE active' = [active EXCEPT ![r] = "running"] /\ ran' = [ran EXCEPT ![r] = Append(@, [by |-> starts, out |-> <<>>, done |-> FALSE])]

Cancelled(r) ==
  /\ active' = [active EXCEPT ![r] = IF @ = "no" THEN @ ELSE "aborting"]
  /\ UNCHANGED <<up, ran>>

RunnerReceive ==
  /\ proc = "up" /\ conn # 0 /\ link[conn] \in {"live", "refused"} /\ down[conn] # <<>>
  /\ LET m == Head(down[conn]) IN
       \/ m.type = "claim" /\ Claimed(m.run)
       \/ m.type = "cancel" /\ Cancelled(m.run)
  /\ down' = [down EXCEPT ![conn] = Tail(@)]
  /\ UNCHANGED <<hubVars, cred, proc, conn, kept, starts, link>>

\* resultMessages: the output, numbered, and the completion.
Report(r, out) ==
  Append([i \in 1 .. Len(out) |-> [type |-> "output", run |-> r, seq |-> i, chunk |-> out[i]]],
         [type |-> "completion", run |-> r])

Reported(r, messages) ==
  /\ kept' = [kept EXCEPT ![r] = messages]
  /\ up' = IF conn = 0 THEN up ELSE Sent(up, conn, messages)
  /\ active' = [active EXCEPT ![r] = "no"]

\* RunnerProcessExecutor.execute: an aborted CLI fails whatever it printed.
Finish(r) ==
  /\ proc # "off" /\ active[r] # "no"
  /\ \/ \E out \in Results :
          /\ active[r] = "running" /\ Reported(r, Report(r, out))
          /\ ran' = [ran EXCEPT ![r][Len(ran[r])] = [@ EXCEPT !.out = out, !.done = TRUE]]
     \/ \E why \in {"failed"} \cup (IF active[r] = "aborting" THEN {"cancelled"} ELSE {}) :
          Reported(r, <<[type |-> "failure", run |-> r, code |-> why]>>) /\ UNCHANGED ran
  /\ UNCHANGED <<hubVars, cred, proc, conn, starts, link, down>>

-----------------------------------------------------------------------------
Next ==
  \/ \E c \in Codes : IssueCode(c) \/ ExpireCode(c)
  \/ \E s \in Sockets, c \in Codes : PairRequest(s, c)
  \/ \E s \in Sockets : PairAccepted(s) \/ HubReceive(s) \/ HubClose(s) \/ LinkLost(s) \/ Connect(s)
  \/ \E r \in Runs : Stream(r) \/ Abort(r) \/ Leave(r) \/ Finish(r)
  \/ Revoke \/ HubRestart \/ Start \/ Closed \/ Die \/ RunnerReceive

Spec == Init /\ [][Next]_vars

\* The event loops of both ends go on, the runner reconnects every second, and
\* a CLI is killed after two minutes.
Fairness ==
  /\ \A s \in Sockets : WF_vars(HubReceive(s)) /\ WF_vars(HubClose(s)) /\ WF_vars(Connect(s))
  /\ WF_vars(Closed) /\ WF_vars(RunnerReceive)
  /\ \A r \in Runs : WF_vars(Finish(r))

FairSpec == Spec /\ Fairness

-----------------------------------------------------------------------------
Stdout(out) ==
  LET upTo[i \in 0 .. Len(out)] ==
        IF i = 0 THEN <<>>
        ELSE IF out[i].on = "stdout" THEN Append(upTo[i - 1], out[i]) ELSE upTo[i - 1]
  IN upTo[Len(out)]
Wellformed(out) == \A i \in 1 .. Len(out) : out[i].text # "bad"

\* What the consumer has read is the beginning of what one execution printed,
\* and a stream that ends has yielded all of it: whatever was lost, sent
\* again or cut off, no chunk is missing, doubled or out of order.  Two
\* exceptions the code makes: after a restart of the runner the command may
\* have run twice, and only the beginning is promised, as the completion's
\* outputHash is not compared; a malformed line counts as processed before it
\* is parsed, and is passed over when it is sent again.
FaithfulOutput ==
  \A r \in Runs :
    (\A i \in 1 .. Len(ran[r]) : Wellformed(ran[r][i].out)) =>
      LET st == stream[r] IN
      /\ st.got # <<>> => \E i \in 1 .. Len(ran[r]) : IsPrefix(st.got \o st.buffer, Stdout(ran[r][i].out))
      /\ st.stage = "ended" /\ Len(ran[r]) = 1 => st.got = Stdout(ran[r][1].out)

\* However often a claim is delivered, one runner process executes it once.
OncePerProcess ==
  \A r \in Runs : \A i, j \in 1 .. Len(ran[r]) : i # j => ran[r][i].by # ran[r][j].by

\* What a run yields is what its command printed.
RunsFaithful == FaithfulOutput /\ OncePerProcess

\* Once its registration is revoked a runner has neither an authenticated
\* socket nor a pending run, even if its authentication was under way.
RevokedIsOut ==
  reg.status = "revoked" =>
    (\A s \in Sockets : hub[s] # "runner") /\ (\A r \in Runs : ~Pending(r))

\* Once the runner has the claim, the stream ends however often the link is
\* lost, unless that process ends.
RunSettles ==
  \A r \in Runs :
    (Pending(r) /\ proc = "up" /\ (active[r] # "no" \/ kept[r] # <<>>)) ~> (~Pending(r) \/ proc # "up")
=============================================================================
