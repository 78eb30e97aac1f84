------------------------- MODULE RunnerLink_proofs -------------------------
(***************************************************************************)
(* Proofs about the link between the server and a runner: for any runs,    *)
(* outputs, connections and runner processes, what a run yields is what    *)
(* its command printed, and a revoked runner is out.                       *)
(***************************************************************************)
EXTENDS RunnerLink, FiniteSetTheorems, WellFoundedInduction, TLAPS

Stages == {"new", "open", "left", "ended", "failed", "lost"}
Streams == [stage : Stages, socket : Nat, aborted : BOOLEAN, seen : SUBSET Nat,
            got : Seq(Chunk), buffer : Seq(Chunk)]
Leases == [state : {"none", "claimed", "running", "completed", "failed", "cancelled"},
           outputs : Seq(Chunk)]
Executions == [by : Nat, out : Seq(Chunk), done : BOOLEAN]

\* q is a sequence, of whatever.
Wire(q) == q \in Seq({q[i] : i \in 1 .. Len(q)})

ConnectionsTyped ==
  /\ reg \in [status : {"none", "active", "revoked"}, token : Nat]
  /\ hub \in [Sockets -> {"none", "open", "runner", "gone"}]
  /\ link \in [Sockets -> {"unused", "live", "dead", "refused"}]
  /\ proc \in {"off", "up", "exited"} /\ conn \in Sockets \cup {0}

RunsTyped ==
  /\ stream \in [Runs -> Streams] /\ lease \in [Runs -> Leases] /\ starts \in Nat
  /\ active \in [Runs -> {"no", "running", "aborting"}]
  /\ kept = [r \in Runs |-> kept[r]]
  /\ ran \in [Runs -> Seq(Executions)]

LinkTyped == ConnectionsTyped /\ RunsTyped

\* A message about a run exists only once the run was claimed.
MessageOK(m) ==
  /\ m.type \in {"claim", "cancel", "ack", "output", "completion", "failure"} =>
       m.run \in Runs /\ stream[m.run].stage # "new"
  /\ m.type = "failure" => m.code \in {"failed", "cancelled"}

OutputOf(r, i, j) == [type |-> "output", run |-> r, seq |-> j, chunk |-> ran[r][i].out[j]]

\* The ledger has the j-th chunk that execution i printed.
Recorded(r, i, j) == j \in 1 .. Len(lease[r].outputs) /\ lease[r].outputs[j] = ran[r][i].out[j]

\* The first n chunks of execution i are in the ledger or come before place p.
Covered(q, p, r, i, n) ==
  \A j \in 1 .. n : Recorded(r, i, j) \/ \E k \in 1 .. p - 1 : q[k] = OutputOf(r, i, j)

\* What is on its way comes from an execution, after all that precedes it there.
FromExecution(q, p, r, i) ==
  /\ ran[r][i].done
  /\ q[p].type = "output" =>
       /\ q[p].seq \in 1 .. Len(ran[r][i].out) /\ q[p] = OutputOf(r, i, q[p].seq)
       /\ Covered(q, p, r, i, q[p].seq - 1)
  /\ q[p].type = "completion" => Covered(q, p, r, i, Len(ran[r][i].out))

Backed(q, p) ==
  q[p].type \in {"output", "completion"} /\ Pending(q[p].run) =>
    \E i \in DOMAIN ran[q[p].run] : FromExecution(q, p, q[p].run, i)

WireOK(q) ==
  /\ Wire(q)
  /\ \A p \in 1 .. Len(q) : MessageOK(q[p]) /\ Backed(q, p)

Wellprinted(r) == \A i \in DOMAIN ran[r] : Wellformed(ran[r][i].out)
Text(r) == stream[r].got \o stream[r].buffer
Begins(s, t) == Len(s) <= Len(t) /\ \A i \in 1 .. Len(s) : s[i] = t[i]

\* Nothing has happened to a run that no stream has claimed.
UntouchedOK(r) ==
  stream[r].stage = "new" =>
    /\ stream[r] = NoStream /\ lease[r] = NoLease
    /\ active[r] = "no" /\ kept[r] = <<>> /\ ran[r] = <<>>

\* A process remembers what it executes and what it has executed.
ExecutedOK(r) ==
  /\ \A i \in DOMAIN ran[r] : ran[r][i].by <= starts /\ (~ran[r][i].done => ran[r][i].out = <<>>)
  /\ \A i, j \in DOMAIN ran[r] : i # j => ran[r][i].by # ran[r][j].by
  /\ active[r] # "no" => ran[r] # <<>> /\ ~ran[r][Len(ran[r])].done
  /\ proc = "up" /\ active[r] = "no" /\ kept[r] = <<>> => \A i \in DOMAIN ran[r] : ran[r][i].by # starts

\* The ledger has the beginning of an execution's output, the consumer its lines.
LedgerOK(r) ==
  Pending(r) =>
    /\ stream[r].seen = 1 .. Len(lease[r].outputs)
    /\ lease[r].outputs = <<>> \/
         \E i \in DOMAIN ran[r] : ran[r][i].done /\ Begins(lease[r].outputs, ran[r][i].out)
    /\ Wellprinted(r) => /\ Text(r) = Stdout(lease[r].outputs)
                         /\ \A k \in DOMAIN stream[r].buffer : stream[r].buffer[k].text # "bad"

\* It stays read when the stream is over.
ReadOK(r) ==
  ~Pending(r) =>
    /\ stream[r].stage = "ended" => ran[r] # <<>>
    /\ Wellprinted(r) =>
         /\ Text(r) = <<>> \/
              \E i \in DOMAIN ran[r] : ran[r][i].done /\ IsPrefix(Text(r), Stdout(ran[r][i].out))
         /\ stream[r].stage = "ended" /\ Len(ran[r]) = 1 =>
              ran[r][1].done /\ stream[r].got = Stdout(ran[r][1].out)

WiresOK(w) == w = [s \in Sockets |-> w[s]] /\ \A s \in Sockets : WireOK(w[s])
RunOK(r) == UntouchedOK(r) /\ ExecutedOK(r) /\ LedgerOK(r) /\ ReadOK(r)

\* Only an active registration has authenticated sockets and pending runs.
ActiveOK ==
  /\ \A s \in Sockets : hub[s] = "runner" => reg.status = "active"
  /\ \A r \in Runs : Pending(r) => reg.status = "active"

LinkInv ==
  /\ LinkTyped /\ ActiveOK /\ WiresOK(up) /\ WiresOK(down)
  /\ \A r \in Runs : WireOK(kept[r]) /\ RunOK(r)

-----------------------------------------------------------------------------
(***************************************************************************)
(* What is printed on stdout.                                              *)
(***************************************************************************)

LEMMA Least == ASSUME NEW S \in SUBSET Nat, S # {} PROVE \E m \in S : \A n \in S : m <= n
<1> DEFINE R == OpToRel(<, Nat)
<1>1. PICK m \in S : \A n \in S : <<n, m>> \notin R
  BY NatLessThanWellFounded, WFMin
<1>2. ASSUME NEW n \in S PROVE m <= n
  <2>1. R = {ss \in Nat \X Nat : ss[1] < ss[2]}
    BY DEF OpToRel
  <2>2. <<n, m>> \notin R /\ <<n, m>> \in Nat \X Nat
    BY <1>1
  <2> HIDE DEF R
  <2>3. ~(n < m)
    BY <2>1, <2>2
  <2> QED BY <2>3
<1> QED BY <1>2

\* g reads the first n chunks of s, one after the other.
Step(g, s, i) == g[i] = IF s[i].on = "stdout" THEN Append(g[i - 1], s[i]) ELSE g[i - 1]
Reads(g, s, n) ==
  /\ g \in [0 .. n -> Seq(Chunk)] /\ g[0] = <<>>
  /\ \A i \in 1 .. n : Step(g, s, i)

LEMMA ReadsExist ==
  ASSUME NEW s \in Seq(Chunk), NEW n \in 0 .. Len(s) PROVE \E g : Reads(g, s, n)
<1> DEFINE S == {k \in 0 .. Len(s) : ~\E g : Reads(g, s, k)}
<1>1. SUFFICES ASSUME S # {} PROVE FALSE
  OBVIOUS
<1>2. S \in SUBSET Nat
  OBVIOUS
<1> HIDE DEF S
<1>3. PICK m \in S : \A k \in S : m <= k
  BY <1>1, <1>2, Least
<1>4. m \in 0 .. Len(s) /\ ~\E g : Reads(g, s, m)
  BY DEF S
<1>5. CASE m = 0
  <2> DEFINE e == [i \in 0 .. 0 |-> <<>>]
  <2>1. e \in [0 .. 0 -> Seq(Chunk)] /\ e[0] = <<>>
    OBVIOUS
  <2> HIDE DEF e
  <2>2. Reads(e, s, 0)
    BY <2>1 DEF Reads
  <2> QED BY <1>4, <1>5, <2>2
<1>6. CASE m # 0
  <2>1. m - 1 \in 0 .. Len(s) /\ m - 1 \notin S
    BY <1>3, <1>4, <1>6
  <2>2. PICK g : Reads(g, s, m - 1)
    BY <2>1 DEF S
  <2> DEFINE x == IF s[m].on = "stdout" THEN Append(g[m - 1], s[m]) ELSE g[m - 1]
             h == [i \in 0 .. m |-> IF i = m THEN x ELSE g[i]]
  <2>3. g[m - 1] \in Seq(Chunk) /\ s[m] \in Chunk
    BY <1>4, <1>6, <2>2 DEF Reads
  <2>4. x \in Seq(Chunk)
    BY <2>3
  <2> HIDE DEF x
  <2>5. /\ h \in [0 .. m -> Seq(Chunk)] /\ h[m] = x
        /\ \A i \in 0 .. m - 1 : h[i] = g[i]
    BY <1>4, <1>6, <2>2, <2>4 DEF Reads
  <2> HIDE DEF h
  <2>6. h[0] = <<>>
    BY <1>4, <1>6, <2>2, <2>5 DEF Reads
  <2>7. ASSUME NEW i \in 1 .. m PROVE Step(h, s, i)
    <3>1. CASE i = m
      <4>1. h[m - 1] = g[m - 1]
        BY <1>4, <1>6, <2>5
      <4> QED BY <2>5, <3>1, <4>1 DEF Step, x
    <3>2. CASE i # m
      <4>0. i \in 1 .. m - 1 /\ i \in 0 .. m - 1 /\ i - 1 \in 0 .. m - 1
        BY <1>4, <3>2
      <4>1. h[i] = g[i] /\ h[i - 1] = g[i - 1] /\ Step(g, s, i)
        BY <2>2, <2>5, <4>0 DEF Reads
      <4> QED BY <4>1 DEF Step
    <3> QED BY <3>1, <3>2
  <2>8. Reads(h, s, m)
    BY <2>5, <2>6, <2>7 DEF Reads
  <2> QED BY <1>4, <2>8
<1> QED BY <1>5, <1>6

\* Who reads the same comes to the same.
Alike(f, s, g, t, n) ==
  f[0] = g[0] /\ \A i \in 1 .. n : Step(f, s, i) /\ Step(g, t, i) /\ s[i] = t[i]

LEMMA ReadsAgree ==
  ASSUME NEW n \in Nat, NEW s, NEW t, NEW f, NEW g, Alike(f, s, g, t, n)
  PROVE  \A i \in 0 .. n : f[i] = g[i]
<1> DEFINE S == {k \in 0 .. n : f[k] # g[k]}
<1>1. SUFFICES ASSUME S # {} PROVE FALSE
  OBVIOUS
<1>2. S \in SUBSET Nat
  OBVIOUS
<1> HIDE DEF S
<1>3. PICK m \in S : \A k \in S : m <= k
  BY <1>1, <1>2, Least
<1>4. m \in 0 .. n /\ f[m] # g[m]
  BY DEF S
<1>5. m # 0
  BY <1>4 DEF Alike
<1>6. m \in 1 .. n /\ m - 1 \in 0 .. n
  BY <1>4, <1>5
<1>7. f[m - 1] = g[m - 1]
  BY <1>3, <1>6 DEF S
<1> QED BY <1>4, <1>6, <1>7 DEF Alike, Step

LEMMA StdoutReads ==
  ASSUME NEW s \in Seq(Chunk), NEW g, Reads(g, s, Len(s)) PROVE Stdout(s) = g[Len(s)]
<1> DEFINE Is(f) == f = [i \in 0 .. Len(s) |-> IF i = 0 THEN <<>>
                          ELSE IF s[i].on = "stdout" THEN Append(f[i - 1], s[i]) ELSE f[i - 1]]
           upTo == CHOOSE f : Is(f)
<1>1. Stdout(s) = upTo[Len(s)]
  BY DEF Stdout
<1>2. Len(s) \in Nat
  OBVIOUS
<1>3. Is(g)
  <2>1. \A i \in 0 .. Len(s) : g[i] = IF i = 0 THEN <<>>
                                 ELSE IF s[i].on = "stdout" THEN Append(g[i - 1], s[i]) ELSE g[i - 1]
    <3> TAKE i \in 0 .. Len(s)
    <3>1. CASE i = 0
      BY <3>1 DEF Reads
    <3>2. CASE i # 0
      <4>1. i \in 1 .. Len(s)
        BY <1>2, <3>2
      <4> QED BY <3>2, <4>1 DEF Reads, Step
    <3> QED BY <3>1, <3>2
  <2>2. g = [i \in 0 .. Len(s) |-> g[i]]
    BY DEF Reads
  <2> QED BY <2>1, <2>2
<1>4. Is(upTo)
  BY <1>3
<1> HIDE DEF upTo
<1>5. upTo[0] = <<>> /\ g[0] = <<>>
  <2>1. 0 \in 0 .. Len(s)
    BY <1>2
  <2> QED BY <1>4, <2>1 DEF Reads
<1>6. ASSUME NEW i \in 1 .. Len(s) PROVE Step(upTo, s, i) /\ Step(g, s, i)
  <2>1. i \in 0 .. Len(s) /\ i # 0
    BY <1>2
  <2>2. upTo[i] = IF s[i].on = "stdout" THEN Append(upTo[i - 1], s[i]) ELSE upTo[i - 1]
    BY <1>4, <2>1
  <2> QED BY <2>2 DEF Reads, Step
<1> DEFINE n == Len(s)
<1>7. n \in Nat /\ Alike(upTo, s, g, s, n)
  BY <1>2, <1>5, <1>6 DEF Alike
<1> HIDE DEF n
<1>8. \A i \in 0 .. n : upTo[i] = g[i]
  BY <1>7, ReadsAgree
<1> QED BY <1>1, <1>2, <1>8 DEF n

LEMMA StdoutEmpty == Stdout(<<>>) = <<>>
<1>1. <<>> \in Seq(Chunk) /\ Len(<<>>) = 0 /\ 0 \in 0 .. Len(<<>>)
  OBVIOUS
<1>2. PICK g : Reads(g, <<>>, 0)
  BY <1>1, ReadsExist
<1> QED BY <1>1, <1>2, StdoutReads DEF Reads

\* All that a sequence begins with is read from it on the way.
LEMMA StdoutBegins ==
  ASSUME NEW s \in Seq(Chunk), NEW t \in Seq(Chunk), Begins(s, t),
         NEW g, Reads(g, t, Len(t))
  PROVE  Stdout(s) = g[Len(s)]
<1>1. PICK f : Reads(f, s, Len(s))
  BY ReadsExist
<1>2. Len(s) \in Nat /\ \A i \in 1 .. Len(s) : Step(f, s, i) /\ Step(g, t, i) /\ s[i] = t[i]
  BY <1>1 DEF Begins, Reads
<1> DEFINE n == Len(s)
<1>3. n \in Nat /\ Alike(f, s, g, t, n)
  BY <1>1, <1>2 DEF Reads, Alike
<1> HIDE DEF n
<1>4. \A i \in 0 .. n : f[i] = g[i]
  BY <1>3, ReadsAgree
<1>5. f[n] = g[n]
  BY <1>3, <1>4
<1> QED BY <1>1, <1>5, StdoutReads DEF n

LEMMA StdoutType == ASSUME NEW s \in Seq(Chunk) PROVE Stdout(s) \in Seq(Chunk)
<1>1. PICK g : Reads(g, s, Len(s))
  BY ReadsExist
<1> QED BY <1>1, StdoutReads DEF Reads

\* One more chunk is one more on stdout, or none.
LEMMA StdoutAppend ==
  ASSUME NEW s \in Seq(Chunk), NEW c \in Chunk
  PROVE  Stdout(Append(s, c)) = IF c.on = "stdout" THEN Append(Stdout(s), c) ELSE Stdout(s)
<1> DEFINE t == Append(s, c)
<1>1. /\ t \in Seq(Chunk) /\ Len(t) = Len(s) + 1 /\ t[Len(s) + 1] = c
      /\ \A i \in 1 .. Len(s) : t[i] = s[i]
  OBVIOUS
<1> HIDE DEF t
<1>2. PICK g : Reads(g, t, Len(t))
  BY <1>1, ReadsExist
<1>3. Begins(s, t)
  BY <1>1 DEF Begins
<1>4. Stdout(t) = g[Len(s) + 1] /\ Stdout(s) = g[Len(s)]
  BY <1>1, <1>2, <1>3, StdoutReads, StdoutBegins
<1>5. Step(g, t, Len(s) + 1)
  BY <1>1, <1>2 DEF Reads
<1> QED BY <1>1, <1>4, <1>5 DEF Step, t

LEMMA PrefixTransitive ==
  ASSUME NEW s \in Seq(Chunk), NEW t \in Seq(Chunk), IsPrefix(s, t), NEW c
  PROVE  IsPrefix(s, Append(t, c))
<1>1. Len(s) <= Len(t) /\ SubSeq(s, 1, Len(s)) = SubSeq(t, 1, Len(s))
  BY DEF IsPrefix
<1>2. SubSeq(Append(t, c), 1, Len(s)) = SubSeq(t, 1, Len(s)) /\ Len(s) <= Len(Append(t, c))
  BY <1>1
<1> QED BY <1>1, <1>2 DEF IsPrefix

\* What a sequence begins with prints what the sequence prints first.
LEMMA StdoutPrefix ==
  ASSUME NEW s \in Seq(Chunk), NEW t \in Seq(Chunk), Begins(s, t)
  PROVE  IsPrefix(Stdout(s), Stdout(t))
<1>1. PICK g : Reads(g, t, Len(t))
  BY ReadsExist
<1>2. Stdout(s) = g[Len(s)] /\ Stdout(t) = g[Len(t)]
  BY <1>1, StdoutBegins, StdoutReads
<1> DEFINE S == {k \in Len(s) .. Len(t) : ~IsPrefix(g[Len(s)], g[k])}
<1>3. SUFFICES ASSUME S # {} PROVE FALSE
  BY <1>2 DEF Begins
<1>4. S \in SUBSET Nat
  OBVIOUS
<1> HIDE DEF S
<1>5. PICK m \in S : \A k \in S : m <= k
  BY <1>3, <1>4, Least
<1>6. m \in Len(s) .. Len(t) /\ ~IsPrefix(g[Len(s)], g[m])
  BY DEF S
<1>7. g[Len(s)] \in Seq(Chunk)
  BY <1>2, StdoutType
<1>8. m # Len(s)
  BY <1>6, <1>7 DEF IsPrefix
<1>9. m - 1 \in Len(s) .. Len(t) /\ m \in 1 .. Len(t)
  BY <1>6, <1>8
<1>10. IsPrefix(g[Len(s)], g[m - 1])
  BY <1>5, <1>9 DEF S
<1>11. g[m - 1] \in Seq(Chunk) /\ Step(g, t, m)
  BY <1>1, <1>9 DEF Reads
<1> QED BY <1>6, <1>7, <1>10, <1>11, PrefixTransitive DEF Step

-----------------------------------------------------------------------------
(***************************************************************************)
(* What is on its way.                                                     *)
(***************************************************************************)

LEMMA SeqIsWire == ASSUME NEW S, NEW q \in Seq(S) PROVE Wire(q)
<1>1. \A i \in 1 .. Len(q) : q[i] \in {q[k] : k \in 1 .. Len(q)}
  OBVIOUS
<1> QED BY <1>1 DEF Wire

LEMMA WireJoined ==
  ASSUME NEW q, NEW ms, Wire(q), Wire(ms)
  PROVE  /\ Wire(q \o ms) /\ Len(q) \in Nat /\ Len(ms) \in Nat /\ Len(q \o ms) = Len(q) + Len(ms)
         /\ \A p \in 1 .. Len(q) : (q \o ms)[p] = q[p]
         /\ \A p \in 1 .. Len(ms) : (q \o ms)[Len(q) + p] = ms[p]
<1> DEFINE S == {q[i] : i \in 1 .. Len(q)} \cup {ms[i] : i \in 1 .. Len(ms)}
<1>1. q \in Seq(S) /\ ms \in Seq(S)
  BY DEF Wire
<1> HIDE DEF S
<1>2. q \o ms \in Seq(S)
  BY <1>1
<1>3. Wire(q \o ms)
  BY <1>2, SeqIsWire
<1>4. /\ Len(q) \in Nat /\ Len(ms) \in Nat /\ Len(q \o ms) = Len(q) + Len(ms)
      /\ \A p \in 1 .. Len(q) : (q \o ms)[p] = q[p]
      /\ \A p \in 1 .. Len(ms) : (q \o ms)[Len(q) + p] = ms[p]
  BY <1>1
<1> QED BY <1>3, <1>4

LEMMA WireRest ==
  ASSUME NEW q, Wire(q), q # <<>>
  PROVE  /\ Head(q) = q[1] /\ Wire(Tail(q)) /\ Len(q) \in Nat \ {0} /\ Len(Tail(q)) = Len(q) - 1
         /\ \A p \in 1 .. Len(q) - 1 : Tail(q)[p] = q[p + 1]
<1> DEFINE S == {q[i] : i \in 1 .. Len(q)}
<1>1. q \in Seq(S)
  BY DEF Wire
<1> HIDE DEF S
<1>2. Tail(q) \in Seq(S)
  BY <1>1
<1>3. Wire(Tail(q))
  BY <1>2, SeqIsWire
<1>4. /\ Head(q) = q[1] /\ Len(q) \in Nat \ {0} /\ Len(Tail(q)) = Len(q) - 1
      /\ \A p \in 1 .. Len(q) - 1 : Tail(q)[p] = q[p + 1]
  BY <1>1
<1> QED BY <1>3, <1>4

\* Executions that are done stay, runs stay claimed, ledgers grow while a
\* consumer waits.
GoesOn(r) ==
  /\ \A i \in DOMAIN ran[r] : i \in DOMAIN ran'[r] /\ (ran[r][i].done => ran'[r][i] = ran[r][i])
  /\ stream[r].stage # "new" => stream'[r].stage # "new" /\ (Pending(r)' => Pending(r))
  /\ stream[r].stage # "new" /\ Pending(r)' =>
       \A j \in 1 .. Len(lease[r].outputs) :
         j \in 1 .. Len(lease'[r].outputs) /\ lease'[r].outputs[j] = lease[r].outputs[j]
Onward == \A r \in Runs : GoesOn(r)

LEMMA FromStays ==
  ASSUME Onward, NEW q, NEW p, NEW r \in Runs, NEW i \in DOMAIN ran[r],
         stream[r].stage # "new", Pending(r)', FromExecution(q, p, r, i)
  PROVE  i \in DOMAIN ran'[r] /\ FromExecution(q, p, r, i)'
<1>1. i \in DOMAIN ran'[r] /\ ran'[r][i] = ran[r][i] /\ ran[r][i].done
  BY DEF Onward, GoesOn, FromExecution
<1>2. \A j : OutputOf(r, i, j)' = OutputOf(r, i, j)
  BY <1>1 DEF OutputOf
<1>3. \A j : Recorded(r, i, j) => Recorded(r, i, j)'
  BY <1>1 DEF Onward, GoesOn, Recorded
<1>4. ASSUME NEW n, Covered(q, p, r, i, n) PROVE Covered(q, p, r, i, n)'
  BY <1>2, <1>3, <1>4 DEF Covered
<1> QED BY <1>1, <1>2, <1>4 DEF FromExecution

LEMMA MessageStays == ASSUME Onward, NEW m, MessageOK(m) PROVE MessageOK(m)'
BY DEF Onward, GoesOn, MessageOK

LEMMA WireStays == ASSUME Onward, NEW q, WireOK(q) PROVE WireOK(q)'
<1>1. ASSUME NEW p \in 1 .. Len(q) PROVE MessageOK(q[p])' /\ Backed(q, p)'
  <2>1. MessageOK(q[p]) /\ Backed(q, p)
    BY DEF WireOK
  <2>2. SUFFICES ASSUME q[p].type \in {"output", "completion"}, Pending(q[p].run)'
                 PROVE  \E i \in DOMAIN ran'[q[p].run] : FromExecution(q, p, q[p].run, i)'
    BY <2>1, MessageStays DEF Backed
  <2>3. q[p].run \in Runs /\ stream[q[p].run].stage # "new"
    BY <2>1, <2>2 DEF MessageOK
  <2>4. Pending(q[p].run)
    BY <2>2, <2>3 DEF Onward, GoesOn
  <2>5. PICK i \in DOMAIN ran[q[p].run] : FromExecution(q, p, q[p].run, i)
    BY <2>1, <2>2, <2>4 DEF Backed
  <2> QED BY <2>2, <2>3, <2>5, FromStays
<1> QED BY <1>1 DEF WireOK

\* What the hub or the runner has read no longer comes before the rest.
HeadTaken(m) ==
  m.type = "output" /\ stream'[m.run].stage = "open" =>
    m.seq \in 1 .. Len(lease'[m.run].outputs) /\ lease'[m.run].outputs[m.seq] = m.chunk

LEMMA TailStays ==
  ASSUME Onward, NEW q, WireOK(q), q # <<>>, HeadTaken(q[1]) PROVE WireOK(Tail(q))'
<1> DEFINE t == Tail(q)
<1>1. /\ Wire(t) /\ Len(q) \in Nat \ {0} /\ Len(t) = Len(q) - 1
      /\ \A p \in 1 .. Len(q) - 1 : t[p] = q[p + 1]
  BY WireRest DEF WireOK
<1>2. WireOK(q)'
  BY WireStays
<1> HIDE DEF t
<1>3. ASSUME NEW p \in 1 .. Len(t) PROVE MessageOK(t[p])' /\ Backed(t, p)'
  <2>1. p \in 1 .. Len(q) - 1 /\ p + 1 \in 1 .. Len(q) /\ t[p] = q[p + 1]
    BY <1>1
  <2>2. MessageOK(q[p + 1])' /\ Backed(q, p + 1)'
    BY <1>2, <2>1 DEF WireOK
  <2> DEFINE r == t[p].run
  <2>3. SUFFICES ASSUME t[p].type \in {"output", "completion"}, Pending(r)'
                 PROVE  \E i \in DOMAIN ran'[r] : FromExecution(t, p, r, i)'
    BY <2>1, <2>2 DEF Backed
  <2>4. PICK i \in DOMAIN ran'[r] : FromExecution(q, p + 1, r, i)'
    BY <2>1, <2>2, <2>3 DEF Backed
  <2>5. ASSUME NEW n, Covered(q, p + 1, r, i, n)' PROVE Covered(t, p, r, i, n)'
    <3> SUFFICES ASSUME NEW j \in 1 .. n, ~Recorded(r, i, j)'
                 PROVE  \E k \in 1 .. p - 1 : t[k] = OutputOf(r, i, j)'
      BY DEF Covered
    <3>1. PICK k \in 1 .. p + 1 - 1 : q[k] = OutputOf(r, i, j)'
      BY <2>5 DEF Covered
    <3>2. k # 1
      <4>1. SUFFICES ASSUME k = 1 PROVE FALSE
        OBVIOUS
      <4>2. /\ q[1].type = "output" /\ q[1].run = r /\ q[1].seq = j
            /\ q[1].chunk = ran'[r][i].out[j]
        BY <3>1, <4>1 DEF OutputOf
      <4> QED BY <2>3, <4>2 DEF HeadTaken, Recorded, Pending
    <3>3. k - 1 \in 1 .. p - 1 /\ k - 1 \in 1 .. Len(q) - 1 /\ k - 1 + 1 = k
      BY <2>1, <3>2
    <3> QED BY <1>1, <3>1, <3>3
  <2> QED BY <2>1, <2>4, <2>5 DEF FromExecution
<1> QED BY <1>1, <1>3 DEF WireOK, t

LEMMA JoinStays == ASSUME NEW q, NEW ms, WireOK(q)', WireOK(ms)' PROVE WireOK(q \o ms)'
<1> DEFINE t == q \o ms
<1>1. /\ Wire(t) /\ Len(q) \in Nat /\ Len(ms) \in Nat /\ Len(t) = Len(q) + Len(ms)
      /\ \A p \in 1 .. Len(q) : t[p] = q[p]
      /\ \A p \in 1 .. Len(ms) : t[Len(q) + p] = ms[p]
  BY WireJoined DEF WireOK
<1> HIDE DEF t
<1>2. ASSUME NEW p \in 1 .. Len(t) PROVE MessageOK(t[p])' /\ Backed(t, p)'
  <2>1. CASE p \in 1 .. Len(q)
    <3>1. t[p] = q[p] /\ \A k \in 1 .. p - 1 : t[k] = q[k]
      BY <1>1, <2>1
    <3>2. MessageOK(q[p])' /\ Backed(q, p)'
      BY <2>1 DEF WireOK
    <3> QED BY <3>1, <3>2 DEF Backed, FromExecution, Covered
  <2>2. CASE p \notin 1 .. Len(q)
    <3> DEFINE o == p - Len(q)
    <3>1. o \in 1 .. Len(ms) /\ p = Len(q) + o
      BY <1>1, <2>2
    <3>2. t[p] = ms[o] /\ MessageOK(ms[o])' /\ Backed(ms, o)'
      BY <1>1, <3>1 DEF WireOK
    <3> HIDE DEF o
    <3>3. \A k \in 1 .. o - 1 : Len(q) + k \in 1 .. p - 1 /\ t[Len(q) + k] = ms[k]
      BY <1>1, <3>1
    <3>4. ASSUME NEW r, NEW i, NEW n, Covered(ms, o, r, i, n)' PROVE Covered(t, p, r, i, n)'
      BY <3>3, <3>4 DEF Covered
    <3>5. ASSUME NEW r, NEW i, FromExecution(ms, o, r, i)' PROVE FromExecution(t, p, r, i)'
      BY <3>2, <3>4, <3>5 DEF FromExecution
    <3> QED BY <3>2, <3>5 DEF Backed
  <2> QED BY <2>1, <2>2
<1> QED BY <1>1, <1>2 DEF WireOK, t

LEMMA NoMessage == WireOK(<<>>)'
<1>1. Wire(<<>>) /\ Len(<<>>) = 0
  BY DEF Wire
<1> QED BY <1>1 DEF WireOK

\* Messages that carry no output need nothing before them.
LEMMA PlainMessages ==
  ASSUME NEW S, NEW q \in Seq(S), \A m \in S : MessageOK(m)' /\ m.type \notin {"output", "completion"}
  PROVE  WireOK(q)'
<1>1. \A p \in 1 .. Len(q) : q[p] \in S
  OBVIOUS
<1> QED BY <1>1, SeqIsWire DEF WireOK, Backed

\* Each wire is as it was, or emptied, or otherwise in order.
LEMMA UpStays ==
  ASSUME WiresOK(up), Onward, up' = [s \in Sockets |-> up'[s]],
         \A s \in Sockets : up'[s] = up[s] \/ up'[s] = <<>> \/ WireOK(up[s])'
  PROVE  WiresOK(up)'
<1>1. ASSUME NEW s \in Sockets PROVE WireOK(up[s])'
  <2>1. CASE up'[s] = up[s]
    <3>1. PICK q : q = up[s]
      OBVIOUS
    <3>2. WireOK(q)
      BY <3>1 DEF WiresOK
    <3>3. WireOK(q)' /\ q = up'[s]
      BY <2>1, <3>1, <3>2, WireStays
    <3> QED BY <3>3
  <2>2. CASE up'[s] = <<>>
    BY <2>2, NoMessage
  <2> QED BY <2>1, <2>2
<1> QED BY <1>1 DEF WiresOK

LEMMA DownStays ==
  ASSUME WiresOK(down), Onward, down' = [s \in Sockets |-> down'[s]],
         \A s \in Sockets : down'[s] = down[s] \/ down'[s] = <<>> \/ WireOK(down[s])'
  PROVE  WiresOK(down)'
<1>1. ASSUME NEW s \in Sockets PROVE WireOK(down[s])'
  <2>1. CASE down'[s] = down[s]
    <3>1. PICK q : q = down[s]
      OBVIOUS
    <3>2. WireOK(q)
      BY <3>1 DEF WiresOK
    <3>3. WireOK(q)' /\ q = down'[s]
      BY <2>1, <3>1, <3>2, WireStays
    <3> QED BY <3>3
  <2>2. CASE down'[s] = <<>>
    BY <2>2, NoMessage
  <2> QED BY <2>1, <2>2
<1> QED BY <1>1 DEF WiresOK

LEMMA UpSent ==
  ASSUME WiresOK(up), Onward, NEW t \in Sockets, NEW ms, WireOK(ms)', up' = Sent(up, t, ms)
  PROVE  WiresOK(up)'
<1>1. PICK q : q = up[t]
  OBVIOUS
<1>2. WireOK(q)'
  BY <1>1, WireStays DEF WiresOK
<1>3. WireOK(q \o ms)'
  BY <1>2, JoinStays
<1>4. up' = [s \in Sockets |-> up'[s]] /\ (up'[t] = up[t] \/ up'[t] = q \o ms)
      /\ \A s \in Sockets \ {t} : up'[s] = up[s]
  BY <1>1 DEF Sent, WiresOK
<1>5. up'[t] = q \o ms => WireOK(up[t])'
  BY <1>3
<1>6. \A s \in Sockets : up'[s] = up[s] \/ WireOK(up[s])'
  BY <1>4, <1>5
<1> QED BY <1>4, <1>6, UpStays

LEMMA DownSent ==
  ASSUME WiresOK(down), Onward, NEW t \in Sockets, NEW ms, WireOK(ms)', down' = Sent(down, t, ms)
  PROVE  WiresOK(down)'
<1>1. PICK q : q = down[t]
  OBVIOUS
<1>2. WireOK(q)'
  BY <1>1, WireStays DEF WiresOK
<1>3. WireOK(q \o ms)'
  BY <1>2, JoinStays
<1>4. down' = [s \in Sockets |-> down'[s]] /\ (down'[t] = down[t] \/ down'[t] = q \o ms)
      /\ \A s \in Sockets \ {t} : down'[s] = down[s]
  BY <1>1 DEF Sent, WiresOK
<1>5. down'[t] = q \o ms => WireOK(down[t])'
  BY <1>3
<1>6. \A s \in Sockets : down'[s] = down[s] \/ WireOK(down[s])'
  BY <1>4, <1>5
<1> QED BY <1>4, <1>6, DownStays

LEMMA UpTaken ==
  ASSUME WiresOK(up), Onward, NEW t \in Sockets, up[t] # <<>>, HeadTaken(up[t][1]),
         up' = [up EXCEPT ![t] = Tail(@)]
  PROVE  WiresOK(up)'
<1>1. PICK q : q = up[t]
  OBVIOUS
<1>2. WireOK(Tail(q))'
  BY <1>1, TailStays DEF WiresOK
<1>3. up' = [s \in Sockets |-> up'[s]] /\ up'[t] = Tail(q) /\ \A s \in Sockets \ {t} : up'[s] = up[s]
  BY <1>1 DEF WiresOK
<1>4. WireOK(up[t])'
  BY <1>2, <1>3
<1> QED BY <1>3, <1>4, UpStays

LEMMA DownTaken ==
  ASSUME WiresOK(down), Onward, NEW t \in Sockets, down[t] # <<>>, down[t][1].type # "output",
         down' = [down EXCEPT ![t] = Tail(@)]
  PROVE  WiresOK(down)'
<1>1. PICK q : q = down[t]
  OBVIOUS
<1>2. WireOK(Tail(q))'
  BY <1>1, TailStays DEF WiresOK, HeadTaken
<1>3. down' = [s \in Sockets |-> down'[s]] /\ down'[t] = Tail(q) /\ \A s \in Sockets \ {t} : down'[s] = down[s]
  BY <1>1 DEF WiresOK
<1>4. WireOK(down[t])'
  BY <1>2, <1>3
<1> QED BY <1>3, <1>4, DownStays

-----------------------------------------------------------------------------
(***************************************************************************)
(* One run.                                                                *)
(***************************************************************************)

\* While a consumer waits, it has read the beginning of an output.
LEMMA LedgerReads ==
  ASSUME LinkTyped, NEW r \in Runs, LedgerOK(r), Pending(r), Wellprinted(r)
  PROVE  Text(r) = <<>> \/ \E i \in DOMAIN ran[r] : ran[r][i].done /\ IsPrefix(Text(r), Stdout(ran[r][i].out))
<1>1. Text(r) = Stdout(lease[r].outputs) /\ lease[r].outputs \in Seq(Chunk)
  BY DEF LinkTyped, RunsTyped, LedgerOK, Leases
<1>2. CASE lease[r].outputs = <<>>
  BY <1>1, <1>2, StdoutEmpty
<1>3. ASSUME NEW i \in DOMAIN ran[r], ran[r][i].done, Begins(lease[r].outputs, ran[r][i].out)
      PROVE  IsPrefix(Text(r), Stdout(ran[r][i].out))
  <2>1. ran[r] \in Seq(Executions)
    BY DEF LinkTyped, RunsTyped
  <2>2. ran[r][i] \in Executions
    BY <2>1
  <2>3. ran[r][i].out \in Seq(Chunk)
    BY <2>2 DEF Executions
  <2> QED BY <1>1, <1>3, <2>3, StdoutPrefix
<1> QED BY <1>2, <1>3 DEF LedgerOK

RunRests(r) ==
  /\ stream'[r] = stream[r] /\ lease'[r] = lease[r]
  /\ active'[r] = active[r] /\ kept'[r] = kept[r] /\ ran'[r] = ran[r]

LEMMA RunStays ==
  ASSUME NEW r \in Runs, RunOK(r), RunRests(r), starts' = starts, proc' = "up" => proc = "up"
  PROVE  GoesOn(r) /\ RunOK(r)'
<1>1. GoesOn(r)
  BY DEF RunRests, GoesOn, Pending
<1>2. UntouchedOK(r)' /\ ExecutedOK(r)'
  BY DEF RunOK, RunRests, UntouchedOK, ExecutedOK
<1>3. LedgerOK(r)'
  BY DEF RunOK, RunRests, LedgerOK, Pending, Wellprinted, Text
<1>4. ReadOK(r)'
  BY DEF RunOK, RunRests, ReadOK, Pending, Wellprinted, Text
<1> QED BY <1>1, <1>2, <1>3, <1>4 DEF RunOK

\* What executions do leaves what was read.
LEMMA PrintingStays ==
  ASSUME LinkTyped, NEW r \in Runs, RunOK(r), GoesOn(r), ran'[r] \in Seq(Executions),
         stream'[r] = stream[r], lease'[r] = lease[r]
  PROVE  LedgerOK(r)' /\ ReadOK(r)'
<1>1. \A i \in DOMAIN ran[r] : i \in DOMAIN ran'[r] /\ (ran[r][i].done => ran'[r][i] = ran[r][i])
  BY DEF GoesOn
<1>2. Wellprinted(r)' => Wellprinted(r)
  <2>1. \A i \in DOMAIN ran[r] : ~ran[r][i].done => Wellformed(ran[r][i].out)
    BY DEF RunOK, ExecutedOK, Wellformed
  <2> QED BY <1>1, <2>1 DEF Wellprinted
<1>3. LedgerOK(r)'
  BY <1>1, <1>2 DEF RunOK, LedgerOK, Pending, Text
<1>4. ran[r] # <<>> /\ Len(ran'[r]) = 1 => Len(ran[r]) = 1
  <2>1. ran[r] \in Seq(Executions)
    BY DEF LinkTyped, RunsTyped
  <2>2. DOMAIN ran[r] = 1 .. Len(ran[r]) /\ Len(ran[r]) \in Nat /\ (ran[r] # <<>> => Len(ran[r]) # 0)
    BY <2>1
  <2>3. DOMAIN ran'[r] = 1 .. Len(ran'[r])
    OBVIOUS
  <2>4. ASSUME Len(ran[r]) > 1, Len(ran'[r]) = 1 PROVE FALSE
    <3>1. 2 \in DOMAIN ran[r]
      BY <2>2, <2>4
    <3> QED BY <1>1, <2>3, <2>4, <3>1
  <2>5. \A n \in Nat : n # 0 => n = 1 \/ n > 1
    OBVIOUS
  <2> QED BY <2>2, <2>4, <2>5
<1>5. 1 \in DOMAIN ran[r] \/ Len(ran[r]) # 1
  <2>1. ran[r] \in Seq(Executions)
    BY DEF LinkTyped, RunsTyped
  <2> QED BY <2>1
<1>6. ASSUME ~Pending(r)' PROVE ReadOK(r)'
  <2>1. ~Pending(r) /\ ReadOK(r) /\ Text(r)' = Text(r)
    BY <1>6 DEF Pending, RunOK, Text
  <2>2. stream[r].stage = "ended" => ran[r] # <<>> /\ ran'[r] # <<>>
    <3>1. ran[r] \in Seq(Executions)
      BY DEF LinkTyped, RunsTyped
    <3>2. ran[r] # <<>> => 1 \in DOMAIN ran[r]
      BY <3>1
    <3> QED BY <1>1, <2>1, <3>2 DEF ReadOK
  <2>3. ASSUME Wellprinted(r)'
        PROVE  Text(r)' = <<>> \/ \E i \in DOMAIN ran'[r] : ran'[r][i].done /\ IsPrefix(Text(r)', Stdout(ran'[r][i].out))
    BY <1>1, <1>2, <2>1, <2>3 DEF ReadOK
  <2>4. ASSUME Wellprinted(r)', stream'[r].stage = "ended", Len(ran'[r]) = 1
        PROVE  ran'[r][1].done /\ stream'[r].got = Stdout(ran'[r][1].out)
    <3>1. Len(ran[r]) = 1 /\ 1 \in DOMAIN ran[r]
      BY <1>4, <1>5, <2>2, <2>4
    <3>2. ran[r][1].done /\ stream[r].got = Stdout(ran[r][1].out)
      BY <1>2, <2>1, <2>4, <3>1 DEF ReadOK
    <3> QED BY <1>1, <3>1, <3>2
  <2> QED BY <2>2, <2>3, <2>4 DEF ReadOK
<1>7. Pending(r)' => ReadOK(r)'
  BY DEF ReadOK
<1> QED BY <1>3, <1>6, <1>7

-----------------------------------------------------------------------------
(***************************************************************************)
(* Connections.                                                            *)
(***************************************************************************)

RunsRest == UNCHANGED <<stream, lease, active, kept, ran, starts>> /\ (proc' = "up" => proc = "up")

LEMMA KeptStays ==
  ASSUME LinkInv, Onward, NEW r \in Runs, kept'[r] = kept[r] PROVE WireOK(kept[r])'
<1>1. PICK q : q = kept[r]
  OBVIOUS
<1>2. WireOK(q)
  BY <1>1 DEF LinkInv
<1>3. WireOK(q)' /\ q = kept'[r]
  BY <1>1, <1>2, WireStays
<1> QED BY <1>3

LEMMA RunsStay ==
  ASSUME LinkInv, RunsRest
  PROVE  Onward /\ RunsTyped' /\ \A r \in Runs : WireOK(kept[r])' /\ RunOK(r)'
<1>1. ASSUME NEW r \in Runs PROVE GoesOn(r) /\ RunOK(r)'
  BY RunStays DEF LinkInv, RunsRest, RunRests
<1>2. Onward
  BY <1>1 DEF Onward
<1>3. \A r \in Runs : WireOK(kept[r])'
  BY <1>2, KeptStays DEF RunsRest
<1>4. RunsTyped'
  BY DEF LinkInv, LinkTyped, RunsTyped, RunsRest
<1> QED BY <1>1, <1>2, <1>3, <1>4

LEMMA QuietKept ==
  ASSUME LinkInv, RunsRest, ConnectionsTyped', ActiveOK', WiresOK(up)', WiresOK(down)' PROVE LinkInv'
BY RunsStay DEF LinkInv, LinkTyped

\* Where nobody is authenticated anew.
LEMMA ActiveStays ==
  ASSUME LinkInv, UNCHANGED <<reg, stream>>, \A s \in Sockets : hub'[s] = "runner" => hub[s] = "runner"
  PROVE  ActiveOK'
BY DEF LinkInv, ActiveOK, Pending

LEMMA OneMessage ==
  ASSUME NEW m, MessageOK(m)', m.type \notin {"output", "completion"} PROVE WireOK(<<m>>)'
<1>1. <<m>> \in Seq({m}) /\ Len(<<m>>) = 1 /\ <<m>>[1] = m
  OBVIOUS
<1>2. Wire(<<m>>)
  BY <1>1, SeqIsWire
<1>3. \A p \in 1 .. Len(<<m>>) : p = 1
  BY <1>1
<1> QED BY <1>1, <1>2, <1>3 DEF WireOK, Backed

LEMMA UpOne ==
  ASSUME WiresOK(up), Onward, NEW t \in Sockets, NEW m, up' = [up EXCEPT ![t] = <<m>>],
         MessageOK(m)', m.type \notin {"output", "completion"}
  PROVE  WiresOK(up)'
<1>1. WireOK(<<m>>)'
  BY OneMessage
<1>2. /\ up' = [s \in Sockets |-> up'[s]] /\ up'[t] = <<m>>
      /\ \A s \in Sockets \ {t} : up'[s] = up[s]
  BY DEF WiresOK
<1>3. WireOK(up[t])'
  BY <1>1, <1>2
<1> QED BY <1>2, <1>3, UpStays

LEMMA UpCleared ==
  ASSUME WiresOK(up), Onward, NEW t \in Sockets, up' = [up EXCEPT ![t] = <<>>] PROVE WiresOK(up)'
<1>1. /\ up' = [s \in Sockets |-> up'[s]]
      /\ \A s \in Sockets : up'[s] = up[s] \/ up'[s] = <<>>
  BY DEF WiresOK
<1> QED BY <1>1, UpStays

LEMMA DownCleared ==
  ASSUME WiresOK(down), Onward, NEW t \in Sockets, down' = [down EXCEPT ![t] = <<>>] PROVE WiresOK(down)'
<1>1. /\ down' = [s \in Sockets |-> down'[s]]
      /\ \A s \in Sockets : down'[s] = down[s] \/ down'[s] = <<>>
  BY DEF WiresOK
<1> QED BY <1>1, DownStays

LEMMA UpRests == ASSUME WiresOK(up), Onward, UNCHANGED up PROVE WiresOK(up)'
BY UpStays DEF WiresOK

LEMMA DownRests == ASSUME WiresOK(down), Onward, UNCHANGED down PROVE WiresOK(down)'
BY DownStays DEF WiresOK

LEMMA OpenKept ==
  ASSUME LinkInv, NEW s \in Sockets, NEW m, Open(s, m), RunsRest, UNCHANGED <<reg, proc, down>>,
         conn' \in Sockets \cup {0}, m.type \in {"pair", "auth"}
  PROVE  LinkInv'
<1>1. ConnectionsTyped'
  BY DEF Open, LinkInv, LinkTyped, ConnectionsTyped
<1>2. ActiveOK'
  <2>1. \A t \in Sockets : hub'[t] = "runner" => hub[t] = "runner"
    BY DEF Open, LinkInv, LinkTyped, ConnectionsTyped
  <2> QED BY <2>1, ActiveStays DEF RunsRest
<1>3. MessageOK(m)'
  BY DEF MessageOK
<1>4. WiresOK(up)'
  BY <1>3, RunsStay, UpOne DEF LinkInv, Open
<1>5. WiresOK(down)'
  BY RunsStay, DownRests DEF LinkInv
<1> QED BY <1>1, <1>2, <1>4, <1>5, QuietKept

LEMMA CodesKept ==
  ASSUME LinkInv, NEW c \in Codes, IssueCode(c) \/ ExpireCode(c) PROVE LinkInv'
<1>1. RunsRest /\ UNCHANGED <<reg, hub, link, up, down, proc, conn>>
  BY DEF IssueCode, ExpireCode, RunsRest, runnerVars
<1>2. WiresOK(up)' /\ WiresOK(down)'
  BY <1>1, RunsStay, UpRests, DownRests DEF LinkInv
<1>3. ActiveOK'
  BY <1>1, ActiveStays DEF RunsRest
<1>4. ConnectionsTyped'
  BY <1>1 DEF LinkInv, LinkTyped, ConnectionsTyped
<1> QED BY <1>1, <1>2, <1>3, <1>4, QuietKept

LEMMA PairRequestKept ==
  ASSUME LinkInv, NEW s \in Sockets, NEW c \in Codes, PairRequest(s, c) PROVE LinkInv'
<1> DEFINE m == [type |-> "pair", code |-> c]
<1>1. m.type \in {"pair", "auth"} /\ Open(s, m) /\ RunsRest /\ UNCHANGED <<reg, proc, conn, down>>
  BY DEF PairRequest, RunsRest, runnerVars
<1>2. conn' \in Sockets \cup {0}
  BY <1>1 DEF LinkInv, LinkTyped, ConnectionsTyped
<1> HIDE DEF m
<1> QED BY <1>1, <1>2, OpenKept

LEMMA ConnectKept == ASSUME LinkInv, NEW s \in Sockets, Connect(s) PROVE LinkInv'
<1>1. PICK token : token = cred
  OBVIOUS
<1> DEFINE m == [type |-> "auth", token |-> token]
<1>2. m.type \in {"pair", "auth"} /\ Open(s, m) /\ RunsRest /\ UNCHANGED <<reg, proc, down>> /\ conn' = s
  BY <1>1 DEF Connect, RunsRest
<1> HIDE DEF m
<1> QED BY <1>2, OpenKept

LEMMA ClosedKept == ASSUME LinkInv, Closed PROVE LinkInv'
<1>1. RunsRest /\ UNCHANGED <<reg, hub, link, up, down>> /\ conn' \in {conn, 0} /\ proc' \in {proc, "exited"}
  BY DEF Closed, RunsRest, hubVars
<1>2. WiresOK(up)' /\ WiresOK(down)'
  BY <1>1, RunsStay, UpRests, DownRests DEF LinkInv
<1>3. ActiveOK'
  BY <1>1, ActiveStays DEF RunsRest
<1>4. ConnectionsTyped'
  BY <1>1 DEF LinkInv, LinkTyped, ConnectionsTyped
<1> QED BY <1>1, <1>2, <1>3, <1>4, QuietKept

LEMMA PairAcceptedKept == ASSUME LinkInv, NEW s \in Sockets, PairAccepted(s) PROVE LinkInv'
<1>1. /\ RunsRest /\ UNCHANGED <<reg, hub, up, proc, conn>>
      /\ link' = [link EXCEPT ![s] = "dead"] /\ down' = [down EXCEPT ![s] = <<>>]
  BY DEF PairAccepted, RunsRest, hubVars
<1>2. WiresOK(up)' /\ WiresOK(down)'
  BY <1>1, RunsStay, UpRests, DownCleared DEF LinkInv
<1>3. ActiveOK'
  BY <1>1, ActiveStays DEF RunsRest
<1>4. ConnectionsTyped'
  BY <1>1 DEF LinkInv, LinkTyped, ConnectionsTyped
<1> QED BY <1>1, <1>2, <1>3, <1>4, QuietKept

LEMMA LinkLostKept == ASSUME LinkInv, NEW s \in Sockets, LinkLost(s) PROVE LinkInv'
<1>1. /\ RunsRest /\ UNCHANGED <<reg, hub, up, proc, conn>>
      /\ link' = [link EXCEPT ![s] = "dead"] /\ down' = [down EXCEPT ![s] = <<>>]
  BY DEF LinkLost, RunsRest, hubVars, runnerVars
<1>2. WiresOK(up)' /\ WiresOK(down)'
  BY <1>1, RunsStay, UpRests, DownCleared DEF LinkInv
<1>3. ActiveOK'
  BY <1>1, ActiveStays DEF RunsRest
<1>4. ConnectionsTyped'
  BY <1>1 DEF LinkInv, LinkTyped, ConnectionsTyped
<1> QED BY <1>1, <1>2, <1>3, <1>4, QuietKept

LEMMA HubCloseKept == ASSUME LinkInv, NEW s \in Sockets, HubClose(s) PROVE LinkInv'
<1>1. /\ RunsRest /\ UNCHANGED <<reg, link, down, proc, conn>>
      /\ hub' = [hub EXCEPT ![s] = "gone"] /\ up' = [up EXCEPT ![s] = <<>>]
  BY DEF HubClose, RunsRest, runnerVars
<1>2. WiresOK(up)' /\ WiresOK(down)'
  BY <1>1, RunsStay, UpCleared, DownRests DEF LinkInv
<1>3. ConnectionsTyped'
  BY <1>1 DEF LinkInv, LinkTyped, ConnectionsTyped
<1>4. ActiveOK'
  <2>1. \A t \in Sockets : hub'[t] = "runner" => hub[t] = "runner"
    BY <1>1 DEF LinkInv, LinkTyped, ConnectionsTyped
  <2> QED BY <1>1, <2>1, ActiveStays DEF RunsRest
<1> QED BY <1>1, <1>2, <1>3, <1>4, QuietKept

-----------------------------------------------------------------------------
(***************************************************************************)
(* Streams.                                                                *)
(***************************************************************************)

RunnerRests == UNCHANGED <<active, kept, ran, starts>> /\ (proc' = "up" => proc = "up")

\* A stream goes on, or over, and is not forgotten.
StreamMoves(r) == GoesOn(r) /\ LedgerOK(r)' /\ ReadOK(r)' /\ stream'[r].stage # "new"

LEMMA StreamsMove ==
  ASSUME LinkInv, RunnerRests, stream' \in [Runs -> Streams], lease' \in [Runs -> Leases],
         \A r \in Runs : RunRests(r) \/ StreamMoves(r)
  PROVE  Onward /\ RunsTyped' /\ \A r \in Runs : WireOK(kept[r])' /\ RunOK(r)'
<1>1. ASSUME NEW r \in Runs PROVE GoesOn(r) /\ RunOK(r)'
  <2>1. CASE RunRests(r)
    BY <2>1, RunStays DEF LinkInv, RunnerRests
  <2>2. CASE StreamMoves(r)
    <3>1. UntouchedOK(r)'
      BY <2>2 DEF StreamMoves, UntouchedOK
    <3>2. ExecutedOK(r)'
      BY DEF LinkInv, RunOK, ExecutedOK, RunnerRests
    <3> QED BY <2>2, <3>1, <3>2 DEF StreamMoves, RunOK
  <2> QED BY <2>1, <2>2
<1>2. Onward
  BY <1>1 DEF Onward
<1>3. \A r \in Runs : WireOK(kept[r])'
  BY <1>2, KeptStays DEF RunnerRests
<1>4. RunsTyped'
  BY DEF LinkInv, LinkTyped, RunsTyped, RunnerRests
<1> QED BY <1>1, <1>2, <1>3, <1>4

SameText(r) ==
  stream'[r].got = stream[r].got /\ stream'[r].buffer = stream[r].buffer /\ ran'[r] = ran[r]

LEMMA StreamGoesOn ==
  ASSUME NEW r \in Runs, RunOK(r), SameText(r), stream[r].stage # "new",
         stream'[r].stage = stream[r].stage, stream'[r].seen = stream[r].seen,
         lease'[r].outputs = lease[r].outputs
  PROVE  StreamMoves(r)
<1>1. GoesOn(r)
  BY DEF SameText, GoesOn, Pending
<1>2. LedgerOK(r)' /\ ReadOK(r)'
  BY DEF RunOK, LedgerOK, ReadOK, SameText, Pending, Wellprinted, Text
<1> QED BY <1>1, <1>2 DEF StreamMoves

LEMMA StreamIsOver ==
  ASSUME NEW r \in Runs, RunOK(r), stream'[r] = stream[r], ran'[r] = ran[r],
         stream[r].stage \notin {"new", "open"}
  PROVE  StreamMoves(r)
<1>1. GoesOn(r)
  BY DEF GoesOn, Pending
<1>2. LedgerOK(r)' /\ ReadOK(r)'
  BY DEF RunOK, LedgerOK, ReadOK, Pending, Wellprinted, Text
<1> QED BY <1>1, <1>2 DEF StreamMoves

\* Whatever ends a stream before its completion, what was read stays.
LEMMA StreamSettles ==
  ASSUME LinkTyped, NEW r \in Runs, RunOK(r), SameText(r), Pending(r),
         stream'[r].stage \in {"left", "failed", "lost"}
  PROVE  StreamMoves(r)
<1>1. GoesOn(r)
  BY DEF SameText, GoesOn, Pending
<1>2. Text(r)' = Text(r) /\ (Wellprinted(r)' => Wellprinted(r))
  BY DEF SameText, Text, Wellprinted
<1>3. ReadOK(r)'
  BY <1>2, LedgerReads DEF RunOK, ReadOK, SameText
<1>4. LedgerOK(r)'
  BY DEF LedgerOK, Pending
<1> QED BY <1>1, <1>3, <1>4 DEF StreamMoves

LEMMA RevokeKept == ASSUME LinkInv, Revoke PROVE LinkInv'
<1>1. /\ RunnerRests /\ UNCHANGED <<lease, down, proc, conn>>
      /\ reg' = [reg EXCEPT !.status = "revoked"]
      /\ hub' = [s \in Sockets |-> IF hub[s] = "runner" THEN "gone" ELSE hub[s]]
      /\ link' = [s \in Sockets |-> IF hub[s] = "runner" /\ link[s] = "live" THEN "refused" ELSE link[s]]
      /\ up' = [s \in Sockets |-> IF hub[s] = "runner" THEN <<>> ELSE up[s]]
      /\ stream' = [r \in Runs |-> IF Pending(r) THEN [stream[r] EXCEPT !.stage = "failed"] ELSE stream[r]]
  BY DEF Revoke, RunnerRests, runnerVars
<1>2. ASSUME NEW r \in Runs
      PROVE  stream'[r] \in Streams /\ ~Pending(r)' /\ (RunRests(r) \/ StreamMoves(r))
  <2>1. stream[r] \in Streams
    BY DEF LinkInv, LinkTyped, RunsTyped
  <2>2. CASE Pending(r)
    <3>1. stream'[r] = [stream[r] EXCEPT !.stage = "failed"]
      BY <1>1, <2>2
    <3>2. stream'[r] \in Streams /\ stream'[r].stage = "failed" /\ SameText(r)
      BY <1>1, <2>1, <3>1 DEF Streams, Stages, SameText, RunnerRests
    <3> QED BY <2>2, <3>2, StreamSettles DEF LinkInv, Pending
  <2>3. CASE ~Pending(r)
    BY <1>1, <2>1, <2>3 DEF RunRests, RunnerRests, Pending
  <2> QED BY <2>2, <2>3
<1>3. stream' \in [Runs -> Streams] /\ lease' \in [Runs -> Leases]
  BY <1>1, <1>2 DEF LinkInv, LinkTyped, RunsTyped
<1>4. Onward /\ RunsTyped' /\ \A r \in Runs : WireOK(kept[r])' /\ RunOK(r)'
  BY <1>1, <1>2, <1>3, StreamsMove
<1>5. ConnectionsTyped'
  BY <1>1 DEF LinkInv, LinkTyped, ConnectionsTyped
<1>6. ActiveOK'
  BY <1>1, <1>2 DEF ActiveOK
<1>7. up' = [s \in Sockets |-> up'[s]] /\ \A s \in Sockets : up'[s] = up[s] \/ up'[s] = <<>>
  BY <1>1
<1>8. WiresOK(up)' /\ WiresOK(down)'
  BY <1>1, <1>4, <1>7, UpStays, DownRests DEF LinkInv
<1> QED BY <1>4, <1>5, <1>6, <1>8 DEF LinkInv, LinkTyped

LEMMA HubRestartKept == ASSUME LinkInv, HubRestart PROVE LinkInv'
<1>1. /\ RunnerRests /\ UNCHANGED <<reg, down, proc, conn>>
      /\ hub' = [s \in Sockets |-> IF hub[s] = "none" THEN "none" ELSE "gone"]
      /\ link' = [s \in Sockets |-> IF link[s] = "live" THEN "dead" ELSE link[s]]
      /\ up' = [s \in Sockets |-> <<>>]
      /\ stream' = [r \in Runs |-> IF Pending(r) THEN [stream[r] EXCEPT !.stage = "lost"] ELSE stream[r]]
      /\ lease' = [r \in Runs |-> NoLease]
  BY DEF HubRestart, RunnerRests, runnerVars
<1>2. ASSUME NEW r \in Runs
      PROVE  stream'[r] \in Streams /\ ~Pending(r)' /\ (RunRests(r) \/ StreamMoves(r))
  <2>1. stream[r] \in Streams
    BY DEF LinkInv, LinkTyped, RunsTyped
  <2>2. CASE Pending(r)
    <3>1. stream'[r] = [stream[r] EXCEPT !.stage = "lost"]
      BY <1>1, <2>2
    <3>2. stream'[r] \in Streams /\ stream'[r].stage = "lost" /\ SameText(r)
      BY <1>1, <2>1, <3>1 DEF Streams, Stages, SameText, RunnerRests
    <3> QED BY <2>2, <3>2, StreamSettles DEF LinkInv, Pending
  <2>3. CASE stream[r].stage = "new"
    BY <1>1, <2>1, <2>3 DEF RunRests, RunnerRests, Pending, LinkInv, RunOK, UntouchedOK
  <2>4. CASE stream[r].stage \notin {"new", "open"}
    <3>1. stream'[r] = stream[r] /\ ran'[r] = ran[r]
      BY <1>1, <2>4 DEF Pending, RunnerRests
    <3> QED BY <2>1, <2>4, <3>1, StreamIsOver DEF LinkInv, Pending
  <2> QED BY <2>2, <2>3, <2>4 DEF Pending
<1>3. stream' \in [Runs -> Streams] /\ lease' \in [Runs -> Leases]
  <2>1. NoLease \in Leases
    BY DEF Leases, NoLease
  <2>2. stream' = [r \in Runs |-> stream'[r]]
    BY <1>1
  <2>3. \A r \in Runs : stream'[r] \in Streams
    BY <1>2
  <2>4. stream' \in [Runs -> Streams]
    BY <2>2, <2>3
  <2> QED BY <1>1, <2>1, <2>4
<1>4. Onward /\ RunsTyped' /\ \A r \in Runs : WireOK(kept[r])' /\ RunOK(r)'
  BY <1>1, <1>2, <1>3, StreamsMove
<1>5. ConnectionsTyped'
  BY <1>1 DEF LinkInv, LinkTyped, ConnectionsTyped
<1>6. ActiveOK'
  BY <1>1, <1>2 DEF ActiveOK
<1>7. up' = [s \in Sockets |-> up'[s]] /\ \A s \in Sockets : up'[s] = <<>>
  BY <1>1
<1>8. WiresOK(up)' /\ WiresOK(down)'
  BY <1>1, <1>4, <1>7, UpStays, DownRests DEF LinkInv
<1> QED BY <1>4, <1>5, <1>6, <1>8 DEF LinkInv, LinkTyped

\* One stream moves, connections and registration stay.
LEMMA OneStream ==
  ASSUME LinkInv, NEW r \in Runs, RunnerRests, UNCHANGED <<reg, hub, proc, conn>>,
         link' \in [Sockets -> {"unused", "live", "dead", "refused"}],
         \A q \in Runs \ {r} : stream'[q] = stream[q] /\ lease'[q] = lease[q],
         stream' = [q \in Runs |-> stream'[q]], lease' = [q \in Runs |-> lease'[q]],
         stream'[r] \in Streams, lease'[r] \in Leases, StreamMoves(r),
         Pending(r)' => Pending(r) \/ reg.status = "active"
  PROVE  /\ Onward /\ RunsTyped' /\ ConnectionsTyped' /\ ActiveOK'
         /\ \A q \in Runs : WireOK(kept[q])' /\ RunOK(q)'
<1>1. \A q \in Runs \ {r} : RunRests(q)
  BY DEF RunRests, RunnerRests
<1>2. \A q \in Runs : stream'[q] \in Streams /\ lease'[q] \in Leases
  BY DEF LinkInv, LinkTyped, RunsTyped
<1>3. stream' \in [Runs -> Streams] /\ lease' \in [Runs -> Leases]
  BY <1>2
<1>4. Onward /\ RunsTyped' /\ \A q \in Runs : WireOK(kept[q])' /\ RunOK(q)'
  BY <1>1, <1>3, StreamsMove
<1>5. ActiveOK'
  BY DEF LinkInv, ActiveOK, Pending
<1>6. ConnectionsTyped'
  BY DEF LinkInv, LinkTyped, ConnectionsTyped
<1> QED BY <1>4, <1>5, <1>6

LEMMA StreamKept == ASSUME LinkInv, NEW r \in Runs, Stream(r) PROVE LinkInv'
<1>1. PICK s \in Sockets :
        /\ hub[s] = "runner" /\ stream' = [stream EXCEPT ![r].stage = "open", ![r].socket = s]
        /\ down' = Sent(down, s, <<[type |-> "claim", run |-> r]>>)
  BY DEF Stream
<1>2. /\ stream[r].stage = "new" /\ lease' = [lease EXCEPT ![r].state = "claimed"]
      /\ RunnerRests /\ UNCHANGED <<reg, hub, link, up, proc, conn>>
  BY DEF Stream, RunnerRests, runnerVars
<1>3. /\ stream[r] = NoStream /\ lease[r] = NoLease /\ ran[r] = <<>>
      /\ stream \in [Runs -> Streams] /\ lease \in [Runs -> Leases] /\ s \in Nat
  BY <1>2 DEF LinkInv, RunOK, UntouchedOK, LinkTyped, RunsTyped, Sockets
<1>4. /\ stream' = [q \in Runs |-> stream'[q]] /\ lease' = [q \in Runs |-> lease'[q]]
      /\ \A q \in Runs \ {r} : stream'[q] = stream[q] /\ lease'[q] = lease[q]
  BY <1>1, <1>2, <1>3
<1>5. /\ stream'[r] \in Streams /\ stream'[r].stage = "open" /\ stream'[r].seen = {}
      /\ stream'[r].got = <<>> /\ stream'[r].buffer = <<>>
  <2>1. stream'[r] = [NoStream EXCEPT !.stage = "open", !.socket = s]
    BY <1>1, <1>3
  <2>2. stream'[r] = [stage |-> "open", socket |-> s, aborted |-> FALSE, seen |-> {}, got |-> <<>>, buffer |-> <<>>]
    BY <2>1 DEF NoStream
  <2>3. <<>> \in Seq(Chunk)
    OBVIOUS
  <2> QED BY <1>3, <2>2, <2>3 DEF Streams, Stages
<1>6. lease'[r] \in Leases /\ lease'[r].outputs = <<>>
  BY <1>2, <1>3 DEF Leases, NoLease
<1>7. StreamMoves(r)
  <2>1. GoesOn(r)
    BY <1>2, <1>3 DEF GoesOn
  <2>2. <<>> \o <<>> = <<>> /\ Len(<<>>) = 0 /\ 1 .. 0 = {} /\ DOMAIN <<>> = {}
    OBVIOUS
  <2>3. LedgerOK(r)'
    BY <1>5, <1>6, <2>2, StdoutEmpty DEF LedgerOK, Text
  <2>4. ReadOK(r)'
    BY <1>5 DEF ReadOK, Pending
  <2> QED BY <1>5, <2>1, <2>3, <2>4 DEF StreamMoves
<1>8. reg.status = "active"
  BY <1>1 DEF LinkInv, ActiveOK
<1>9. link' \in [Sockets -> {"unused", "live", "dead", "refused"}]
  BY <1>2 DEF LinkInv, LinkTyped, ConnectionsTyped
<1>10. /\ Onward /\ RunsTyped' /\ ConnectionsTyped' /\ ActiveOK'
       /\ \A q \in Runs : WireOK(kept[q])' /\ RunOK(q)'
  BY <1>2, <1>4, <1>5, <1>6, <1>7, <1>8, <1>9, OneStream
<1> DEFINE m == [type |-> "claim", run |-> r]
<1>11. MessageOK(m)' /\ m.type \notin {"output", "completion"}
  BY <1>5 DEF MessageOK
<1>12. down' = Sent(down, s, <<m>>)
  BY <1>1
<1> HIDE DEF m
<1>13. WireOK(<<m>>)'
  BY <1>11, OneMessage
<1>14. WiresOK(down)' /\ WiresOK(up)'
  BY <1>2, <1>10, <1>12, <1>13, DownSent, UpRests DEF LinkInv
<1> QED BY <1>10, <1>14 DEF LinkInv, LinkTyped

LEMMA AbortKept == ASSUME LinkInv, NEW r \in Runs, Abort(r) PROVE LinkInv'
<1>1. /\ Pending(r) /\ stream' = [stream EXCEPT ![r].aborted = TRUE]
      /\ down' = Sent(down, stream[r].socket, <<[type |-> "cancel", run |-> r]>>)
      /\ RunnerRests /\ UNCHANGED <<reg, hub, lease, link, up, proc, conn>>
  BY DEF Abort, RunnerRests, runnerVars
<1>2. stream \in [Runs -> Streams] /\ lease \in [Runs -> Leases] /\ RunOK(r)
  BY DEF LinkInv, LinkTyped, RunsTyped
<1>3. /\ stream' = [q \in Runs |-> stream'[q]] /\ lease' = [q \in Runs |-> lease'[q]]
      /\ \A q \in Runs \ {r} : stream'[q] = stream[q] /\ lease'[q] = lease[q]
      /\ stream'[r] = [stream[r] EXCEPT !.aborted = TRUE] /\ lease'[r] = lease[r]
  BY <1>1, <1>2
<1>4. /\ stream'[r] \in Streams /\ lease'[r] \in Leases
      /\ stream'[r].stage = "open" /\ stream[r].stage = "open" /\ stream'[r].seen = stream[r].seen
      /\ SameText(r)
  <2>1. stream[r] \in Streams /\ lease[r] \in Leases /\ stream[r].stage = "open"
    BY <1>1, <1>2 DEF Pending
  <2>2. stream'[r] \in Streams
    BY <1>3, <2>1 DEF Streams
  <2>3. /\ stream'[r].stage = "open" /\ stream'[r].seen = stream[r].seen
        /\ stream'[r].got = stream[r].got /\ stream'[r].buffer = stream[r].buffer
    BY <1>3, <2>1 DEF Streams
  <2> QED BY <1>1, <1>3, <2>1, <2>2, <2>3 DEF SameText, RunnerRests
<1>5. StreamMoves(r)
  BY <1>2, <1>3, <1>4, StreamGoesOn
<1>6. link' \in [Sockets -> {"unused", "live", "dead", "refused"}]
  BY <1>1 DEF LinkInv, LinkTyped, ConnectionsTyped
<1>7. /\ Onward /\ RunsTyped' /\ ConnectionsTyped' /\ ActiveOK'
      /\ \A q \in Runs : WireOK(kept[q])' /\ RunOK(q)'
  BY <1>1, <1>3, <1>4, <1>5, <1>6, OneStream
<1> DEFINE m == [type |-> "cancel", run |-> r]
<1>8. MessageOK(m)' /\ m.type \notin {"output", "completion"}
  BY <1>4 DEF MessageOK
<1>9. down' = Sent(down, stream[r].socket, <<m>>)
  BY <1>1
<1> HIDE DEF m
<1>10. WireOK(<<m>>)'
  BY <1>8, OneMessage
<1>11. WiresOK(down)'
  <2>1. PICK t : t = stream[r].socket
    OBVIOUS
  <2>2. down' = Sent(down, t, <<m>>)
    BY <1>9, <2>1
  <2>3. CASE t \in Sockets
    BY <1>7, <1>10, <2>2, <2>3, DownSent DEF LinkInv
  <2>4. CASE t \notin Sockets
    <3>1. down' = down
      BY <2>2, <2>4 DEF Sent, LinkInv, WiresOK
    <3> QED BY <1>7, <3>1, DownRests DEF LinkInv
  <2> QED BY <2>3, <2>4
<1> QED BY <1>1, <1>7, <1>11, UpRests DEF LinkInv, LinkTyped

LEMMA LeaveKept == ASSUME LinkInv, NEW r \in Runs, Leave(r) PROVE LinkInv'
<1>1. /\ Pending(r) /\ stream' = [stream EXCEPT ![r].stage = "left"]
      /\ RunnerRests /\ UNCHANGED <<reg, hub, lease, link, up, down, proc, conn>>
  BY DEF Leave, RunnerRests, runnerVars
<1>2. stream \in [Runs -> Streams] /\ lease \in [Runs -> Leases] /\ RunOK(r) /\ LinkTyped
  BY DEF LinkInv, LinkTyped, RunsTyped
<1>3. /\ stream' = [q \in Runs |-> stream'[q]] /\ lease' = [q \in Runs |-> lease'[q]]
      /\ \A q \in Runs \ {r} : stream'[q] = stream[q] /\ lease'[q] = lease[q]
      /\ stream'[r] = [stream[r] EXCEPT !.stage = "left"] /\ lease'[r] = lease[r]
  BY <1>1, <1>2
<1>4. stream'[r] \in Streams /\ lease'[r] \in Leases /\ stream'[r].stage = "left" /\ SameText(r)
  <2>1. stream[r] \in Streams /\ lease[r] \in Leases
    BY <1>2
  <2>2. stream'[r] \in Streams /\ stream'[r].stage = "left"
    BY <1>3, <2>1 DEF Streams, Stages
  <2>3. stream'[r].got = stream[r].got /\ stream'[r].buffer = stream[r].buffer
    BY <1>3, <2>1 DEF Streams
  <2> QED BY <1>1, <1>3, <2>1, <2>2, <2>3 DEF SameText, RunnerRests
<1>5. StreamMoves(r)
  BY <1>1, <1>2, <1>4, StreamSettles
<1>6. link' \in [Sockets -> {"unused", "live", "dead", "refused"}]
  BY <1>1 DEF LinkInv, LinkTyped, ConnectionsTyped
<1>7. /\ Onward /\ RunsTyped' /\ ConnectionsTyped' /\ ActiveOK'
      /\ \A q \in Runs : WireOK(kept[q])' /\ RunOK(q)'
  BY <1>1, <1>3, <1>4, <1>5, <1>6, OneStream DEF Pending
<1>8. WiresOK(up)' /\ WiresOK(down)'
  BY <1>1, <1>7, UpRests, DownRests DEF LinkInv
<1> QED BY <1>7, <1>8 DEF LinkInv, LinkTyped

-----------------------------------------------------------------------------
(***************************************************************************)
(* What the hub receives.                                                  *)
(***************************************************************************)

\* Refused or taken, nothing is on its way that should not be.
LEMMA UpRead ==
  ASSUME LinkInv, Onward, NEW s \in Sockets, up[s] # <<>>,
         Refuse(s) \/ (Taken(s) /\ HeadTaken(up[s][1]))
  PROVE  WiresOK(up)' /\ link' \in [Sockets -> {"unused", "live", "dead", "refused"}]
<1>0. link \in [Sockets -> {"unused", "live", "dead", "refused"}] /\ WiresOK(up)
  BY DEF LinkInv, LinkTyped, ConnectionsTyped
<1>1. CASE Refuse(s)
  <2>1. WiresOK(up)'
    BY <1>0, <1>1, UpCleared DEF Refuse
  <2>2. link' \in [Sockets -> {"unused", "live", "dead", "refused"}]
    BY <1>0, <1>1 DEF Refuse
  <2> QED BY <2>1, <2>2
<1>2. CASE Taken(s) /\ HeadTaken(up[s][1])
  <2>1. WiresOK(up)'
    BY <1>0, <1>2, UpTaken DEF Taken
  <2> QED BY <1>0, <1>2, <2>1 DEF Taken
<1> QED BY <1>1, <1>2

LEMMA HeadIsFirst ==
  ASSUME LinkInv, NEW s \in Sockets, up[s] # <<>>
  PROVE  Head(up[s]) = up[s][1] /\ MessageOK(up[s][1]) /\ Backed(up[s], 1) /\ 1 \in 1 .. Len(up[s])
<1>1. WireOK(up[s])
  BY DEF LinkInv, WiresOK
<1>2. Head(up[s]) = up[s][1] /\ Len(up[s]) \in Nat \ {0}
  BY <1>1, WireRest DEF WireOK
<1>3. 1 \in 1 .. Len(up[s])
  BY <1>2
<1> QED BY <1>1, <1>2, <1>3 DEF WireOK

LEMMA PairKept ==
  ASSUME LinkInv, NEW s \in Sockets, up[s] # <<>>, NEW m, m = up[s][1], m.type = "pair",
         Pair(s, m), UNCHANGED runnerVars
  PROVE  LinkInv'
<1>1. RunsRest /\ UNCHANGED <<proc, conn>>
  BY DEF Pair, RunsRest, runnerVars
<1>2. Onward
  BY <1>1, RunsStay
<1>3. Refuse(s) \/ (Taken(s) /\ HeadTaken(up[s][1]))
  BY DEF Pair, HeadTaken
<1>4. WiresOK(up)' /\ link' \in [Sockets -> {"unused", "live", "dead", "refused"}]
  BY <1>2, <1>3, UpRead
<1>5. CASE UNCHANGED <<reg, hub, down>>
  <2>1. WiresOK(down)'
    BY <1>2, <1>5, DownRests DEF LinkInv
  <2>2. ActiveOK'
    BY <1>1, <1>5, ActiveStays DEF RunsRest
  <2>3. ConnectionsTyped'
    BY <1>1, <1>4, <1>5 DEF LinkInv, LinkTyped, ConnectionsTyped
  <2> QED BY <1>1, <1>4, <2>1, <2>2, <2>3, QuietKept
<1>6. CASE ~UNCHANGED <<reg, hub, down>>
  <2>1. PICK n : n = reg.token + 1
    OBVIOUS
  <2>2. /\ reg.status # "revoked" /\ reg' = [status |-> "active", token |-> n]
        /\ hub' = [hub EXCEPT ![s] = "runner"]
        /\ down' = Sent(down, s, <<[type |-> "accepted", token |-> n]>>)
    BY <1>6, <2>1 DEF Pair
  <2> DEFINE a == [type |-> "accepted", token |-> n]
  <2>3. MessageOK(a)' /\ a.type \notin {"output", "completion"} /\ down' = Sent(down, s, <<a>>)
    BY <2>2 DEF MessageOK
  <2> HIDE DEF a
  <2>4. WireOK(<<a>>)'
    BY <2>3, OneMessage
  <2>5. WiresOK(down)'
    BY <1>2, <2>3, <2>4, DownSent DEF LinkInv
  <2>6. ActiveOK'
    BY <2>2 DEF ActiveOK
  <2>7. reg.token \in Nat
    BY DEF LinkInv, LinkTyped, ConnectionsTyped
  <2>8. ConnectionsTyped'
    BY <1>1, <1>4, <2>1, <2>2, <2>7 DEF LinkInv, LinkTyped, ConnectionsTyped
  <2> QED BY <1>1, <1>4, <2>5, <2>6, <2>8, QuietKept
<1> QED BY <1>5, <1>6

LEMMA SetAsSeq == ASSUME NEW S, IsFiniteSet(S) PROVE SetToSeq(S) \in Seq(S)
<1>1. Cardinality(S) \in Nat
  BY FS_CardinalityType
<1>2. \E f : ExistsBijection(1 .. Cardinality(S), S)
  BY FS_CardinalityType
<1>3. \E f : f \in [1 .. Cardinality(S) -> S] /\ IsInjective(f)
  BY <1>2 DEF ExistsBijection, Bijection, Injection, IsInjective
<1> DEFINE f == CHOOSE g \in [1 .. Cardinality(S) -> S] : IsInjective(g)
<1>4. f \in [1 .. Cardinality(S) -> S]
  BY <1>3
<1>5. SetToSeq(S) = f
  BY DEF SetToSeq
<1> HIDE DEF f
<1> QED BY <1>1, <1>4, <1>5

LEMMA AuthenticateKept ==
  ASSUME LinkInv, NEW s \in Sockets, up[s] # <<>>, NEW m, m = up[s][1], m.type = "auth",
         Authenticate(s, m), UNCHANGED runnerVars
  PROVE  LinkInv'
<1>1. RunsRest /\ UNCHANGED <<reg, proc, conn>>
  BY DEF Authenticate, RunsRest, runnerVars
<1>2. Onward
  BY <1>1, RunsStay
<1>3. Refuse(s) \/ (Taken(s) /\ HeadTaken(up[s][1]))
  BY DEF Authenticate, HeadTaken
<1>4. WiresOK(up)' /\ link' \in [Sockets -> {"unused", "live", "dead", "refused"}]
  BY <1>2, <1>3, UpRead
<1>5. CASE UNCHANGED <<hub, down>>
  <2>1. WiresOK(down)'
    BY <1>2, <1>5, DownRests DEF LinkInv
  <2>2. ActiveOK'
    BY <1>1, <1>5, ActiveStays DEF RunsRest
  <2>3. ConnectionsTyped'
    BY <1>1, <1>4, <1>5 DEF LinkInv, LinkTyped, ConnectionsTyped
  <2> QED BY <1>1, <1>4, <2>1, <2>2, <2>3, QuietKept
<1>6. CASE ~UNCHANGED <<hub, down>>
  <2>1. PICK P : P = {q \in Runs : Pending(q)}
    OBVIOUS
  <2> DEFINE f == [r \in P |-> [type |-> "claim", run |-> r]]
             S == {[type |-> "claim", run |-> r] : r \in P}
  <2>2. IsFiniteSet(S)
    <3>1. IsFiniteSet(P)
      BY <2>1, LinkAssumption, FS_Subset
    <3>2. f \in Surjection(P, S)
      BY DEF Surjection
    <3> QED BY <3>1, <3>2, FS_Surjection
  <2>3. ASSUME NEW c \in S PROVE MessageOK(c)' /\ c.type \notin {"output", "completion"}
    BY <1>1, <2>1 DEF MessageOK, Pending, RunsRest
  <2>4. PICK ms : ms = SetToSeq(S)
    OBVIOUS
  <2>5. /\ reg.status = "active" /\ hub' = [hub EXCEPT ![s] = "runner"] /\ down' = Sent(down, s, ms)
    BY <1>6, <2>1, <2>4 DEF Authenticate
  <2> HIDE DEF S
  <2>6. ms \in Seq(S)
    BY <2>2, <2>4, SetAsSeq
  <2>7. WireOK(ms)'
    BY <2>3, <2>6, PlainMessages
  <2>8. WiresOK(down)'
    BY <1>2, <2>5, <2>7, DownSent DEF LinkInv
  <2>9. ActiveOK'
    BY <1>1, <2>5 DEF ActiveOK
  <2>10. ConnectionsTyped'
    BY <1>1, <1>4, <2>5 DEF LinkInv, LinkTyped, ConnectionsTyped
  <2> QED BY <1>1, <1>4, <2>8, <2>9, <2>10, QuietKept
<1> QED BY <1>5, <1>6

LEMMA HubQuietKept ==
  ASSUME LinkInv, NEW s \in Sockets, up[s] # <<>>, UNCHANGED <<reg, hub, stream, lease, down, runnerVars>>,
         Refuse(s) \/ (Taken(s) /\ HeadTaken(up[s][1]))
  PROVE  LinkInv'
<1>1. RunsRest /\ UNCHANGED <<reg, hub, down, proc, conn>>
  BY DEF RunsRest, runnerVars
<1>2. Onward
  BY <1>1, RunsStay
<1>3. WiresOK(up)' /\ link' \in [Sockets -> {"unused", "live", "dead", "refused"}]
  BY <1>2, UpRead
<1>4. WiresOK(down)'
  BY <1>1, <1>2, DownRests DEF LinkInv
<1>5. ActiveOK'
  BY <1>1, ActiveStays DEF RunsRest
<1>6. ConnectionsTyped'
  BY <1>1, <1>3 DEF LinkInv, LinkTyped, ConnectionsTyped
<1> QED BY <1>1, <1>3, <1>4, <1>5, <1>6, QuietKept

\* A message about one run moves its stream and its lease.
LEMMA HubStreamKept ==
  ASSUME LinkInv, NEW s \in Sockets, up[s] # <<>>, UNCHANGED <<reg, hub, down, runnerVars>>,
         NEW r \in Runs, NEW x \in Streams, NEW y \in Leases,
         stream' = [stream EXCEPT ![r] = x], lease' = [lease EXCEPT ![r] = y],
         StreamMoves(r), x.stage = "open" => Pending(r),
         Refuse(s) \/ (Taken(s) /\ HeadTaken(up[s][1]))
  PROVE  LinkInv'
<1>1. RunnerRests /\ UNCHANGED <<reg, hub, down, proc, conn>>
  BY DEF RunnerRests, runnerVars
<1>2. stream \in [Runs -> Streams] /\ lease \in [Runs -> Leases]
  BY DEF LinkInv, LinkTyped, RunsTyped
<1>3. /\ stream' = [q \in Runs |-> stream'[q]] /\ lease' = [q \in Runs |-> lease'[q]]
      /\ \A q \in Runs \ {r} : stream'[q] = stream[q] /\ lease'[q] = lease[q]
      /\ stream'[r] = x /\ lease'[r] = y
  BY <1>2
<1>4. link' \in [Sockets -> {"unused", "live", "dead", "refused"}]
  <2>1. link \in [Sockets -> {"unused", "live", "dead", "refused"}]
    BY DEF LinkInv, LinkTyped, ConnectionsTyped
  <2> QED BY <2>1 DEF Refuse, Taken
<1>5. stream'[r] \in Streams /\ lease'[r] \in Leases /\ (Pending(r)' => Pending(r))
  BY <1>3 DEF Pending
<1>6. /\ Onward /\ RunsTyped' /\ ConnectionsTyped' /\ ActiveOK'
      /\ \A q \in Runs : WireOK(kept[q])' /\ RunOK(q)'
  BY <1>1, <1>3, <1>4, <1>5, OneStream
<1>7. WiresOK(up)' /\ WiresOK(down)'
  BY <1>1, <1>6, UpRead, DownRests DEF LinkInv
<1> QED BY <1>6, <1>7 DEF LinkInv, LinkTyped

LEMMA AcknowledgeKept ==
  ASSUME LinkInv, NEW s \in Sockets, up[s] # <<>>, NEW m, m = up[s][1], m.type = "ack",
         Acknowledge(s, m), UNCHANGED runnerVars
  PROVE  LinkInv'
<1>1. m.run \in Runs /\ stream[m.run].stage # "new"
  BY HeadIsFirst DEF MessageOK
<1>2. HeadTaken(up[s][1])
  BY DEF HeadTaken
<1>3. CASE Leased(m.run)
  <2>1. PICK r \in Runs : r = m.run
    BY <1>1
  <2>2. /\ lease' = [lease EXCEPT ![r].state = "running"] /\ Taken(s)
        /\ UNCHANGED <<reg, hub, stream, down>>
    BY <1>3, <2>1 DEF Acknowledge
  <2>3. stream \in [Runs -> Streams] /\ lease \in [Runs -> Leases] /\ RunOK(r)
    BY DEF LinkInv, LinkTyped, RunsTyped
  <2>4. PICK x \in Streams : x = stream[r]
    BY <2>3
  <2>5. PICK y : y = [lease[r] EXCEPT !.state = "running"]
    OBVIOUS
  <2>6. y \in Leases /\ y.outputs = lease[r].outputs
    <3>1. lease[r] \in Leases
      BY <2>3
    <3> QED BY <2>5, <3>1 DEF Leases
  <2>7. stream' = [stream EXCEPT ![r] = x] /\ lease' = [lease EXCEPT ![r] = y] /\ lease'[r] = y
    BY <2>2, <2>3, <2>4, <2>5
  <2>8. StreamMoves(r)
    BY <1>1, <2>1, <2>2, <2>3, <2>6, <2>7, StreamGoesOn DEF SameText, runnerVars
  <2>9. x.stage = "open" => Pending(r)
    BY <2>4 DEF Pending
  <2> QED BY <1>2, <2>2, <2>6, <2>7, <2>8, <2>9, HubStreamKept
<1>4. CASE ~Leased(m.run)
  BY <1>4, HubQuietKept DEF Acknowledge
<1> QED BY <1>3, <1>4

LEMMA FailKept ==
  ASSUME LinkInv, NEW s \in Sockets, up[s] # <<>>, NEW m, m = up[s][1], m.type = "failure",
         Fail(s, m), UNCHANGED runnerVars
  PROVE  LinkInv'
<1>1. m.run \in Runs /\ m.code \in {"failed", "cancelled"}
  BY HeadIsFirst DEF MessageOK
<1>2. HeadTaken(up[s][1])
  BY DEF HeadTaken
<1>3. CASE Pending(m.run) /\ Leased(m.run)
  <2>1. PICK r \in Runs : r = m.run
    BY <1>1
  <2>2. /\ lease' = [lease EXCEPT ![r].state = m.code] /\ Taken(s)
        /\ stream' = [stream EXCEPT ![r].stage = "failed"]
        /\ Pending(r) /\ UNCHANGED <<reg, hub, down>>
    BY <1>3, <2>1 DEF Fail
  <2>3. stream \in [Runs -> Streams] /\ lease \in [Runs -> Leases] /\ RunOK(r) /\ LinkTyped
    BY DEF LinkInv, LinkTyped, RunsTyped
  <2>4. PICK x : x = [stream[r] EXCEPT !.stage = "failed"]
    OBVIOUS
  <2>5. PICK y : y = [lease[r] EXCEPT !.state = m.code]
    OBVIOUS
  <2>6. y \in Leases
    <3>1. lease[r] \in Leases
      BY <2>3
    <3> QED BY <1>1, <2>5, <3>1 DEF Leases
  <2>7. x \in Streams /\ x.stage = "failed" /\ x.got = stream[r].got /\ x.buffer = stream[r].buffer
    <3>1. stream[r] \in Streams
      BY <2>3
    <3> QED BY <2>4, <3>1 DEF Streams, Stages
  <2>8. stream' = [stream EXCEPT ![r] = x] /\ lease' = [lease EXCEPT ![r] = y] /\ stream'[r] = x
    BY <2>2, <2>3, <2>4, <2>5
  <2>9. StreamMoves(r)
    BY <2>2, <2>3, <2>7, <2>8, StreamSettles DEF SameText, runnerVars
  <2> QED BY <1>2, <2>2, <2>6, <2>7, <2>8, <2>9, HubStreamKept
<1>4. CASE ~(Pending(m.run) /\ Leased(m.run))
  BY <1>2, <1>4, HubQuietKept DEF Fail
<1> QED BY <1>3, <1>4

\* When its completion is read, the ledger has all that the execution printed.
LEMMA AllRecorded ==
  ASSUME LinkTyped, NEW r \in Runs, NEW q, NEW i \in DOMAIN ran[r],
         Covered(q, 1, r, i, Len(ran[r][i].out))
  PROVE  /\ ran[r][i].out \in Seq(Chunk) /\ lease[r].outputs \in Seq(Chunk)
         /\ Begins(ran[r][i].out, lease[r].outputs)
<1>1. ran[r] \in Seq(Executions) /\ lease[r] \in Leases
  BY DEF LinkTyped, RunsTyped
<1>2. ran[r][i] \in Executions
  BY <1>1
<1>3. ran[r][i].out \in Seq(Chunk) /\ lease[r].outputs \in Seq(Chunk)
  BY <1>1, <1>2 DEF Executions, Leases
<1>4. PICK out \in Seq(Chunk) : out = ran[r][i].out
  BY <1>3
<1>5. PICK rec \in Seq(Chunk) : rec = lease[r].outputs
  BY <1>3
<1>6. \A j \in 1 .. Len(out) : j \in 1 .. Len(rec) /\ rec[j] = out[j]
  BY <1>4, <1>5 DEF Covered, Recorded
<1>7. Len(out) <= Len(rec)
  <2>1. \A n, k \in Nat : (\A j \in 1 .. n : j \in 1 .. k) => n <= k
    <3> TAKE n, k \in Nat
    <3>1. n = 0 \/ n \in 1 .. n
      OBVIOUS
    <3> QED BY <3>1
  <2>2. Len(out) \in Nat /\ Len(rec) \in Nat
    OBVIOUS
  <2> QED BY <1>6, <2>1, <2>2
<1> QED BY <1>3, <1>4, <1>5, <1>6, <1>7 DEF Begins

LEMMA BeginsBoth ==
  ASSUME NEW s \in Seq(Chunk), NEW t \in Seq(Chunk), Begins(s, t), Begins(t, s) PROVE s = t
<1>1. Len(s) = Len(t) /\ \A k \in 1 .. Len(s) : s[k] = t[k]
  BY DEF Begins
<1> QED BY <1>1

LEMMA StreamCompletes ==
  ASSUME LinkTyped, NEW r \in Runs, RunOK(r), Pending(r), NEW q, NEW i \in DOMAIN ran[r],
         ran[r][i].done, Covered(q, 1, r, i, Len(ran[r][i].out)), ran'[r] = ran[r],
         stream'[r].stage = "ended", stream'[r].got = stream[r].got \o stream[r].buffer,
         stream'[r].buffer = <<>>
  PROVE  StreamMoves(r)
<1>1. GoesOn(r)
  BY DEF GoesOn, Pending
<1>2. LedgerOK(r)'
  BY DEF LedgerOK, Pending
<1>3. Text(r) \in Seq(Chunk) /\ Text(r)' = Text(r) /\ stream'[r].got = Text(r)
  <2>1. stream[r] \in Streams
    BY DEF LinkTyped, RunsTyped
  <2>2. stream[r].got \in Seq(Chunk) /\ stream[r].buffer \in Seq(Chunk)
    BY <2>1 DEF Streams
  <2>3. Text(r) \in Seq(Chunk)
    BY <2>2 DEF Text
  <2>4. stream'[r].got = Text(r)
    BY DEF Text
  <2>5. \A t \in Seq(Chunk) : t \o <<>> = t
    OBVIOUS
  <2>6. Text(r)' = Text(r)
    BY <2>3, <2>4, <2>5 DEF Text
  <2> QED BY <2>3, <2>4, <2>6
<1>4. ran[r] # <<>>
  OBVIOUS
<1>5. ASSUME Wellprinted(r)'
      PROVE  Text(r)' = <<>> \/
               \E k \in DOMAIN ran'[r] : ran'[r][k].done /\ IsPrefix(Text(r)', Stdout(ran'[r][k].out))
  <2>1. Wellprinted(r)
    BY <1>5 DEF Wellprinted
  <2> QED BY <1>3, <2>1, LedgerReads DEF RunOK
<1>6. ASSUME Wellprinted(r)', Len(ran'[r]) = 1
      PROVE  ran'[r][1].done /\ stream'[r].got = Stdout(ran'[r][1].out)
  <2>1. Wellprinted(r)
    BY <1>6 DEF Wellprinted
  <2>2. \A k \in DOMAIN ran[r] : k = 1
    <3>1. ran[r] \in Seq(Executions) /\ Len(ran[r]) = 1
      BY <1>6 DEF LinkTyped, RunsTyped
    <3> QED BY <3>1
  <2>3. PICK out \in Seq(Chunk) : out = ran[r][1].out
    BY <2>2, AllRecorded
  <2>4. PICK rec \in Seq(Chunk) : rec = lease[r].outputs
    BY AllRecorded
  <2>5. Begins(out, rec)
    BY <2>2, <2>3, <2>4, AllRecorded
  <2>6. rec = <<>> \/ Begins(rec, out)
    BY <2>2, <2>3, <2>4 DEF RunOK, LedgerOK
  <2>7. Begins(rec, out)
    <3>1. CASE rec = <<>>
      <4>1. Len(rec) = 0 /\ Len(out) \in Nat
        BY <3>1
      <4> QED BY <4>1 DEF Begins
    <3> QED BY <2>6, <3>1
  <2>8. out = rec
    BY <2>5, <2>7, BeginsBoth
  <2>9. Text(r) = Stdout(rec)
    BY <2>1, <2>4 DEF RunOK, LedgerOK
  <2> QED BY <1>3, <2>2, <2>3, <2>8, <2>9
<1>7. ReadOK(r)'
  BY <1>4, <1>5, <1>6 DEF ReadOK
<1>8. stream'[r].stage # "new"
  OBVIOUS
<1> QED BY <1>1, <1>2, <1>7, <1>8 DEF StreamMoves

LEMMA CompleteKept ==
  ASSUME LinkInv, NEW s \in Sockets, up[s] # <<>>, NEW m, m = up[s][1], m.type = "completion",
         Complete(s, m), UNCHANGED runnerVars
  PROVE  LinkInv'
<1>1. m.run \in Runs
  BY HeadIsFirst DEF MessageOK
<1>2. HeadTaken(up[s][1])
  BY DEF HeadTaken
<1>3. CASE Pending(m.run) /\ Leased(m.run)
  <2>1. PICK r \in Runs : r = m.run
    BY <1>1
  <2>2. /\ lease' = [lease EXCEPT ![r].state = "completed"] /\ Pending(r)
        /\ \/ Refuse(s) /\ UNCHANGED stream
           \/ /\ stream' = [stream EXCEPT ![r].stage = "ended", ![r].buffer = <<>>,
                                          ![r].got = @ \o stream[r].buffer]
              /\ Taken(s)
        /\ UNCHANGED <<reg, hub, down>>
    BY <1>3, <2>1 DEF Complete
  <2>3. stream \in [Runs -> Streams] /\ lease \in [Runs -> Leases] /\ RunOK(r) /\ LinkTyped
    BY DEF LinkInv, LinkTyped, RunsTyped
  <2>4. stream[r] \in Streams /\ lease[r] \in Leases
    BY <2>3
  <2>5. PICK y : y = [lease[r] EXCEPT !.state = "completed"]
    OBVIOUS
  <2>6. y \in Leases /\ y.outputs = lease[r].outputs
    BY <2>4, <2>5 DEF Leases
  <2>7. lease' = [lease EXCEPT ![r] = y] /\ lease'[r] = y
    BY <2>2, <2>3, <2>5
  <2>8. CASE Refuse(s) /\ UNCHANGED stream
    <3>1. PICK x \in Streams : x = stream[r]
      BY <2>4
    <3>2. stream' = [stream EXCEPT ![r] = x] /\ stream'[r] = stream[r]
      BY <2>3, <2>8, <3>1
    <3>3. StreamMoves(r)
      BY <2>2, <2>3, <2>6, <2>7, <3>2, StreamGoesOn DEF SameText, runnerVars, Pending
    <3> QED BY <2>2, <2>6, <2>7, <2>8, <3>2, <3>3, HubStreamKept
  <2>9. CASE /\ stream' = [stream EXCEPT ![r].stage = "ended", ![r].buffer = <<>>,
                                         ![r].got = @ \o stream[r].buffer]
             /\ Taken(s)
    <3>1. PICK x : x = [stream[r] EXCEPT !.stage = "ended", !.buffer = <<>>,
                                         !.got = @ \o stream[r].buffer]
      OBVIOUS
    <3>2. stream[r].got \o stream[r].buffer \in Seq(Chunk) /\ <<>> \in Seq(Chunk)
      <4>1. stream[r].got \in Seq(Chunk) /\ stream[r].buffer \in Seq(Chunk)
        BY <2>4 DEF Streams
      <4> QED BY <4>1
    <3>3. /\ x \in Streams /\ x.stage = "ended" /\ x.buffer = <<>>
          /\ x.got = stream[r].got \o stream[r].buffer
      BY <2>4, <3>1, <3>2 DEF Streams, Stages
    <3>4. stream' = [stream EXCEPT ![r] = x] /\ stream'[r] = x
      BY <2>3, <2>9, <3>1
    <3>5. PICK q : q = up[s]
      OBVIOUS
    <3>6. Backed(q, 1) /\ q[1] = m
      BY <3>5, HeadIsFirst
    <3>7. PICK i \in DOMAIN ran[r] : FromExecution(q, 1, r, i)
      BY <2>1, <2>2, <3>6 DEF Backed
    <3>8. ran[r][i].done /\ Covered(q, 1, r, i, Len(ran[r][i].out))
      BY <3>6, <3>7 DEF FromExecution
    <3>9. StreamMoves(r)
      BY <2>2, <2>3, <3>3, <3>4, <3>8, StreamCompletes DEF runnerVars
    <3> QED BY <1>2, <2>2, <2>6, <2>7, <2>9, <3>3, <3>4, <3>9, HubStreamKept
  <2> QED BY <2>2, <2>8, <2>9
<1>4. CASE ~(Pending(m.run) /\ Leased(m.run))
  BY <1>2, <1>4, HubQuietKept DEF Complete
<1> QED BY <1>3, <1>4

\* From st, with one more chunk, the consumer comes to to.
ReadsOn(st, c, to) ==
  /\ to \in Streams /\ to.stage = st.stage /\ to.seen = st.seen
  /\ (\A k \in DOMAIN st.buffer : st.buffer[k].text # "bad") /\ c.text # "bad" =>
       /\ to.got \o to.buffer =
            IF c.on = "stdout" THEN Append(st.got \o st.buffer, c) ELSE st.got \o st.buffer
       /\ \A k \in DOMAIN to.buffer : to.buffer[k].text # "bad"

LEMMA PushReads == ASSUME NEW st \in Streams, NEW c \in Chunk PROVE ReadsOn(st, c, Push(st, c))
<1> USE DEF ReadsOn
<1>1. st.got \in Seq(Chunk) /\ st.buffer \in Seq(Chunk) /\ c.on \in {"stdout", "stderr"}
  BY DEF Streams, Chunk
<1>2. PICK to : to = Push(st, c)
  OBVIOUS
<1>3. PICK line \in Seq(Chunk) :
        /\ line = Append(st.buffer, c) /\ st.got \o line = Append(st.got \o st.buffer, c)
        /\ DOMAIN line = 1 .. Len(line) /\ Len(line) \in Nat /\ line[Len(line)] = c
        /\ \A k \in DOMAIN st.buffer : line[k] = st.buffer[k]
        /\ DOMAIN st.buffer = 1 .. Len(line) - 1
  <2>1. PICK got \in Seq(Chunk), buffer \in Seq(Chunk) : got = st.got /\ buffer = st.buffer
    BY <1>1
  <2>2. PICK l : l = Append(buffer, c)
    OBVIOUS
  <2>3. /\ l \in Seq(Chunk) /\ Len(l) = Len(buffer) + 1 /\ l[Len(buffer) + 1] = c /\ Len(buffer) \in Nat
        /\ \A k \in 1 .. Len(buffer) : l[k] = buffer[k]
    BY <2>2
  <2>4. DOMAIN l = 1 .. Len(l) /\ DOMAIN buffer = 1 .. Len(buffer) /\ Len(buffer) = Len(l) - 1
    BY <2>3
  <2>5. got \o l = Append(got \o buffer, c)
    BY <2>2, <2>3
  <2>6. /\ l = Append(st.buffer, c) /\ st.got \o l = Append(st.got \o st.buffer, c)
        /\ DOMAIN l = 1 .. Len(l) /\ Len(l) \in Nat /\ l[Len(l)] = c
        /\ \A k \in DOMAIN st.buffer : l[k] = st.buffer[k]
        /\ DOMAIN st.buffer = 1 .. Len(l) - 1
    BY <2>1, <2>2, <2>3, <2>4, <2>5
  <2> QED BY <2>3, <2>6
<1>4. CASE c.on = "stderr"
  <2>1. to = st
    BY <1>2, <1>4 DEF Push
  <2> QED BY <1>2, <1>4, <2>1
<1>5. CASE c.on # "stderr" /\ ~c.ends
  <2>1. to = [st EXCEPT !.buffer = line]
    BY <1>2, <1>3, <1>5 DEF Push
  <2>2. /\ to \in Streams /\ to.stage = st.stage /\ to.seen = st.seen
        /\ to.got = st.got /\ to.buffer = line
    BY <1>3, <2>1 DEF Streams
  <2>3. ASSUME \A k \in DOMAIN st.buffer : st.buffer[k].text # "bad", c.text # "bad", NEW k \in DOMAIN line
        PROVE  line[k].text # "bad"
    <3>1. k \in 1 .. Len(line) - 1 \/ k = Len(line)
      BY <1>3
    <3> QED BY <1>3, <2>3, <3>1
  <2> QED BY <1>1, <1>2, <1>3, <1>5, <2>2, <2>3
<1>6. CASE c.on # "stderr" /\ c.ends /\ \E k \in 1 .. Len(line) : line[k].text = "bad"
  <2>1. to = [st EXCEPT !.buffer = <<>>]
    BY <1>2, <1>3, <1>6 DEF Push
  <2>2. <<>> \in Seq(Chunk)
    OBVIOUS
  <2>3. to \in Streams /\ to.stage = st.stage /\ to.seen = st.seen
    BY <2>1, <2>2 DEF Streams
  <2>4. ~((\A k \in DOMAIN st.buffer : st.buffer[k].text # "bad") /\ c.text # "bad")
    <3>1. \A k \in 1 .. Len(line) : k \in 1 .. Len(line) - 1 \/ k = Len(line)
      BY <1>3
    <3> QED BY <1>3, <1>6, <3>1
  <2> QED BY <1>2, <2>3, <2>4
<1>7. CASE c.on # "stderr" /\ c.ends /\ ~\E k \in 1 .. Len(line) : line[k].text = "bad"
  <2>1. PICK all : all = st.got \o line
    OBVIOUS
  <2>0. all \in Seq(Chunk) /\ all \o <<>> = all
    <3>1. all \in Seq(Chunk)
      BY <1>1, <1>3, <2>1
    <3> QED BY <3>1
  <2>2. to = [st EXCEPT !.buffer = <<>>, !.got = @ \o line]
    BY <1>2, <1>3, <1>7 DEF Push
  <2>3. to = [st EXCEPT !.buffer = <<>>, !.got = all]
    BY <2>1, <2>2 DEF Streams
  <2>4. <<>> \in Seq(Chunk) /\ DOMAIN <<>> = {}
    OBVIOUS
  <2>5. /\ to \in Streams /\ to.stage = st.stage /\ to.seen = st.seen
        /\ to.got = all /\ to.buffer = <<>>
    BY <2>0, <2>3, <2>4 DEF Streams
  <2> QED BY <1>1, <1>2, <1>3, <1>7, <2>0, <2>1, <2>4, <2>5
<1> QED BY <1>1, <1>4, <1>5, <1>6, <1>7

\* The next chunk of an execution's output.
LEMMA StreamReads ==
  ASSUME LinkTyped, NEW r \in Runs, RunOK(r), Pending(r), ran'[r] = ran[r],
         NEW i \in DOMAIN ran[r], ran[r][i].done, NEW n \in 1 .. Len(ran[r][i].out),
         NEW c \in Chunk, c = ran[r][i].out[n], n = Len(lease[r].outputs) + 1, NEW q,
         Covered(q, 1, r, i, n - 1),
         lease'[r].outputs = Append(lease[r].outputs, c),
         NEW st \in Streams, st = [stream[r] EXCEPT !.seen = @ \cup {n}],
         stream'[r] = Push(st, c)
  PROVE  StreamMoves(r)
<1>1. PICK rec \in Seq(Chunk) : rec = lease[r].outputs
  BY DEF LinkTyped, RunsTyped, Leases
<1>2. PICK out \in Seq(Chunk) : out = ran[r][i].out
  <2>1. ran[r] \in Seq(Executions)
    BY DEF LinkTyped, RunsTyped
  <2>2. ran[r][i] \in Executions
    BY <2>1
  <2> QED BY <2>2 DEF Executions
<1>0. PICK new : new = Append(rec, c)
  OBVIOUS
<1>3. /\ new \in Seq(Chunk) /\ new = Append(rec, c) /\ Len(new) = Len(rec) + 1 /\ new[Len(rec) + 1] = c
      /\ \A j \in 1 .. Len(rec) : new[j] = rec[j]
  BY <1>0
<1>4. n \in 1 .. Len(out) /\ c = out[n] /\ n = Len(rec) + 1 /\ lease'[r].outputs = new /\ Len(rec) \in Nat
  <2>1. n \in 1 .. Len(out) /\ c = out[n]
    BY <1>2
  <2>2. n = Len(rec) + 1 /\ lease'[r].outputs = new
    BY <1>1, <1>3
  <2>3. Len(rec) \in Nat
    OBVIOUS
  <2> QED BY <2>1, <2>2, <2>3
<1>5. Begins(new, out)
  <2>1. \A j \in 1 .. n - 1 : rec[j] = out[j]
    BY <1>1, <1>2 DEF Covered, Recorded
  <2>2. \A j \in 1 .. Len(new) : j \in 1 .. Len(rec) \/ j = n
    BY <1>3, <1>4
  <2> QED BY <1>3, <1>4, <2>1, <2>2 DEF Begins
<1>6. /\ st.got = stream[r].got /\ st.buffer = stream[r].buffer /\ st.stage = "open"
      /\ st.seen = stream[r].seen \cup {n}
  <2>1. stream[r] \in Streams /\ stream[r].stage = "open"
    BY DEF LinkTyped, RunsTyped, Pending
  <2> QED BY <2>1 DEF Streams
<1>7. stream'[r].stage = "open" /\ stream'[r].seen = stream[r].seen \cup {n}
  <2>1. Push(st, c).stage = st.stage /\ Push(st, c).seen = st.seen
    BY PushReads DEF ReadsOn
  <2> QED BY <1>6, <2>1
<1>8. GoesOn(r)
  <2>1. \A j \in 1 .. Len(rec) : j \in 1 .. Len(new) /\ new[j] = rec[j]
    BY <1>3, <1>4
  <2> QED BY <1>1, <1>4, <1>7, <2>1 DEF GoesOn, Pending
<1>9. stream'[r].seen = 1 .. Len(new)
  <2>1. stream[r].seen = 1 .. Len(rec)
    BY <1>1 DEF RunOK, LedgerOK
  <2>2. \A k \in Nat : (1 .. k) \cup {k + 1} = 1 .. k + 1
    OBVIOUS
  <2> QED BY <1>3, <1>4, <1>7, <2>1, <2>2
<1>10. ASSUME Wellprinted(r)'
       PROVE  /\ Text(r)' = Stdout(new)
              /\ \A k \in DOMAIN stream'[r].buffer : stream'[r].buffer[k].text # "bad"
  <2>1. Wellprinted(r)
    BY <1>10 DEF Wellprinted
  <2>2. /\ Text(r) = Stdout(rec) /\ Text(r) = st.got \o st.buffer
        /\ \A k \in DOMAIN st.buffer : st.buffer[k].text # "bad"
    BY <1>1, <1>6, <2>1 DEF RunOK, LedgerOK, Text
  <2>3. c.text # "bad"
    BY <1>2, <1>4, <2>1 DEF Wellprinted, Wellformed
  <2>4. Stdout(new) = IF c.on = "stdout" THEN Append(Stdout(rec), c) ELSE Stdout(rec)
    BY <1>3, StdoutAppend
  <2>5. Text(r)' = stream'[r].got \o stream'[r].buffer
    BY DEF Text
  <2>6. PICK to : to = Push(st, c)
    OBVIOUS
  <2>7. /\ to.got \o to.buffer =
             IF c.on = "stdout" THEN Append(st.got \o st.buffer, c) ELSE st.got \o st.buffer
        /\ \A k \in DOMAIN to.buffer : to.buffer[k].text # "bad"
    <3>1. ReadsOn(st, c, to)
      BY <2>6, PushReads
    <3> QED BY <2>2, <2>3, <3>1 DEF ReadsOn
  <2>8. stream'[r] = to
    BY <2>6
  <2>9. Text(r)' = Stdout(new)
    BY <2>2, <2>4, <2>5, <2>7, <2>8
  <2> QED BY <2>7, <2>8, <2>9
<1>11. LedgerOK(r)'
  BY <1>2, <1>4, <1>5, <1>9, <1>10 DEF LedgerOK
<1>12. ReadOK(r)'
  BY <1>7 DEF ReadOK, Pending
<1> QED BY <1>7, <1>8, <1>11, <1>12 DEF StreamMoves

LEMMA OutputKept ==
  ASSUME LinkInv, NEW s \in Sockets, up[s] # <<>>, NEW m, m = up[s][1], m.type = "output",
         Output(s, m), UNCHANGED runnerVars
  PROVE  LinkInv'
<1>1. PICK r \in Runs : r = m.run
  BY HeadIsFirst DEF MessageOK
<1>2. CASE ~Pending(r)
  <2>1. Taken(s) /\ UNCHANGED <<reg, hub, stream, lease, down, runnerVars>>
    BY <1>1, <1>2 DEF Output
  <2>2. stream'[r].stage # "open"
    BY <1>2, <2>1 DEF Pending
  <2>3. HeadTaken(up[s][1])
    BY <1>1, <2>2 DEF HeadTaken
  <2> QED BY <2>1, <2>3, HubQuietKept
<1>3. CASE Pending(r) /\ ~Fits(r, m.seq, m.chunk)
  BY <1>1, <1>3, HubQuietKept DEF Output
<1>4. CASE Pending(r) /\ Fits(r, m.seq, m.chunk)
  <2>1. PICK q : q = up[s]
    OBVIOUS
  <2>2. Backed(q, 1) /\ q[1] = m
    BY <2>1, HeadIsFirst
  <2>3. PICK i \in DOMAIN ran[r] : FromExecution(q, 1, r, i)
    BY <1>1, <1>4, <2>2 DEF Backed
  <2>4. PICK n : n = m.seq
    OBVIOUS
  <2>5. /\ ran[r][i].done /\ n \in 1 .. Len(ran[r][i].out) /\ m = OutputOf(r, i, n)
        /\ Covered(q, 1, r, i, n - 1)
    BY <2>2, <2>3, <2>4 DEF FromExecution
  <2>6. /\ stream \in [Runs -> Streams] /\ lease \in [Runs -> Leases] /\ RunOK(r) /\ LinkTyped
        /\ ran[r] \in Seq(Executions)
    BY DEF LinkInv, LinkTyped, RunsTyped
  <2>7. PICK c \in Chunk : c = ran[r][i].out[n]
    <3>1. ran[r][i] \in Executions
      BY <2>6
    <3>2. ran[r][i].out \in Seq(Chunk)
      BY <3>1 DEF Executions
    <3> QED BY <2>5, <3>2
  <2>8. m.chunk = c
    BY <2>5, <2>7 DEF OutputOf
  <2>9. PICK rec \in Seq(Chunk) : rec = lease[r].outputs
    BY <2>6 DEF Leases
  <2>10. stream[r].seen = 1 .. Len(rec) /\ n \in Nat \ {0} /\ Len(rec) \in Nat
    BY <1>4, <2>5, <2>6, <2>9 DEF RunOK, LedgerOK
  <2>11. UNCHANGED <<reg, hub, down>>
    BY DEF Output
  <2>12. lease' = [lease EXCEPT ![r] =
                     IF InLedger(r, n) THEN @ ELSE [state |-> "running", outputs |-> Append(@.outputs, c)]]
    BY <1>1, <1>4, <2>4, <2>8 DEF Output
  <2>13. CASE InLedger(r, n)
    <3>1. Processed(r, n) /\ lease' = lease
      BY <2>6, <2>9, <2>10, <2>12, <2>13 DEF InLedger, Processed
    <3>2. Taken(s) /\ UNCHANGED stream
      BY <1>1, <1>4, <2>4, <3>1 DEF Output
    <3>3. n \in 1 .. Len(rec) /\ rec[n] = c
      BY <1>4, <2>4, <2>8, <2>9, <2>10, <2>13 DEF InLedger, Fits
    <3>4. HeadTaken(up[s][1])
      BY <1>1, <2>4, <2>8, <2>9, <3>1, <3>3 DEF HeadTaken
    <3> QED BY <2>11, <3>1, <3>2, <3>4, HubQuietKept
  <2>14. CASE ~InLedger(r, n)
    <3>1. n = Len(rec) + 1 /\ ~Processed(r, n)
      BY <1>4, <2>4, <2>9, <2>10, <2>14 DEF Fits, InLedger, Processed
    <3>2. PICK new : new = Append(rec, c)
      OBVIOUS
    <3>3. new \in Seq(Chunk) /\ Len(new) = Len(rec) + 1 /\ new[Len(rec) + 1] = c
      BY <3>2
    <3>4. PICK y : y = [state |-> "running", outputs |-> new]
      OBVIOUS
    <3>5. y \in Leases /\ lease' = [lease EXCEPT ![r] = y] /\ lease'[r] = y
      BY <2>6, <2>9, <2>12, <2>14, <3>2, <3>3, <3>4 DEF Leases
    <3>6. PICK st : st = [stream[r] EXCEPT !.seen = @ \cup {n}]
      OBVIOUS
    <3>7. st \in Streams /\ st.stage = "open"
      <4>1. stream[r] \in Streams /\ stream[r].stage = "open" /\ stream[r].seen \cup {n} \in SUBSET Nat
        BY <1>4, <2>6, <2>10 DEF Pending
      <4> QED BY <3>6, <4>1 DEF Streams
    <3>8. PICK x : x = Push(st, c)
      OBVIOUS
    <3>9. x \in Streams /\ x.stage = "open"
      <4>1. ReadsOn(st, c, x)
        BY <3>7, <3>8, PushReads
      <4> QED BY <3>7, <4>1 DEF ReadsOn
    <3>10. stream' = [stream EXCEPT ![r] = x] /\ stream'[r] = x
      <4>1. stream' = [stream EXCEPT ![m.run] =
                         Push([stream[m.run] EXCEPT !.seen = @ \cup {m.seq}], m.chunk)]
        BY <1>1, <1>4, <2>4, <3>1 DEF Output
      <4>2. stream' = [stream EXCEPT ![r] = x]
        BY <1>1, <2>4, <2>8, <3>6, <3>8, <4>1
      <4> QED BY <2>6, <4>2
    <3>11. Refuse(s) \/ Taken(s)
      BY <1>1, <1>4, <2>4, <3>1 DEF Output
    <3>12. HeadTaken(up[s][1])
      <4>1. n \in 1 .. Len(new) /\ new[n] = c
        BY <2>10, <3>1, <3>3
      <4> QED BY <1>1, <2>4, <2>8, <3>4, <3>5, <4>1 DEF HeadTaken
    <3>13. StreamMoves(r)
      <4>1. ran'[r] = ran[r]
        BY DEF runnerVars
      <4>2. n = Len(lease[r].outputs) + 1 /\ lease'[r].outputs = Append(lease[r].outputs, c)
        BY <2>9, <3>1, <3>2, <3>4, <3>5
      <4>3. stream'[r] = Push(st, c)
        BY <3>8, <3>10
      <4> QED BY <1>4, <2>5, <2>6, <2>7, <3>6, <3>7, <4>1, <4>2, <4>3, StreamReads
    <3> QED BY <1>4, <2>11, <3>5, <3>9, <3>10, <3>11, <3>12, <3>13, HubStreamKept
  <2> QED BY <2>13, <2>14
<1> QED BY <1>2, <1>3, <1>4

LEMMA HubReceiveKept == ASSUME LinkInv, NEW s \in Sockets, HubReceive(s) PROVE LinkInv'
<1>1. PICK m : m = up[s][1]
  OBVIOUS
<1>2. up[s] # <<>> /\ UNCHANGED runnerVars
  BY DEF HubReceive
<1>3. Head(up[s]) = m
  BY <1>1, <1>2, HeadIsFirst
<1>4. \/ m.type = "pair" /\ Pair(s, m)
      \/ m.type = "auth" /\ Authenticate(s, m)
      \/ m.type = "ack" /\ Acknowledge(s, m)
      \/ m.type = "output" /\ Output(s, m)
      \/ m.type = "completion" /\ Complete(s, m)
      \/ m.type = "failure" /\ Fail(s, m)
  BY <1>3 DEF HubReceive
<1>5. CASE m.type = "pair" /\ Pair(s, m)
  BY <1>1, <1>2, <1>5, PairKept
<1>6. CASE m.type = "auth" /\ Authenticate(s, m)
  BY <1>1, <1>2, <1>6, AuthenticateKept
<1>7. CASE m.type = "ack" /\ Acknowledge(s, m)
  BY <1>1, <1>2, <1>7, AcknowledgeKept
<1>8. CASE m.type = "output" /\ Output(s, m)
  BY <1>1, <1>2, <1>8, OutputKept
<1>9. CASE m.type = "completion" /\ Complete(s, m)
  BY <1>1, <1>2, <1>9, CompleteKept
<1>10. CASE m.type = "failure" /\ Fail(s, m)
  BY <1>1, <1>2, <1>10, FailKept
<1> QED BY <1>4, <1>5, <1>6, <1>7, <1>8, <1>9, <1>10

-----------------------------------------------------------------------------
(***************************************************************************)
(* What the runner does.                                                   *)
(***************************************************************************)

\* Executions that are done stay as they are.
ExecutionsStay(r) ==
  \A i \in DOMAIN ran[r] : i \in DOMAIN ran'[r] /\ (ran[r][i].done => ran'[r][i] = ran[r][i])

LEMMA RunnerMoves ==
  ASSUME LinkInv, UNCHANGED <<reg, hub, stream, lease>>,
         link' \in [Sockets -> {"unused", "live", "dead", "refused"}],
         proc' \in {"off", "up", "exited"}, conn' \in Sockets \cup {0}, starts' \in Nat,
         active' \in [Runs -> {"no", "running", "aborting"}],
         kept' = [r \in Runs |-> kept'[r]], ran' \in [Runs -> Seq(Executions)],
         \A r \in Runs : ExecutionsStay(r) /\ ExecutedOK(r)' /\ UntouchedOK(r)'
  PROVE  Onward /\ LinkTyped' /\ ActiveOK' /\ \A r \in Runs : RunOK(r)'
<1>1. ASSUME NEW r \in Runs PROVE GoesOn(r)
  BY DEF ExecutionsStay, GoesOn, Pending
<1>2. Onward
  BY <1>1 DEF Onward
<1>3. LinkTyped /\ LinkTyped'
  <2>1. RunsTyped'
    BY DEF LinkInv, LinkTyped, RunsTyped
  <2>2. ConnectionsTyped'
    BY DEF LinkInv, LinkTyped, ConnectionsTyped
  <2> QED BY <2>1, <2>2 DEF LinkInv, LinkTyped
<1>4. ASSUME NEW r \in Runs PROVE RunOK(r)'
  <2>1. ran'[r] \in Seq(Executions) /\ stream'[r] = stream[r] /\ lease'[r] = lease[r] /\ RunOK(r)
    BY DEF LinkInv
  <2>2. LedgerOK(r)' /\ ReadOK(r)'
    BY <1>1, <1>3, <2>1, PrintingStays
  <2> QED BY <2>2 DEF RunOK
<1>5. ActiveOK'
  BY ActiveStays
<1> QED BY <1>2, <1>3, <1>4, <1>5

LEMMA StartKept == ASSUME LinkInv, Start PROVE LinkInv'
<1>1. /\ UNCHANGED <<reg, hub, stream, lease, ran, link, up, down>>
      /\ proc' = "up" /\ conn' = 0 /\ starts' = starts + 1
      /\ active' = [r \in Runs |-> "no"] /\ kept' = [r \in Runs |-> <<>>]
  BY DEF Start, hubVars
<1>2. /\ starts \in Nat /\ ran \in [Runs -> Seq(Executions)]
      /\ link \in [Sockets -> {"unused", "live", "dead", "refused"}]
  BY DEF LinkInv, LinkTyped, RunsTyped, ConnectionsTyped
<1>3. ASSUME NEW r \in Runs PROVE ExecutionsStay(r) /\ ExecutedOK(r)' /\ UntouchedOK(r)'
  <2>1. ExecutionsStay(r)
    BY <1>1 DEF ExecutionsStay
  <2>2. ExecutedOK(r)'
    <3>1. ran[r] \in Seq(Executions)
      BY <1>2
    <3>2. \A i \in DOMAIN ran[r] : ran[r][i] \in Executions
      BY <3>1
    <3>3. \A i \in DOMAIN ran[r] : ran[r][i].by \in Nat /\ ran[r][i].by <= starts
      BY <3>2 DEF LinkInv, RunOK, ExecutedOK, Executions
    <3>4. \A n \in Nat : n <= starts => n <= starts + 1 /\ n # starts + 1
      BY <1>2
    <3>5. ExecutedOK(r)
      BY DEF LinkInv, RunOK
    <3> QED BY <1>1, <3>3, <3>4, <3>5 DEF ExecutedOK
  <2>3. UntouchedOK(r)'
    BY <1>1 DEF LinkInv, RunOK, UntouchedOK
  <2> QED BY <2>1, <2>2, <2>3
<1>4. Onward /\ LinkTyped' /\ ActiveOK' /\ \A r \in Runs : RunOK(r)'
  <2>1. /\ active' \in [Runs -> {"no", "running", "aborting"}] /\ starts' \in Nat
        /\ kept' = [r \in Runs |-> kept'[r]]
    BY <1>1, <1>2
  <2> QED BY <1>1, <1>2, <1>3, <2>1, RunnerMoves
<1>5. \A r \in Runs : WireOK(kept[r])'
  BY <1>1, NoMessage
<1>6. WiresOK(up)' /\ WiresOK(down)'
  BY <1>1, <1>4, UpRests, DownRests DEF LinkInv
<1> QED BY <1>4, <1>5, <1>6 DEF LinkInv

LEMMA DieKept == ASSUME LinkInv, Die PROVE LinkInv'
<1>1. /\ UNCHANGED <<reg, hub, stream, lease, conn, kept, starts, ran, up>>
      /\ proc' = "off" /\ active' = [r \in Runs |-> "no"]
      /\ link' = [s \in Sockets |-> IF s = conn /\ link[s] = "live" THEN "dead" ELSE link[s]]
      /\ down' = [s \in Sockets |-> IF s = conn THEN <<>> ELSE down[s]]
  BY DEF Die, hubVars
<1>2. /\ starts \in Nat /\ ran \in [Runs -> Seq(Executions)] /\ conn \in Sockets \cup {0}
      /\ link \in [Sockets -> {"unused", "live", "dead", "refused"}]
      /\ kept = [r \in Runs |-> kept[r]]
  BY DEF LinkInv, LinkTyped, RunsTyped, ConnectionsTyped
<1>3. ASSUME NEW r \in Runs PROVE ExecutionsStay(r) /\ ExecutedOK(r)' /\ UntouchedOK(r)'
  BY <1>1 DEF ExecutionsStay, LinkInv, RunOK, ExecutedOK, UntouchedOK
<1>4. Onward /\ LinkTyped' /\ ActiveOK' /\ \A r \in Runs : RunOK(r)'
  <2>1. /\ active' \in [Runs -> {"no", "running", "aborting"}] /\ kept' = [r \in Runs |-> kept'[r]]
        /\ link' \in [Sockets -> {"unused", "live", "dead", "refused"}]
    BY <1>1, <1>2
  <2> QED BY <1>1, <1>2, <1>3, <2>1, RunnerMoves
<1>5. \A r \in Runs : WireOK(kept[r])'
  BY <1>1, <1>4, KeptStays
<1>6. WiresOK(up)'
  BY <1>1, <1>4, UpRests DEF LinkInv
<1>7. WiresOK(down)'
  <2>1. down' = [s \in Sockets |-> down'[s]] /\ \A s \in Sockets : down'[s] = down[s] \/ down'[s] = <<>>
    BY <1>1
  <2> QED BY <1>4, <2>1, DownStays DEF LinkInv
<1> QED BY <1>4, <1>5, <1>6, <1>7 DEF LinkInv

\* A process starts a command it has not executed.
LEMMA ExecutionStarts ==
  ASSUME LinkInv, NEW r \in Runs, proc = "up", active[r] = "no", kept[r] = <<>>,
         stream[r].stage # "new", stream' = stream, starts' = starts,
         active'[r] = "running", ran'[r] = Append(ran[r], [by |-> starts, out |-> <<>>, done |-> FALSE])
  PROVE  ran'[r] \in Seq(Executions) /\ ExecutionsStay(r) /\ ExecutedOK(r)' /\ UntouchedOK(r)'
<1>1. PICK x : x = [by |-> starts, out |-> <<>>, done |-> FALSE]
  OBVIOUS
<1>2. x \in Executions /\ x.by = starts /\ ~x.done /\ x.out = <<>> /\ starts \in Nat
  <2>1. starts \in Nat /\ <<>> \in Seq(Chunk)
    BY DEF LinkInv, LinkTyped, RunsTyped
  <2> QED BY <1>1, <2>1 DEF Executions
<1>3. PICK old \in Seq(Executions) : old = ran[r]
  BY DEF LinkInv, LinkTyped, RunsTyped
<1>4. PICK new : new = Append(old, x)
  OBVIOUS
<1>5. /\ new \in Seq(Executions) /\ Len(old) \in Nat /\ Len(new) = Len(old) + 1 /\ new[Len(old) + 1] = x
      /\ \A i \in 1 .. Len(old) : new[i] = old[i]
  BY <1>2, <1>4
<1>6. ran'[r] = new /\ new # <<>> /\ DOMAIN old = 1 .. Len(old)
      /\ \A i \in DOMAIN new : i \in DOMAIN old \/ i = Len(old) + 1
  BY <1>1, <1>3, <1>4, <1>5
<1>7. ExecutionsStay(r)
  <2>1. \A i \in 1 .. Len(old) : i \in DOMAIN new /\ new[i] = old[i]
    BY <1>5
  <2> QED BY <1>3, <1>6, <2>1 DEF ExecutionsStay
<1>8. /\ \A i \in DOMAIN old : old[i].by <= starts /\ (~old[i].done => old[i].out = <<>>) /\ old[i].by # starts
      /\ \A i, j \in DOMAIN old : i # j => old[i].by # old[j].by
  BY <1>3 DEF LinkInv, RunOK, ExecutedOK
<1>9. /\ \A i \in DOMAIN new : new[i].by <= starts /\ (~new[i].done => new[i].out = <<>>)
      /\ \A i, j \in DOMAIN new : i # j => new[i].by # new[j].by
  <2>1. \A i \in DOMAIN old : new[i] = old[i]
    BY <1>5, <1>6
  <2>2. ASSUME NEW i \in DOMAIN new PROVE new[i].by <= starts /\ (~new[i].done => new[i].out = <<>>)
    <3>1. CASE i \in DOMAIN old
      BY <1>8, <2>1, <3>1
    <3>2. CASE i = Len(old) + 1
      BY <1>2, <1>5, <3>2
    <3> QED BY <1>6, <3>1, <3>2
  <2>3. ASSUME NEW i \in DOMAIN new, NEW j \in DOMAIN new, i # j PROVE new[i].by # new[j].by
    <3>1. \A k \in DOMAIN old : new[k].by # starts
      BY <1>8, <2>1
    <3>2. new[Len(old) + 1].by = starts
      BY <1>2, <1>5
    <3>3. CASE i \in DOMAIN old /\ j \in DOMAIN old
      BY <1>8, <2>1, <2>3, <3>3
    <3>4. CASE i = Len(old) + 1 /\ j \in DOMAIN old
      BY <3>1, <3>2, <3>4
    <3>5. CASE j = Len(old) + 1 /\ i \in DOMAIN old
      BY <3>1, <3>2, <3>5
    <3> QED BY <1>6, <2>3, <3>3, <3>4, <3>5
  <2> QED BY <2>2, <2>3
<1>10. ExecutedOK(r)'
  <2>1. ~new[Len(new)].done
    BY <1>2, <1>5
  <2> QED BY <1>6, <1>9, <2>1 DEF ExecutedOK
<1>11. UntouchedOK(r)'
  BY DEF UntouchedOK
<1> QED BY <1>5, <1>6, <1>7, <1>10, <1>11

LEMMA RunnerReceiveKept == ASSUME LinkInv, RunnerReceive PROVE LinkInv'
<1>1. PICK s \in Sockets : s = conn
  BY DEF RunnerReceive, LinkInv, LinkTyped, ConnectionsTyped
<1>2. /\ proc = "up" /\ down[s] # <<>> /\ down' = [down EXCEPT ![s] = Tail(@)]
      /\ UNCHANGED <<reg, hub, stream, lease, proc, conn, kept, starts, link>>
  BY <1>1 DEF RunnerReceive, hubVars
<1>3. WireOK(down[s])
  BY DEF LinkInv, WiresOK
<1>4. Head(down[s]) = down[s][1] /\ 1 \in 1 .. Len(down[s])
  <2>1. Head(down[s]) = down[s][1] /\ Len(down[s]) \in Nat \ {0}
    BY <1>2, <1>3, WireRest DEF WireOK
  <2> QED BY <2>1
<1>5. PICK m : m = down[s][1]
  OBVIOUS
<1>6. MessageOK(m)
  BY <1>3, <1>4, <1>5 DEF WireOK
<1>7. (m.type = "claim" /\ Claimed(m.run)) \/ (m.type = "cancel" /\ Cancelled(m.run))
  BY <1>1, <1>4, <1>5 DEF RunnerReceive
<1>8. PICK r \in Runs : r = m.run /\ stream[r].stage # "new"
  BY <1>6, <1>7 DEF MessageOK
<1>9. /\ starts \in Nat /\ ran \in [Runs -> Seq(Executions)] /\ kept = [q \in Runs |-> kept[q]]
      /\ active \in [Runs -> {"no", "running", "aborting"}]
      /\ link \in [Sockets -> {"unused", "live", "dead", "refused"}]
      /\ proc \in {"off", "up", "exited"} /\ conn \in Sockets \cup {0}
  BY DEF LinkInv, LinkTyped, RunsTyped, ConnectionsTyped
<1>10. ASSUME NEW q \in Runs, active'[q] = active[q], ran'[q] = ran[q]
       PROVE  ran'[q] \in Seq(Executions) /\ ExecutionsStay(q) /\ ExecutedOK(q)' /\ UntouchedOK(q)'
  BY <1>2, <1>9, <1>10 DEF ExecutionsStay, LinkInv, RunOK, ExecutedOK, UntouchedOK
<1>11. /\ active' = [active EXCEPT ![r] = active'[r]] /\ ran' = [ran EXCEPT ![r] = ran'[r]]
       /\ active'[r] \in {"no", "running", "aborting"}
  BY <1>7, <1>8, <1>9 DEF Claimed, Cancelled
<1>12. ran'[r] \in Seq(Executions) /\ ExecutionsStay(r) /\ ExecutedOK(r)' /\ UntouchedOK(r)'
  <2>1. CASE active'[r] = active[r] /\ ran'[r] = ran[r]
    BY <1>10, <2>1
  <2>2. CASE m.type = "cancel" /\ active[r] # "no"
    <3>1. ran'[r] = ran[r] /\ active'[r] = "aborting"
      BY <1>7, <1>8, <1>9, <2>2 DEF Cancelled, Claimed
    <3> QED BY <1>2, <1>8, <1>9, <2>2, <3>1 DEF ExecutionsStay, LinkInv, RunOK, ExecutedOK, UntouchedOK
  <2>3. CASE m.type = "claim" /\ kept[r] = <<>> /\ active[r] = "no"
    <3>1. active'[r] = "running" /\ ran'[r] = Append(ran[r], [by |-> starts, out |-> <<>>, done |-> FALSE])
      BY <1>7, <1>8, <1>9, <2>3 DEF Claimed
    <3> QED BY <1>2, <1>8, <2>3, <3>1, ExecutionStarts
  <2>4. \/ active'[r] = active[r] /\ ran'[r] = ran[r]
        \/ m.type = "cancel" /\ active[r] # "no"
        \/ m.type = "claim" /\ kept[r] = <<>> /\ active[r] = "no"
    BY <1>7, <1>8, <1>9 DEF Claimed, Cancelled
  <2> QED BY <2>1, <2>2, <2>3, <2>4
<1>13. ASSUME NEW q \in Runs
       PROVE  ran'[q] \in Seq(Executions) /\ ExecutionsStay(q) /\ ExecutedOK(q)' /\ UntouchedOK(q)'
  <2>1. CASE q = r
    BY <1>12, <2>1
  <2>2. CASE q # r
    <3>1. active'[q] = active[q] /\ ran'[q] = ran[q]
      BY <1>9, <1>11, <2>2
    <3> QED BY <1>10, <3>1
  <2> QED BY <2>1, <2>2
<1>14. Onward /\ LinkTyped' /\ ActiveOK' /\ \A q \in Runs : RunOK(q)'
  <2>1. active' \in [Runs -> {"no", "running", "aborting"}] /\ ran' \in [Runs -> Seq(Executions)]
    BY <1>9, <1>11, <1>13
  <2> QED BY <1>2, <1>9, <1>13, <2>1, RunnerMoves
<1>15. \A q \in Runs : WireOK(kept[q])'
  BY <1>2, <1>14, KeptStays
<1>16. WiresOK(down)'
  BY <1>2, <1>5, <1>7, <1>14, DownTaken DEF LinkInv
<1>17. WiresOK(up)'
  <2>1. CASE m.type = "claim" /\ kept[r] # <<>>
    <3>1. PICK ms : ms = kept[r]
      OBVIOUS
    <3>2. up' = Sent(up, s, ms)
      BY <1>1, <1>7, <1>8, <2>1, <3>1 DEF Claimed
    <3>3. WireOK(ms)'
      BY <1>14, <3>1, WireStays DEF LinkInv
    <3> QED BY <1>14, <3>2, <3>3, UpSent DEF LinkInv
  <2>2. CASE m.type = "claim" /\ kept[r] = <<>>
    <3> DEFINE a == [type |-> "ack", run |-> r]
    <3>1. up' = Sent(up, s, <<a>>)
      BY <1>1, <1>7, <1>8, <2>2 DEF Claimed
    <3>2. MessageOK(a)' /\ a.type \notin {"output", "completion"}
      BY <1>2, <1>8 DEF MessageOK
    <3> HIDE DEF a
    <3>3. WireOK(<<a>>)'
      BY <3>2, OneMessage
    <3> QED BY <1>14, <3>1, <3>3, UpSent DEF LinkInv
  <2>3. CASE m.type = "cancel"
    BY <1>7, <1>14, <2>3, UpRests DEF LinkInv, Cancelled
  <2> QED BY <1>7, <2>1, <2>2, <2>3
<1> QED BY <1>14, <1>15, <1>16, <1>17 DEF LinkInv

LEMMA ReportShape ==
  ASSUME NEW r, NEW out \in Seq(Chunk), NEW q, q = Report(r, out)
  PROVE  /\ Wire(q) /\ q # <<>> /\ Len(q) = Len(out) + 1 /\ Len(out) \in Nat
         /\ q[Len(out) + 1] = [type |-> "completion", run |-> r]
         /\ \A j \in 1 .. Len(out) : q[j] = [type |-> "output", run |-> r, seq |-> j, chunk |-> out[j]]
<1> DEFINE o(j) == [type |-> "output", run |-> r, seq |-> j, chunk |-> out[j]]
           c == [type |-> "completion", run |-> r]
           f == [j \in 1 .. Len(out) |-> o(j)]
           S == {o(j) : j \in 1 .. Len(out)} \cup {c}
<1>1. Len(out) \in Nat
  OBVIOUS
<1>2. f \in Seq(S) /\ c \in S /\ Len(f) = Len(out) /\ \A j \in 1 .. Len(out) : f[j] = o(j)
  BY <1>1
<1>3. q = Append(f, c)
  BY DEF Report
<1> HIDE DEF f, S, o, c
<1>4. /\ q \in Seq(S) /\ Len(q) = Len(out) + 1 /\ q[Len(out) + 1] = c
      /\ \A j \in 1 .. Len(out) : q[j] = f[j]
  BY <1>1, <1>2, <1>3
<1>5. \A j \in 1 .. Len(out) : q[j] = o(j)
  BY <1>2, <1>4
<1>6. Wire(q)
  BY <1>4, SeqIsWire
<1>7. q # <<>>
  <2>1. Len(q) # 0
    BY <1>1, <1>4
  <2> QED BY <1>4, <2>1
<1> QED BY <1>1, <1>4, <1>5, <1>6, <1>7 DEF o, c

\* A report is in order by itself, once the execution it reports is done.
LEMMA ReportInOrder ==
  ASSUME NEW r \in Runs, NEW out \in Seq(Chunk), NEW last \in DOMAIN ran'[r],
         ran'[r][last].done, ran'[r][last].out = out, stream'[r].stage # "new"
  PROVE  WireOK(Report(r, out))'
<1> DEFINE o(j) == [type |-> "output", run |-> r, seq |-> j, chunk |-> out[j]]
           c == [type |-> "completion", run |-> r]
<1>1. PICK q : q = Report(r, out)
  OBVIOUS
<1>2. /\ Wire(q) /\ Len(q) = Len(out) + 1 /\ Len(out) \in Nat /\ q[Len(out) + 1] = c
      /\ \A j \in 1 .. Len(out) : q[j] = o(j)
  BY <1>1, ReportShape
<1>3. \A j \in 1 .. Len(out) : q[j] = o(j)
  BY <1>2
<1>4. \A j \in 1 .. Len(out) : OutputOf(r, last, j)' = o(j)
  BY DEF OutputOf
<1>5. ASSUME NEW p \in 1 .. Len(q) PROVE MessageOK(q[p])' /\ Backed(q, p)'
  <2>1. CASE p \in 1 .. Len(out)
    <3>1. q[p] = o(p)
      BY <1>3, <2>1
    <3>2. MessageOK(q[p])'
      BY <3>1 DEF MessageOK
    <3>3. \A j \in 1 .. p - 1 : j \in 1 .. Len(out)
      BY <1>2, <2>1
    <3>4. Covered(q, p, r, last, p - 1)'
      BY <1>3, <1>4, <3>3 DEF Covered
    <3>5. q[p].type = "output" /\ q[p].seq = p /\ q[p].run = r /\ q[p] = OutputOf(r, last, p)'
      BY <1>4, <2>1, <3>1
    <3>6. FromExecution(q, p, r, last)'
      BY <2>1, <3>4, <3>5 DEF FromExecution
    <3> QED BY <3>2, <3>5, <3>6 DEF Backed
  <2>2. CASE p = Len(out) + 1
    <3>1. q[p] = c
      BY <1>2, <2>2
    <3>2. MessageOK(q[p])'
      BY <3>1 DEF MessageOK
    <3>3. p - 1 = Len(out)
      BY <1>2, <2>2
    <3>4. Covered(q, p, r, last, Len(out))'
      BY <1>3, <1>4, <3>3 DEF Covered
    <3>5. FromExecution(q, p, r, last)'
      BY <3>1, <3>4 DEF FromExecution
    <3> QED BY <3>1, <3>2, <3>5 DEF Backed
  <2> QED BY <1>2, <2>1, <2>2
<1>6. WireOK(q)'
  BY <1>2, <1>5 DEF WireOK
<1> QED BY <1>1, <1>6

LEMMA NothingExecutes ==
  ASSUME NEW r \in Runs, NEW new, ran'[r] = new, active'[r] = "no", kept'[r] # <<>>, starts' = starts,
         \A i \in DOMAIN new : new[i].by <= starts /\ (~new[i].done => new[i].out = <<>>),
         \A i, j \in DOMAIN new : i # j => new[i].by # new[j].by
  PROVE  ExecutedOK(r)'
BY DEF ExecutedOK

\* The last execution of a run ends.
LEMMA ExecutionEnds ==
  ASSUME LinkInv, NEW r \in Runs, stream[r].stage # "new", active[r] # "no",
         UNCHANGED <<stream, starts>>, NEW out \in Seq(Chunk),
         active'[r] = "no", kept'[r] # <<>>,
         ran'[r] = [ran[r] EXCEPT ![Len(ran[r])] = [@ EXCEPT !.out = out, !.done = TRUE]]
  PROVE  /\ ran'[r] \in Seq(Executions) /\ ExecutionsStay(r) /\ ExecutedOK(r)' /\ UntouchedOK(r)'
         /\ Len(ran[r]) \in DOMAIN ran'[r]
         /\ ran'[r][Len(ran[r])].done /\ ran'[r][Len(ran[r])].out = out
<1>1. PICK old \in Seq(Executions) : old = ran[r]
  BY DEF LinkInv, LinkTyped, RunsTyped
<1>2. PICK n : n = Len(old)
  OBVIOUS
<1>3. n \in DOMAIN old /\ ~old[n].done /\ DOMAIN old = 1 .. n /\ n \in Nat
  <2>1. old # <<>> /\ ~old[n].done
    BY <1>1, <1>2 DEF LinkInv, RunOK, ExecutedOK
  <2> QED BY <1>2, <2>1
<1>4. PICK x : x = [old[n] EXCEPT !.out = out, !.done = TRUE]
  OBVIOUS
<1>5. x \in Executions /\ x.by = old[n].by /\ x.done /\ x.out = out
  <2>1. old[n] \in Executions
    BY <1>3
  <2> QED BY <1>4, <2>1 DEF Executions
<1>6. PICK new : new = [old EXCEPT ![n] = x]
  OBVIOUS
<1>7. /\ new \in Seq(Executions) /\ DOMAIN new = DOMAIN old /\ new[n] = x
      /\ \A i \in DOMAIN old : i # n => new[i] = old[i]
  BY <1>3, <1>5, <1>6
<1>8. ran'[r] = new
  BY <1>1, <1>2, <1>4, <1>6
<1>9. ExecutionsStay(r)
  BY <1>1, <1>3, <1>7, <1>8 DEF ExecutionsStay
<1>10. /\ \A i \in DOMAIN old : old[i].by <= starts /\ (~old[i].done => old[i].out = <<>>)
       /\ \A i, j \in DOMAIN old : i # j => old[i].by # old[j].by
  BY <1>1 DEF LinkInv, RunOK, ExecutedOK
<1>11. \A i \in DOMAIN old : new[i].by = old[i].by /\ (~new[i].done => new[i].out = <<>>)
  BY <1>5, <1>7, <1>10
<1>12. /\ \A i \in DOMAIN new : new[i].by <= starts /\ (~new[i].done => new[i].out = <<>>)
       /\ \A i, j \in DOMAIN new : i # j => new[i].by # new[j].by
  BY <1>7, <1>10, <1>11
<1>13. ExecutedOK(r)'
  BY <1>8, <1>12, NothingExecutes
<1>14. UntouchedOK(r)'
  BY DEF UntouchedOK
<1> QED BY <1>1, <1>2, <1>3, <1>5, <1>7, <1>8, <1>9, <1>13, <1>14

LEMMA FinishKept == ASSUME LinkInv, NEW r \in Runs, Finish(r) PROVE LinkInv'
<1>1. /\ active[r] # "no" /\ UNCHANGED <<reg, hub, stream, lease, proc, conn, starts, link, down>>
      /\ active' = [active EXCEPT ![r] = "no"]
  BY DEF Finish, Reported, hubVars
<1>2. stream[r].stage # "new"
  BY <1>1 DEF LinkInv, RunOK, UntouchedOK
<1>3. /\ starts \in Nat /\ ran \in [Runs -> Seq(Executions)] /\ kept = [q \in Runs |-> kept[q]]
      /\ active \in [Runs -> {"no", "running", "aborting"}]
      /\ link \in [Sockets -> {"unused", "live", "dead", "refused"}]
      /\ proc \in {"off", "up", "exited"} /\ conn \in Sockets \cup {0}
  BY DEF LinkInv, LinkTyped, RunsTyped, ConnectionsTyped
<1>4. PICK ms :
        /\ kept' = [kept EXCEPT ![r] = ms] /\ up' = (IF conn = 0 THEN up ELSE Sent(up, conn, ms))
        /\ \/ \E out \in Results :
                /\ ms = Report(r, out)
                /\ ran' = [ran EXCEPT ![r][Len(ran[r])] = [@ EXCEPT !.out = out, !.done = TRUE]]
           \/ \E why \in {"failed", "cancelled"} :
                ms = <<[type |-> "failure", run |-> r, code |-> why]>> /\ UNCHANGED ran
  BY DEF Finish, Reported
<1>5. kept'[r] = ms /\ active'[r] = "no" /\ kept' = [q \in Runs |-> kept'[q]]
  BY <1>1, <1>3, <1>4
<1>6. /\ WireOK(ms)' /\ ran' = [ran EXCEPT ![r] = ran'[r]]
      /\ ran'[r] \in Seq(Executions) /\ ExecutionsStay(r) /\ ExecutedOK(r)' /\ UntouchedOK(r)'
  <2>1. CASE \E out \in Results :
               /\ ms = Report(r, out)
               /\ ran' = [ran EXCEPT ![r][Len(ran[r])] = [@ EXCEPT !.out = out, !.done = TRUE]]
    <3>1. PICK out \in Seq(Chunk) :
            /\ ms = Report(r, out)
            /\ ran' = [ran EXCEPT ![r][Len(ran[r])] = [@ EXCEPT !.out = out, !.done = TRUE]]
      BY <2>1, LinkAssumption
    <3>2. PICK last : last = Len(ran[r])
      OBVIOUS
    <3>3. ran'[r] = [ran[r] EXCEPT ![Len(ran[r])] = [@ EXCEPT !.out = out, !.done = TRUE]]
      BY <1>3, <3>1
    <3>4. ran' = [ran EXCEPT ![r] = ran'[r]]
      BY <1>3, <3>1
    <3>5. ms # <<>>
      BY <3>1, ReportShape
    <3>6. /\ ran'[r] \in Seq(Executions) /\ ExecutionsStay(r) /\ ExecutedOK(r)' /\ UntouchedOK(r)'
          /\ last \in DOMAIN ran'[r] /\ ran'[r][last].done /\ ran'[r][last].out = out
      BY <1>1, <1>2, <1>5, <3>2, <3>3, <3>5, ExecutionEnds
    <3>7. WireOK(Report(r, out))'
      BY <1>1, <1>2, <3>6, ReportInOrder
    <3> QED BY <3>1, <3>4, <3>6, <3>7
  <2>2. CASE \E why \in {"failed", "cancelled"} :
               ms = <<[type |-> "failure", run |-> r, code |-> why]>> /\ UNCHANGED ran
    <3>1. PICK why \in {"failed", "cancelled"} :
            ms = <<[type |-> "failure", run |-> r, code |-> why]>> /\ UNCHANGED ran
      BY <2>2
    <3> DEFINE m == [type |-> "failure", run |-> r, code |-> why]
    <3>2. MessageOK(m)' /\ m.type \notin {"output", "completion"} /\ ms = <<m>>
      BY <1>1, <1>2, <3>1 DEF MessageOK
    <3> HIDE DEF m
    <3>3. WireOK(<<m>>)'
      BY <3>2, OneMessage
    <3>4. WireOK(ms)' /\ ms # <<>>
      BY <3>2, <3>3
    <3>5. ran'[r] \in Seq(Executions) /\ ExecutionsStay(r) /\ UntouchedOK(r)'
      BY <1>1, <1>2, <1>3, <3>1 DEF ExecutionsStay, UntouchedOK
    <3>6. ExecutedOK(r)'
      BY <1>1, <1>5, <3>1, <3>4 DEF ExecutedOK, LinkInv, RunOK
    <3>7. ran' = [ran EXCEPT ![r] = ran'[r]]
      BY <1>3, <3>1
    <3> QED BY <3>4, <3>5, <3>6, <3>7
  <2> QED BY <1>4, <2>1, <2>2
<1>7. ASSUME NEW q \in Runs
      PROVE  ran'[q] \in Seq(Executions) /\ ExecutionsStay(q) /\ ExecutedOK(q)' /\ UntouchedOK(q)'
  <2>1. CASE q = r
    BY <1>6, <2>1
  <2>2. CASE q # r
    <3>1. active'[q] = active[q] /\ ran'[q] = ran[q] /\ kept'[q] = kept[q]
      BY <1>1, <1>3, <1>4, <1>6, <2>2
    <3> QED BY <1>1, <1>3, <3>1 DEF ExecutionsStay, LinkInv, RunOK, ExecutedOK, UntouchedOK
  <2> QED BY <2>1, <2>2
<1>8. Onward /\ LinkTyped' /\ ActiveOK' /\ \A q \in Runs : RunOK(q)'
  <2>1. active' \in [Runs -> {"no", "running", "aborting"}]
    BY <1>1, <1>3
  <2>2. ran' \in [Runs -> Seq(Executions)]
    BY <1>3, <1>6, <1>7
  <2> QED BY <1>1, <1>3, <1>5, <1>7, <2>1, <2>2, RunnerMoves
<1>9. ASSUME NEW q \in Runs PROVE WireOK(kept[q])'
  <2>1. CASE q = r
    BY <1>5, <1>6, <2>1
  <2>2. CASE q # r
    <3>1. kept'[q] = kept[q]
      BY <1>3, <1>4, <2>2
    <3> QED BY <1>8, <3>1, KeptStays
  <2> QED BY <2>1, <2>2
<1>10. WiresOK(down)'
  BY <1>1, <1>8, DownRests DEF LinkInv
<1>11. WiresOK(up)'
  <2>1. PICK s : s = conn
    OBVIOUS
  <2>2. CASE s = 0
    BY <1>4, <1>8, <2>1, <2>2, UpRests DEF LinkInv
  <2>3. CASE s # 0
    <3>1. s \in Sockets /\ up' = Sent(up, s, ms)
      BY <1>3, <1>4, <2>1, <2>3
    <3> QED BY <1>6, <1>8, <3>1, UpSent DEF LinkInv
  <2> QED BY <2>2, <2>3
<1> QED BY <1>8, <1>9, <1>10, <1>11 DEF LinkInv

-----------------------------------------------------------------------------
(***************************************************************************)
(* The link.                                                               *)
(***************************************************************************)

LEMMA LinkInit == Init => LinkInv
<1> SUFFICES ASSUME Init PROVE LinkInv
  OBVIOUS
<1>1. <<>> \in Seq(Chunk) /\ <<>> \in Seq(Executions) /\ DOMAIN <<>> = {} /\ Len(<<>>) = 0
  OBVIOUS
<1>2. NoStream \in Streams /\ NoLease \in Leases
  BY <1>1 DEF NoStream, NoLease, Streams, Stages, Leases
<1>3. RunsTyped
  BY <1>1, <1>2 DEF Init, RunsTyped
<1>4. ConnectionsTyped
  BY DEF Init, ConnectionsTyped
<1>5. WireOK(<<>>)
  <2>1. Wire(<<>>)
    BY DEF Wire
  <2> QED BY <1>1, <2>1 DEF WireOK
<1>6. WiresOK(up) /\ WiresOK(down)
  BY <1>5 DEF Init, WiresOK
<1>7. ASSUME NEW r \in Runs PROVE WireOK(kept[r]) /\ RunOK(r)
  <2>1. /\ stream[r] = NoStream /\ lease[r] = NoLease /\ active[r] = "no" /\ kept[r] = <<>> /\ ran[r] = <<>>
    BY DEF Init
  <2>2. stream[r].stage = "new" /\ stream[r].got = <<>> /\ stream[r].buffer = <<>>
    BY <2>1 DEF NoStream
  <2>3. <<>> \o <<>> = <<>>
    OBVIOUS
  <2>4. UntouchedOK(r) /\ ExecutedOK(r)
    BY <1>1, <2>1 DEF UntouchedOK, ExecutedOK
  <2>5. LedgerOK(r) /\ ReadOK(r)
    BY <2>2, <2>3 DEF LedgerOK, ReadOK, Pending, Text
  <2> QED BY <1>5, <2>1, <2>4, <2>5 DEF RunOK
<1>8. ActiveOK
  BY <1>2 DEF Init, ActiveOK, Pending, NoStream
<1> QED BY <1>3, <1>4, <1>6, <1>7, <1>8 DEF LinkInv, LinkTyped

LEMMA LinkRests == ASSUME LinkInv, UNCHANGED vars PROVE LinkInv'
<1>1. RunsRest /\ UNCHANGED <<reg, hub, link, up, down, proc, conn>>
  BY DEF vars, hubVars, runnerVars, RunsRest
<1>2. WiresOK(up)' /\ WiresOK(down)'
  BY <1>1, RunsStay, UpRests, DownRests DEF LinkInv
<1>3. ActiveOK'
  BY <1>1, ActiveStays DEF RunsRest
<1>4. ConnectionsTyped'
  BY <1>1 DEF LinkInv, LinkTyped, ConnectionsTyped
<1> QED BY <1>1, <1>2, <1>3, <1>4, QuietKept

LEMMA LinkNext == LinkInv /\ [Next]_vars => LinkInv'
<1> SUFFICES ASSUME LinkInv, [Next]_vars PROVE LinkInv'
  OBVIOUS
<1>1. CASE \E c \in Codes : IssueCode(c) \/ ExpireCode(c)
  BY <1>1, CodesKept
<1>2. CASE \E s \in Sockets, c \in Codes : PairRequest(s, c)
  BY <1>2, PairRequestKept
<1>3. CASE \E s \in Sockets : PairAccepted(s) \/ HubReceive(s) \/ HubClose(s) \/ LinkLost(s) \/ Connect(s)
  BY <1>3, PairAcceptedKept, HubReceiveKept, HubCloseKept, LinkLostKept, ConnectKept
<1>4. CASE \E r \in Runs : Stream(r) \/ Abort(r) \/ Leave(r) \/ Finish(r)
  BY <1>4, StreamKept, AbortKept, LeaveKept, FinishKept
<1>5. CASE Revoke \/ HubRestart
  BY <1>5, RevokeKept, HubRestartKept
<1>6. CASE Start \/ Closed \/ Die \/ RunnerReceive
  BY <1>6, StartKept, ClosedKept, DieKept, RunnerReceiveKept
<1>7. CASE UNCHANGED vars
  BY <1>7, LinkRests
<1> QED BY <1>1, <1>2, <1>3, <1>4, <1>5, <1>6, <1>7 DEF Next

LEMMA LinkInvariant == Spec => []LinkInv
BY LinkInit, LinkNext, PTL DEF Spec

LEMMA ReadFaithfully ==
  ASSUME LinkInv, NEW r \in Runs, Wellprinted(r)
  PROVE  /\ stream[r].got # <<>> =>
              \E i \in DOMAIN ran[r] : IsPrefix(Text(r), Stdout(ran[r][i].out))
         /\ stream[r].stage = "ended" /\ Len(ran[r]) = 1 => stream[r].got = Stdout(ran[r][1].out)
<1>1. LinkTyped /\ LedgerOK(r) /\ ReadOK(r)
  BY DEF LinkInv, RunOK
<1>2. Text(r) = <<>> \/ \E i \in DOMAIN ran[r] : IsPrefix(Text(r), Stdout(ran[r][i].out))
  <2>1. CASE Pending(r)
    BY <1>1, <2>1, LedgerReads
  <2>2. CASE ~Pending(r)
    BY <1>1, <2>2 DEF ReadOK
  <2> QED BY <2>1, <2>2
<1>3. stream[r].got # <<>> => Text(r) # <<>>
  <2>1. stream[r] \in Streams
    BY <1>1 DEF LinkTyped, RunsTyped
  <2>2. stream[r].got \in Seq(Chunk) /\ stream[r].buffer \in Seq(Chunk)
    BY <2>1 DEF Streams
  <2>3. \A t, u \in Seq(Chunk) : t # <<>> => t \o u # <<>>
    <3> TAKE t, u \in Seq(Chunk)
    <3> SUFFICES ASSUME t # <<>> PROVE t \o u # <<>>
      OBVIOUS
    <3>1. Len(t) \in Nat \ {0} /\ Len(u) \in Nat /\ Len(t \o u) = Len(t) + Len(u)
      OBVIOUS
    <3>2. Len(t \o u) # 0 /\ Len(<<>>) = 0
      BY <3>1
    <3> QED BY <3>2
  <2> QED BY <2>2, <2>3 DEF Text
<1>4. stream[r].stage = "ended" /\ Len(ran[r]) = 1 => stream[r].got = Stdout(ran[r][1].out)
  BY <1>1 DEF ReadOK, Pending
<1> QED BY <1>2, <1>3, <1>4

LEMMA LinkFaithful == LinkInv => RunsFaithful
<1> SUFFICES ASSUME LinkInv PROVE RunsFaithful
  OBVIOUS
<1>1. ASSUME NEW r \in Runs PROVE DOMAIN ran[r] = 1 .. Len(ran[r])
  <2>1. ran[r] \in Seq(Executions)
    BY DEF LinkInv, LinkTyped, RunsTyped
  <2> QED BY <2>1
<1>2. OncePerProcess
  BY <1>1 DEF LinkInv, RunOK, ExecutedOK, OncePerProcess
<1>3. ASSUME NEW r \in Runs, \A i \in 1 .. Len(ran[r]) : Wellformed(ran[r][i].out)
      PROVE  /\ stream[r].got # <<>> =>
                  \E i \in 1 .. Len(ran[r]) : IsPrefix(stream[r].got \o stream[r].buffer, Stdout(ran[r][i].out))
             /\ stream[r].stage = "ended" /\ Len(ran[r]) = 1 => stream[r].got = Stdout(ran[r][1].out)
  <2>1. Wellprinted(r)
    BY <1>1, <1>3 DEF Wellprinted
  <2> QED BY <1>1, <2>1, ReadFaithfully DEF Text
<1>4. FaithfulOutput
  BY <1>3 DEF FaithfulOutput
<1> QED BY <1>2, <1>4 DEF RunsFaithful

\* However often the link is lost, messages are sent again, the hub or the
\* runner restarts: what stream() has yielded is the beginning of what one
\* execution of the command printed, all of it once the stream has ended, and
\* no runner process executes a claim twice.  The hub, its ledger and the
\* runner's terminal map see to it together: websocket-hub.ts:120-149,
\* lease-ledger.ts:45-67, connection.ts:103-124.
THEOREM RunsAreFaithful == Spec => []RunsFaithful
BY LinkInvariant, LinkFaithful, PTL

\* A revoked registration leaves neither an authenticated socket nor a pending
\* run, even if an authentication was on its way when it was revoked:
\* websocket-hub.ts:52-63, pairing.ts:81-99.
THEOREM RevokedRunnerIsOut == Spec => []RevokedIsOut
<1>1. LinkInv => RevokedIsOut
  BY DEF LinkInv, ActiveOK, RevokedIsOut
<1> QED BY <1>1, LinkInvariant, PTL

=============================================================================
