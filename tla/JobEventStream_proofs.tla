------------------------ MODULE JobEventStream_proofs ------------------------
(***************************************************************************)
(* For any number of events and any size of the buffers: what a client has *)
(* read has no silent gap, what is stored is on its way, and a client      *)
(* reads in the order of the log.  Beside it, the changes of pages, and    *)
(* the page with the jobs; at the end, what module MCJobEventStream makes  *)
(* of the three.                                                           *)
(***************************************************************************)
EXTENDS MCJobEventStream, FiniteSetTheorems, WellFoundedInduction, TLAPS

Flowing == {"replay", "batch", "live"}

\* The events that were deleted when the client started from scratch.
Pruned == {n \in 1 .. Len(log) : log[n] = "progress" /\ n < base}

\* The events that have left the session.
Left == got \cup ToSet(wire)

\* Of the queue q, behind what was sent up to l, each event comes after all
\* that precede it in the log, but for those in P.
GapFree(q, l, P) ==
  \A i \in 1 .. Len(q) : \A m \in (l + 1) .. (q[i] - 1) :
    m \in P \/ \E j \in 1 .. i - 1 : q[j] = m

\* What a session still looks at.
Hands(s) == ToSet(s.todo) \cup ToSet(IF s.replaying THEN s.buffered ELSE s.pending)

SessionTyped(s, K) ==
  s \in [stage : Flowing, subscribed : BOOLEAN, replaying : BOOLEAN, todo : Seq(1 .. K),
         latest : 0 .. K, buffered : Seq(1 .. K), pending : Seq(1 .. K),
         writer : {"none", "replay", "drain", "heartbeat"}, frame : 0 .. K,
         signalling : BOOLEAN, overflowed : BOOLEAN, terminal : BOOLEAN, stopped : BOOLEAN]

\* A frame in flight is the newest event that was sent; up to it there is
\* no gap, G being the events that have left the session.
SentOK(s, P, G) ==
  /\ s.writer = "none" => s.frame = 0
  /\ s.frame <= s.latest
  /\ \A x \in G : x <= s.latest /\ (s.frame # 0 => x < s.frame)
  /\ \A m \in 1 .. s.latest : m \in G \/ m = s.frame \/ m \in P

\* The two queues are used one after the other, and both are free of gaps.
QueuesOK(s, P) ==
  /\ GapFree(s.todo, s.latest, P)
  /\ s.replaying => s.pending = <<>>
  /\ ~s.replaying => s.todo = <<>> /\ GapFree(s.pending, s.latest, P)
  /\ s.stage \in {"replay", "batch"} => s.replaying

\* A session that is not over has every event it has not sent, of the first K.
NothingLost(s, K, P) ==
  /\ s.buffered # <<>> /\ ~Over(s) => s.subscribed
  /\ s.signalling => s.overflowed
  /\ s.subscribed /\ ~Over(s) =>
       \A m \in (s.latest + 1) .. K : m \in P \/ m \in Hands(s)

SessionOK(s, K, P, G) ==
  SessionTyped(s, K) /\ SentOK(s, P, G) /\ QueuesOK(s, P) /\ NothingLost(s, K, P)

Idle(s) == s = NoSession \/ s = [NoSession EXCEPT !.stage = "closed"]

LogOK ==
  /\ log \in Seq(EventKinds) /\ log # <<>>
  /\ mark \in Nat /\ base \in Nat /\ base <= mark

\* The wire is in order, ahead of the client, and without gaps.
ClientOK ==
  /\ cursor \in got \cup {0} /\ got \subseteq 1 .. Len(log) /\ \A x \in got : x <= cursor
  /\ wire \in Seq(1 .. Len(log))
  /\ \A i \in DOMAIN wire : wire[i] > cursor /\ \A j \in 1 .. i - 1 : wire[j] < wire[i]
  /\ \A x \in Left : \A m \in 1 .. x : m \in Left \/ m \in Pruned

StreamInv ==
  /\ LogOK /\ ClientOK
  /\ sess = NoSession => wire = <<>>
  /\ Idle(sess) \/ SessionOK(sess, Len(log), Pruned, Left)

-----------------------------------------------------------------------------
(***************************************************************************)
(* Events in the order of the log.                                         *)
(***************************************************************************)

LEMMA Least == ASSUME NEW S \in SUBSET Nat, S # {} PROVE \E m \in S : \A n \in S : m <= n
<1> DEFINE R == OpToRel(<, Nat)
<1>1. PICK m \in S : \A n \in S : <<n, m>> \notin R
  BY NatLessThanWellFounded, WFMin
<1>2. ASSUME NEW n \in S PROVE m <= n
  <2>1. R = {ss \in Nat \X Nat : ss[1] < ss[2]}
    BY DEF OpToRel
  <2>2. <<n, m>> \notin R /\ <<n, m>> \in Nat \X Nat
    BY <1>1
  <2> HIDE DEF R
  <2>3. ~(n < m)
    BY <2>1, <2>2
  <2> QED BY <2>3
<1> QED BY <1>2

LEMMA Elements ==
  ASSUME NEW S, NEW q \in Seq(S) PROVE Len(q) \in Nat /\ \A i \in 1 .. Len(q) : q[i] \in S
OBVIOUS

\* q has the numbers up to n, in order, each as often as times says.
Ascending(q, times, n) ==
  /\ q \in Seq(1 .. n)
  /\ \A i \in 1 .. Len(q) : times[q[i]] > 0 /\ \A j \in 1 .. i - 1 : q[j] <= q[i]
  /\ \A m \in 1 .. n : times[m] > 0 => \E i \in 1 .. Len(q) : q[i] = m

LEMMA AscendingNext ==
  ASSUME NEW n \in Nat \ {0}, NEW times \in [1 .. n -> Nat], NEW q, Ascending(q, times, n - 1)
  PROVE  Ascending(q \o [i \in 1 .. times[n] |-> n], times, n)
<1> DEFINE r == [i \in 1 .. times[n] |-> n]
           p == q \o r
<1>0. times[n] \in Nat
  OBVIOUS
<1>1. r \in Seq(1 .. n) /\ Len(r) = times[n] /\ \A i \in 1 .. times[n] : r[i] = n
  BY <1>0
<1>2. q \in Seq(1 .. n) /\ Len(q) \in Nat /\ \A i \in 1 .. Len(q) : q[i] \in 1 .. n - 1
  <2>1. q \in Seq(1 .. n - 1) /\ Len(q) \in Nat /\ \A i \in 1 .. Len(q) : q[i] \in 1 .. n - 1
    BY DEF Ascending
  <2>2. \A i \in 1 .. Len(q) : q[i] \in 1 .. n
    BY <2>1
  <2> QED BY <2>1, <2>2
<1> HIDE DEF r
<1>3. /\ p \in Seq(1 .. n) /\ Len(p) = Len(q) + times[n]
      /\ \A i \in 1 .. Len(q) : p[i] = q[i]
      /\ \A i \in (Len(q) + 1) .. (Len(q) + times[n]) : p[i] = n
  <2>1. p \in Seq(1 .. n) /\ Len(p) = Len(q) + Len(r)
    BY <1>1, <1>2
  <2>2. \A i \in 1 .. Len(q) : p[i] = q[i]
    BY <1>1, <1>2
  <2>3. ASSUME NEW i \in (Len(q) + 1) .. (Len(q) + times[n]) PROVE p[i] = n
    <3>1. i - Len(q) \in 1 .. times[n] /\ i \in (Len(q) + 1) .. (Len(q) + Len(r))
      BY <1>0, <1>1, <1>2
    <3>2. \A k \in (Len(q) + 1) .. (Len(q) + Len(r)) : p[k] = r[k - Len(q)]
      BY <1>1, <1>2
    <3> QED BY <1>1, <3>1, <3>2
  <2> QED BY <1>1, <2>1, <2>2, <2>3
<1> HIDE DEF p
<1>4. ASSUME NEW i \in 1 .. Len(p) PROVE times[p[i]] > 0 /\ \A j \in 1 .. i - 1 : p[j] <= p[i]
  <2>1. i \in Nat /\ Len(q) \in Nat /\ \A j \in 1 .. i - 1 : j \in 1 .. Len(p)
    BY <1>0, <1>2, <1>3
  <2>2. CASE i \in 1 .. Len(q)
    <3>1. times[q[i]] > 0 /\ \A j \in 1 .. i - 1 : q[j] <= q[i]
      BY <2>2, Zenon DEF Ascending
    <3>2. \A j \in 1 .. i - 1 : j \in 1 .. Len(q)
      BY <2>2, <2>1
    <3> QED BY <1>3, <2>2, <3>1, <3>2
  <2>3. CASE i \in (Len(q) + 1) .. (Len(q) + times[n])
    <3>1. p[i] = n /\ times[n] > 0
      BY <1>0, <1>3, <2>1, <2>3
    <3>3. \A j \in 1 .. Len(p) : p[j] \in 1 .. n
      BY <1>3, Elements
    <3>2. \A j \in 1 .. i - 1 : p[j] \in 1 .. n
      BY <2>1, <3>3
    <3> QED BY <3>1, <3>2
  <2> QED BY <1>0, <1>3, <2>1, <2>2, <2>3
<1>5. ASSUME NEW m \in 1 .. n, times[m] > 0 PROVE \E i \in 1 .. Len(p) : p[i] = m
  <2>1. CASE m = n
    <3>0. Len(q) + 1 \in (Len(q) + 1) .. (Len(q) + times[n])
      BY <1>0, <1>2, <1>5, <2>1
    <3>1. p[Len(q) + 1] = n
      BY <1>3, <3>0
    <3>2. Len(q) + 1 \in 1 .. Len(p)
      BY <1>0, <1>2, <1>3, <3>0
    <3> QED BY <2>1, <3>1, <3>2
  <2>2. CASE m # n
    <3>1. m \in 1 .. n - 1
      BY <2>2
    <3>2. PICK i \in 1 .. Len(q) : q[i] = m
      BY <1>5, <3>1 DEF Ascending
    <3>3. i \in 1 .. Len(p)
      BY <1>0, <1>2, <1>3
    <3> QED BY <1>3, <3>2, <3>3
  <2> QED BY <2>1, <2>2
<1>6. Ascending(p, times, n)
  BY <1>3, <1>4, <1>5 DEF Ascending
<1> QED BY <1>6 DEF p, r

\* g lines up the first n events, one after the other.
Lined(g, times, n) ==
  /\ g = [i \in 0 .. n |-> g[i]] /\ g[0] = <<>>
  /\ \A i \in 1 .. n : g[i] = g[i - 1] \o [k \in 1 .. times[i] |-> i]

LEMMA LinedUp ==
  ASSUME NEW n \in Nat, NEW times \in [1 .. n -> Nat], NEW g, Lined(g, times, n)
  PROVE  Ascending(g[n], times, n)
<1> DEFINE S == {k \in 0 .. n : ~Ascending(g[k], times, k)}
<1>1. SUFFICES ASSUME S # {} PROVE FALSE
  OBVIOUS
<1>2. S \in SUBSET Nat
  OBVIOUS
<1> HIDE DEF S
<1>3. PICK m \in S : \A k \in S : m <= k
  BY <1>1, <1>2, Least
<1>4. m \in 0 .. n /\ ~Ascending(g[m], times, m)
  BY DEF S
<1>5. CASE m = 0
  <2>1. g[m] = <<>> /\ <<>> \in Seq(1 .. 0)
    BY <1>5 DEF Lined
  <2> QED BY <1>4, <1>5, <2>1 DEF Ascending
<1>6. CASE m # 0
  <2>1. m \in 1 .. n /\ m - 1 \in 0 .. n /\ m \in Nat \ {0} /\ m - 1 \notin S
    BY <1>3, <1>4, <1>6
  <2>2. Ascending(g[m - 1], times, m - 1)
    BY <2>1 DEF S
  <2> DEFINE beginning == [i \in 1 .. m |-> times[i]]
  <2>3. beginning \in [1 .. m -> Nat] /\ \A i \in 1 .. m : beginning[i] = times[i]
    BY <2>1
  <2> HIDE DEF beginning
  <2>4. Ascending(g[m - 1], beginning, m - 1)
    <3> DEFINE q == g[m - 1]
    <3>1. Ascending(q, times, m - 1)
      BY <2>2
    <3> HIDE DEF q
    <3>5. q \in Seq(1 .. m - 1)
      BY <3>1, Zenon DEF Ascending
    <3>2. \A i \in 1 .. Len(q) : q[i] \in 1 .. m - 1
      BY <3>5, Elements
    <3>3. \A i \in 1 .. m - 1 : beginning[i] = times[i]
      BY <2>1, <2>3
    <3>4. Ascending(q, beginning, m - 1)
      BY <3>1, <3>2, <3>3 DEF Ascending
    <3> QED BY <3>4 DEF q
  <2>5. Ascending(g[m - 1] \o [i \in 1 .. beginning[m] |-> m], beginning, m)
    BY <2>1, <2>3, <2>4, AscendingNext
  <2>6. g[m] = g[m - 1] \o [i \in 1 .. beginning[m] |-> m]
    <3>1. m \in 1 .. m
      BY <2>1
    <3>2. beginning[m] = times[m]
      BY <2>3, <3>1
    <3>3. g[m] = g[m - 1] \o [k \in 1 .. times[m] |-> m]
      BY <2>1 DEF Lined
    <3> QED BY <3>2, <3>3
  <2>7. Ascending(g[m], beginning, m)
    BY <2>5, <2>6
  <2>8. Ascending(g[m], times, m)
    <3> DEFINE q == g[m]
    <3>1. Ascending(q, beginning, m)
      BY <2>7
    <3> HIDE DEF q
    <3>2. q \in Seq(1 .. m)
      BY <3>1, Zenon DEF Ascending
    <3>4. \A i \in 1 .. Len(q) : q[i] \in 1 .. m
      BY <3>2, Elements
    <3>3. Ascending(q, times, m)
      BY <2>3, <3>1, <3>4 DEF Ascending
    <3> QED BY <3>3 DEF q
  <2> QED BY <1>4, <2>8
<1> QED BY <1>5, <1>6

LEMMA LinedExist ==
  ASSUME NEW n \in Nat, NEW times PROVE \E g : Lined(g, times, n)
<1> DEFINE S == {k \in 0 .. n : ~\E g : Lined(g, times, k)}
<1>1. SUFFICES ASSUME S # {} PROVE FALSE
  OBVIOUS
<1>2. S \in SUBSET Nat
  OBVIOUS
<1> HIDE DEF S
<1>3. PICK m \in S : \A k \in S : m <= k
  BY <1>1, <1>2, Least
<1>4. m \in 0 .. n /\ ~\E g : Lined(g, times, m)
  BY DEF S
<1>5. CASE m = 0
  <2> DEFINE e == [i \in 0 .. 0 |-> <<>>]
  <2>1. e = [i \in 0 .. 0 |-> e[i]] /\ e[0] = <<>>
    OBVIOUS
  <2> HIDE DEF e
  <2>2. Lined(e, times, 0)
    BY <2>1 DEF Lined
  <2> QED BY <1>4, <1>5, <2>2
<1>6. CASE m # 0
  <2>1. m - 1 \in 0 .. n /\ m - 1 \notin S
    BY <1>3, <1>4, <1>6
  <2>2. PICK g : Lined(g, times, m - 1)
    BY <2>1 DEF S
  <2> DEFINE x == g[m - 1] \o [k \in 1 .. times[m] |-> m]
             h == [i \in 0 .. m |-> IF i = m THEN x ELSE g[i]]
  <2> HIDE DEF x
  <2>3. /\ h = [i \in 0 .. m |-> h[i]] /\ h[m] = x
        /\ \A i \in 0 .. m - 1 : h[i] = g[i]
    BY <1>4, <1>6
  <2> HIDE DEF h
  <2>4. h[0] = <<>>
    <3>1. 0 \in 0 .. m - 1
      BY <1>4, <1>6
    <3>2. h[0] = g[0]
      BY <2>3, <3>1
    <3> QED BY <2>2, <3>2 DEF Lined
  <2>5. ASSUME NEW i \in 1 .. m PROVE h[i] = h[i - 1] \o [k \in 1 .. times[i] |-> i]
    <3>1. CASE i = m
      <4>0. m - 1 \in 0 .. m - 1
        BY <1>4, <1>6
      <4>1. h[m - 1] = g[m - 1]
        BY <2>3, <4>0
      <4> QED BY <2>3, <3>1, <4>1 DEF x
    <3>2. CASE i # m
      <4>1. i \in 1 .. m - 1 /\ i \in 0 .. m - 1 /\ i - 1 \in 0 .. m - 1
        BY <1>4, <3>2
      <4>2. h[i] = g[i] /\ h[i - 1] = g[i - 1]
        BY <2>3, <4>1
      <4>3. g[i] = g[i - 1] \o [k \in 1 .. times[i] |-> i]
        BY <2>2, <4>1 DEF Lined
      <4> QED BY <4>2, <4>3
    <3> QED BY <3>1, <3>2
  <2>6. Lined(h, times, m)
    BY <2>3, <2>4, <2>5 DEF Lined
  <2> QED BY <1>4, <2>6
<1> QED BY <1>5, <1>6

LEMMA InLogOrderAscends ==
  ASSUME log \in Seq(EventKinds), NEW times \in [1 .. Len(log) -> Nat]
  PROVE  Ascending(InLogOrder(times), times, Len(log))
<1> DEFINE n == Len(log)
           Is(f) == f = [i \in 0 .. n |-> IF i = 0 THEN <<>>
                                ELSE f[i - 1] \o [k \in 1 .. times[i] |-> i]]
           upTo == CHOOSE f : Is(f)
<1>1. InLogOrder(times) = upTo[n]
  BY DEF InLogOrder
<1>2. n \in Nat
  OBVIOUS
<1>3. PICK g : Lined(g, times, n)
  BY <1>2, LinedExist
<1>4. Is(g)
  <2>1. \A i \in 0 .. n : g[i] = IF i = 0 THEN <<>> ELSE g[i - 1] \o [k \in 1 .. times[i] |-> i]
    <3> TAKE i \in 0 .. n
    <3>1. CASE i = 0
      BY <1>3, <3>1 DEF Lined
    <3>2. CASE i # 0
      <4>1. i \in 1 .. n
        BY <1>2, <3>2
      <4> QED BY <1>3, <3>2, <4>1 DEF Lined
    <3> QED BY <3>1, <3>2
  <2>2. g = [i \in 0 .. n |-> g[i]]
    BY <1>3 DEF Lined
  <2> QED BY <2>1, <2>2
<1>5. Is(upTo)
  BY <1>4
<1>6. times \in [1 .. n -> Nat]
  OBVIOUS
<1> HIDE DEF upTo, n
<1>7. Lined(upTo, times, n)
  <2>1. upTo[0] = <<>>
    BY <1>2, <1>5
  <2>2. upTo = [i \in 0 .. n |-> upTo[i]]
    BY <1>5, Zenon
  <2>3. ASSUME NEW i \in 1 .. n PROVE upTo[i] = upTo[i - 1] \o [k \in 1 .. times[i] |-> i]
    <3>1. i \in 0 .. n /\ i # 0
      BY <1>2
    <3> QED BY <1>5, <3>1
  <2> QED BY <2>1, <2>2, <2>3 DEF Lined
<1>8. Ascending(upTo[n], times, n)
  BY <1>2, <1>6, <1>7, LinedUp
<1> QED BY <1>1, <1>8 DEF n

-----------------------------------------------------------------------------
(***************************************************************************)
(* What the session does with a queue.                                     *)
(***************************************************************************)

LEMMA InQueue ==
  ASSUME NEW S, NEW q \in Seq(S), NEW x
  PROVE  x \in ToSet(q) <=> \E i \in 1 .. Len(q) : q[i] = x
BY DEF ToSet

LEMMA EmptyQueue == ASSUME NEW l, NEW P PROVE GapFree(<<>>, l, P) /\ ToSet(<<>>) = {}
BY DEF GapFree, ToSet

\* The first of a queue is taken from it.
LEMMA GapFreeTail ==
  ASSUME NEW K \in Nat, NEW l \in Nat, NEW P, NEW q \in Seq(1 .. K), q # <<>>, GapFree(q, l, P)
  PROVE  /\ Head(q) \in 1 .. K /\ Tail(q) \in Seq(1 .. K)
         /\ \A m \in (l + 1) .. (Head(q) - 1) : m \in P
         /\ \A m \in ToSet(q) : m = Head(q) \/ m \in ToSet(Tail(q))
         /\ \A k \in Nat : k >= l /\ k >= Head(q) => GapFree(Tail(q), k, P)
<1> DEFINE h == Head(q)
           t == Tail(q)
<1>1. /\ h = q[1] /\ t \in Seq(1 .. K) /\ Len(t) = Len(q) - 1 /\ Len(q) \in Nat /\ Len(q) > 0
      /\ \A i \in 1 .. Len(t) : t[i] = q[i + 1]
  OBVIOUS
<1> HIDE DEF h, t
<1>2. \A i \in 1 .. Len(q) : q[i] \in 1 .. K
  OBVIOUS
<1>3. h \in 1 .. K
  BY <1>1, <1>2
<1>4. \A m \in (l + 1) .. (h - 1) : m \in P
  <2>1. 1 \in 1 .. Len(q)
    BY <1>1
  <2>2. \A m \in (l + 1) .. (q[1] - 1) : m \in P \/ \E j \in 1 .. 1 - 1 : q[j] = m
    BY <2>1 DEF GapFree
  <2> QED BY <1>1, <2>2
<1>5. ASSUME NEW m \in ToSet(q) PROVE m = h \/ m \in ToSet(t)
  <2>1. PICK i \in 1 .. Len(q) : q[i] = m
    BY InQueue
  <2>2. CASE i = 1
    BY <1>1, <2>1, <2>2
  <2>3. CASE i # 1
    <3>1. i - 1 \in 1 .. Len(t) /\ t[i - 1] = m
      BY <1>1, <2>1, <2>3
    <3> QED BY <1>1, <3>1, InQueue
  <2> QED BY <2>2, <2>3
<1>6. ASSUME NEW k \in Nat, k >= l, k >= h PROVE GapFree(t, k, P)
  <2>1. SUFFICES ASSUME NEW i \in 1 .. Len(t), NEW m \in (k + 1) .. (t[i] - 1), m \notin P
                 PROVE  \E j \in 1 .. i - 1 : t[j] = m
    BY DEF GapFree
  <2>8. i + 1 \in 1 .. Len(q)
    BY <1>1
  <2>2. i + 1 \in 1 .. Len(q) /\ t[i] = q[i + 1] /\ q[i + 1] \in 1 .. K
    BY <1>1, <1>2, <2>8
  <2>3. m \in (l + 1) .. (q[i + 1] - 1)
    BY <1>6, <2>2
  <2>4. PICK j \in 1 .. (i + 1) - 1 : q[j] = m
    BY <2>1, <2>2, <2>3 DEF GapFree
  <2>5. j # 1
    BY <1>1, <1>3, <1>6, <2>4
  <2>6. j - 1 \in 1 .. i - 1 /\ j - 1 \in 1 .. Len(t)
    BY <1>1, <2>4, <2>5
  <2>9. (j - 1) + 1 = j
    BY <2>4
  <2>7. t[j - 1] = m
    BY <1>1, <2>4, <2>6, <2>9
  <2> QED BY <2>6, <2>7
<1> QED BY <1>1, <1>3, <1>4, <1>5, <1>6 DEF h, t

\* One more comes to the end of a queue.
LEMMA QueueAppend ==
  ASSUME NEW S, NEW q \in Seq(S), NEW n \in S
  PROVE  /\ Append(q, n) \in Seq(S) /\ Append(q, n) # <<>>
         /\ ToSet(Append(q, n)) = ToSet(q) \cup {n}
<1> DEFINE p == Append(q, n)
<1>1. /\ p \in Seq(S) /\ p # <<>> /\ Len(p) = Len(q) + 1 /\ p[Len(q) + 1] = n
      /\ Len(q) \in Nat /\ \A i \in 1 .. Len(q) : p[i] = q[i]
  OBVIOUS
<1> HIDE DEF p
<1>2. ASSUME NEW x PROVE x \in ToSet(p) <=> x \in ToSet(q) \cup {n}
  <2>1. ASSUME x \in ToSet(p) PROVE x \in ToSet(q) \cup {n}
    <3>1. PICK i \in 1 .. Len(p) : p[i] = x
      BY <1>1, <2>1, InQueue
    <3>2. CASE i = Len(q) + 1
      BY <1>1, <3>1, <3>2
    <3>3. CASE i # Len(q) + 1
      <4>1. i \in 1 .. Len(q) /\ q[i] = x
        BY <1>1, <3>1, <3>3
      <4> QED BY <4>1, InQueue
    <3> QED BY <3>2, <3>3
  <2>2. ASSUME x \in ToSet(q) PROVE x \in ToSet(p)
    <3>1. PICK i \in 1 .. Len(q) : q[i] = x
      BY <2>2, InQueue
    <3>2. i \in 1 .. Len(p) /\ p[i] = x
      BY <1>1, <3>1
    <3> QED BY <1>1, <3>2, InQueue
  <2>3. n \in ToSet(p)
    <3>1. Len(q) + 1 \in 1 .. Len(p)
      BY <1>1
    <3> QED BY <1>1, <3>1, InQueue
  <2> QED BY <2>1, <2>2, <2>3
<1> QED BY <1>1, <1>2 DEF p

LEMMA GapFreeAppend ==
  ASSUME NEW K \in Nat, NEW l \in Nat, NEW P, NEW q \in Seq(1 .. K), GapFree(q, l, P), NEW n \in 1 .. K,
         \A m \in (l + 1) .. (n - 1) : m \in P \/ m \in ToSet(q)
  PROVE  GapFree(Append(q, n), l, P)
<1> DEFINE p == Append(q, n)
<1>1. /\ p \in Seq(1 .. K) /\ Len(p) = Len(q) + 1 /\ p[Len(q) + 1] = n
      /\ Len(q) \in Nat /\ \A i \in 1 .. Len(q) : p[i] = q[i]
  OBVIOUS
<1> HIDE DEF p
<1>2. SUFFICES ASSUME NEW i \in 1 .. Len(p), NEW m \in (l + 1) .. (p[i] - 1), m \notin P
               PROVE  \E j \in 1 .. i - 1 : p[j] = m
  BY DEF GapFree, p
<1>3. CASE i = Len(q) + 1
  <2>1. m \in ToSet(q)
    BY <1>1, <1>2, <1>3
  <2>2. PICK j \in 1 .. Len(q) : q[j] = m
    BY <2>1, InQueue
  <2>4. j \in 1 .. i - 1
    BY <1>1, <1>3
  <2>3. j \in 1 .. i - 1 /\ p[j] = m
    BY <1>1, <2>2, <2>4
  <2> QED BY <2>3
<1>4. CASE i # Len(q) + 1
  <2>1. i \in 1 .. Len(q) /\ p[i] = q[i]
    BY <1>1, <1>4
  <2>2. PICK j \in 1 .. i - 1 : q[j] = m
    BY <1>2, <2>1 DEF GapFree
  <2>3. j \in 1 .. Len(q)
    BY <2>1, <2>2, <1>1
  <2>4. p[j] = m
    BY <1>1, <2>2, <2>3
  <2> QED BY <2>2, <2>4
<1> QED BY <1>3, <1>4

\* A sorted queue has no gap if nothing is missing from it.
LEMMA GapFreeSorted ==
  ASSUME NEW K \in Nat, NEW l \in Nat, NEW P, NEW times, NEW q, Ascending(q, times, K),
         \A m \in (l + 1) .. K : m \in P \/ times[m] > 0
  PROVE  GapFree(q, l, P)
<1>1. SUFFICES ASSUME NEW i \in 1 .. Len(q), NEW m \in (l + 1) .. (q[i] - 1), m \notin P
               PROVE  \E j \in 1 .. i - 1 : q[j] = m
  BY DEF GapFree
<1>2. q \in Seq(1 .. K)
  BY Zenon DEF Ascending
<1>3. Len(q) \in Nat /\ \A j \in 1 .. Len(q) : q[j] \in 1 .. K
  BY <1>2, Elements
<1>4. m \in 1 .. K /\ m \in (l + 1) .. K /\ m < q[i]
  BY <1>3
<1>5. times[m] > 0
  BY <1>1, <1>4
<1>6. PICK j \in 1 .. Len(q) : q[j] = m
  BY <1>4, <1>5 DEF Ascending
<1>7. j < i
  <2>1. SUFFICES ASSUME i < j PROVE FALSE
    BY <1>3, <1>4, <1>6
  <2>2. i \in 1 .. j - 1
    BY <1>3, <2>1
  <2>3. q[i] <= q[j]
    BY <2>2, <1>6, Zenon DEF Ascending
  <2> QED BY <1>3, <1>4, <1>6, <2>3
<1> QED BY <1>3, <1>6, <1>7

-----------------------------------------------------------------------------
(***************************************************************************)
(* What the session does with an event.                                    *)
(***************************************************************************)

\* From s to r, event h is sent or, if it was sent already, passed over.
Sends(s, r, h) ==
  /\ r.writer # "none"
  /\ IF h <= s.latest THEN r.frame = 0 /\ r.latest = s.latest ELSE r.frame = h /\ r.latest = h

IsNext(h, s, P) == \A m \in (s.latest + 1) .. (h - 1) : m \in P

LEMMA SentNext ==
  ASSUME NEW K \in Nat, NEW P, NEW G \in SUBSET Nat, NEW s, SessionTyped(s, K), SentOK(s, P, G),
         s.frame = 0, NEW h \in 1 .. K, IsNext(h, s, P), NEW r, Sends(s, r, h)
  PROVE  SentOK(r, P, G) /\ r.latest >= s.latest /\ r.latest >= h /\ r.latest \in Nat
<1>1. s.latest \in 0 .. K
  BY DEF SessionTyped
<1>2. CASE h <= s.latest
  BY <1>1, <1>2 DEF SentOK, Sends
<1>3. CASE ~(h <= s.latest)
  <2>1. r.frame = h /\ r.latest = h /\ r.writer # "none"
    BY <1>3 DEF Sends
  <2>2. \A x \in G : x <= r.latest /\ x < r.frame
    <3>1. \A x \in G : x <= s.latest /\ x \in Nat
      BY DEF SentOK
    <3> QED BY <1>1, <1>3, <2>1, <3>1
  <2>3. ASSUME NEW m \in 1 .. r.latest PROVE m \in G \/ m = r.frame \/ m \in P
    <3>1. CASE m \in 1 .. s.latest
      BY <2>1, <3>1 DEF SentOK
    <3>2. CASE m \in (s.latest + 1) .. (h - 1)
      BY <3>2 DEF IsNext
    <3> QED BY <1>1, <2>1, <3>1, <3>2
  <2> QED BY <1>1, <1>3, <2>1, <2>2, <2>3 DEF SentOK
<1> QED BY <1>2, <1>3

\* The session with nothing in flight.
Freed(s) == [s EXCEPT !.writer = "none", !.frame = 0]

LEMMA DrainOK ==
  ASSUME NEW K \in Nat, NEW P, NEW G \in SUBSET Nat, NEW s, SessionTyped(s, K),
         SessionOK(Freed(s), K, P, G)
  PROVE  SessionOK(DrainNext(s), K, P, G) /\ DrainNext(s).stage = s.stage
<1>1. PICK f : f = Freed(s)
  OBVIOUS
<1>2. /\ SessionOK(f, K, P, G) /\ SessionTyped(f, K) /\ f.frame = 0
      /\ f = [s EXCEPT !.writer = "none", !.frame = 0]
  BY <1>1 DEF SessionOK, SessionTyped, Freed
<1>3. CASE s.pending = <<>> \/ Over(s)
  <2>1. DrainNext(s) = f
    BY <1>2, <1>3 DEF DrainNext
  <2>2. f.stage = s.stage
    BY <1>2 DEF SessionTyped
  <2> QED BY <1>2, <2>1, <2>2
<1>4. CASE s.pending # <<>> /\ ~Over(s)
  <2> DEFINE h == Head(s.pending)
             t == Tail(s.pending)
  <2>1. /\ f.stage = s.stage /\ f.subscribed = s.subscribed /\ f.replaying = s.replaying
        /\ f.todo = s.todo /\ f.latest = s.latest /\ f.buffered = s.buffered
        /\ f.pending = s.pending /\ f.signalling = s.signalling
        /\ f.overflowed = s.overflowed /\ f.terminal = s.terminal /\ f.stopped = s.stopped
    BY <1>2 DEF SessionTyped
  <2>2. ~f.replaying /\ f.todo = <<>> /\ GapFree(f.pending, f.latest, P)
    BY <1>2, <1>4, <2>1 DEF SessionOK, QueuesOK
  <2>3. f.pending \in Seq(1 .. K) /\ f.latest \in Nat /\ f.pending # <<>>
    BY <1>2, <1>4, <2>1 DEF SessionTyped
  <2>4. /\ h \in 1 .. K /\ t \in Seq(1 .. K)
        /\ \A m \in (f.latest + 1) .. (h - 1) : m \in P
        /\ \A m \in ToSet(f.pending) : m = h \/ m \in ToSet(t)
        /\ \A k \in Nat : k >= f.latest /\ k >= h => GapFree(t, k, P)
    BY <2>1, <2>2, <2>3, GapFreeTail
  <2> HIDE DEF h, t
  <2>5. PICK r : r = DrainNext(s)
    OBVIOUS
  <2>6. r = IF h <= s.latest
            THEN [s EXCEPT !.pending = t, !.writer = "drain", !.frame = 0]
            ELSE [s EXCEPT !.pending = t, !.writer = "drain", !.frame = h, !.latest = h]
    BY <1>4, <2>5 DEF DrainNext, Send, SessionTyped, h, t
  <2>7. /\ r.writer = "drain" /\ r.pending = t
        /\ r.stage = s.stage /\ r.subscribed = s.subscribed /\ r.replaying = s.replaying
        /\ r.todo = s.todo /\ r.buffered = s.buffered /\ r.signalling = s.signalling
        /\ r.overflowed = s.overflowed /\ r.terminal = s.terminal /\ r.stopped = s.stopped
        /\ IF h <= s.latest THEN r.frame = 0 /\ r.latest = s.latest
           ELSE r.frame = h /\ r.latest = h
    BY <2>6 DEF SessionTyped
  <2>8. SessionTyped(r, K)
    <3>1. h \in 0 .. K /\ 0 \in 0 .. K /\ t \in Seq(1 .. K)
      BY <2>4
    <3>2. CASE h <= s.latest
      <4>1. r = [s EXCEPT !.pending = t, !.writer = "drain", !.frame = 0]
        BY <2>6, <3>2
      <4> QED BY <3>1, <4>1 DEF SessionTyped
    <3>3. CASE ~(h <= s.latest)
      <4>1. r = [s EXCEPT !.pending = t, !.writer = "drain", !.frame = h, !.latest = h]
        BY <2>6, <3>3
      <4> QED BY <3>1, <4>1 DEF SessionTyped
    <3> QED BY <3>2, <3>3
  <2>9. SentOK(r, P, G) /\ r.latest >= f.latest /\ r.latest >= h /\ r.latest \in Nat
    <3>1. SentOK(f, P, G)
      BY <1>2 DEF SessionOK
    <3>2. Sends(f, r, h)
      BY <2>1, <2>7 DEF Sends
    <3>3. IsNext(h, f, P) /\ h \in 1 .. K
      BY <2>4 DEF IsNext
    <3>4. SessionTyped(f, K) /\ f.frame = 0
      BY <1>2
    <3> QED BY <3>1, <3>2, <3>3, <3>4, SentNext
  <2>10. QueuesOK(r, P)
    <3>1. GapFree(r.pending, r.latest, P)
      BY <2>4, <2>7, <2>9
    <3>2. r.todo = <<>> /\ ~r.replaying /\ GapFree(r.todo, r.latest, P)
      BY <2>1, <2>2, <2>7, EmptyQueue
    <3>3. r.stage \notin {"replay", "batch"}
      BY <1>2, <2>1, <2>2, <2>7 DEF SessionOK, QueuesOK
    <3> QED BY <3>1, <3>2, <3>3 DEF QueuesOK
  <2>11. NothingLost(r, K, P)
    <3>1. Over(r) <=> Over(f)
      BY <2>1, <2>7 DEF Over
    <3>2. ASSUME r.subscribed, ~Over(r), NEW m \in (r.latest + 1) .. K PROVE m \in P \/ m \in Hands(r)
      <4>1. m \in (f.latest + 1) .. K /\ m # h
        BY <2>3, <2>4, <2>9
      <4>2. m \in P \/ m \in Hands(f)
        BY <1>2, <2>1, <2>7, <3>1, <3>2, <4>1 DEF SessionOK, NothingLost
      <4>3. Hands(f) = ToSet(<<>>) \cup ToSet(f.pending) /\ Hands(r) = ToSet(<<>>) \cup ToSet(t)
        BY <2>1, <2>2, <2>7 DEF Hands
      <4> QED BY <2>4, <4>1, <4>2, <4>3
    <3>3. /\ r.buffered # <<>> /\ ~Over(r) => r.subscribed
          /\ r.signalling => r.overflowed
      BY <1>2, <2>1, <2>7, <3>1 DEF SessionOK, NothingLost
    <3> QED BY <3>2, <3>3 DEF NothingLost
  <2> QED BY <2>5, <2>7, <2>8, <2>9, <2>10, <2>11 DEF SessionOK
<1> QED BY <1>3, <1>4

LEMMA ReplaySendOK ==
  ASSUME NEW K \in Nat, NEW P, NEW G \in SUBSET Nat, NEW s, SessionOK(s, K, P, G),
         s.writer = "none", s.todo # <<>>
  PROVE  LET r == Send([s EXCEPT !.todo = Tail(@)], "replay", Head(s.todo))
         IN  SessionOK(r, K, P, G)
<1> DEFINE h == Head(s.todo)
           t == Tail(s.todo)
<1>1. SessionTyped(s, K) /\ s.frame = 0 /\ SentOK(s, P, G)
  BY DEF SessionOK, SentOK
<1>2. s.replaying /\ s.pending = <<>> /\ GapFree(s.todo, s.latest, P)
  <2>1. s.replaying \in BOOLEAN
    BY <1>1 DEF SessionTyped
  <2> QED BY <2>1 DEF SessionOK, QueuesOK
<1>3. s.todo \in Seq(1 .. K) /\ s.latest \in Nat
  BY <1>1 DEF SessionTyped
<1>4. /\ h \in 1 .. K /\ t \in Seq(1 .. K)
      /\ \A m \in (s.latest + 1) .. (h - 1) : m \in P
      /\ \A m \in ToSet(s.todo) : m = h \/ m \in ToSet(t)
      /\ \A k \in Nat : k >= s.latest /\ k >= h => GapFree(t, k, P)
  BY <1>2, <1>3, GapFreeTail
<1>5. PICK r : r = Send([s EXCEPT !.todo = Tail(@)], "replay", Head(s.todo))
  OBVIOUS
<1> HIDE DEF h, t
<1>6. r = IF h <= s.latest
          THEN [s EXCEPT !.todo = t, !.writer = "replay", !.frame = 0]
          ELSE [s EXCEPT !.todo = t, !.writer = "replay", !.frame = h, !.latest = h]
  BY <1>1, <1>5 DEF Send, SessionTyped, h, t
<1>7. /\ r.writer = "replay" /\ r.todo = t
      /\ r.stage = s.stage /\ r.subscribed = s.subscribed /\ r.replaying = s.replaying
      /\ r.pending = s.pending /\ r.buffered = s.buffered /\ r.signalling = s.signalling
      /\ r.overflowed = s.overflowed /\ r.terminal = s.terminal /\ r.stopped = s.stopped
      /\ IF h <= s.latest THEN r.frame = 0 /\ r.latest = s.latest
         ELSE r.frame = h /\ r.latest = h
  BY <1>1, <1>6 DEF SessionTyped
<1>8. SessionTyped(r, K)
  <2>1. h \in 0 .. K
    BY <1>4
  <2>2. CASE h <= s.latest
    BY <1>1, <1>4, <1>6, <2>2 DEF SessionTyped
  <2>3. CASE ~(h <= s.latest)
    BY <1>1, <1>4, <1>6, <2>1, <2>3 DEF SessionTyped
  <2> QED BY <2>2, <2>3
<1>9. SentOK(r, P, G) /\ r.latest >= s.latest /\ r.latest >= h /\ r.latest \in Nat
  <2>1. Sends(s, r, h)
    BY <1>7 DEF Sends
  <2>2. IsNext(h, s, P) /\ h \in 1 .. K
    BY <1>4 DEF IsNext
  <2> QED BY <1>1, <2>1, <2>2, SentNext
<1>10. QueuesOK(r, P)
  <2>1. GapFree(r.todo, r.latest, P)
    BY <1>4, <1>7, <1>9
  <2> QED BY <1>2, <1>7, <2>1 DEF QueuesOK
<1>11. NothingLost(r, K, P)
  <2>1. Over(r) <=> Over(s)
    BY <1>7 DEF Over
  <2>2. ASSUME r.subscribed, ~Over(r), NEW m \in (r.latest + 1) .. K PROVE m \in P \/ m \in Hands(r)
    <3>1. m \in (s.latest + 1) .. K /\ m # h
      BY <1>3, <1>4, <1>9
    <3>2. m \in P \/ m \in Hands(s)
      BY <1>7, <2>1, <2>2, <3>1 DEF SessionOK, NothingLost
    <3>3. Hands(s) = ToSet(s.todo) \cup ToSet(s.buffered) /\ Hands(r) = ToSet(t) \cup ToSet(s.buffered)
      BY <1>2, <1>7 DEF Hands
    <3> QED BY <1>4, <3>1, <3>2, <3>3
  <2>3. /\ r.buffered # <<>> /\ ~Over(r) => r.subscribed
        /\ r.signalling => r.overflowed
    BY <1>7, <2>1 DEF SessionOK, NothingLost
  <2> QED BY <2>2, <2>3 DEF NothingLost
<1> QED BY <1>5, <1>8, <1>9, <1>10, <1>11 DEF SessionOK

LEMMA SeqWider == ASSUME NEW S, NEW T, S \subseteq T, NEW q \in Seq(S) PROVE q \in Seq(T)
<1>1. \A i \in 1 .. Len(q) : q[i] \in T
  OBVIOUS
<1> QED BY <1>1

LEMMA TypedWider ==
  ASSUME NEW K \in Nat, NEW L \in {K, K + 1}, NEW s, SessionTyped(s, K) PROVE SessionTyped(s, L)
<1>1. 1 .. K \subseteq 1 .. L /\ 0 .. K \subseteq 0 .. L
  OBVIOUS
<1>2. s.todo \in Seq(1 .. K) /\ s.buffered \in Seq(1 .. K) /\ s.pending \in Seq(1 .. K)
  BY DEF SessionTyped
<1>3. s.todo \in Seq(1 .. L) /\ s.buffered \in Seq(1 .. L) /\ s.pending \in Seq(1 .. L)
  BY <1>1, <1>2, SeqWider
<1> QED BY <1>1, <1>3 DEF SessionTyped

\* n is one of the first K events, or the one after them; L follow then.
Reaches(L, K, n) == L \in {K, K + 1} /\ n \in 1 .. L /\ (L = K + 1 => n = L)

LEMMA ReceiveOK ==
  ASSUME NEW K \in Nat, NEW L, NEW P, NEW G \in SUBSET Nat,
         NEW s, SessionOK(s, K, P, G), NEW n, Reaches(L, K, n)
  PROVE  SessionOK(Receive(s, n), L, P, G) /\ Receive(s, n).stage = s.stage
<1>0. L \in {K, K + 1} /\ n \in 1 .. L /\ (L = K + 1 => n = L)
  BY DEF Reaches
<1>1. L \in Nat /\ SessionTyped(s, L) /\ SentOK(s, P, G) /\ QueuesOK(s, P) /\ NothingLost(s, K, P)
  BY <1>0, TypedWider DEF SessionOK
<1>2. s.latest \in Nat /\ s.replaying \in BOOLEAN /\ s.overflowed \in BOOLEAN
  BY <1>1 DEF SessionTyped
<1>3. CASE ~s.subscribed \/ Over(s)
  <2>1. NothingLost(s, L, P)
    BY <1>0, <1>1, <1>3 DEF NothingLost
  <2>2. Receive(s, n) = s
    BY <1>3 DEF Receive
  <2> QED BY <1>1, <2>1, <2>2 DEF SessionOK
<1>4. CASE /\ s.subscribed /\ ~Over(s)
           /\ Len(IF s.replaying THEN s.buffered ELSE s.pending) >= MaxBuffered
  <2>1. PICK r : r = Receive(s, n)
    OBVIOUS
  <2>2. r = Overflow(s)
    BY <1>4, <2>1 DEF Receive
  <2>3. \/ r = [s EXCEPT !.overflowed = TRUE, !.pending = <<>>, !.buffered = <<>>,
                         !.stopped = TRUE, !.subscribed = FALSE]
        \/ r = [s EXCEPT !.overflowed = TRUE, !.pending = <<>>, !.buffered = <<>>,
                         !.signalling = TRUE]
    BY <1>1, <2>2 DEF Overflow, Dropped, Stopped, SessionTyped
  <2>4. /\ r.overflowed /\ r.pending = <<>> /\ r.buffered = <<>>
        /\ r.stage = s.stage /\ r.replaying = s.replaying /\ r.todo = s.todo /\ r.latest = s.latest
        /\ r.writer = s.writer /\ r.frame = s.frame
    BY <1>1, <2>3 DEF SessionTyped
  <2>5. SessionTyped(r, L)
    <3>1. <<>> \in Seq(1 .. L)
      OBVIOUS
    <3>2. SessionTyped(s, L)
      BY <1>1
    <3>3. CASE r = [s EXCEPT !.overflowed = TRUE, !.pending = <<>>, !.buffered = <<>>,
                             !.stopped = TRUE, !.subscribed = FALSE]
      BY <3>1, <3>2, <3>3 DEF SessionTyped
    <3>4. CASE r = [s EXCEPT !.overflowed = TRUE, !.pending = <<>>, !.buffered = <<>>,
                             !.signalling = TRUE]
      BY <3>1, <3>2, <3>4 DEF SessionTyped
    <3> QED BY <2>3, <3>3, <3>4
  <2>6. SentOK(r, P, G)
    BY <1>1, <2>4 DEF SentOK
  <2>7. QueuesOK(r, P)
    BY <1>1, <2>4, EmptyQueue DEF QueuesOK
  <2>8. NothingLost(r, L, P)
    BY <2>4 DEF NothingLost, Over
  <2> QED BY <2>1, <2>4, <2>5, <2>6, <2>7, <2>8 DEF SessionOK
<1>5. CASE /\ s.subscribed /\ ~Over(s) /\ s.replaying
           /\ ~(Len(s.buffered) >= MaxBuffered)
  <2>1. PICK q : q = Append(s.buffered, n)
    OBVIOUS
  <2>2. s.buffered \in Seq(1 .. L)
    BY <1>1 DEF SessionTyped
  <2>3. q \in Seq(1 .. L) /\ ToSet(q) = ToSet(s.buffered) \cup {n}
    <3>1. PICK S : S = 1 .. L
      OBVIOUS
    <3>2. s.buffered \in Seq(S) /\ n \in S
      BY <1>0, <2>2, <3>1
    <3>3. q \in Seq(S) /\ ToSet(q) = ToSet(s.buffered) \cup {n}
      BY <2>1, <3>2, QueueAppend
    <3> QED BY <3>1, <3>3
  <2>4. PICK r : r = Receive(s, n)
    OBVIOUS
  <2>5. r = [s EXCEPT !.buffered = q]
    BY <1>1, <1>5, <2>1, <2>4 DEF Receive, Buffer, SessionTyped
  <2>6. /\ r.buffered = q /\ r.stage = s.stage /\ r.subscribed = s.subscribed
        /\ r.replaying = s.replaying /\ r.todo = s.todo /\ r.latest = s.latest
        /\ r.pending = s.pending /\ r.writer = s.writer /\ r.frame = s.frame
        /\ r.signalling = s.signalling /\ r.overflowed = s.overflowed /\ r.terminal = s.terminal
    BY <1>1, <2>5 DEF SessionTyped
  <2>7. SessionTyped(r, L)
    BY <1>1, <2>3, <2>5 DEF SessionTyped
  <2>8. SentOK(r, P, G) /\ QueuesOK(r, P)
    BY <1>1, <2>6 DEF SentOK, QueuesOK
  <2>9. ASSUME NEW m \in (r.latest + 1) .. L PROVE m \in P \/ m \in Hands(r)
    <3>1. Hands(s) = ToSet(s.todo) \cup ToSet(s.buffered) /\ Hands(r) = ToSet(s.todo) \cup ToSet(q)
      BY <1>5, <2>6 DEF Hands
    <3>2. CASE m = n
      BY <2>3, <3>1, <3>2
    <3>3. CASE m # n
      <4>1. m \in (s.latest + 1) .. K
        BY <1>0, <1>2, <2>6, <3>3
      <4>2. m \in P \/ m \in Hands(s)
        BY <1>1, <1>5, <4>1 DEF NothingLost
      <4> QED BY <2>3, <3>1, <4>2
    <3> QED BY <3>2, <3>3
  <2>10. NothingLost(r, L, P)
    BY <1>1, <1>5, <2>6, <2>9 DEF NothingLost
  <2> QED BY <2>4, <2>6, <2>7, <2>8, <2>10 DEF SessionOK
<1>6. CASE /\ s.subscribed /\ ~Over(s) /\ ~s.replaying
           /\ ~(Len(s.pending) >= MaxBuffered)
  <2>1. PICK q : q = Append(s.pending, n)
    OBVIOUS
  <2>2. s.pending \in Seq(1 .. L)
    BY <1>1 DEF SessionTyped
  <2>3. q \in Seq(1 .. L) /\ ToSet(q) = ToSet(s.pending) \cup {n}
    <3>1. PICK S : S = 1 .. L
      OBVIOUS
    <3>2. s.pending \in Seq(S) /\ n \in S
      BY <1>0, <2>2, <3>1
    <3>3. q \in Seq(S) /\ ToSet(q) = ToSet(s.pending) \cup {n}
      BY <2>1, <3>2, QueueAppend
    <3> QED BY <3>1, <3>3
  <2>4. s.todo = <<>> /\ GapFree(s.pending, s.latest, P) /\ s.stage \notin {"replay", "batch"}
    BY <1>1, <1>6 DEF QueuesOK
  <2>5. Hands(s) = ToSet(s.pending)
    BY <1>6, <2>4, EmptyQueue DEF Hands
  <2>6. \A m \in (s.latest + 1) .. K : m \in P \/ m \in ToSet(s.pending)
    BY <1>1, <1>6, <2>5 DEF NothingLost
  <2>7. \A m \in (s.latest + 1) .. (n - 1) : m \in P \/ m \in ToSet(s.pending)
    BY <1>0, <1>2, <2>6
  <2>8. GapFree(q, s.latest, P)
    BY <1>0, <1>1, <1>2, <2>1, <2>2, <2>4, <2>7, GapFreeAppend
  <2>9. PICK r : r = [s EXCEPT !.pending = Append(@, n)]
    OBVIOUS
  <2>10. r = [s EXCEPT !.pending = q]
    BY <1>1, <2>1, <2>9 DEF SessionTyped
  <2>11. /\ r.pending = q /\ r.stage = s.stage /\ r.subscribed = s.subscribed
         /\ r.replaying = s.replaying /\ r.todo = s.todo /\ r.latest = s.latest
         /\ r.buffered = s.buffered /\ r.writer = s.writer /\ r.frame = s.frame
         /\ r.signalling = s.signalling /\ r.overflowed = s.overflowed /\ r.terminal = s.terminal
    BY <1>1, <2>10 DEF SessionTyped
  <2>12. SessionTyped(r, L)
    BY <1>1, <2>3, <2>10 DEF SessionTyped
  <2>13. SentOK(r, P, G)
    BY <1>1, <2>11 DEF SentOK
  <2>14. QueuesOK(r, P)
    BY <1>6, <2>4, <2>8, <2>11, EmptyQueue DEF QueuesOK
  <2>15. NothingLost(r, L, P)
    <3>1. Hands(r) = ToSet(q)
      BY <1>6, <2>4, <2>11, EmptyQueue DEF Hands
    <3>2. ASSUME NEW m \in (r.latest + 1) .. L PROVE m \in P \/ m \in ToSet(q)
      <4>1. CASE m = n
        BY <2>3, <4>1
      <4>2. CASE m # n
        <5>1. m \in (s.latest + 1) .. K
          BY <1>0, <1>2, <2>11, <4>2
        <5> QED BY <2>3, <2>6, <5>1
      <4> QED BY <4>1, <4>2
    <3> QED BY <1>1, <1>6, <2>11, <3>1, <3>2 DEF NothingLost
  <2>16. SessionOK(r, L, P, G)
    BY <2>12, <2>13, <2>14, <2>15 DEF SessionOK
  <2>17. Receive(s, n) = IF Writing(s) THEN r ELSE DrainNext(r)
    BY <1>6, <2>9 DEF Receive, Push
  <2>18. CASE Writing(s)
    BY <2>11, <2>16, <2>17, <2>18
  <2>19. CASE ~Writing(s)
    <3>1. r.writer = "none" /\ r.frame = 0
      BY <2>11, <2>13, <2>19 DEF Writing, SentOK
    <3>2. Freed(r) = r
      BY <2>12, <3>1 DEF Freed, SessionTyped
    <3>3. SessionOK(Freed(r), L, P, G)
      BY <2>16, <3>2
    <3>4. SessionOK(DrainNext(r), L, P, G) /\ DrainNext(r).stage = r.stage
      BY <1>1, <2>12, <3>3, DrainOK
    <3> QED BY <2>11, <2>17, <2>19, <3>4
  <2> QED BY <2>18, <2>19
<1> QED BY <1>2, <1>3, <1>4, <1>5, <1>6

-----------------------------------------------------------------------------
(***************************************************************************)
(* A publication.                                                          *)
(***************************************************************************)

\* g follows the session s as it receives the first n of the events.
Follows(g, s, events, n) ==
  /\ g = [i \in 0 .. n |-> g[i]] /\ g[0] = s
  /\ \A i \in 1 .. n : g[i] = Receive(g[i - 1], events[i])

LEMMA FollowsExist ==
  ASSUME NEW s, NEW events, NEW n \in Nat PROVE \E g : Follows(g, s, events, n)
<1> DEFINE S == {k \in 0 .. n : ~\E g : Follows(g, s, events, k)}
<1>1. SUFFICES ASSUME S # {} PROVE FALSE
  OBVIOUS
<1>2. S \in SUBSET Nat
  OBVIOUS
<1> HIDE DEF S
<1>3. PICK m \in S : \A k \in S : m <= k
  BY <1>1, <1>2, Least
<1>4. m \in 0 .. n /\ ~\E g : Follows(g, s, events, m)
  BY DEF S
<1>5. CASE m = 0
  <2> DEFINE e == [i \in 0 .. 0 |-> s]
  <2>1. e = [i \in 0 .. 0 |-> e[i]] /\ e[0] = s
    OBVIOUS
  <2> HIDE DEF e
  <2>2. Follows(e, s, events, 0)
    BY <2>1 DEF Follows
  <2> QED BY <1>4, <1>5, <2>2
<1>6. CASE m # 0
  <2>1. m - 1 \in 0 .. n /\ m - 1 \notin S
    BY <1>3, <1>4, <1>6
  <2>2. PICK g : Follows(g, s, events, m - 1)
    BY <2>1 DEF S
  <2> DEFINE x == Receive(g[m - 1], events[m])
             h == [i \in 0 .. m |-> IF i = m THEN x ELSE g[i]]
  <2> HIDE DEF x
  <2>3. /\ h = [i \in 0 .. m |-> h[i]] /\ h[m] = x
        /\ \A i \in 0 .. m - 1 : h[i] = g[i]
    BY <1>4, <1>6
  <2> HIDE DEF h
  <2>4. h[0] = s
    <3>1. 0 \in 0 .. m - 1
      BY <1>4, <1>6
    <3>2. h[0] = g[0]
      BY <2>3, <3>1
    <3> QED BY <2>2, <3>2 DEF Follows
  <2>5. ASSUME NEW i \in 1 .. m PROVE h[i] = Receive(h[i - 1], events[i])
    <3>1. CASE i = m
      <4>0. m - 1 \in 0 .. m - 1
        BY <1>4, <1>6
      <4>1. h[m - 1] = g[m - 1]
        BY <2>3, <4>0
      <4> QED BY <2>3, <3>1, <4>1 DEF x
    <3>2. CASE i # m
      <4>1. i \in 1 .. m - 1 /\ i \in 0 .. m - 1 /\ i - 1 \in 0 .. m - 1
        BY <1>4, <3>2
      <4>2. h[i] = g[i] /\ h[i - 1] = g[i - 1]
        BY <2>3, <4>1
      <4>3. g[i] = Receive(g[i - 1], events[i])
        BY <2>2, <4>1 DEF Follows
      <4> QED BY <4>2, <4>3
    <3> QED BY <3>1, <3>2
  <2>6. Follows(h, s, events, m)
    BY <2>3, <2>4, <2>5 DEF Follows
  <2> QED BY <1>4, <2>6
<1> QED BY <1>5, <1>6

LEMMA OfferFollows ==
  ASSUME NEW s, NEW events, Len(events) \in Nat
  PROVE  \E g : Follows(g, s, events, Len(events)) /\ Offer(s, events) = g[Len(events)]
<1> DEFINE n == Len(events)
           Is(f) == f = [i \in 0 .. n |-> IF i = 0 THEN s ELSE Receive(f[i - 1], events[i])]
           after == CHOOSE f : Is(f)
<1>1. Offer(s, events) = after[n]
  BY DEF Offer
<1>2. n \in Nat
  OBVIOUS
<1>3. PICK g : Follows(g, s, events, n)
  BY <1>2, FollowsExist
<1>4. Is(g)
  <2>1. \A i \in 0 .. n : g[i] = IF i = 0 THEN s ELSE Receive(g[i - 1], events[i])
    <3> TAKE i \in 0 .. n
    <3>1. CASE i = 0
      BY <1>3, <3>1 DEF Follows
    <3>2. CASE i # 0
      <4>1. i \in 1 .. n
        BY <1>2, <3>2
      <4> QED BY <1>3, <3>2, <4>1 DEF Follows
    <3> QED BY <3>1, <3>2
  <2>2. g = [i \in 0 .. n |-> g[i]]
    BY <1>3 DEF Follows
  <2> QED BY <2>1, <2>2
<1>5. Is(after)
  BY <1>4
<1> HIDE DEF after, n
<1>6. Follows(after, s, events, n)
  <2>1. after[0] = s
    BY <1>2, <1>5
  <2>2. after = [i \in 0 .. n |-> after[i]]
    BY <1>5, Zenon
  <2>3. ASSUME NEW i \in 1 .. n PROVE after[i] = Receive(after[i - 1], events[i])
    <3>1. i \in 0 .. n /\ i # 0
      BY <1>2
    <3> QED BY <1>5, <3>1
  <2> QED BY <2>1, <2>2, <2>3 DEF Follows
<1> QED BY <1>1, <1>6 DEF n

\* Events of the log leave a sound session sound.
LEMMA FollowsOK ==
  ASSUME NEW K \in Nat, NEW P, NEW G \in SUBSET Nat, NEW s, SessionOK(s, K, P, G),
         NEW events, NEW n \in Nat, \A i \in 1 .. n : events[i] \in 1 .. K,
         NEW g, Follows(g, s, events, n)
  PROVE  \A i \in 0 .. n : SessionOK(g[i], K, P, G) /\ g[i].stage = s.stage
<1> DEFINE S == {k \in 0 .. n : ~(SessionOK(g[k], K, P, G) /\ g[k].stage = s.stage)}
<1>1. SUFFICES ASSUME S # {} PROVE FALSE
  OBVIOUS
<1>2. S \in SUBSET Nat
  OBVIOUS
<1> HIDE DEF S
<1>3. PICK m \in S : \A k \in S : m <= k
  BY <1>1, <1>2, Least
<1>4. m \in 0 .. n /\ ~(SessionOK(g[m], K, P, G) /\ g[m].stage = s.stage)
  BY DEF S
<1>5. m # 0
  BY <1>4 DEF Follows
<1>6. m \in 1 .. n /\ m - 1 \in 0 .. n /\ m - 1 \notin S
  BY <1>3, <1>4, <1>5
<1>7. PICK r : r = g[m - 1]
  OBVIOUS
<1>8. SessionOK(r, K, P, G) /\ r.stage = s.stage
  BY <1>6, <1>7 DEF S
<1>9. g[m] = Receive(r, events[m]) /\ events[m] \in 1 .. K
  BY <1>6, <1>7 DEF Follows
<1>10. Reaches(K, K, events[m])
  BY <1>9 DEF Reaches
<1>11. SessionOK(Receive(r, events[m]), K, P, G) /\ Receive(r, events[m]).stage = r.stage
  BY <1>8, <1>10, ReceiveOK
<1> QED BY <1>4, <1>8, <1>9, <1>11

LEMMA OfferOK ==
  ASSUME NEW K \in Nat, NEW P, NEW G \in SUBSET Nat, NEW s, SessionOK(s, K, P, G),
         NEW events \in Seq(1 .. K)
  PROVE  SessionOK(Offer(s, events), K, P, G) /\ Offer(s, events).stage = s.stage
<1>1. Len(events) \in Nat /\ \A i \in 1 .. Len(events) : events[i] \in 1 .. K
  BY Elements
<1> DEFINE n == Len(events)
<1>2. PICK g : Follows(g, s, events, n) /\ Offer(s, events) = g[n]
  BY <1>1, OfferFollows
<1>3. n \in Nat /\ n \in 0 .. n
  BY <1>1
<1> HIDE DEF n
<1>4. \A i \in 1 .. n : events[i] \in 1 .. K
  BY <1>1 DEF n
<1>5. \A i \in 0 .. n : SessionOK(g[i], K, P, G) /\ g[i].stage = s.stage
  BY <1>2, <1>3, <1>4, FollowsOK
<1> QED BY <1>2, <1>3, <1>5

\* A commit offers what is stored and then the new event.
LEMMA OfferNewOK ==
  ASSUME NEW K \in Nat, NEW P, NEW G \in SUBSET Nat, NEW s, SessionOK(s, K, P, G),
         NEW events \in Seq(1 .. K)
  PROVE  LET r == Offer(s, Append(events, K + 1))
         IN  SessionOK(r, K + 1, P, G) /\ r.stage = s.stage
<1> DEFINE e == Append(events, K + 1)
           n == Len(events)
<1>1. /\ n \in Nat /\ Len(e) = n + 1 /\ e[n + 1] = K + 1
      /\ \A i \in 1 .. n : events[i] \in 1 .. K /\ e[i] = events[i]
  BY Elements
<1> HIDE DEF e, n
<1>2. Len(e) \in Nat
  BY <1>1
<1>3. PICK g : Follows(g, s, e, Len(e)) /\ Offer(s, e) = g[Len(e)]
  BY <1>2, OfferFollows
<1>4. Follows(g, s, e, n + 1) /\ Offer(s, e) = g[n + 1]
  BY <1>1, <1>3
<1> DEFINE f == [i \in 0 .. n |-> g[i]]
<1>5. Follows(f, s, e, n)
  <2>1. f = [i \in 0 .. n |-> f[i]] /\ \A i \in 0 .. n : f[i] = g[i]
    OBVIOUS
  <2> HIDE DEF f
  <2>2. 0 \in 0 .. n /\ g[0] = s
    BY <1>1, <1>4 DEF Follows
  <2>3. ASSUME NEW i \in 1 .. n PROVE f[i] = Receive(f[i - 1], e[i])
    <3>1. i \in 1 .. n + 1 /\ i \in 0 .. n /\ i - 1 \in 0 .. n
      BY <1>1
    <3>2. g[i] = Receive(g[i - 1], e[i])
      BY <1>4, <3>1 DEF Follows
    <3> QED BY <2>1, <3>1, <3>2
  <2> QED BY <2>1, <2>2, <2>3 DEF Follows
<1>6. f[n] = g[n]
  BY <1>1
<1> HIDE DEF f
<1>7. n \in Nat /\ \A i \in 1 .. n : e[i] \in 1 .. K
  BY <1>1
<1>8. \A i \in 0 .. n : SessionOK(f[i], K, P, G) /\ f[i].stage = s.stage
  BY <1>5, <1>7, FollowsOK
<1>9. n \in 0 .. n
  BY <1>1
<1>10. PICK r : r = g[n]
  OBVIOUS
<1>11. SessionOK(r, K, P, G) /\ r.stage = s.stage
  BY <1>6, <1>8, <1>9, <1>10
<1>12. g[n + 1] = Receive(r, K + 1)
  <2>1. n + 1 \in 1 .. n + 1 /\ (n + 1) - 1 = n
    BY <1>1
  <2>2. g[n + 1] = Receive(g[(n + 1) - 1], e[n + 1])
    BY <1>4, <2>1 DEF Follows
  <2> QED BY <1>1, <1>10, <2>1, <2>2
<1>13. PICK L : L = K + 1
  OBVIOUS
<1>14. Reaches(L, K, L)
  BY <1>13 DEF Reaches
<1>15. SessionOK(Receive(r, L), L, P, G) /\ Receive(r, L).stage = r.stage
  BY <1>11, <1>14, ReceiveOK
<1> QED BY <1>4, <1>11, <1>12, <1>13, <1>15 DEF e

\* Who is not subscribed receives nothing.
LEMMA OfferNobody ==
  ASSUME NEW s, ~s.subscribed, NEW events, Len(events) \in Nat PROVE Offer(s, events) = s
<1> DEFINE n == Len(events)
<1>1. PICK g : Follows(g, s, events, n) /\ Offer(s, events) = g[n]
  BY OfferFollows
<1> DEFINE S == {k \in 0 .. n : g[k] # s}
<1>2. n \in Nat /\ S \in SUBSET Nat
  OBVIOUS
<1> HIDE DEF n
<1>3. SUFFICES ASSUME S # {} PROVE FALSE
  BY <1>1, <1>2
<1> HIDE DEF S
<1>4. PICK m \in S : \A k \in S : m <= k
  BY <1>2, <1>3, Least
<1>5. m \in 0 .. n /\ g[m] # s
  BY DEF S
<1>6. m # 0
  BY <1>1, <1>5 DEF Follows
<1>7. m \in 1 .. n /\ m - 1 \in 0 .. n /\ m - 1 \notin S
  BY <1>2, <1>4, <1>5, <1>6
<1>8. g[m - 1] = s /\ g[m] = Receive(g[m - 1], events[m])
  BY <1>1, <1>7 DEF S, Follows
<1>9. Receive(s, events[m]) = s
  BY DEF Receive
<1> QED BY <1>5, <1>8, <1>9

-----------------------------------------------------------------------------
(***************************************************************************)
(* What is replayed.                                                       *)
(***************************************************************************)

LEMMA StoredAfterIs ==
  ASSUME log \in Seq(EventKinds), NEW n
  PROVE  \E times : /\ Ascending(StoredAfter(n), times, Len(log))
                    /\ \A m \in 1 .. Len(log) : times[m] > 0 <=> m > n /\ Stored(m)
<1>1. PICK times : times = [i \in 1 .. Len(log) |-> IF i > n /\ Stored(i) THEN 1 ELSE 0]
  OBVIOUS
<1>2. times \in [1 .. Len(log) -> Nat]
  BY <1>1
<1>3. Ascending(InLogOrder(times), times, Len(log))
  BY <1>2, InLogOrderAscends
<1>4. StoredAfter(n) = InLogOrder(times)
  BY <1>1 DEF StoredAfter
<1>5. \A m \in 1 .. Len(log) : times[m] > 0 <=> m > n /\ Stored(m)
  BY <1>1
<1> QED BY <1>3, <1>4, <1>5

LEMMA BySequenceIs ==
  ASSUME log \in Seq(EventKinds), NEW q \in Seq(1 .. Len(log))
  PROVE  \E times : /\ Ascending(BySequence(q), times, Len(log))
                    /\ \A m \in 1 .. Len(log) : times[m] > 0 <=> m \in ToSet(q)
<1> DEFINE At(m) == {i \in DOMAIN q : q[i] = m}
<1>1. PICK times : times = [m \in 1 .. Len(log) |-> Cardinality(At(m))]
  OBVIOUS
<1>2. ASSUME NEW m PROVE Cardinality(At(m)) \in Nat /\ (Cardinality(At(m)) > 0 <=> m \in ToSet(q))
  <2>1. DOMAIN q = 1 .. Len(q) /\ Len(q) \in Nat
    OBVIOUS
  <2>2. IsFiniteSet(1 .. Len(q))
    BY <2>1, FS_Interval
  <2>3. IsFiniteSet(At(m))
    BY <2>1, <2>2, FS_Subset
  <2>4. Cardinality(At(m)) \in Nat /\ (Cardinality(At(m)) = 0 <=> At(m) = {})
    BY <2>3, FS_CardinalityType, FS_EmptySet
  <2>5. At(m) # {} <=> m \in ToSet(q)
    BY DEF ToSet
  <2> HIDE DEF At
  <2> QED BY <2>4, <2>5
<1>3. times \in [1 .. Len(log) -> Nat]
  BY <1>1, <1>2
<1>4. Ascending(InLogOrder(times), times, Len(log))
  BY <1>3, InLogOrderAscends
<1>5. BySequence(q) = InLogOrder(times)
  BY <1>1 DEF BySequence
<1>6. \A m \in 1 .. Len(log) : times[m] > 0 <=> m \in ToSet(q)
  BY <1>1, <1>2
<1> QED BY <1>4, <1>5, <1>6

LEMMA AscendingHas ==
  ASSUME NEW K \in Nat, NEW q, NEW times, Ascending(q, times, K), NEW m \in 1 .. K, times[m] > 0
  PROVE  m \in ToSet(q)
<1>1. q \in Seq(1 .. K) /\ \E i \in 1 .. Len(q) : q[i] = m
  BY DEF Ascending
<1> QED BY <1>1, InQueue

\* The session that turns to what was buffered meanwhile, or goes live.
LEMMA ReplayEndsOK ==
  ASSUME log \in Seq(EventKinds), NEW P, NEW G \in SUBSET Nat, NEW s,
         SessionOK(s, Len(log), P, G), s.writer = "none", s.todo = <<>>,
         s.stage \in {"replay", "batch"}
  PROVE  SessionOK(ReplayEnds(s), Len(log), P, G)
<1>1. PICK K : K = Len(log)
  OBVIOUS
<1>2. K \in Nat /\ SessionTyped(s, K) /\ SentOK(s, P, G) /\ QueuesOK(s, P) /\ NothingLost(s, K, P)
  BY <1>1 DEF SessionOK
<1>3. s.replaying = TRUE /\ s.pending = <<>> /\ s.latest \in Nat /\ s.buffered \in Seq(1 .. K)
  BY <1>2 DEF QueuesOK, SessionTyped
<1>4. PICK r : r = ReplayEnds(s)
  OBVIOUS
<1>5. CASE s.buffered # <<>> /\ ~Over(s)
  <2>1. PICK q : q = BySequence(s.buffered)
    OBVIOUS
  <2>2. PICK times : /\ Ascending(q, times, K)
                     /\ \A m \in 1 .. K : times[m] > 0 <=> m \in ToSet(s.buffered)
    BY <1>1, <1>3, <2>1, BySequenceIs
  <2>3. Hands(s) = ToSet(s.buffered)
    BY <1>3, EmptyQueue DEF Hands
  <2>4. \A m \in (s.latest + 1) .. K : m \in P \/ m \in ToSet(s.buffered)
    BY <1>2, <1>5, <2>3 DEF NothingLost
  <2>5. \A m \in (s.latest + 1) .. K : m \in 1 .. K
    BY <1>3
  <2>6. \A m \in (s.latest + 1) .. K : m \in P \/ times[m] > 0
    BY <2>2, <2>4, <2>5
  <2>7. GapFree(q, s.latest, P)
    BY <1>2, <1>3, <2>2, <2>6, GapFreeSorted
  <2>8. q \in Seq(1 .. K)
    BY <2>2 DEF Ascending
  <2>9. r = [s EXCEPT !.stage = "batch", !.buffered = <<>>, !.todo = q]
    BY <1>4, <1>5, <2>1 DEF ReplayEnds
  <2>10. /\ r.stage = "batch" /\ r.buffered = <<>> /\ r.todo = q
         /\ r.subscribed = s.subscribed /\ r.replaying = s.replaying /\ r.latest = s.latest
         /\ r.pending = s.pending /\ r.writer = s.writer /\ r.frame = s.frame
         /\ r.signalling = s.signalling /\ r.overflowed = s.overflowed /\ r.terminal = s.terminal
    BY <1>2, <2>9 DEF SessionTyped
  <2>11. SessionTyped(r, K)
    <3>1. <<>> \in Seq(1 .. K) /\ "batch" \in Flowing
      BY DEF Flowing
    <3> QED BY <1>2, <2>8, <2>9, <3>1 DEF SessionTyped
  <2>12. SentOK(r, P, G)
    BY <1>2, <2>10 DEF SentOK
  <2>13. QueuesOK(r, P)
    BY <1>3, <2>7, <2>10 DEF QueuesOK
  <2>14. NothingLost(r, K, P)
    <3>1. ASSUME NEW m \in (r.latest + 1) .. K PROVE m \in P \/ m \in Hands(r)
      <4>1. m \in 1 .. K /\ (m \in P \/ times[m] > 0)
        BY <2>5, <2>6, <2>10
      <4>2. times[m] > 0 => m \in ToSet(q)
        BY <1>2, <2>2, <4>1, AscendingHas
      <4> QED BY <2>10, <4>1, <4>2 DEF Hands
    <3> QED BY <1>2, <2>10, <3>1 DEF NothingLost
  <2> QED BY <1>1, <1>4, <2>11, <2>12, <2>13, <2>14 DEF SessionOK
<1>6. CASE ~(s.buffered # <<>> /\ ~Over(s))
  <2>1. r = [s EXCEPT !.stage = "live", !.replaying = FALSE]
    BY <1>4, <1>6 DEF ReplayEnds
  <2>2. /\ r.stage = "live" /\ r.replaying = FALSE /\ r.buffered = s.buffered /\ r.todo = s.todo
        /\ r.subscribed = s.subscribed /\ r.latest = s.latest
        /\ r.pending = s.pending /\ r.writer = s.writer /\ r.frame = s.frame
        /\ r.signalling = s.signalling /\ r.overflowed = s.overflowed /\ r.terminal = s.terminal
    BY <1>2, <2>1 DEF SessionTyped
  <2>3. SessionTyped(r, K)
    BY <1>2, <2>1 DEF SessionTyped, Flowing
  <2>4. SentOK(r, P, G)
    BY <1>2, <2>2 DEF SentOK
  <2>5. QueuesOK(r, P)
    BY <1>3, <2>2, EmptyQueue DEF QueuesOK
  <2>6. NothingLost(r, K, P)
    <3>1. Over(r) <=> Over(s)
      BY <2>2 DEF Over
    <3>2. ASSUME r.subscribed, ~Over(r), NEW m \in (r.latest + 1) .. K PROVE m \in P \/ m \in Hands(r)
      <4>1. s.buffered = <<>>
        BY <1>6, <3>1, <3>2
      <4>2. Hands(s) = {}
        BY <1>3, <4>1, EmptyQueue DEF Hands
      <4>3. m \in P \/ m \in Hands(s)
        BY <1>2, <2>2, <3>1, <3>2 DEF NothingLost
      <4> QED BY <4>2, <4>3
    <3> QED BY <1>2, <2>2, <3>1, <3>2 DEF NothingLost
  <2> QED BY <1>1, <1>4, <2>3, <2>4, <2>5, <2>6 DEF SessionOK
<1> QED BY <1>5, <1>6

\* What was in flight has left the session.
LEMMA FreedOK ==
  ASSUME NEW K \in Nat, NEW P, NEW G \in SUBSET Nat, NEW s, SessionOK(s, K, P, G),
         NEW r, r = s \/ r = [s EXCEPT !.terminal = TRUE],
         NEW H, H = IF s.frame = 0 THEN G ELSE G \cup {s.frame}
  PROVE  SessionTyped(r, K) /\ SessionOK(Freed(r), K, P, H)
<1>1. SessionTyped(s, K) /\ SentOK(s, P, G) /\ QueuesOK(s, P) /\ NothingLost(s, K, P)
  BY DEF SessionOK
<1>2. SessionTyped(r, K)
  BY <1>1 DEF SessionTyped
<1>3. PICK f : f = Freed(r)
  OBVIOUS
<1>4. /\ f.writer = "none" /\ f.frame = 0 /\ f.stage = s.stage /\ f.buffered = s.buffered
      /\ f.todo = s.todo /\ f.subscribed = s.subscribed /\ f.replaying = s.replaying
      /\ f.latest = s.latest /\ f.pending = s.pending /\ f.signalling = s.signalling
      /\ f.overflowed = s.overflowed /\ f.terminal \in {s.terminal, TRUE}
  BY <1>1, <1>3 DEF Freed, SessionTyped
<1>5. SessionTyped(f, K)
  <2>1. f = [r EXCEPT !.writer = "none", !.frame = 0] /\ 0 \in 0 .. K
    BY <1>3 DEF Freed
  <2> QED BY <1>2, <2>1 DEF SessionTyped
<1>6. s.frame \in 0 .. K /\ s.latest \in 0 .. K
  BY <1>1 DEF SessionTyped
<1>7. SentOK(f, P, H)
  <2>1. f.frame <= f.latest
    BY <1>4, <1>6
  <2>2. \A x \in H : x <= f.latest
    BY <1>1, <1>4 DEF SentOK
  <2>3. ASSUME NEW m \in 1 .. f.latest PROVE m \in H \/ m \in P
    <3>1. m \in G \/ m = s.frame \/ m \in P
      BY <1>1, <1>4 DEF SentOK
    <3> QED BY <1>6, <3>1
  <2> QED BY <1>4, <2>1, <2>2, <2>3 DEF SentOK
<1>8. QueuesOK(f, P)
  BY <1>1, <1>4 DEF QueuesOK
<1>9. NothingLost(f, K, P)
  <2>1. Over(s) => Over(f)
    BY <1>4 DEF Over
  <2>2. Hands(f) = Hands(s)
    BY <1>4 DEF Hands
  <2> QED BY <1>1, <1>4, <2>1, <2>2 DEF NothingLost
<1> QED BY <1>2, <1>3, <1>5, <1>7, <1>8, <1>9 DEF SessionOK

LEMMA MorePruned ==
  ASSUME NEW K, NEW P, NEW Q, P \subseteq Q, NEW G, NEW s, SessionOK(s, K, P, G)
  PROVE  SessionOK(s, K, Q, G)
<1>1. SessionTyped(s, K) /\ SentOK(s, P, G) /\ QueuesOK(s, P) /\ NothingLost(s, K, P)
  BY DEF SessionOK
<1>2. SentOK(s, Q, G)
  BY <1>1 DEF SentOK
<1>3. ASSUME NEW q, NEW l, GapFree(q, l, P) PROVE GapFree(q, l, Q)
  BY <1>3 DEF GapFree
<1>4. QueuesOK(s, Q)
  BY <1>1, <1>3 DEF QueuesOK
<1>5. NothingLost(s, K, Q)
  BY <1>1 DEF NothingLost
<1> QED BY <1>1, <1>2, <1>4, <1>5 DEF SessionOK

-----------------------------------------------------------------------------
(***************************************************************************)
(* The inductive invariant.                                                *)
(***************************************************************************)

LEMMA StreamInit == Init => StreamInv
<1> SUFFICES ASSUME Init PROVE StreamInv
  OBVIOUS
<1>1. log = <<"state">> /\ mark = 0 /\ sess = NoSession /\ wire = <<>> /\ cursor = 0 /\ got = {} /\ base = 0
  BY DEF Init
<1>2. LogOK
  BY <1>1 DEF LogOK, EventKinds
<1>3. Left = {}
  BY <1>1, EmptyQueue DEF Left
<1>4. ClientOK
  BY <1>1, <1>3 DEF ClientOK
<1> QED BY <1>1, <1>2, <1>4 DEF StreamInv, Idle

LEMMA IdleFields ==
  ASSUME NEW s, Idle(s)
  PROVE  /\ s.stage \in {"none", "closed"} /\ ~s.subscribed /\ ~s.signalling
         /\ s.writer = "none" /\ s.frame = 0 /\ (s.stage = "none" => s = NoSession)
BY DEF Idle, NoSession

LEMMA FlowingNotIdle ==
  ASSUME NEW s, NEW K, NEW P, NEW G, SessionOK(s, K, P, G)
  PROVE  s # NoSession /\ s.stage \in Flowing /\ s.stage \notin {"none", "closed"}
<1>1. s.stage \in Flowing
  BY DEF SessionOK, SessionTyped
<1>2. NoSession.stage = "none"
  BY DEF NoSession
<1> QED BY <1>1, <1>2 DEF Flowing

\* Nothing is sent or read: the client keeps what it has.
LEMMA ClientStays ==
  ASSUME ClientOK, LogOK, log' = log \/ \E kind \in EventKinds : log' = Append(log, kind),
         UNCHANGED <<wire, cursor, got, base>>
  PROVE  ClientOK' /\ Left' = Left /\ Pruned \subseteq Pruned' /\ Len(log) \in Nat
         /\ Len(log') \in {Len(log), Len(log) + 1}
<1>1. Len(log) \in Nat /\ Len(log') \in {Len(log), Len(log) + 1} /\ Len(log') \in Nat
      /\ \A i \in 1 .. Len(log) : log'[i] = log[i]
  BY DEF LogOK
<1>2. 1 .. Len(log) \subseteq 1 .. Len(log')
  BY <1>1
<1>3. Pruned \subseteq Pruned'
  BY <1>1, <1>2 DEF Pruned
<1>4. Left' = Left
  BY DEF Left
<1>5. wire \in Seq(1 .. Len(log'))
  <2>1. wire \in Seq(1 .. Len(log))
    BY DEF ClientOK
  <2> QED BY <1>2, <2>1, SeqWider
<1>6. ClientOK'
  BY <1>2, <1>3, <1>4, <1>5 DEF ClientOK
<1> QED BY <1>1, <1>3, <1>4, <1>6

LEMMA LeftNumbers ==
  ASSUME ClientOK PROVE Left \in SUBSET Nat /\ Left \subseteq 1 .. Len(log)
<1>1. wire \in Seq(1 .. Len(log)) /\ got \subseteq 1 .. Len(log)
  BY DEF ClientOK
<1>2. \A x \in ToSet(wire) : x \in 1 .. Len(log)
  BY <1>1 DEF ToSet
<1>3. \A x \in Left : x \in 1 .. Len(log)
  BY <1>1, <1>2 DEF Left
<1>4. 1 .. Len(log) \subseteq Nat
  OBVIOUS
<1> QED BY <1>3, <1>4

LEMMA CommitKeeps == ASSUME StreamInv, NEW kind \in EventKinds, Commit(kind) PROVE StreamInv'
<1>1. /\ log' = Append(log, kind) /\ sess' = Offer(sess, Append(StoredAfter(0), Len(log) + 1))
      /\ UNCHANGED <<mark, wire, cursor, got, base>> /\ LogOK /\ ClientOK
  BY DEF Commit, StreamInv
<1>2. ClientOK' /\ Left' = Left /\ Pruned \subseteq Pruned' /\ Len(log) \in Nat
  BY <1>1, ClientStays
<1>3. LogOK' /\ Len(log') = Len(log) + 1
  BY <1>1 DEF LogOK
<1>4. PICK times : Ascending(StoredAfter(0), times, Len(log))
  BY <1>1, StoredAfterIs DEF LogOK
<1>5. StoredAfter(0) \in Seq(1 .. Len(log))
  BY <1>4 DEF Ascending
<1>6. PICK e : e = StoredAfter(0)
  OBVIOUS
<1>7. Len(Append(e, Len(log) + 1)) \in Nat
  BY <1>5, <1>6
<1>8. Left \in SUBSET Nat
  BY <1>1, LeftNumbers
<1>9. CASE Idle(sess)
  <2>1. ~sess.subscribed
    BY <1>9, IdleFields
  <2>2. sess' = sess
    BY <1>1, <1>6, <1>7, <2>1, OfferNobody
  <2>3. Idle(sess') /\ (sess' = NoSession => wire' = <<>>)
    BY <1>1, <1>9, <2>2 DEF StreamInv
  <2> QED BY <1>2, <1>3, <2>3 DEF StreamInv
<1>10. CASE SessionOK(sess, Len(log), Pruned, Left)
  <2>1. PICK K, P, G, s, r : /\ K = Len(log) /\ P = Pruned /\ G = Left /\ s = sess
                             /\ r = Offer(s, Append(e, K + 1))
    OBVIOUS
  <2>2. K \in Nat /\ G \in SUBSET Nat /\ SessionOK(s, K, P, G) /\ e \in Seq(1 .. K)
    BY <1>2, <1>5, <1>6, <1>8, <1>10, <2>1
  <2>3. SessionOK(r, K + 1, P, G)
    BY <2>1, <2>2, OfferNewOK
  <2>4. SessionOK(sess', Len(log'), Pruned, Left')
    BY <1>1, <1>2, <1>3, <1>6, <2>1, <2>3
  <2>5. SessionOK(sess', Len(log'), Pruned', Left')
    BY <1>2, <2>4, MorePruned
  <2>6. sess' # NoSession
    BY <2>5, FlowingNotIdle
  <2> QED BY <1>2, <1>3, <2>5, <2>6 DEF StreamInv
<1> QED BY <1>9, <1>10 DEF StreamInv

\* The session moves, and nobody else.
LEMMA SessionMoves ==
  ASSUME StreamInv, LogOK', UNCHANGED <<log, wire, cursor, got, base>>,
         SessionOK(sess', Len(log), Pruned, Left)
  PROVE  StreamInv'
<1>1. ClientOK' /\ Left' = Left /\ Pruned \subseteq Pruned'
  BY ClientStays DEF StreamInv
<1>2. SessionOK(sess', Len(log'), Pruned', Left')
  BY <1>1, MorePruned
<1>3. sess' # NoSession
  BY <1>2, FlowingNotIdle
<1> QED BY <1>1, <1>2, <1>3 DEF StreamInv

LEMMA RepublishKeeps == ASSUME StreamInv, Republish PROVE StreamInv'
<1>1. /\ sess' = Offer(sess, StoredAfter(0))
      /\ UNCHANGED <<log, mark, wire, cursor, got, base>> /\ LogOK /\ LogOK' /\ ClientOK
  BY DEF Republish, StreamInv, LogOK
<1>2. PICK times : Ascending(StoredAfter(0), times, Len(log))
  BY <1>1, StoredAfterIs DEF LogOK
<1>3. PICK e : e = StoredAfter(0)
  OBVIOUS
<1>4. e \in Seq(1 .. Len(log)) /\ Len(e) \in Nat
  BY <1>2, <1>3, Elements DEF Ascending
<1>5. CASE Idle(sess)
  <2>1. sess' = sess
    BY <1>1, <1>3, <1>4, <1>5, IdleFields, OfferNobody
  <2>2. ClientOK'
    BY <1>1, ClientStays
  <2> QED BY <1>1, <1>5, <2>1, <2>2 DEF StreamInv
<1>6. CASE SessionOK(sess, Len(log), Pruned, Left)
  <2>1. PICK K, P, G, s : K = Len(log) /\ P = Pruned /\ G = Left /\ s = sess
    OBVIOUS
  <2>2. K \in Nat /\ G \in SUBSET Nat /\ SessionOK(s, K, P, G) /\ e \in Seq(1 .. K)
    BY <1>1, <1>4, <1>6, <2>1, LeftNumbers DEF LogOK
  <2>3. SessionOK(Offer(s, e), K, P, G)
    BY <2>2, OfferOK
  <2>4. SessionOK(sess', Len(log), Pruned, Left)
    BY <1>1, <1>3, <2>1, <2>3
  <2> QED BY <1>1, <2>4, SessionMoves
<1> QED BY <1>5, <1>6 DEF StreamInv

LEMMA RetainKeeps == ASSUME StreamInv, NEW n \in 1 .. Len(log), Retain(n) PROVE StreamInv'
<1>1. /\ log[n] = "progress" /\ Stored(n) /\ mark' = n + 1 /\ LogOK /\ ClientOK
      /\ UNCHANGED <<log, sess, wire, cursor, got, base>>
  BY DEF Retain, StreamInv
<1>2. n >= mark /\ Len(log) \in Nat
  BY <1>1 DEF Stored, LogOK
<1>3. LogOK'
  BY <1>1, <1>2 DEF LogOK
<1>4. ClientOK' /\ Left' = Left /\ Pruned \subseteq Pruned'
  BY <1>1, ClientStays
<1>5. Idle(sess) => Idle(sess')
  BY <1>1
<1>6. sess' = NoSession => wire' = <<>>
  BY <1>1 DEF StreamInv
<1>7. CASE SessionOK(sess, Len(log), Pruned, Left)
  BY <1>1, <1>3, <1>7, SessionMoves
<1> QED BY <1>3, <1>4, <1>5, <1>6, <1>7 DEF StreamInv

LEMMA ResetKeeps == ASSUME StreamInv, Reset PROVE StreamInv'
<1>1. /\ sess.stage = "none" /\ cursor' = 0 /\ got' = {} /\ base' = mark /\ LogOK /\ ClientOK
      /\ UNCHANGED <<log, mark, sess, wire>> /\ (sess = NoSession => wire = <<>>)
      /\ (Idle(sess) \/ SessionOK(sess, Len(log), Pruned, Left))
  BY DEF Reset, StreamInv
<1>2. sess = NoSession /\ wire = <<>>
  BY <1>1, FlowingNotIdle, IdleFields
<1>3. LogOK'
  BY <1>1 DEF LogOK
<1>4. Left' = {}
  BY <1>1, <1>2, EmptyQueue DEF Left
<1>5. ClientOK'
  BY <1>1, <1>2, <1>4 DEF ClientOK
<1> QED BY <1>1, <1>2, <1>3, <1>5 DEF StreamInv, Idle

LEMMA DisconnectKeeps == ASSUME StreamInv, Disconnect PROVE StreamInv'
<1>1. /\ sess' = NoSession /\ wire' = <<>> /\ LogOK /\ ClientOK
      /\ UNCHANGED <<log, mark, cursor, got, base>>
  BY DEF Disconnect, StreamInv
<1>2. LogOK' /\ Pruned' = Pruned
  BY <1>1 DEF LogOK, Pruned
<1>3. Left' = got
  BY <1>1, EmptyQueue DEF Left
<1>4. ASSUME NEW x \in got, NEW m \in 1 .. x PROVE m \in got \/ m \in Pruned
  <2>1. x <= cursor /\ x \in Left /\ cursor \in Nat /\ x \in Nat
    <3>1. got \subseteq 1 .. Len(log) /\ cursor \in got \cup {0} /\ x <= cursor
      BY <1>1 DEF ClientOK
    <3> QED BY <3>1 DEF Left
  <2>2. m \in Left \/ m \in Pruned
    BY <1>1, <2>1 DEF ClientOK
  <2>3. m \notin ToSet(wire)
    <3>1. SUFFICES ASSUME m \in ToSet(wire) PROVE FALSE
      OBVIOUS
    <3>2. PICK i \in DOMAIN wire : wire[i] = m
      BY <3>1 DEF ToSet
    <3>3. wire[i] > cursor
      BY <1>1 DEF ClientOK
    <3> QED BY <2>1, <3>2, <3>3
  <2> QED BY <2>2, <2>3 DEF Left
<1>5. ClientOK'
  BY <1>1, <1>2, <1>3, <1>4 DEF ClientOK
<1> QED BY <1>1, <1>2, <1>5 DEF StreamInv, Idle

LEMMA ReadKeeps == ASSUME StreamInv, Read PROVE StreamInv' /\ cursor' > cursor
<1>1. /\ wire # <<>> /\ cursor' = Head(wire) /\ got' = got \cup {Head(wire)} /\ wire' = Tail(wire)
      /\ UNCHANGED <<log, mark, sess, base>> /\ LogOK /\ ClientOK
  BY DEF Read, StreamInv
<1>2. LogOK' /\ Pruned' = Pruned
  BY <1>1 DEF LogOK, Pruned
<1>3. PICK h, t, w : h = Head(wire) /\ t = Tail(wire) /\ w = wire
  OBVIOUS
<1>4. /\ w \in Seq(1 .. Len(log)) /\ got \subseteq 1 .. Len(log) /\ cursor \in got \cup {0}
      /\ \A i \in DOMAIN w : w[i] > cursor /\ \A j \in 1 .. i - 1 : w[j] < w[i]
      /\ \A x \in got : x <= cursor
  BY <1>1, <1>3 DEF ClientOK
<1>5. /\ h = w[1] /\ h \in 1 .. Len(log) /\ t \in Seq(1 .. Len(log)) /\ Len(t) = Len(w) - 1
      /\ 1 \in DOMAIN w /\ DOMAIN w = 1 .. Len(w) /\ DOMAIN t = 1 .. Len(t) /\ Len(w) \in Nat
      /\ \A i \in 1 .. Len(t) : t[i] = w[i + 1]
  BY <1>1, <1>3, <1>4
<1>6. h > cursor
  BY <1>4, <1>5
<1>7. ASSUME NEW i \in DOMAIN t PROVE t[i] > h /\ \A j \in 1 .. i - 1 : t[j] < t[i]
  <2>1. i + 1 \in DOMAIN w /\ t[i] = w[i + 1] /\ 1 \in 1 .. (i + 1) - 1
    BY <1>5
  <2>2. w[1] < w[i + 1]
    BY <1>4, <2>1
  <2>3. t[i] > h
    BY <1>4, <1>5, <2>1, <2>2
  <2>4. ASSUME NEW j \in 1 .. i - 1 PROVE t[j] < t[i]
    <3>1. j + 1 \in 1 .. (i + 1) - 1 /\ j \in 1 .. Len(t)
      BY <1>5
    <3>2. w[j + 1] < w[i + 1]
      BY <1>4, <2>1, <3>1
    <3> QED BY <1>5, <2>1, <3>1, <3>2
  <2> QED BY <2>3, <2>4
<1>8. Left' = Left
  <2>1. \A x : x \in ToSet(w) <=> x = h \/ x \in ToSet(t)
    <3>1. ASSUME NEW x \in ToSet(w) PROVE x = h \/ x \in ToSet(t)
      <4>1. PICK i \in 1 .. Len(w) : w[i] = x
        BY <1>5, <3>1 DEF ToSet
      <4>2. CASE i # 1
        <5>1. i - 1 \in 1 .. Len(t) /\ (i - 1) + 1 = i
          BY <1>5, <4>2
        <5>2. t[i - 1] = x
          BY <1>5, <4>1, <5>1
        <5> QED BY <1>5, <5>1, <5>2 DEF ToSet
      <4> QED BY <1>5, <4>1, <4>2
    <3>2. ASSUME NEW x \in ToSet(t) PROVE x \in ToSet(w)
      <4>1. PICK i \in 1 .. Len(t) : t[i] = x
        BY <1>5, <3>2 DEF ToSet
      <4>2. i + 1 \in DOMAIN w /\ w[i + 1] = x
        BY <1>5, <4>1
      <4> QED BY <4>2 DEF ToSet
    <3>3. h \in ToSet(w)
      BY <1>5 DEF ToSet
    <3> QED BY <3>1, <3>2, <3>3
  <2>2. Left = got \cup ToSet(w) /\ Left' = got \cup {h} \cup ToSet(t)
    BY <1>1, <1>3 DEF Left
  <2> QED BY <2>1, <2>2
<1>9. ClientOK'
  <2>1. cursor' = h /\ got' = got \cup {h} /\ wire' = t /\ log' = log
    BY <1>1, <1>3
  <2>2. got' \subseteq 1 .. Len(log') /\ wire' \in Seq(1 .. Len(log')) /\ cursor' \in got' \cup {0}
    BY <1>4, <1>5, <2>1
  <2>3. \A x \in got' : x <= cursor'
    <3>1. cursor \in Nat /\ got \subseteq Nat /\ h \in Nat
      BY <1>4, <1>5
    <3> QED BY <1>4, <1>6, <2>1, <3>1
  <2>4. \A i \in DOMAIN wire' : wire'[i] > cursor' /\ \A j \in 1 .. i - 1 : wire'[j] < wire'[i]
    BY <1>7, <2>1
  <2>5. \A x \in Left' : \A m \in 1 .. x : m \in Left' \/ m \in Pruned'
    BY <1>1, <1>2, <1>8 DEF ClientOK
  <2> QED BY <2>2, <2>3, <2>4, <2>5 DEF ClientOK
<1>10. sess' # NoSession
  BY <1>1 DEF StreamInv
<1>11. Idle(sess) => Idle(sess')
  BY <1>1
<1>12. SessionOK(sess, Len(log), Pruned, Left) => SessionOK(sess', Len(log'), Pruned', Left')
  BY <1>1, <1>2, <1>8
<1> QED BY <1>1, <1>2, <1>3, <1>6, <1>9, <1>10, <1>11, <1>12 DEF StreamInv

LEMMA ConnectKeeps == ASSUME StreamInv, Connect PROVE StreamInv'
<1>1. /\ sess.stage = "none" /\ ~CursorLost /\ LogOK /\ ClientOK
      /\ sess' = [NoSession EXCEPT !.stage = "replay", !.replaying = TRUE, !.subscribed = ~JobOver,
                                   !.todo = StoredAfter(cursor), !.latest = cursor]
      /\ base' = IF cursor = 0 THEN mark ELSE base
      /\ got' = IF cursor = 0 THEN {} ELSE got
      /\ UNCHANGED <<log, mark, wire, cursor>>
      /\ (sess = NoSession => wire = <<>>)
      /\ (Idle(sess) \/ SessionOK(sess, Len(log), Pruned, Left))
  BY DEF Connect, StreamInv
<1>2. wire = <<>>
  BY <1>1, FlowingNotIdle, IdleFields
<1>3. LogOK'
  BY <1>1 DEF LogOK
<1>4. /\ cursor \in got \cup {0} /\ got \subseteq 1 .. Len(log) /\ \A x \in got : x <= cursor
      /\ Len(log) \in Nat /\ mark \in Nat
  BY <1>1 DEF ClientOK, LogOK
<1>5. Left = got /\ Left' = got'
  BY <1>1, <1>2, EmptyQueue DEF Left
<1>6. ASSUME NEW x \in got', NEW m \in 1 .. x PROVE m \in got' \/ m \in Pruned'
  <2>1. cursor # 0 /\ got' = got /\ base' = base
    BY <1>1, <1>6
  <2>2. Pruned' = Pruned
    BY <1>1, <2>1 DEF Pruned
  <2> QED BY <1>1, <1>5, <1>6, <2>1, <2>2 DEF ClientOK
<1>7. cursor' \in got' \cup {0} /\ got' \subseteq 1 .. Len(log') /\ \A x \in got' : x <= cursor'
  BY <1>1, <1>4
<1>8. ClientOK'
  BY <1>1, <1>2, <1>5, <1>6, <1>7 DEF ClientOK
<1>9. ASSUME NEW m \in (cursor + 1) .. Len(log), ~Stored(m) PROVE m \in Pruned'
  <2>1. log[m] = "progress" /\ m < mark /\ m \in 1 .. Len(log)
    BY <1>4, <1>9 DEF Stored
  <2>2. cursor = 0
    BY <1>1, <1>4, <2>1 DEF CursorLost
  <2> QED BY <1>1, <2>1, <2>2 DEF Pruned
<1>10. PICK K, P, q, r : K = Len(log) /\ P = Pruned' /\ q = StoredAfter(cursor) /\ r = sess'
  OBVIOUS
<1>11. PICK times : /\ Ascending(q, times, K)
                    /\ \A m \in 1 .. K : times[m] > 0 <=> m > cursor /\ Stored(m)
  BY <1>1, <1>10, StoredAfterIs DEF LogOK
<1>12. K \in Nat /\ cursor \in 0 .. K /\ cursor \in Nat /\ q \in Seq(1 .. K)
  BY <1>4, <1>10, <1>11 DEF Ascending
<1>13. ASSUME NEW m \in (cursor + 1) .. K PROVE m \in 1 .. K /\ (m \in P \/ times[m] > 0)
  <2>1. m \in 1 .. K /\ m > cursor
    BY <1>12
  <2> QED BY <1>9, <1>10, <1>11, <2>1
<1>14. /\ r.stage = "replay" /\ r.replaying = TRUE /\ r.todo = q /\ r.latest = cursor
       /\ r.buffered = <<>> /\ r.pending = <<>> /\ r.writer = "none" /\ r.frame = 0
       /\ ~r.signalling /\ ~r.overflowed /\ ~r.terminal
  BY <1>1, <1>10 DEF NoSession
<1>15. SessionTyped(r, K)
  <2>1. <<>> \in Seq(1 .. K) /\ 0 \in 0 .. K /\ JobOver \in BOOLEAN /\ "replay" \in Flowing
    BY <1>12 DEF JobOver, Flowing
  <2> QED BY <1>1, <1>10, <1>12, <2>1 DEF SessionTyped, NoSession
<1>16. SentOK(r, P, Left')
  <2>1. \A x \in Left' : x <= r.latest
    BY <1>1, <1>5, <1>7, <1>14
  <2>2. ASSUME NEW m \in 1 .. r.latest PROVE m \in Left' \/ m \in P
    <3>1. cursor # 0 /\ cursor \in got'
      BY <1>1, <1>4, <1>12, <1>14
    <3> QED BY <1>5, <1>6, <1>10, <1>14, <3>1
  <2>3. r.frame <= r.latest
    BY <1>12, <1>14
  <2> QED BY <1>14, <2>1, <2>2, <2>3 DEF SentOK
<1>17. QueuesOK(r, P)
  <2>1. GapFree(q, cursor, P)
    <3>1. \A m \in (cursor + 1) .. K : m \in P \/ times[m] > 0
      BY <1>13
    <3> QED BY <1>11, <1>12, <3>1, GapFreeSorted
  <2> QED BY <1>14, <2>1 DEF QueuesOK
<1>18. NothingLost(r, K, P)
  <2>1. ASSUME NEW m \in (r.latest + 1) .. K PROVE m \in P \/ m \in Hands(r)
    <3>1. m \in 1 .. K /\ (m \in P \/ times[m] > 0)
      BY <1>13, <1>14
    <3>2. times[m] > 0 => m \in ToSet(q)
      BY <1>11, <1>12, <3>1, AscendingHas
    <3> QED BY <1>14, <3>1, <3>2 DEF Hands
  <2> QED BY <1>14, <2>1 DEF NothingLost
<1>19. SessionOK(sess', Len(log'), Pruned', Left')
  BY <1>1, <1>10, <1>15, <1>16, <1>17, <1>18 DEF SessionOK
<1> QED BY <1>3, <1>8, <1>19, FlowingNotIdle DEF StreamInv

\* A step of the server needs an open session.
LEMMA ReplayStepKeeps == ASSUME StreamInv, ReplayStep PROVE StreamInv'
<1>1. /\ sess.stage \in {"replay", "batch"} /\ sess.writer = "none" /\ LogOK /\ ClientOK
      /\ sess' = IF sess.stage = "replay" /\ Over(sess) /\ sess.todo # <<>>
                 THEN [sess EXCEPT !.stage = "live", !.todo = <<>>]
                 ELSE IF sess.todo = <<>> THEN ReplayEnds(sess)
                 ELSE Send([sess EXCEPT !.todo = Tail(@)], "replay", Head(sess.todo))
      /\ UNCHANGED <<log, mark, wire, cursor, got, base>>
  BY DEF ReplayStep, StreamInv
<1>2. SessionOK(sess, Len(log), Pruned, Left)
  BY <1>1, IdleFields DEF StreamInv
<1>3. LogOK' /\ log \in Seq(EventKinds)
  BY <1>1 DEF LogOK
<1>4. PICK K, P, G, s : K = Len(log) /\ P = Pruned /\ G = Left /\ s = sess
  OBVIOUS
<1>5. K \in Nat /\ G \in SUBSET Nat /\ SessionOK(s, K, P, G)
  BY <1>1, <1>2, <1>3, <1>4, LeftNumbers
<1>6. CASE s.stage = "replay" /\ Over(s) /\ s.todo # <<>>
  <2>1. SessionTyped(s, K) /\ SentOK(s, P, G) /\ QueuesOK(s, P) /\ NothingLost(s, K, P)
    BY <1>5 DEF SessionOK
  <2>2. PICK r : r = [s EXCEPT !.stage = "live", !.todo = <<>>]
    OBVIOUS
  <2>3. /\ r.stage = "live" /\ r.todo = <<>> /\ r.replaying = s.replaying /\ r.pending = s.pending
        /\ r.latest = s.latest /\ r.buffered = s.buffered /\ r.subscribed = s.subscribed
        /\ r.writer = s.writer /\ r.frame = s.frame /\ r.signalling = s.signalling
        /\ r.overflowed = s.overflowed /\ r.terminal = s.terminal
    BY <2>1, <2>2 DEF SessionTyped
  <2>4. SessionTyped(r, K)
    <3>1. <<>> \in Seq(1 .. K) /\ "live" \in Flowing
      BY DEF Flowing
    <3> QED BY <2>1, <2>2, <3>1 DEF SessionTyped
  <2>5. SentOK(r, P, G)
    BY <2>1, <2>3 DEF SentOK
  <2>6. QueuesOK(r, P)
    BY <1>6, <2>1, <2>3, EmptyQueue DEF QueuesOK
  <2>7. NothingLost(r, K, P)
    BY <1>6, <2>1, <2>3 DEF NothingLost, Over
  <2>8. SessionOK(sess', Len(log), Pruned, Left)
    BY <1>1, <1>4, <1>6, <2>2, <2>4, <2>5, <2>6, <2>7 DEF SessionOK
  <2> QED BY <1>1, <1>3, <2>8, SessionMoves
<1>7. CASE ~(s.stage = "replay" /\ Over(s) /\ s.todo # <<>>) /\ s.todo = <<>>
  <2>1. SessionOK(ReplayEnds(s), Len(log), P, G)
    BY <1>1, <1>3, <1>4, <1>5, <1>7, ReplayEndsOK
  <2>2. SessionOK(sess', Len(log), Pruned, Left)
    BY <1>1, <1>4, <1>7, <2>1
  <2> QED BY <1>1, <1>3, <2>2, SessionMoves
<1>8. CASE ~(s.stage = "replay" /\ Over(s) /\ s.todo # <<>>) /\ s.todo # <<>>
  <2>1. s.writer = "none"
    BY <1>1, <1>4
  <2>2. SessionOK(Send([s EXCEPT !.todo = Tail(@)], "replay", Head(s.todo)), K, P, G)
    BY <1>5, <1>8, <2>1, ReplaySendOK
  <2>3. SessionOK(sess', Len(log), Pruned, Left)
    BY <1>1, <1>4, <1>8, <2>2
  <2> QED BY <1>1, <1>3, <2>3, SessionMoves
<1> QED BY <1>6, <1>7, <1>8

LEMMA HeartbeatKeeps == ASSUME StreamInv, Heartbeat PROVE StreamInv'
<1>1. /\ sess.stage = "live" /\ sess' = [sess EXCEPT !.writer = "heartbeat", !.frame = 0]
      /\ ~Writing(sess) /\ LogOK /\ UNCHANGED <<log, mark, wire, cursor, got, base>>
  BY DEF Heartbeat, StreamInv
<1>2. SessionOK(sess, Len(log), Pruned, Left) /\ LogOK' /\ Len(log) \in Nat
  BY <1>1, IdleFields DEF StreamInv, LogOK
<1>3. PICK K, P, G, s, r : /\ K = Len(log) /\ P = Pruned /\ G = Left /\ s = sess
                           /\ r = [s EXCEPT !.writer = "heartbeat", !.frame = 0]
  OBVIOUS
<1>4. SessionTyped(s, K) /\ SentOK(s, P, G) /\ QueuesOK(s, P) /\ NothingLost(s, K, P)
  BY <1>2, <1>3 DEF SessionOK
<1>5. s.frame = 0 /\ s.latest \in Nat
  BY <1>1, <1>3, <1>4 DEF Writing, SentOK, SessionTyped
<1>6. /\ r.stage = s.stage /\ r.todo = s.todo /\ r.replaying = s.replaying /\ r.pending = s.pending
      /\ r.latest = s.latest /\ r.buffered = s.buffered /\ r.subscribed = s.subscribed
      /\ r.writer = "heartbeat" /\ r.frame = 0 /\ r.signalling = s.signalling
      /\ r.overflowed = s.overflowed /\ r.terminal = s.terminal
  BY <1>3, <1>4 DEF SessionTyped
<1>7. SessionTyped(r, K)
  <2>1. 0 \in 0 .. K
    BY <1>2, <1>3
  <2> QED BY <1>3, <1>4, <2>1 DEF SessionTyped
<1>8. SentOK(r, P, G)
  BY <1>4, <1>5, <1>6 DEF SentOK
<1>9. QueuesOK(r, P)
  BY <1>4, <1>6 DEF QueuesOK
<1>10. NothingLost(r, K, P)
  BY <1>4, <1>6 DEF NothingLost, Over, Hands
<1>11. SessionOK(sess', Len(log), Pruned, Left)
  BY <1>1, <1>3, <1>7, <1>8, <1>9, <1>10 DEF SessionOK
<1> QED BY <1>1, <1>2, <1>11, SessionMoves

LEMMA SignalledKeeps == ASSUME StreamInv, Signalled PROVE StreamInv'
<1>1. /\ sess.signalling /\ sess' = [Stopped(sess) EXCEPT !.signalling = FALSE]
      /\ LogOK /\ UNCHANGED <<log, mark, wire, cursor, got, base>>
  BY DEF Signalled, StreamInv
<1>2. SessionOK(sess, Len(log), Pruned, Left) /\ LogOK'
  BY <1>1, IdleFields DEF StreamInv, LogOK
<1>3. PICK K, P, G, s, r : /\ K = Len(log) /\ P = Pruned /\ G = Left /\ s = sess
                           /\ r = [Stopped(s) EXCEPT !.signalling = FALSE]
  OBVIOUS
<1>4. SessionTyped(s, K) /\ SentOK(s, P, G) /\ QueuesOK(s, P) /\ NothingLost(s, K, P)
  BY <1>2, <1>3 DEF SessionOK
<1>5. s.overflowed
  BY <1>1, <1>3, <1>4 DEF NothingLost
<1>6. /\ r.stage = s.stage /\ r.todo = s.todo /\ r.replaying = s.replaying /\ r.pending = s.pending
      /\ r.latest = s.latest /\ r.buffered = s.buffered /\ r.subscribed = FALSE
      /\ r.writer = s.writer /\ r.frame = s.frame /\ r.signalling = FALSE
      /\ r.overflowed = s.overflowed /\ r.terminal = s.terminal
  BY <1>3, <1>4 DEF SessionTyped, Stopped
<1>7. SessionTyped(r, K)
  BY <1>3, <1>4 DEF SessionTyped, Stopped
<1>8. SentOK(r, P, G) /\ QueuesOK(r, P)
  BY <1>4, <1>6 DEF SentOK, QueuesOK
<1>9. NothingLost(r, K, P)
  BY <1>5, <1>6 DEF NothingLost, Over
<1>10. SessionOK(sess', Len(log), Pruned, Left)
  BY <1>1, <1>3, <1>7, <1>8, <1>9 DEF SessionOK
<1> QED BY <1>1, <1>2, <1>10, SessionMoves

\* The frame in flight goes out: it is newer than all that went before.
LEMMA FrameOut ==
  ASSUME ClientOK, LogOK, SessionOK(sess, Len(log), Pruned, Left),
         wire' = IF sess.frame = 0 THEN wire ELSE Append(wire, sess.frame),
         UNCHANGED <<log, cursor, got, base>>
  PROVE  ClientOK' /\ Left' = (IF sess.frame = 0 THEN Left ELSE Left \cup {sess.frame}) /\ Pruned' = Pruned
<1>1. Pruned' = Pruned
  BY DEF Pruned
<1>2. CASE sess.frame = 0
  <2>1. wire' = wire /\ Left' = Left
    BY <1>2 DEF Left
  <2> QED BY <1>1, <1>2, <2>1 DEF ClientOK
<1>3. CASE sess.frame # 0
  <2>1. PICK x, w, K : x = sess.frame /\ w = wire /\ K = Len(log)
    OBVIOUS
  <2>2. K \in Nat /\ SentOK(sess, Pruned, Left) /\ sess.latest \in 0 .. K /\ x \in 1 .. K
    BY <1>3, <2>1 DEF SessionOK, SessionTyped, LogOK
  <2>3. \A y \in Left : y < x
    BY <1>3, <2>1, <2>2 DEF SentOK
  <2>4. /\ w \in Seq(1 .. K) /\ got \subseteq 1 .. K /\ cursor \in got \cup {0}
        /\ \A i \in DOMAIN w : w[i] > cursor /\ \A j \in 1 .. i - 1 : w[j] < w[i]
        /\ \A y \in got : y <= cursor
        /\ \A y \in Left : \A m \in 1 .. y : m \in Left \/ m \in Pruned
    BY <2>1 DEF ClientOK
  <2>5. PICK v : v = Append(w, x)
    OBVIOUS
  <2>6. /\ v \in Seq(1 .. K) /\ Len(w) \in Nat /\ Len(v) = Len(w) + 1 /\ v[Len(w) + 1] = x
        /\ \A i \in 1 .. Len(w) : v[i] = w[i]
        /\ DOMAIN w = 1 .. Len(w) /\ DOMAIN v = 1 .. Len(w) + 1
    BY <2>2, <2>4, <2>5
  <2>7. Left = got \cup ToSet(w) /\ Left' = got \cup ToSet(v)
    BY <1>3, <2>1, <2>5 DEF Left
  <2>8. ToSet(v) = ToSet(w) \cup {x}
    <3>1. ASSUME NEW y \in ToSet(v) PROVE y \in ToSet(w) \cup {x}
      <4>1. PICK i \in 1 .. Len(w) + 1 : v[i] = y
        BY <2>6, <3>1 DEF ToSet
      <4>2. CASE i \in 1 .. Len(w)
        BY <2>6, <4>1, <4>2 DEF ToSet
      <4> QED BY <2>6, <4>1, <4>2
    <3>2. ASSUME NEW y \in ToSet(w) PROVE y \in ToSet(v)
      <4>1. PICK i \in 1 .. Len(w) : w[i] = y
        BY <2>6, <3>2 DEF ToSet
      <4>2. i \in DOMAIN v /\ v[i] = y
        BY <2>6, <4>1
      <4> QED BY <4>2 DEF ToSet
    <3>3. x \in ToSet(v)
      <4>1. Len(w) + 1 \in DOMAIN v
        BY <2>6
      <4> QED BY <2>6, <4>1 DEF ToSet
    <3> QED BY <3>1, <3>2, <3>3
  <2>9. Left' = Left \cup {x}
    BY <2>7, <2>8
  <2>10. x > cursor
    BY <2>2, <2>3, <2>4, <2>7
  <2>11. ASSUME NEW i \in DOMAIN v PROVE v[i] > cursor /\ \A j \in 1 .. i - 1 : v[j] < v[i]
    <3>1. CASE i \in 1 .. Len(w)
      <4>1. w[i] > cursor /\ \A j \in 1 .. i - 1 : w[j] < w[i]
        BY <2>4, <2>6, <3>1
      <4>2. \A j \in 1 .. i - 1 : j \in 1 .. Len(w)
        BY <2>6, <3>1
      <4> QED BY <2>6, <3>1, <4>1, <4>2
    <3>2. CASE i = Len(w) + 1
      <4>1. ASSUME NEW j \in 1 .. i - 1 PROVE v[j] < x
        <5>1. j \in 1 .. Len(w) /\ j \in DOMAIN w
          BY <2>6, <3>2
        <5>2. w[j] \in Left
          BY <2>7, <5>1 DEF ToSet
        <5> QED BY <2>3, <2>6, <5>1, <5>2
      <4> QED BY <2>6, <2>10, <3>2, <4>1
    <3> QED BY <2>6, <3>1, <3>2
  <2>12. ASSUME NEW y \in Left', NEW m \in 1 .. y PROVE m \in Left' \/ m \in Pruned'
    <3>1. CASE y \in Left
      BY <1>1, <2>4, <2>9, <3>1
    <3>2. CASE y = x
      <4>1. m \in 1 .. sess.latest
        BY <2>1, <2>2, <3>2 DEF SentOK
      <4>2. m \in Left \/ m = sess.frame \/ m \in Pruned
        BY <2>2, <4>1 DEF SentOK
      <4> QED BY <1>1, <2>1, <2>9, <4>2
    <3> QED BY <2>9, <3>1, <3>2
  <2>13. wire' = v /\ log' = log /\ cursor' = cursor /\ got' = got
    BY <1>3, <2>1, <2>5
  <2>14. ClientOK'
    BY <2>1, <2>4, <2>6, <2>11, <2>12, <2>13 DEF ClientOK
  <2> QED BY <1>1, <1>3, <2>1, <2>9, <2>14
<1> QED BY <1>2, <1>3

LEMMA WrittenKeeps == ASSUME StreamInv, Written PROVE StreamInv'
<1> DEFINE sent == IF sess.frame # 0 /\ log[sess.frame] = "terminal"
                   THEN [sess EXCEPT !.terminal = TRUE] ELSE sess
<1>1. /\ sess.writer # "none" /\ LogOK /\ ClientOK
      /\ sess' = IF sess.writer = "drain" THEN DrainNext(sent) ELSE [sent EXCEPT !.writer = "none", !.frame = 0]
      /\ wire' = IF sess.frame = 0 THEN wire ELSE Append(wire, sess.frame)
      /\ UNCHANGED <<log, mark, cursor, got, base>>
  BY DEF Written, StreamInv
<1>2. SessionOK(sess, Len(log), Pruned, Left) /\ LogOK'
  BY <1>1, IdleFields DEF StreamInv, LogOK
<1>3. ClientOK' /\ Left' = (IF sess.frame = 0 THEN Left ELSE Left \cup {sess.frame}) /\ Pruned' = Pruned
  BY <1>1, <1>2, FrameOut
<1>4. PICK K, P, G, H, s, r : K = Len(log) /\ P = Pruned /\ G = Left /\ H = Left' /\ s = sess /\ r = sent
  OBVIOUS
<1>5. r = s \/ r = [s EXCEPT !.terminal = TRUE]
  BY <1>4
<1>6. sess' = IF s.writer = "drain" THEN DrainNext(r) ELSE Freed(r)
  BY <1>1, <1>4 DEF Freed
<1> HIDE DEF sent
<1>7. K \in Nat /\ G \in SUBSET Nat /\ H \in SUBSET Nat /\ SessionOK(s, K, P, G)
  <2>1. K \in Nat
    BY <1>1, <1>4 DEF LogOK
  <2>2. Left' \subseteq 1 .. Len(log')
    <3>1. sess.frame \in 0 .. Len(log)
      BY <1>2 DEF SessionOK, SessionTyped
    <3>2. Left \subseteq 1 .. Len(log)
      BY <1>1, LeftNumbers
    <3> QED BY <1>1, <1>3, <1>4, <2>1, <3>1, <3>2
  <2>3. 1 .. Len(log') \subseteq Nat
    OBVIOUS
  <2> QED BY <1>1, <1>2, <1>4, <2>1, <2>2, <2>3, LeftNumbers
<1>8. H = IF s.frame = 0 THEN G ELSE G \cup {s.frame}
  BY <1>3, <1>4
<1>9. SessionTyped(r, K) /\ SessionOK(Freed(r), K, P, H)
  BY <1>5, <1>7, <1>8, FreedOK
<1>10. SessionOK(DrainNext(r), K, P, H)
  BY <1>7, <1>9, DrainOK
<1>11. SessionOK(sess', Len(log'), Pruned', Left')
  BY <1>1, <1>3, <1>4, <1>6, <1>9, <1>10
<1>12. sess' # NoSession
  BY <1>11, FlowingNotIdle
<1> QED BY <1>2, <1>3, <1>11, <1>12 DEF StreamInv

LEMMA CloseKeeps == ASSUME StreamInv, Close PROVE StreamInv'
<1>1. /\ sess.stage = "live" /\ LogOK /\ ClientOK /\ sess' = [NoSession EXCEPT !.stage = "closed"]
      /\ wire' = IF sess.frame = 0 THEN wire ELSE Append(wire, sess.frame)
      /\ UNCHANGED <<log, mark, cursor, got, base>>
  BY DEF Close, StreamInv
<1>2. SessionOK(sess, Len(log), Pruned, Left) /\ LogOK'
  BY <1>1, IdleFields DEF StreamInv, LogOK
<1>3. ClientOK'
  BY <1>1, <1>2, FrameOut
<1>4. sess' # NoSession
  BY <1>1 DEF NoSession
<1> QED BY <1>1, <1>2, <1>3, <1>4 DEF StreamInv, Idle

LEMMA ReadEndKeeps == ASSUME StreamInv, ReadEnd PROVE StreamInv'
<1>1. /\ wire = <<>> /\ sess' = NoSession /\ LogOK /\ ClientOK
      /\ UNCHANGED <<log, mark, wire, cursor, got, base>>
  BY DEF ReadEnd, StreamInv
<1>2. LogOK' /\ ClientOK'
  BY <1>1, ClientStays DEF LogOK
<1> QED BY <1>1, <1>2 DEF StreamInv, Idle

LEMMA StreamStep == StreamInv /\ [Next]_vars => StreamInv'
<1> SUFFICES ASSUME StreamInv, [Next]_vars PROVE StreamInv'
  OBVIOUS
<1>1. CASE Next
  BY <1>1, CommitKeeps, RepublishKeeps, RetainKeeps, ConnectKeeps, ResetKeeps, HeartbeatKeeps,
     DisconnectKeeps, ReplayStepKeeps, WrittenKeeps, SignalledKeeps, CloseKeeps, ReadKeeps,
     ReadEndKeeps DEF Next, Server, Client
<1>2. CASE UNCHANGED vars
  <2>1. /\ log' = log /\ mark' = mark /\ sess' = sess /\ wire' = wire
        /\ cursor' = cursor /\ got' = got /\ base' = base
    BY <1>2 DEF vars
  <2>2. LogOK' /\ ClientOK' /\ Pruned' = Pruned /\ Left' = Left
    BY <2>1 DEF StreamInv, LogOK, ClientOK, Pruned, Left
  <2>3. Idle(sess') \/ SessionOK(sess', Len(log'), Pruned', Left')
    BY <2>1, <2>2 DEF StreamInv
  <2> QED BY <2>1, <2>2, <2>3 DEF StreamInv
<1> QED BY <1>1, <1>2

\* What a session has sent has left it, is in flight or was deleted before the
\* client started; what it has not sent it still has, in order; in every
\* interleaving of JobRuntime.publish, the writes of JobSseSession and the client.
THEOREM StreamInvariant == Spec => []StreamInv
BY StreamInit, StreamStep, PTL DEF Spec

-----------------------------------------------------------------------------
(***************************************************************************)
(* What the client sees.                                                   *)
(***************************************************************************)

LEMMA ReadWithoutGap == StreamInv => NoSilentGap
<1> SUFFICES ASSUME StreamInv, NEW n \in 1 .. cursor PROVE n \in got \/ (log[n] = "progress" /\ n < base)
  BY DEF NoSilentGap
<1>1. /\ cursor \in got \cup {0} /\ wire \in Seq(1 .. Len(log)) /\ got \subseteq 1 .. Len(log)
      /\ \A i \in DOMAIN wire : wire[i] > cursor
      /\ \A x \in Left : \A m \in 1 .. x : m \in Left \/ m \in Pruned
  BY DEF StreamInv, ClientOK
<1>2. cursor \in got /\ cursor \in Left /\ cursor \in Nat
  BY <1>1 DEF Left
<1>3. n \in Left \/ n \in Pruned
  BY <1>1, <1>2
<1>4. n \notin ToSet(wire)
  <2>1. SUFFICES ASSUME n \in ToSet(wire) PROVE FALSE
    OBVIOUS
  <2>2. PICK i \in DOMAIN wire : wire[i] = n
    BY <2>1 DEF ToSet
  <2>3. n > cursor
    BY <1>1, <2>2
  <2> QED BY <1>2, <2>3
<1> QED BY <1>3, <1>4 DEF Left, Pruned

LEMMA OnItsWay == StreamInv => NothingDropped
<1> SUFFICES ASSUME StreamInv, sess.subscribed, ~Over(sess),
                    NEW n \in 1 .. Len(log), n > cursor, Stored(n)
             PROVE  n \in OnTheirWay
  BY DEF NothingDropped
<1>1. SessionOK(sess, Len(log), Pruned, Left) /\ LogOK /\ ClientOK
  BY IdleFields DEF StreamInv
<1>2. n \notin Pruned
  <2>1. n \in Pruned => log[n] = "progress" /\ n < base
    BY DEF Pruned
  <2> QED BY <1>1, <2>1 DEF Stored, LogOK
<1>3. n \notin got
  <2>1. got \subseteq 1 .. Len(log) /\ cursor \in got \cup {0} /\ \A x \in got : x <= cursor
    BY <1>1 DEF ClientOK
  <2>2. cursor \in Nat /\ n \in Nat
    BY <2>1
  <2> QED BY <2>1, <2>2
<1>4. sess.latest \in 0 .. Len(log) /\ Len(log) \in Nat
  BY <1>1 DEF SessionOK, SessionTyped, LogOK
<1>5. CASE n \in 1 .. sess.latest
  <2>1. n \in Left \/ n = sess.frame \/ n \in Pruned
    BY <1>1, <1>5 DEF SessionOK, SentOK
  <2> QED BY <1>2, <1>3, <2>1 DEF Left, OnTheirWay
<1>6. CASE n \in (sess.latest + 1) .. Len(log)
  <2>1. n \in Pruned \/ n \in Hands(sess)
    BY <1>1, <1>6 DEF SessionOK, NothingLost
  <2> QED BY <1>2, <2>1 DEF Hands, OnTheirWay
<1> QED BY <1>4, <1>5, <1>6

\* With any number of events and buffers of any size: the client has read every
\* event up to its cursor, but for progress events deleted before it started, and
\* every stored event above it is on its way through an open session.
THEOREM StreamIsSound == Spec => []StreamSound
<1>1. StreamInv => StreamSound
  BY ReadWithoutGap, OnItsWay DEF StreamSound
<1> QED BY <1>1, StreamInvariant, PTL

\* The client reads in the order of the log and nothing twice, however often it
\* is offered: only the answer EVENT_REPLAY_GAP takes its cursor back.
THEOREM EventsInOrder == Spec => InOrder
<1>1. StreamInv /\ [Next]_vars => [cursor' > cursor \/ (cursor' = 0 /\ CursorLost)]_cursor
  <2> SUFFICES ASSUME StreamInv, [Next]_vars, cursor' # cursor
               PROVE  cursor' > cursor \/ (cursor' = 0 /\ CursorLost)
    OBVIOUS
  <2>1. CASE Read
    BY <2>1, ReadKeeps
  <2>2. CASE Reset
    BY <2>2 DEF Reset
  <2>3. Read \/ Reset
    BY DEF Next, Server, Client, Commit, Republish, Retain, Connect, Heartbeat, Disconnect,
           ReplayStep, Written, Signalled, Close, ReadEnd, vars
  <2> QED BY <2>1, <2>2, <2>3
<1> QED BY <1>1, StreamInvariant, PTL DEF Spec, InOrder

-----------------------------------------------------------------------------
(***************************************************************************)
(* The changes of the pages of one browser (ClientChanges): for any number *)
(* of pages and tokens, a change is refused exactly when another token or  *)
(* a new secret overtook its own.                                          *)
(***************************************************************************)
Stages == {"none", "issued", "held", "sent", "applied", "refused"}

\* What a change remembers.
ChangesTyped ==
  /\ cookie \in Tokens \cup {NoToken} /\ signed \subseteq Tokens /\ overtaken \subseteq Changes
  /\ change \in [Changes -> [stage : Stages, token : Tokens \cup {NoToken},
                             cookie : Tokens \cup {NoToken}]]

\* No two changes have had the same token.
TokensDiffer ==
  \A c \in Changes, d \in Changes :
    c # d /\ change[c].stage # "none" /\ change[d].stage # "none"
      => change[c].token # change[d].token

\* A change that would be accepted, or was, as things are.
Good(c) ==
  /\ change[c].stage = "issued" => change[c].token \in signed
  /\ change[c].stage = "held" => IsValid(cookie, change[c].token)
  /\ change[c].stage = "sent" => IsValid(change[c].cookie, change[c].token)
  /\ change[c].stage # "refused"

\* A change is overtaken exactly if it would not be accepted: its own signature
\* is gone, or the cookie it has, or would have, is another one.
OvertakenTold ==
  \A c \in Changes : change[c].stage # "none" => (c \in overtaken <=> ~Good(c))

ChangesInv == ChangesTyped /\ TokensDiffer /\ OvertakenTold

ChangesSpec == ChangesInit /\ [][ChangesNext]_changeVars
\* Nothing has been issued when the client starts.
LEMMA ChangesStart == ChangesInit => ChangesInv
<1> SUFFICES ASSUME ChangesInit PROVE ChangesInv
  OBVIOUS
<1>1. ChangesTyped
  BY DEF ChangesInit, ChangesTyped, NoChange, Stages
<1>2. TokensDiffer /\ OvertakenTold
  BY DEF ChangesInit, TokensDiffer, OvertakenTold, NoChange
<1> QED BY <1>1, <1>2 DEF ChangesInv

\* A new token is in nobody's hands: it agrees with no cookie, and its signature
\* says nothing of the others'.
LEMMA IssueKeeps ==
  ASSUME ChangesInv, NEW c \in Changes, IssueToken(c)
  PROVE  ChangesInv'
<1> USE DEF ChangesInv
<1>1. PICK t \in Tokens \ InUse :
        /\ signed' = signed \cup {t}
        /\ change' = [change EXCEPT ![c] = [NoChange EXCEPT !.stage = "issued", !.token = t]]
  BY DEF IssueToken
<1>2. overtaken' = overtaken \ {c} /\ cookie' = cookie
  BY DEF IssueToken
<1>3. /\ change'[c] = [stage |-> "issued", token |-> t, cookie |-> NoToken]
      /\ \A d \in Changes \ {c} : change'[d] = change[d]
  BY <1>1 DEF ChangesTyped, NoChange
<1>4. t # cookie /\ \A d \in Changes : t # change[d].token /\ t # change[d].cookie
  BY <1>1 DEF InUse
<1>5. ChangesTyped'
  BY <1>1, <1>2, <1>3 DEF ChangesTyped, NoChange, Stages
<1>6. TokensDiffer'
  BY <1>3, <1>4 DEF TokensDiffer
<1>7. OvertakenTold'
  <2> SUFFICES ASSUME NEW d \in Changes, change'[d].stage # "none"
               PROVE  d \in overtaken' <=> ~Good(d)'
    BY DEF OvertakenTold
  <2>1. CASE d = c
    BY <2>1, <1>1, <1>2, <1>3 DEF Good
  <2>2. CASE d # c
    <3>1. Good(d)' <=> Good(d)
      BY <2>2, <1>1, <1>2, <1>3, <1>4 DEF Good, IsValid, ChangesTyped
    <3> QED BY <3>1, <2>2, <1>2, <1>3 DEF OvertakenTold
  <2> QED BY <2>1, <2>2
<1> QED BY <1>5, <1>6, <1>7

\* The token that arrives is another than those the other pages hold.
LEMMA ArrivalKeeps ==
  ASSUME ChangesInv, NEW c \in Changes, TokenArrives(c)
  PROVE  ChangesInv'
<1> USE DEF ChangesInv
<1>1. /\ change[c].stage = "issued" /\ cookie' = change[c].token /\ signed' = signed
      /\ change' = [change EXCEPT ![c].stage = "held"]
      /\ overtaken' = overtaken \cup {d \in Changes : change[d].stage = "held"}
  BY DEF TokenArrives, CookieAfter
<1>2. /\ change'[c] = [change[c] EXCEPT !.stage = "held"]
      /\ \A d \in Changes \ {c} : change'[d] = change[d]
      /\ \A d \in Changes : change'[d].token = change[d].token
  BY <1>1 DEF ChangesTyped
<1>3. ChangesTyped'
  BY <1>1, <1>2 DEF ChangesTyped, Stages
<1>4. TokensDiffer'
  BY <1>1, <1>2 DEF TokensDiffer
<1>5. OvertakenTold'
  <2> SUFFICES ASSUME NEW d \in Changes, change'[d].stage # "none"
               PROVE  d \in overtaken' <=> ~Good(d)'
    BY DEF OvertakenTold
  <2>1. CASE d = c
    <3>1. Good(d)' <=> Good(d)
      BY <2>1, <1>1, <1>2 DEF Good, IsValid, ChangesTyped
    <3> QED BY <3>1, <2>1, <1>1 DEF OvertakenTold
  <2>2. CASE d # c /\ change[d].stage = "held"
    <3>1. change[d].token # cookie'
      BY <2>2, <1>1 DEF TokensDiffer
    <3> QED BY <3>1, <2>2, <1>1, <1>2 DEF Good, IsValid
  <2>3. CASE d # c /\ change[d].stage # "held"
    <3>1. Good(d)' <=> Good(d)
      BY <2>3, <1>1, <1>2 DEF Good, IsValid
    <3> QED BY <3>1, <2>3, <1>1, <1>2 DEF OvertakenTold
  <2> QED BY <2>1, <2>2, <2>3
<1> QED BY <1>3, <1>4, <1>5

\* A change takes the cookie there is along, and is judged by what it took.
LEMMA SendingKeeps ==
  ASSUME ChangesInv, NEW c \in Changes, SubmitChange(c) \/ ChangeArrives(c)
  PROVE  ChangesInv'
<1> USE DEF ChangesInv
<1>1. /\ change[c].stage \in {"held", "sent"}
      /\ cookie' = cookie /\ signed' = signed /\ overtaken' = overtaken
  BY DEF SubmitChange, ChangeArrives
<1>2. /\ \A d \in Changes \ {c} : change'[d] = change[d]
      /\ \A d \in Changes : change'[d].token = change[d].token
      /\ change'[c].stage # "none"
  BY DEF SubmitChange, ChangeArrives, ChangesTyped
<1>3. ChangesTyped'
  BY <1>1 DEF SubmitChange, ChangeArrives, ChangesTyped, Stages
<1>4. TokensDiffer'
  BY <1>1, <1>2 DEF TokensDiffer
<1>5. OvertakenTold'
  <2>1. \A d \in Changes \ {c} : Good(d)' <=> Good(d)
    BY <1>1, <1>2 DEF Good, IsValid
  <2>2. Good(c)' <=> Good(c)
    <3>1. CASE SubmitChange(c)
      BY <3>1 DEF SubmitChange, Good, IsValid, ChangesTyped
    <3>2. CASE ChangeArrives(c)
      BY <3>2 DEF ChangeArrives, Good, IsValid, ChangesTyped
    <3> QED BY <3>1, <3>2
  <2> QED BY <2>1, <2>2, <1>1, <1>2 DEF OvertakenTold
<1> QED BY <1>3, <1>4, <1>5

\* Nothing on its way is accepted after a restart; what was decided stays so.
LEMMA RestartKeeps ==
  ASSUME ChangesInv, ServerRestarts
  PROVE  ChangesInv'
<1> USE DEF ChangesInv
<1>1. /\ signed' = {} /\ cookie' = cookie /\ change' = change
      /\ overtaken' = overtaken \cup {c \in Changes : change[c].stage \in {"issued", "held", "sent"}}
  BY DEF ServerRestarts
<1>2. ChangesTyped' /\ TokensDiffer'
  BY <1>1 DEF ChangesTyped, TokensDiffer
<1>3. OvertakenTold'
  <2> SUFFICES ASSUME NEW c \in Changes, change[c].stage # "none"
               PROVE  c \in overtaken' <=> ~Good(c)'
    BY <1>1 DEF OvertakenTold
  <2>1. CASE change[c].stage \in {"issued", "held", "sent"}
    BY <2>1, <1>1 DEF Good, IsValid
  <2>2. CASE change[c].stage \notin {"issued", "held", "sent"}
    <3>1. Good(c)' <=> Good(c)
      BY <2>2, <1>1 DEF Good
    <3> QED BY <3>1, <2>2, <1>1 DEF OvertakenTold
  <2> QED BY <2>1, <2>2
<1> QED BY <1>2, <1>3

LEMMA ChangesStep == ChangesInv /\ [ChangesNext]_changeVars => ChangesInv'
<1> SUFFICES ASSUME ChangesInv, [ChangesNext]_changeVars PROVE ChangesInv'
  OBVIOUS
<1>1. CASE ChangesNext
  BY <1>1, IssueKeeps, ArrivalKeeps, SendingKeeps, RestartKeeps DEF ChangesNext
<1>2. CASE UNCHANGED changeVars
  BY <1>2 DEF changeVars, ChangesInv, ChangesTyped, TokensDiffer, OvertakenTold, Good, IsValid
<1> QED BY <1>1, <1>2

LEMMA ChangesInvTells == ChangesInv => RefusedIfOvertaken
<1> SUFFICES ASSUME ChangesInv, NEW c \in Changes
             PROVE  /\ change[c].stage = "refused" => c \in overtaken
                    /\ change[c].stage = "applied" => c \notin overtaken
  BY DEF RefusedIfOvertaken
<1> QED BY DEF ChangesInv, OvertakenTold, Good

\* A change of a page is refused exactly when another token came into the browser,
\* or another secret into the server, between its token and its end: with any
\* number of pages, in every order of what localSecurityMiddleware is asked.
THEOREM OnlyOvertakenIsRefused == ChangesSpec => []RefusedIfOvertaken
BY ChangesStart, ChangesStep, ChangesInvTells, PTL DEF ChangesSpec

-----------------------------------------------------------------------------
(***************************************************************************)
(* The page with the jobs.                                                 *)
(***************************************************************************)

\* A call has its fields, whatever they are.
CallTyped(c) ==
  c = [at |-> c.at, fn |-> c.fn, item |-> c.item, flag |-> c.flag, newest |-> c.newest,
       served |-> c.served, rows |-> c.rows, fresh |-> c.fresh]

SheetTyped(s) == s = [of |-> s.of, content |-> s.content, rows |-> s.rows]

PageTyped(sheets) ==
  /\ call = [t \in Calls |-> call[t]] /\ \A t \in Calls : CallTyped(call[t])
  /\ sheet = [k \in sheets |-> sheet[k]] /\ \A k \in sheets : SheetTyped(sheet[k])

LEMMA FreeCallIs == FreeCalls # {} => FreeCall \in Calls /\ call[FreeCall].at = "idle"
<1> SUFFICES ASSUME FreeCalls # {} PROVE FreeCall \in FreeCalls
  BY DEF FreeCalls
<1>1. FreeCalls \in SUBSET Nat
  BY ListPageAssumption DEF FreeCalls
<1>2. \E t \in FreeCalls : \A u \in FreeCalls : t <= u
  BY <1>1, Least
<1> QED BY <1>2 DEF FreeCall

StatsSpec == StatsInit /\ [][StatsPageNext]_listPageVars

JobStates == {"absent", "active", "over", "done"}

\* What a list of the jobs, seen some time, says of those that are over is still
\* true; and so is what the answer to a change says of its job.
StillTrue(rows, states) ==
  /\ rows \in [Items -> JobStates]
  /\ \A i \in Items : rows[i] \in {"over", "done"} => states[i] = rows[i]

AnswerTrue(rows, i, states) ==
  \E s \in JobStates : rows = <<s>> /\ (s \in {"over", "done"} => states[i] = s)

\* What a call holds.
JobCallOK(c, listed, states) ==
  /\ c.at \in {"idle", "sending", "jobs", "events"}
  /\ c.at = "jobs" /\ c.served => StillTrue(c.rows, states)
  /\ c.at = "events" /\ c.served => c.rows = <<c.item>>
  /\ c.at = "sending" => c.item \in Items /\ listed
  /\ c.at = "sending" /\ c.served => AnswerTrue(c.rows, c.item, states)

Listed == sheet["jobs"].content # "none"

StatsInv ==
  /\ PageTyped({"jobs", "events"})
  /\ backend \in [Items -> JobStates]
  /\ \A t \in Calls : JobCallOK(call[t], Listed, backend)
  /\ Listed => StillTrue(sheet["jobs"].rows, backend)
  /\ sheet["events"].content # "none" => sheet["events"].rows = <<Expanded>>
  /\ \A f \in flags : \E t \in Calls : call[t].at # "idle" /\ call[t].flag[1] = f[1]

\* Jobs that are over stay as they are.
Onwards(states, later) ==
  /\ later \in [Items -> JobStates]
  /\ \A i \in Items : states[i] \in {"over", "done"} => later[i] = states[i]

LEMMA JobsGoOn ==
  ASSUME NEW states, NEW later, Onwards(states, later), NEW listed, NEW still, listed => still
  PROVE  /\ \A rows : StillTrue(rows, states) => StillTrue(rows, later)
         /\ \A c : JobCallOK(c, listed, states) => JobCallOK(c, still, later)
<1>1. \A rows : StillTrue(rows, states) => StillTrue(rows, later)
  BY DEF Onwards, StillTrue
<1>2. ASSUME NEW rows, NEW i \in Items, AnswerTrue(rows, i, states) PROVE AnswerTrue(rows, i, later)
  BY <1>2 DEF Onwards, AnswerTrue
<1>3. ASSUME NEW c, JobCallOK(c, listed, states) PROVE JobCallOK(c, still, later)
  BY <1>1, <1>2, <1>3 DEF JobCallOK
<1> QED BY <1>1, <1>3

LEMMA NoCallIs ==
  /\ CallTyped(NoCall) /\ NoCall.at = "idle" /\ ~NoCall.served
  /\ \A listed, states : JobCallOK(NoCall, listed, states)
BY DEF CallTyped, NoCall, JobCallOK

\* One call changes.
LEMMA OneCallChanges ==
  ASSUME call = [u \in Calls |-> call[u]], \A u \in Calls : CallTyped(call[u]),
         NEW t \in Calls, NEW d, CallTyped(d), call' = [call EXCEPT ![t] = d]
  PROVE  /\ call' = [u \in Calls |-> call'[u]] /\ \A u \in Calls : CallTyped(call'[u])
         /\ call'[t] = d /\ \A u \in Calls : u # t => call'[u] = call[u]
<1>1. /\ call' = [u \in Calls |-> call'[u]]
      /\ call'[t] = d /\ \A u \in Calls : u # t => call'[u] = call[u]
  OBVIOUS
<1> QED BY <1>1

\* A call that has no answer yet, or the one of its change, or of its list.
LEMMA JobCallIs ==
  ASSUME NEW c, NEW listed, NEW states, c.at \in {"idle", "sending", "jobs", "events"},
         c.at = "sending" => c.item \in Items /\ listed,
         \/ ~c.served
         \/ c.at = "sending" /\ AnswerTrue(c.rows, c.item, states)
         \/ c.at = "jobs" /\ StillTrue(c.rows, states)
         \/ c.at = "events" /\ c.rows = <<c.item>>
  PROVE  JobCallOK(c, listed, states)
BY DEF JobCallOK

LEMMA JobsStay == ASSUME StatsInv PROVE Onwards(backend, backend)
BY DEF StatsInv, Onwards

\* What a step leaves alone is as good as before.
LEMMA JobsLeftAlone ==
  ASSUME StatsInv, Onwards(backend, backend'), Listed => Listed'
  PROVE  /\ \A t \in Calls : call'[t] = call[t] => JobCallOK(call[t], Listed, backend)'
         /\ Listed => StillTrue(sheet["jobs"].rows, backend')
         /\ backend' \in [Items -> JobStates]
<1>1. /\ \A t \in Calls : JobCallOK(call[t], Listed, backend)
      /\ Listed => StillTrue(sheet["jobs"].rows, backend)
  BY DEF StatsInv
<1>2. /\ \A rows : StillTrue(rows, backend) => StillTrue(rows, backend')
      /\ \A c : JobCallOK(c, Listed, backend) => JobCallOK(c, Listed', backend')
  BY JobsGoOn
<1>3. backend' \in [Items -> JobStates]
  BY DEF Onwards
<1> QED BY <1>1, <1>2, <1>3

LEMMA StatsTyped ==
  ASSUME StatsInv
  PROVE  /\ call = [t \in Calls |-> call[t]] /\ \A t \in Calls : CallTyped(call[t])
         /\ sheet = [k \in {"jobs", "events"} |-> sheet[k]]
         /\ SheetTyped(sheet["jobs"]) /\ SheetTyped(sheet["events"])
BY DEF StatsInv, PageTyped

LEMMA StatsStart == StatsInit => StatsInv
<1> SUFFICES ASSUME StatsInit PROVE StatsInv
  OBVIOUS
<1>1. PageTyped({"jobs", "events"})
  BY DEF StatsInit, PageTyped, CallTyped, SheetTyped, NoCall, Blank
<1>2. backend \in [Items -> JobStates] /\ flags = {}
  BY DEF StatsInit, JobStates
<1>3. sheet["jobs"].content = "none" /\ sheet["events"].content = "none"
  BY DEF StatsInit, Blank
<1>4. \A t \in Calls : call[t].at \in {"idle", "jobs"} /\ ~call[t].served
  BY DEF StatsInit, NoCall
<1>5. \A t \in Calls : JobCallOK(call[t], Listed, backend)
  BY <1>4 DEF JobCallOK
<1> QED BY <1>1, <1>2, <1>3, <1>5 DEF StatsInv, Listed

\* A new call, with a flag that others may have had.
LEMMA JobCallStarts ==
  ASSUME StatsInv, NEW at \in {"jobs", "events", "sending"}, NEW fn, NEW i, NEW flag,
         Starts(at, fn, i, flag),
         at = "sending" => i \in Items /\ Listed,
         UNCHANGED backend,
         flags' = flags \/ flags' = Raised(flag),
         \/ UNCHANGED sheet
         \/ \E j : sheet' = [sheet EXCEPT !["events"] = [Blank EXCEPT !.of = j]]
  PROVE  StatsInv'
<1>1. PICK c : c = [NoCall EXCEPT !.at = at, !.fn = fn, !.item = i, !.flag = flag]
  OBVIOUS
<1>2. FreeCall \in Calls /\ call[FreeCall].at = "idle" /\ call' = [call EXCEPT ![FreeCall] = c]
  BY <1>1, FreeCallIs DEF Starts
<1>3. CallTyped(c) /\ c.at = at /\ c.item = i /\ c.flag = flag /\ ~c.served
  <2>1. PICK n : n = NoCall
    OBVIOUS
  <2>2. CallTyped(n) /\ ~n.served /\ c = [n EXCEPT !.at = at, !.fn = fn, !.item = i, !.flag = flag]
    BY <1>1, <2>1, NoCallIs
  <2> QED BY <2>2 DEF CallTyped
<1>4. /\ call' = [t \in Calls |-> call'[t]] /\ \A t \in Calls : CallTyped(call'[t])
      /\ call'[FreeCall] = c /\ \A t \in Calls : t # FreeCall => call'[t] = call[t]
  BY <1>2, <1>3, StatsTyped, OneCallChanges
<1>5. PageTyped({"jobs", "events"})' /\ sheet'["jobs"] = sheet["jobs"]
      /\ (sheet'["events"].content # "none" => UNCHANGED sheet)
  <2>1. CASE UNCHANGED sheet
    BY <1>4, <2>1, StatsTyped DEF PageTyped
  <2>2. ASSUME NEW j, sheet' = [sheet EXCEPT !["events"] = [Blank EXCEPT !.of = j]]
        PROVE  PageTyped({"jobs", "events"})' /\ sheet'["jobs"] = sheet["jobs"]
               /\ sheet'["events"].content = "none"
    BY <1>4, <2>2, StatsTyped DEF PageTyped, SheetTyped, Blank
  <2> QED BY <2>1, <2>2
<1>6. Onwards(backend, backend') /\ (Listed => Listed')
  BY <1>5, JobsStay DEF Listed
<1>7. JobCallOK(c, Listed', backend')
  <2>1. c.at \in {"idle", "sending", "jobs", "events"} /\ (c.at = "sending" => c.item \in Items /\ Listed')
    BY <1>3, <1>6
  <2> QED BY <1>3, <2>1, JobCallIs
<1>8. ASSUME NEW t \in Calls PROVE JobCallOK(call[t], Listed, backend)'
  <2>1. CASE t = FreeCall
    BY <1>4, <1>7, <2>1
  <2>2. CASE t # FreeCall
    BY <1>4, <1>6, <2>2, JobsLeftAlone
  <2> QED BY <2>1, <2>2
<1>9. ASSUME NEW f \in flags' PROVE \E t \in Calls : call'[t].at # "idle" /\ call'[t].flag[1] = f[1]
  <2>1. f \in flags \/ f = flag
    BY DEF Raised
  <2> QED BY <1>2, <1>3, <1>4, <2>1 DEF StatsInv
<1>10. Listed' => StillTrue(sheet["jobs"].rows, backend)'
  BY <1>5, <1>6, JobsLeftAlone DEF Listed
<1>11. sheet'["events"].content # "none" => sheet'["events"].rows = <<Expanded'>>
  BY <1>5 DEF StatsInv, Expanded
<1> QED BY <1>5, <1>6, <1>8, <1>9, <1>10, <1>11, JobsLeftAlone DEF StatsInv

\* A call ends, with its flags.
LEMMA JobCallEnds ==
  ASSUME StatsInv, NEW t \in Calls, EndJobCall(t), UNCHANGED backend,
         sheet' = [k \in {"jobs", "events"} |-> sheet'[k]],
         SheetTyped(sheet'["jobs"]), SheetTyped(sheet'["events"]),
         Listed => Listed',
         Listed' => StillTrue(sheet["jobs"].rows, backend)',
         sheet'["events"].content # "none" => sheet'["events"].rows = <<Expanded'>>
  PROVE  StatsInv'
<1>1. call' = [call EXCEPT ![t] = NoCall] /\ flags' = {f \in flags : f[1] # call[t].flag[1]}
  BY DEF EndJobCall
<1>2. /\ call' = [u \in Calls |-> call'[u]] /\ \A u \in Calls : CallTyped(call'[u])
      /\ call'[t] = NoCall /\ \A u \in Calls : u # t => call'[u] = call[u]
  BY <1>1, NoCallIs, StatsTyped, OneCallChanges
<1>3. Onwards(backend, backend')
  BY JobsStay
<1>4. ASSUME NEW u \in Calls PROVE JobCallOK(call[u], Listed, backend)'
  <2>1. CASE u = t
    BY <1>2, <2>1, NoCallIs
  <2>2. CASE u # t
    BY <1>2, <1>3, <2>2, JobsLeftAlone
  <2> QED BY <2>1, <2>2
<1>5. ASSUME NEW f \in flags' PROVE \E u \in Calls : call'[u].at # "idle" /\ call'[u].flag[1] = f[1]
  <2>1. PICK u \in Calls : call[u].at # "idle" /\ call[u].flag[1] = f[1]
    BY <1>1 DEF StatsInv
  <2>2. u # t
    BY <1>1, <2>1
  <2> QED BY <1>2, <2>1, <2>2
<1>6. PageTyped({"jobs", "events"})'
  BY <1>2 DEF PageTyped
<1> QED BY <1>3, <1>4, <1>5, <1>6, JobsLeftAlone DEF StatsInv

\* The server moves on, and calls with it that keep their flags.
LEMMA JobsMoveOn ==
  ASSUME StatsInv, Onwards(backend, backend'), UNCHANGED <<sheet, flags>>,
         call' = [t \in Calls |-> call'[t]], \A t \in Calls : CallTyped(call'[t]),
         \A t \in Calls : call[t].at # "idle" => call'[t].at # "idle" /\ call'[t].flag = call[t].flag,
         \A t \in Calls : call'[t] # call[t] => JobCallOK(call[t], Listed, backend)'
  PROVE  StatsInv'
<1>1. Listed' <=> Listed
  BY DEF Listed
<1>2. \A t \in Calls : JobCallOK(call[t], Listed, backend)'
  BY <1>1, JobsLeftAlone
<1>3. PageTyped({"jobs", "events"})'
  BY StatsTyped DEF PageTyped
<1>4. \A f \in flags' : \E t \in Calls : call'[t].at # "idle" /\ call'[t].flag[1] = f[1]
  BY DEF StatsInv
<1>5. sheet'["events"].content # "none" => sheet'["events"].rows = <<Expanded'>>
  BY DEF StatsInv, Expanded
<1> QED BY <1>1, <1>2, <1>3, <1>4, <1>5, JobsLeftAlone DEF StatsInv

LEMMA JobMovesKeeps == ASSUME StatsInv, NEW i \in Items, JobMoves(i) PROVE StatsInv'
<1>1. Onwards(backend, backend')
  BY DEF StatsInv, JobMoves, JobStates, Onwards
<1>2. UNCHANGED <<sheet, flags, call>>
  BY DEF JobMoves
<1> QED BY <1>1, <1>2, StatsTyped, JobsMoveOn

LEMMA JobServedKeeps == ASSUME StatsInv, NEW t \in Calls, JobServed(t) PROVE StatsInv'
<1>1. PICK i : i = call[t].item
  OBVIOUS
<1>2. PICK s \in JobSteps :
        /\ call[t].at = "sending" /\ s[2] = backend[i]
        /\ backend' = [backend EXCEPT ![i] = s[3]]
        /\ call' = [call EXCEPT ![t].served = TRUE, ![t].rows = <<s[3]>>]
        /\ UNCHANGED <<page, sheet, flags, errors, clicks>>
  BY <1>1 DEF JobServed
<1>3. i \in Items /\ Listed /\ backend \in [Items -> JobStates]
  BY <1>1, <1>2 DEF StatsInv, JobCallOK
<1>4. s[3] \in JobStates /\ (backend[i] \in {"over", "done"} => s[3] = backend[i])
  BY <1>2 DEF JobSteps, JobStates
<1>5. Onwards(backend, backend') /\ backend'[i] = s[3]
  BY <1>2, <1>3, <1>4 DEF Onwards
<1>6. PICK new, d : new = <<s[3]>> /\ d = [call[t] EXCEPT !.served = TRUE, !.rows = new]
  OBVIOUS
<1>7. /\ CallTyped(d) /\ d.at = "sending" /\ d.item = i /\ d.flag = call[t].flag
      /\ d.served /\ d.rows = new
  <2>1. PICK c : c = call[t]
    OBVIOUS
  <2>2. CallTyped(c) /\ d = [c EXCEPT !.served = TRUE, !.rows = new]
    BY <1>6, <2>1, StatsTyped
  <2>3. /\ CallTyped(d) /\ d.at = c.at /\ d.item = c.item /\ d.flag = c.flag
        /\ d.served /\ d.rows = new
    BY <2>2 DEF CallTyped
  <2> QED BY <1>1, <1>2, <2>1, <2>3
<1>8. call' = [call EXCEPT ![t] = d]
  <2>1. call' = [call EXCEPT ![t].served = TRUE, ![t].rows = new]
    BY <1>2, <1>6
  <2> QED BY <1>6, <2>1, StatsTyped
<1>9. /\ call' = [u \in Calls |-> call'[u]] /\ \A u \in Calls : CallTyped(call'[u])
      /\ call'[t] = d /\ \A u \in Calls : u # t => call'[u] = call[u]
  BY <1>7, <1>8, StatsTyped, OneCallChanges
<1>10. JobCallOK(d, Listed', backend')
  <2>1. AnswerTrue(d.rows, d.item, backend')
    BY <1>4, <1>5, <1>6, <1>7 DEF AnswerTrue
  <2>2. Listed'
    BY <1>2, <1>3 DEF Listed
  <2>3. d.at \in {"idle", "sending", "jobs", "events"} /\ d.item \in Items
    BY <1>3, <1>7
  <2> QED BY <1>7, <2>1, <2>2, <2>3, Zenon DEF JobCallOK
<1>11. \A u \in Calls : call'[u] # call[u] => JobCallOK(call[u], Listed, backend)'
  BY <1>9, <1>10
<1>12. \A u \in Calls : call[u].at # "idle" => call'[u].at # "idle" /\ call'[u].flag = call[u].flag
  BY <1>7, <1>9
<1> QED BY <1>2, <1>5, <1>9, <1>11, <1>12, JobsMoveOn

LEMMA SheetServedKeeps ==
  ASSUME StatsInv, NEW t \in Calls, NEW k \in {"jobs", "events"}, SheetServed(t, k)
  PROVE  StatsInv'
<1>1. PICK new : new = IF k = "events" THEN <<call[t].item>> ELSE backend
  OBVIOUS
<1>2. /\ call[t].at = k
      /\ call' = [call EXCEPT ![t].served = TRUE, ![t].fresh = TRUE, ![t].rows = new]
      /\ UNCHANGED <<page, backend, sheet, flags, errors, clicks>>
  BY <1>1 DEF SheetServed
<1>3. PICK d : d = [call[t] EXCEPT !.served = TRUE, !.fresh = TRUE, !.rows = new]
  OBVIOUS
<1>4. CallTyped(d) /\ d.at = k /\ d.item = call[t].item /\ d.flag = call[t].flag /\ d.rows = new
  <2>1. PICK c : c = call[t]
    OBVIOUS
  <2>2. CallTyped(c) /\ d = [c EXCEPT !.served = TRUE, !.fresh = TRUE, !.rows = new]
    BY <1>3, <2>1, StatsTyped
  <2>3. CallTyped(d) /\ d.at = c.at /\ d.item = c.item /\ d.flag = c.flag /\ d.rows = new
    BY <2>2 DEF CallTyped
  <2> QED BY <1>2, <2>1, <2>3
<1>5. call' = [call EXCEPT ![t] = d]
  BY <1>2, <1>3, StatsTyped
<1>6. /\ call' = [u \in Calls |-> call'[u]] /\ \A u \in Calls : CallTyped(call'[u])
      /\ call'[t] = d /\ \A u \in Calls : u # t => call'[u] = call[u]
  BY <1>4, <1>5, StatsTyped, OneCallChanges
<1>7. JobCallOK(d, Listed', backend')
  <2>1. StillTrue(backend, backend)
    BY DEF StillTrue, StatsInv
  <2>2. CASE k = "jobs"
    BY <1>1, <1>2, <1>4, <2>1, <2>2, JobCallIs
  <2>3. CASE k = "events"
    BY <1>1, <1>4, <2>3, JobCallIs
  <2> QED BY <2>2, <2>3
<1>8. \A u \in Calls : call'[u] # call[u] => JobCallOK(call[u], Listed, backend)'
  BY <1>6, <1>7
<1>9. \A u \in Calls : call[u].at # "idle" => call'[u].at # "idle" /\ call'[u].flag = call[u].flag
  BY <1>4, <1>6
<1> QED BY <1>2, <1>6, <1>8, <1>9, JobsStay, JobsMoveOn

LEMMA JobChangedKeeps == ASSUME StatsInv, NEW t \in Calls, JobChanged(t) PROVE StatsInv'
<1>1. PICK i : i = call[t].item
  OBVIOUS
<1>2. PICK s : s = call[t].rows[1]
  OBVIOUS
<1>3. i \in Items /\ s \in JobStates /\ (s \in {"over", "done"} => backend[i] = s) /\ Listed
  <2>1. JobCallOK(call[t], Listed, backend)
    BY DEF StatsInv
  <2>2. i \in Items /\ Listed /\ AnswerTrue(call[t].rows, i, backend)
    BY <1>1, <2>1 DEF JobChanged, JobCallOK
  <2> QED BY <1>2, <2>2 DEF AnswerTrue
<1>4. /\ sheet' = sheet \/ sheet' = [sheet EXCEPT !["jobs"].rows[i] = s]
      /\ EndJobCall(t) /\ UNCHANGED backend
  BY <1>1, <1>2 DEF JobChanged
<1>5. Onwards(backend, backend')
  BY <1>4, JobsStay
<1>6. sheet'["events"] = sheet["events"] =>
        (sheet'["events"].content # "none" => sheet'["events"].rows = <<Expanded'>>)
  BY DEF StatsInv, Expanded
<1>7. CASE sheet' = sheet
  BY <1>3, <1>4, <1>5, <1>6, <1>7, StatsTyped, JobsLeftAlone, JobCallEnds DEF Listed
<1>8. CASE sheet' = [sheet EXCEPT !["jobs"].rows[i] = s]
  <2>1. PICK d : d = [sheet["jobs"] EXCEPT !.rows = [sheet["jobs"].rows EXCEPT ![i] = s]]
    OBVIOUS
  <2>2. /\ sheet' = [k \in {"jobs", "events"} |-> sheet'[k]] /\ sheet'["events"] = sheet["events"]
        /\ sheet'["jobs"] = d
    <3>1. sheet' = [sheet EXCEPT !["jobs"] = d]
      BY <1>8, <2>1
    <3> QED BY <3>1, StatsTyped
  <2>3. SheetTyped(d) /\ d.content = sheet["jobs"].content
        /\ d.rows = [sheet["jobs"].rows EXCEPT ![i] = s]
    BY <2>1, StatsTyped DEF SheetTyped
  <2>4. StillTrue([sheet["jobs"].rows EXCEPT ![i] = s], backend)
    <3>1. StillTrue(sheet["jobs"].rows, backend)
      BY <1>3 DEF StatsInv
    <3> QED BY <1>3, <3>1 DEF StillTrue
  <2>5. Listed'
    BY <1>3, <2>2, <2>3 DEF Listed
  <2> QED BY <1>4, <1>6, <2>2, <2>3, <2>4, <2>5, StatsTyped, JobCallEnds
<1> QED BY <1>4, <1>7, <1>8

LEMMA JobCallFailsKeeps == ASSUME StatsInv, NEW t \in Calls, JobCallFails(t) PROVE StatsInv'
<1>1. sheet' = sheet /\ backend' = backend
  BY DEF JobCallFails
<1>2. CASE EndJobCall(t)
  <2>1. /\ Listed' <=> Listed
        /\ sheet'["events"].content # "none" => sheet'["events"].rows = <<Expanded'>>
    BY <1>1 DEF StatsInv, Expanded, Listed
  <2>2. Listed' => StillTrue(sheet["jobs"].rows, backend)'
    BY <1>1, <2>1, JobsStay, JobsLeftAlone
  <2> QED BY <1>1, <1>2, <2>1, <2>2, StatsTyped, JobCallEnds
<1>3. CASE ~EndJobCall(t)
  <2>1. /\ call[t].at # "idle" /\ call' = [call EXCEPT ![t].at = "jobs", ![t].served = FALSE]
        /\ UNCHANGED <<backend, sheet, flags>>
    BY <1>3 DEF JobCallFails
  <2>2. PICK d : d = [call[t] EXCEPT !.at = "jobs", !.served = FALSE]
    OBVIOUS
  <2>3. CallTyped(d) /\ d.at = "jobs" /\ d.flag = call[t].flag /\ ~d.served
    <3>1. PICK c : c = call[t]
      OBVIOUS
    <3>2. CallTyped(c) /\ d = [c EXCEPT !.at = "jobs", !.served = FALSE]
      BY <2>2, <3>1, StatsTyped
    <3>3. CallTyped(d) /\ d.at = "jobs" /\ d.flag = c.flag /\ ~d.served
      BY <3>2 DEF CallTyped
    <3> QED BY <3>1, <3>3
  <2>4. call' = [call EXCEPT ![t] = d]
    BY <2>1, <2>2, StatsTyped
  <2>5. /\ call' = [u \in Calls |-> call'[u]] /\ \A u \in Calls : CallTyped(call'[u])
        /\ call'[t] = d /\ \A u \in Calls : u # t => call'[u] = call[u]
    BY <2>3, <2>4, StatsTyped, OneCallChanges
  <2>6. JobCallOK(d, Listed', backend')
    BY <2>3, JobCallIs
  <2>7. /\ \A u \in Calls : call'[u] # call[u] => JobCallOK(call[u], Listed, backend)'
        /\ \A u \in Calls : call[u].at # "idle" => call'[u].at # "idle" /\ call'[u].flag = call[u].flag
    BY <2>3, <2>5, <2>6
  <2> QED BY <2>1, <2>5, <2>7, JobsStay, JobsMoveOn
<1> QED BY <1>2, <1>3

LEMMA ReceivedIs ==
  ASSUME NEW t, NEW of, NEW d, d = Received(t, of)
  PROVE  SheetTyped(d) /\ d.of = of /\ d.rows = call[t].rows /\ d.content # "none"
BY DEF Received, SheetTyped

\* One sheet changes.
LEMMA OneSheetChanges ==
  ASSUME sheet = [k \in {"jobs", "events"} |-> sheet[k]], NEW k \in {"jobs", "events"}, NEW d,
         sheet' = [sheet EXCEPT ![k] = d]
  PROVE  /\ sheet' = [j \in {"jobs", "events"} |-> sheet'[j]] /\ sheet'[k] = d
         /\ \A j \in {"jobs", "events"} : j # k => sheet'[j] = sheet[j]
OBVIOUS

LEMMA JobSheetFetchedKeeps ==
  ASSUME StatsInv, NEW t \in Calls, NEW k \in {"jobs", "events"}, JobSheetFetched(t, k)
  PROVE  StatsInv'
<1>1. /\ call[t].at = k /\ call[t].served /\ EndJobCall(t) /\ UNCHANGED backend
      /\ sheet' = IF k = "events"
              THEN IF EventsFit(t) THEN [sheet EXCEPT ![k] = Received(t, Expanded)] ELSE sheet
              ELSE [sheet EXCEPT ![k] = Received(t, NoItem)]
  BY DEF JobSheetFetched
<1>2. Onwards(backend, backend') /\ JobCallOK(call[t], Listed, backend)
  BY <1>1, JobsStay DEF StatsInv
<1>3. sheet'["events"] = sheet["events"] =>
        (sheet'["events"].content # "none" => sheet'["events"].rows = <<Expanded'>>)
  BY DEF StatsInv, Expanded
<1>4. sheet'["jobs"] = sheet["jobs"] =>
        (Listed => Listed') /\ (Listed' => StillTrue(sheet["jobs"].rows, backend)')
  BY <1>2, JobsLeftAlone DEF Listed
<1>5. CASE k = "jobs"
  <2>1. PICK d : d = Received(t, NoItem)
    OBVIOUS
  <2>2. sheet' = [sheet EXCEPT !["jobs"] = d]
    BY <1>1, <1>5, <2>1
  <2>3. SheetTyped(d) /\ d.rows = call[t].rows /\ d.content # "none"
    BY <2>1, ReceivedIs
  <2>4. /\ sheet' = [j \in {"jobs", "events"} |-> sheet'[j]]
        /\ sheet'["jobs"] = d /\ sheet'["events"] = sheet["events"]
    BY <2>2, StatsTyped, OneSheetChanges
  <2>5. StillTrue(d.rows, backend)
    BY <1>1, <1>2, <1>5, <2>3 DEF JobCallOK
  <2>6. Listed' /\ StillTrue(sheet["jobs"].rows, backend)'
    BY <1>1, <2>3, <2>4, <2>5 DEF Listed
  <2> QED BY <1>1, <1>3, <2>3, <2>4, <2>6, StatsTyped, JobCallEnds
<1>6. CASE k = "events" /\ EventsFit(t)
  <2>1. PICK d : d = Received(t, Expanded)
    OBVIOUS
  <2>2. sheet' = [sheet EXCEPT !["events"] = d]
    BY <1>1, <1>6, <2>1
  <2>3. SheetTyped(d) /\ d.rows = call[t].rows /\ d.of = Expanded
    BY <2>1, ReceivedIs
  <2>4. /\ sheet' = [j \in {"jobs", "events"} |-> sheet'[j]]
        /\ sheet'["events"] = d /\ sheet'["jobs"] = sheet["jobs"]
    BY <2>2, StatsTyped, OneSheetChanges
  <2>5. d.rows = <<d.of>>
    BY <1>1, <1>2, <1>6, <2>3 DEF JobCallOK, EventsFit
  <2>6. sheet'["events"].rows = <<Expanded'>>
    BY <2>4, <2>5 DEF Expanded
  <2> QED BY <1>1, <1>4, <2>3, <2>4, <2>6, StatsTyped, JobCallEnds
<1>7. CASE k = "events" /\ ~EventsFit(t)
  <2>1. sheet' = sheet
    BY <1>1, <1>7
  <2> QED BY <1>1, <1>3, <1>4, <2>1, StatsTyped, JobCallEnds
<1> QED BY <1>5, <1>6, <1>7

LEMMA ToggleKeeps == ASSUME StatsInv, NEW i \in Items, ToggleEvents(i) PROVE StatsInv'
<1>1. CASE Expanded = i
  <2>1. sheet' = [sheet EXCEPT !["events"] = Blank] /\ UNCHANGED <<backend, flags, call>>
    BY <1>1 DEF ToggleEvents
  <2>2. SheetTyped(Blank) /\ Blank.content = "none"
    BY DEF Blank, SheetTyped
  <2>3. /\ sheet' = [j \in {"jobs", "events"} |-> sheet'[j]]
        /\ sheet'["events"] = Blank /\ sheet'["jobs"] = sheet["jobs"]
    BY <2>1, StatsTyped, OneSheetChanges
  <2>4. PageTyped({"jobs", "events"})'
    BY <2>1, <2>2, <2>3, StatsTyped DEF PageTyped
  <2>5. (Listed' <=> Listed) /\ Onwards(backend, backend')
    BY <2>1, <2>3, JobsStay DEF Listed
  <2>6. /\ \A t \in Calls : JobCallOK(call[t], Listed, backend)'
        /\ Listed' => StillTrue(sheet["jobs"].rows, backend)'
    BY <2>1, <2>3, <2>5, JobsLeftAlone
  <2> QED BY <2>1, <2>2, <2>3, <2>4, <2>6 DEF StatsInv
<1>2. CASE Expanded # i
  <2>1. /\ \E j : sheet' = [sheet EXCEPT !["events"] = [Blank EXCEPT !.of = j]]
        /\ Starts("events", "show", i, EventsLoading) /\ flags' = Raised(EventsLoading)
        /\ UNCHANGED backend
    BY <1>2 DEF ToggleEvents
  <2> QED BY <2>1, JobCallStarts
<1> QED BY <1>1, <1>2

LEMMA StatsStep == StatsInv /\ [StatsPageNext]_listPageVars => StatsInv'
<1> SUFFICES ASSUME StatsInv, [StatsPageNext]_listPageVars PROVE StatsInv'
  OBVIOUS
<1>1. CASE Poll \/ RefreshJobs
  <2>1. Starts("jobs", "poll", NoItem, NoCall.flag) /\ UNCHANGED <<backend, flags, sheet>>
    BY <1>1 DEF Poll, RefreshJobs
  <2> QED BY <2>1, JobCallStarts
<1>2. ASSUME NEW i \in Items, CancelJob(i) PROVE StatsInv'
  <2>1. /\ Listed /\ Starts("sending", "cancel", i, Cancelling(i))
        /\ UNCHANGED <<backend, sheet>> /\ flags' = Raised(Cancelling(i))
    BY <1>2 DEF CancelJob, JobRow, JobListed, Listed
  <2> QED BY <2>1, JobCallStarts
<1>3. ASSUME NEW i \in Items, NEW n \in Items, RetryJob(i, n) PROVE StatsInv'
  <2>1. /\ Listed /\ Starts("sending", "retry", n, Retrying(i))
        /\ UNCHANGED <<backend, sheet>> /\ flags' = Raised(Retrying(i))
    BY <1>3 DEF RetryJob, JobRow, JobListed, Listed
  <2> QED BY <2>1, JobCallStarts
<1>4. ASSUME NEW i \in Items, ToggleEvents(i) \/ JobMoves(i) PROVE StatsInv'
  BY <1>4, ToggleKeeps, JobMovesKeeps
<1>5. ASSUME NEW t \in Calls, JobServed(t) \/ JobChanged(t) \/ JobCallFails(t) PROVE StatsInv'
  BY <1>5, JobServedKeeps, JobChangedKeeps, JobCallFailsKeeps
<1>6. ASSUME NEW t \in Calls, NEW k \in {"jobs", "events"}, SheetServed(t, k) \/ JobSheetFetched(t, k)
      PROVE  StatsInv'
  BY <1>6, SheetServedKeeps, JobSheetFetchedKeeps
<1>7. CASE UNCHANGED listPageVars
  <2>1. UNCHANGED <<backend, sheet, flags, call>>
    BY <1>7 DEF listPageVars
  <2> QED BY <2>1, JobsStay, StatsTyped, JobsMoveOn
<1> QED BY <1>1, <1>2, <1>3, <1>4, <1>5, <1>6, <1>7 DEF StatsPageNext

LEMMA StatsInvTells == StatsInv => StatsSound
<1> SUFFICES ASSUME StatsInv PROVE StatsSound
  OBVIOUS
<1>1. sheet["jobs"].content # "none" =>
        \A i \in Items : sheet["jobs"].rows[i] \in {"over", "done"} => sheet["jobs"].rows[i] = backend[i]
  BY DEF StatsInv, StillTrue, Listed
<1>2. (\A t \in Calls : call[t].at = "idle") => flags = {}
  BY DEF StatsInv
<1>3. sheet["events"].content # "none" => sheet["events"].rows = <<Expanded>>
  BY DEF StatsInv
<1> QED BY <1>1, <1>2, <1>3 DEF StatsSound

\* For any jobs and any number of calls whose answers come in any order: the events
\* shown are those of the expanded job, no job is shown as over that is not, and
\* nothing is busy once all calls are over.
THEOREM StatsAreSound == StatsSpec => []StatsSound
BY StatsInvTells, StatsStart, StatsStep, PTL DEF StatsSpec

-----------------------------------------------------------------------------
(***************************************************************************)
(* What pages tell.                                                        *)
(***************************************************************************)

PartsInv == (part = "page" => StatsInv) /\ (part = "changes" => ChangesInv)

\* PagesTell, for any jobs, calls and changes: each part by itself is sound, and
\* the parts share no state.
THEOREM PagesTellWhatIs == MCSpec => []PagesTell
<1>1. MCInit => PartsInv
  BY StatsStart, ChangesStart DEF MCInit, PartsInv
<1>2. PartsInv /\ [MCNext]_<<vars, listPageVars, changeVars, part>> => PartsInv'
  <2> SUFFICES ASSUME PartsInv, [MCNext]_<<vars, listPageVars, changeVars, part>> PROVE PartsInv'
    OBVIOUS
  <2>1. part' = part
    BY DEF MCNext
  <2>2. part = "page" => [StatsPageNext]_listPageVars
    BY DEF MCNext
  <2>3. part = "changes" => [ChangesNext]_changeVars
    BY DEF MCNext
  <2> QED BY <2>1, <2>2, <2>3, StatsStep, ChangesStep DEF PartsInv
<1>3. PartsInv => PagesTell
  BY StatsInvTells, ChangesInvTells DEF PartsInv, PagesTell
<1> QED BY <1>1, <1>2, <1>3, PTL DEF MCSpec
=============================================================================
