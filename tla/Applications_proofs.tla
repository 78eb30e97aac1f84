------------------------ MODULE Applications_proofs ------------------------
(***************************************************************************)
(* For any number of postings, applications, keys and stages, whatever is  *)
(* done to the pipelines: no application disappears, a posting has one at  *)
(* a time, its events explain it, and what was closed stays as it was.     *)
(***************************************************************************)
EXTENDS Applications, FiniteSetTheorems, SequenceTheorems, TLAPS

Statuses == Stages \cup {"saved", "interviewing"}
Rows == [exists : {TRUE}, post : Posts, key : Keys, stage : Stages, status : Statuses,
         applied : BOOLEAN, outcome : BOOLEAN, archived : BOOLEAN]
Kinds == {"created", "stage_changed", "recorded"}
Entries == [kind : Kinds, from : Stages \cup {"none"}, to : Stages]

AppsTyped ==
  /\ pipe \in [Posts -> Seq(Stages)]
  /\ post \in [Posts -> [state : {"none", "active", "archived"}, versions : Seq(Nat), current : Nat]]
  /\ app \in [Applicants -> {NoApp} \cup Rows]
  /\ events \in [Applicants -> Seq(Entries)]
  /\ upload \in [Uploads -> {NoUpload} \cup [busy : {TRUE}, post : Posts]]

\* An application belongs to a posting that exists: creating one replaces no
\* pipeline that an application needs.
PostsExist == \A a \in Applicants : Live(a) => post[app[a].post].state # "none"

\* What has been moved to an outcome is still there.
OutcomesStay == \A a \in Applicants : Live(a) /\ app[a].outcome => Outcome(app[a].stage)

ApplicationsInv == AppsTyped /\ PostsExist /\ OutcomesStay /\ ApplicationsSound
-----------------------------------------------------------------------------
(* Sequences.                                                              *)

\* A sequence has finitely many elements.
LEMMA ElementsFinite ==
  ASSUME NEW S, NEW q \in Seq(S)
  PROVE  IsFiniteSet(ToSet(q))
<1>1. q \in Surjection(1 .. Len(q), ToSet(q))
  BY DEF ToSet, Surjection
<1>2. IsFiniteSet(1 .. Len(q))
  BY FS_Interval
<1> QED BY <1>1, <1>2, FS_Surjection

\* The orders of a finite set are sequences that leave none of it out.
LEMMA OrderedAll ==
  ASSUME NEW S, IsFiniteSet(S), NEW q \in SetToSeqs(S)
  PROVE  q \in Seq(S) /\ ToSet(q) = S
<1> DEFINE D == 1 .. Cardinality(S)
<1>1. Cardinality(S) \in Nat
  BY FS_CardinalityType
<1>2. q \in [D -> S] /\ \A i, j \in D : i # j => q[i] # q[j]
  BY DEF SetToSeqs
<1>3. q \in Seq(S)
  BY <1>1, <1>2
<1>4. q \in Injection(D, S)
  BY <1>2 DEF Injection, IsInjective
<1>5. Cardinality(D) = Cardinality(S)
  BY <1>1, FS_Interval
<1>6. q \in Surjection(D, S)
  BY <1>4, <1>5, FS_Injection
<1>7. ToSet(q) = S
  BY <1>2, <1>6 DEF Surjection, ToSet
<1> QED BY <1>3, <1>7

\* Removing one place of a sequence removes at most what was there.
LEMMA PlaceRemoved ==
  ASSUME NEW S, NEW q \in Seq(S), NEW i \in DOMAIN q
  PROVE  /\ RemoveAt(q, i) \in Seq(S)
         /\ \A x \in ToSet(q) : x # q[i] => x \in ToSet(RemoveAt(q, i))
<1> DEFINE r == RemoveAt(q, i)
           front == SubSeq(q, 1, i - 1)
           rest == SubSeq(q, i + 1, Len(q))
<1>2. /\ r \in Seq(S) /\ Len(r) = Len(q) - 1
      /\ \A n \in 1 .. Len(r) : r[n] = IF n < i THEN q[n] ELSE q[n + 1]
  <2>1. front \in Seq(S) /\ Len(front) = i - 1 /\ \A n \in 1 .. i - 1 : front[n] = q[n]
    OBVIOUS
  <2>2. /\ rest \in Seq(S) /\ Len(rest) = Len(q) - i
        /\ \A n \in 1 .. Len(q) - i : rest[n] = q[n + i]
    OBVIOUS
  <2>3. r = front \o rest
    BY DEF RemoveAt
  <2> HIDE DEF r, front, rest
  <2>4. /\ r \in Seq(S) /\ Len(r) = Len(q) - 1
        /\ \A n \in 1 .. Len(r) : r[n] = IF n <= i - 1 THEN front[n] ELSE rest[n - (i - 1)]
    BY <2>1, <2>2, <2>3, ConcatProperties
  <2>5. ASSUME NEW n \in 1 .. Len(r) PROVE r[n] = IF n < i THEN q[n] ELSE q[n + 1]
    <3>1. CASE n < i
      BY <3>1, <2>1, <2>4
    <3>2. CASE ~(n < i)
      <4>1. n - (i - 1) \in 1 .. Len(q) - i /\ (n - (i - 1)) + i = n + 1
        BY <3>2, <2>4
      <4>2. r[n] = rest[n - (i - 1)]
        BY <3>2, <2>4
      <4>3. rest[n - (i - 1)] = q[(n - (i - 1)) + i]
        BY <4>1, <2>2
      <4> QED BY <4>1, <4>2, <4>3, <3>2
    <3> QED BY <3>1, <3>2
  <2> QED BY <2>4, <2>5
<1> HIDE DEF r
<1>3. ASSUME NEW k \in DOMAIN q, k # i PROVE q[k] \in ToSet(r)
  <2>1. CASE k < i
    BY <2>1, <1>2 DEF ToSet
  <2>2. CASE k > i
    <3>1. k - 1 \in 1 .. Len(r) /\ r[k - 1] = q[k]
      BY <2>2, <1>2
    <3> QED BY <3>1, <1>2 DEF ToSet
  <2> QED BY <1>3, <2>1, <2>2
<1>4. \A x \in ToSet(q) : x # q[i] => x \in ToSet(r)
  BY <1>3 DEF ToSet
<1> QED BY <1>2, <1>4 DEF r
-----------------------------------------------------------------------------
(* The steps.                                                              *)

\* There is nothing at first.
LEMMA ApplicationsStart == ApplicationsInit => ApplicationsInv
<1> SUFFICES ASSUME ApplicationsInit PROVE ApplicationsInv
  OBVIOUS
<1>1. AppsTyped
  BY DEF ApplicationsInit, AppsTyped, NoPost, NoUpload
<1>2. \A a \in Applicants : ~Live(a)
  BY DEF ApplicationsInit, Live, NoApp
<1> QED BY <1>1, <1>2 DEF ApplicationsInv, PostsExist, OutcomesStay, ApplicationsSound,
             NoneDisappears, OneApplication, HistoryExplains

\* What lives is a row.
LEMMA LiveIsRow ==
  ASSUME AppsTyped, NEW a \in Applicants, Live(a)
  PROVE  app[a] \in Rows
<1>1. app[a] \in {NoApp} \cup Rows
  BY DEF AppsTyped
<1>2. app[a] # NoApp
  BY DEF Live, NoApp
<1> QED BY <1>1, <1>2

\* A pipeline may change as long as it keeps the stages of its applications.
LEMMA PipelinesKeep ==
  ASSUME ApplicationsInv, UNCHANGED <<post, app, events, upload>>,
         pipe' \in [Posts -> Seq(Stages)],
         \A a \in Applicants : Live(a) => app[a].stage \in ToSet(pipe'[app[a].post])
  PROVE  ApplicationsInv'
<1>1. AppsTyped' /\ PostsExist' /\ OutcomesStay'
  BY DEF ApplicationsInv, AppsTyped, PostsExist, OutcomesStay, Live
<1>2. NoneDisappears'
  BY DEF NoneDisappears, Listed, Live
<1>3. OneApplication' /\ HistoryExplains'
  BY DEF ApplicationsInv, ApplicationsSound, OneApplication, HistoryExplains, Explained, Live
<1> QED BY <1>1, <1>2, <1>3 DEF ApplicationsInv, ApplicationsSound

\* A posting may change as long as it exists for its applications.
LEMMA PostingsKeep ==
  ASSUME ApplicationsInv, UNCHANGED <<pipe, app, events>>, AppsTyped', PostsExist'
  PROVE  ApplicationsInv'
<1>1. OutcomesStay'
  BY DEF ApplicationsInv, OutcomesStay, Live
<1>2. ApplicationsSound'
  BY DEF ApplicationsInv, ApplicationsSound, NoneDisappears, Listed, Live, OneApplication,
     HistoryExplains, Explained
<1> QED BY <1>1, <1>2 DEF ApplicationsInv

\* The stages of the pipelines, edited while applications stand at them.
LEMMA StagesStep ==
  ASSUME ApplicationsInv, NEW p \in Posts,
         \/ \E s \in Customs : CreateStage(s) \/ DeleteStage(s) \/ CreatePostStage(p, s)
         \/ \E s \in Stages : DeletePostStage(p, s)
         \/ ReorderPostStages(p)
  PROVE  ApplicationsInv'
<1> USE DEF ApplicationsInv
<1>1. UNCHANGED <<post, app, events, upload>>
  BY DEF CreateStage, DeleteStage, CreatePostStage, DeletePostStage, ReorderPostStages
<1>2. \A a \in Applicants : Live(a) =>
        app[a].post \in Posts /\ app[a].stage \in ToSet(pipe[app[a].post])
  <2> SUFFICES ASSUME NEW a \in Applicants, Live(a)
               PROVE  app[a].post \in Posts /\ app[a].stage \in ToSet(pipe[app[a].post])
    OBVIOUS
  <2>1. app[a].post \in Posts
    BY LiveIsRow DEF Rows
  <2>2. a \in Listed
    BY DEF ApplicationsSound, NoneDisappears
  <2> QED BY <2>1, <2>2 DEF Listed
<1>3. pipe \in [Posts -> Seq(Stages)]
  BY DEF AppsTyped
<1> SUFFICES /\ pipe' \in [Posts -> Seq(Stages)]
             /\ \A a \in Applicants : Live(a) => app[a].stage \in ToSet(pipe'[app[a].post])
  BY <1>1, PipelinesKeep
<1>4. CASE pipe' = pipe
  BY <1>2, <1>3, <1>4
<1>5. ASSUME NEW s \in Customs, CreatePostStage(p, s)
      PROVE  /\ pipe' \in [Posts -> Seq(Stages)]
             /\ \A a \in Applicants : Live(a) => app[a].stage \in ToSet(pipe'[app[a].post])
  <2>1. pipe' = [pipe EXCEPT ![p] = Append(@, s)] /\ s \in Stages
    BY <1>5 DEF CreatePostStage, Stages
  <2>2. pipe' \in [Posts -> Seq(Stages)]
    BY <2>1, <1>3
  <2>3. \A x \in ToSet(pipe[p]) : x \in ToSet(pipe'[p])
    BY <2>1, <1>3 DEF ToSet
  <2> QED BY <2>1, <2>2, <2>3, <1>2, <1>3
<1>6. ASSUME NEW s \in Stages, DeletePostStage(p, s)
      PROVE  /\ pipe' \in [Posts -> Seq(Stages)]
             /\ \A a \in Applicants : Live(a) => app[a].stage \in ToSet(pipe'[app[a].post])
  <2>1. PICK i \in DOMAIN pipe[p] :
          pipe[p][i] = s /\ pipe' = [pipe EXCEPT ![p] = RemoveAt(@, i)]
    BY <1>6 DEF DeletePostStage
  <2>2. pipe[p] \in Seq(Stages) /\ pipe[p][i] = s
    BY <2>1, <1>3
  <2>3. RemoveAt(pipe[p], i) \in Seq(Stages)
    BY <2>1, <2>2, PlaceRemoved
  <2>4. \A x \in ToSet(pipe[p]) : x # s => x \in ToSet(RemoveAt(pipe[p], i))
    BY <2>1, <2>2, PlaceRemoved
  <2>5. pipe' \in [Posts -> Seq(Stages)] /\ pipe'[p] = RemoveAt(pipe[p], i)
    BY <2>1, <2>3, <1>3
  <2>6. \A a \in Applicants : Live(a) /\ app[a].post = p => app[a].stage # s
    BY <1>6 DEF DeletePostStage, InUse
  <2> QED BY <2>1, <2>4, <2>5, <2>6, <1>2, <1>3
<1>7. ASSUME ReorderPostStages(p)
      PROVE  /\ pipe' \in [Posts -> Seq(Stages)]
             /\ \A a \in Applicants : Live(a) => app[a].stage \in ToSet(pipe'[app[a].post])
  <2>1. PICK order \in SetToSeqs(ToSet(pipe[p])) : pipe' = [pipe EXCEPT ![p] = order]
    BY <1>7 DEF ReorderPostStages
  <2>2. order \in Seq(ToSet(pipe[p])) /\ ToSet(order) = ToSet(pipe[p])
    BY <1>3, ElementsFinite, OrderedAll
  <2>3. ToSet(pipe[p]) \subseteq Stages
    BY <1>3 DEF ToSet
  <2>4. order \in Seq(Stages)
    BY <2>2, <2>3
  <2> QED BY <2>1, <2>2, <2>4, <1>2, <1>3
<1> QED BY <1>4, <1>5, <1>6, <1>7 DEF CreateStage, DeleteStage

\* Postings are made, given versions and archived beside their applications.
LEMMA PostingStep ==
  ASSUME ApplicationsInv, NEW p \in Posts,
         \/ CreatePost(p) \/ ArchivePost(p)
         \/ \E u \in Uploads : BeginPostVersion(u, p) \/ AddPostVersion(u)
  PROVE  ApplicationsInv'
<1> USE DEF ApplicationsInv
<1>1. \A a \in Applicants : Live(a) => app[a].post \in Posts /\ post[app[a].post].state # "none"
  BY LiveIsRow DEF Rows, PostsExist
<1>2. CASE CreatePost(p)
  <2>1. PICK order \in SetToSeqs(SystemStages) : pipe' = [pipe EXCEPT ![p] = order]
    BY <1>2 DEF CreatePost
  <2>2. order \in Seq(Stages)
    BY OrderedAll, StagesAssumption DEF Stages
  <2>3. /\ UNCHANGED <<app, events, upload>> /\ post[p].state = "none"
        /\ post' = [post EXCEPT ![p] = [state |-> "active", versions |-> <<1>>, current |-> 1]]
    BY <1>2 DEF CreatePost
  <2>4. AppsTyped'
    <3>1. [state |-> "active", versions |-> <<1>>, current |-> 1]
            \in [state : {"none", "active", "archived"}, versions : Seq(Nat), current : Nat]
      OBVIOUS
    <3>2. post' \in [Posts -> [state : {"none", "active", "archived"}, versions : Seq(Nat), current : Nat]]
      BY <2>3, <3>1 DEF AppsTyped
    <3>3. pipe' \in [Posts -> Seq(Stages)]
      BY <2>1, <2>2 DEF AppsTyped
    <3> QED BY <2>3, <3>2, <3>3 DEF AppsTyped
  <2>5. \A a \in Applicants : Live(a) => app[a].post # p
    BY <1>1, <2>3
  <2>6. PostsExist' /\ OutcomesStay'
    BY <1>1, <2>3, <2>5 DEF PostsExist, OutcomesStay, Live, AppsTyped
  <2>7. NoneDisappears'
    <3> SUFFICES ASSUME NEW a \in Applicants, Live(a)
                 PROVE  app[a].stage \in ToSet(pipe'[app[a].post])
      BY <2>3 DEF NoneDisappears, Listed, Live
    <3>1. a \in Listed
      BY DEF ApplicationsSound, NoneDisappears
    <3> QED BY <3>1, <1>1, <2>1, <2>5 DEF Listed, AppsTyped
  <2>8. OneApplication' /\ HistoryExplains'
    BY <2>3 DEF ApplicationsSound, OneApplication, HistoryExplains, Explained, Live
  <2> QED BY <2>4, <2>6, <2>7, <2>8 DEF ApplicationsSound
<1>3. CASE ArchivePost(p)
  <2>1. /\ UNCHANGED <<pipe, app, events, upload>>
        /\ post' = [post EXCEPT ![p].state = "archived"]
    BY <1>3 DEF ArchivePost
  <2>2. AppsTyped'
    BY <2>1 DEF AppsTyped
  <2>3. PostsExist'
    BY <1>1, <2>1 DEF PostsExist, Live, AppsTyped
  <2> QED BY <2>1, <2>2, <2>3, PostingsKeep
<1>4. ASSUME NEW u \in Uploads, BeginPostVersion(u, p) PROVE ApplicationsInv'
  <2>1. /\ UNCHANGED <<pipe, post, app, events>>
        /\ upload' = [upload EXCEPT ![u] = [busy |-> TRUE, post |-> p]]
    BY <1>4 DEF BeginPostVersion
  <2>2. AppsTyped' /\ PostsExist'
    BY <2>1 DEF AppsTyped, PostsExist, Live
  <2> QED BY <2>1, <2>2, PostingsKeep
<1>5. ASSUME NEW u \in Uploads, AddPostVersion(u) PROVE ApplicationsInv'
  <2> DEFINE q == upload[u].post
             n == Len(post[q].versions) + 1
  <2>1. /\ UNCHANGED <<pipe, app, events>> /\ upload' = [upload EXCEPT ![u] = NoUpload]
        /\ \/ post' = post
           \/ post' = [post EXCEPT ![q].versions = Append(@, n), ![q].current = n]
    BY <1>5 DEF AddPostVersion
  <2>2. q \in Posts
    <3>1. upload[u] \in {NoUpload} \cup [busy : {TRUE}, post : Posts] /\ upload[u].busy
      BY <1>5 DEF AddPostVersion, AppsTyped
    <3>2. upload[u] # NoUpload
      BY <3>1 DEF NoUpload
    <3> QED BY <3>1, <3>2
  <2>3. n \in Nat /\ post[q].versions \in Seq(Nat)
    BY <2>2 DEF AppsTyped
  <2> HIDE DEF q, n
  <2>4. AppsTyped' /\ \A r \in Posts : post'[r].state = post[r].state
    <3>1. CASE post' = post
      BY <2>1, <3>1 DEF AppsTyped
    <3>2. CASE post' = [post EXCEPT ![q].versions = Append(@, n), ![q].current = n]
      <4> DEFINE row == [post[q] EXCEPT !.versions = Append(@, n), !.current = n]
      <4>1. post[q] \in [state : {"none", "active", "archived"}, versions : Seq(Nat), current : Nat]
        BY <2>2 DEF AppsTyped
      <4>2. Append(post[q].versions, n) \in Seq(Nat)
        BY <2>3
      <4>3. /\ row \in [state : {"none", "active", "archived"}, versions : Seq(Nat), current : Nat]
            /\ row.state = post[q].state
        <5> DEFINE longer == [post[q] EXCEPT !.versions = Append(@, n)]
        <5>1. longer \in [state : {"none", "active", "archived"}, versions : Seq(Nat), current : Nat]
          BY <4>1, <4>2
        <5>2. longer.state = post[q].state
          BY <4>1
        <5>3. row = [longer EXCEPT !.current = n]
          OBVIOUS
        <5> HIDE DEF row, longer
        <5> QED BY <5>1, <5>2, <5>3, <2>3
      <4>4. post' = [post EXCEPT ![q] = row]
        BY <3>2, <2>2 DEF AppsTyped
      <4> HIDE DEF row
      <4> QED BY <4>3, <4>4, <2>1, <2>2 DEF AppsTyped
    <3> QED BY <2>1, <3>1, <3>2
  <2>6. PostsExist'
    BY <1>1, <2>1, <2>4 DEF PostsExist, Live
  <2> QED BY <2>1, <2>4, <2>6, PostingsKeep
<1> QED BY <1>2, <1>3, <1>4, <1>5

\* An application whose row and events are left alone stays explained.
LEMMA ExplainedStays ==
  ASSUME NEW a \in Applicants, Explained(a), app'[a] = app[a], events'[a] = events[a]
  PROVE  Explained(a)'
BY Zenon DEF Explained

\* A new application stands first in its posting's pipeline, alone among those
\* that are not archived, with the one event that says so.
LEMMA CreationStep ==
  ASSUME ApplicationsInv, NEW c \in Applicants, NEW p \in Posts, NEW k \in Keys,
         CreateApplication(c, p, k)
  PROVE  ApplicationsInv'
<1> USE DEF ApplicationsInv
<1> DEFINE row == [exists |-> TRUE, post |-> p, key |-> k, stage |-> Head(pipe[p]), status |-> "saved",
                   applied |-> FALSE, outcome |-> FALSE, archived |-> FALSE]
           entry == [kind |-> "created", from |-> "none", to |-> Head(pipe[p])]
<1>1. /\ ~Live(c) /\ pipe[p] # <<>> /\ post[p].state = "active"
      /\ \A b \in Listed : app[b].key # k
      /\ \A b \in Applicants : Live(b) /\ app[b].post = p => app[b].archived
      /\ app' = [app EXCEPT ![c] = row] /\ events' = [events EXCEPT ![c] = <<entry>>]
      /\ UNCHANGED <<custom, pipe, post, upload>>
  BY DEF CreateApplication
<1>2. Head(pipe[p]) \in Stages /\ Head(pipe[p]) \in ToSet(pipe[p])
  BY <1>1 DEF AppsTyped, ToSet
<1>3. row \in Rows
  BY <1>2 DEF Rows, Statuses
<1>4. entry \in Entries
  BY <1>2 DEF Entries, Kinds
<1>5. /\ row.exists /\ row.post = p /\ row.key = k /\ row.stage = Head(pipe[p])
      /\ row.applied = FALSE /\ row.outcome = FALSE
  OBVIOUS
<1>6. entry.kind = "created" /\ entry.to = row.stage
  OBVIOUS
<1> HIDE DEF row, entry
<1>7. /\ app'[c] = row /\ events'[c] = <<entry>>
      /\ \A a \in Applicants \ {c} : app'[a] = app[a] /\ events'[a] = events[a] /\ (Live(a)' <=> Live(a))
  BY <1>1 DEF AppsTyped, Live
<1>8. AppsTyped'
  <2>1. <<entry>> \in Seq(Entries)
    BY <1>4
  <2>2. app' \in [Applicants -> {NoApp} \cup Rows]
    BY <1>1, <1>3 DEF AppsTyped
  <2> QED BY <1>1, <2>1, <2>2 DEF AppsTyped
<1>9. PostsExist' /\ OutcomesStay'
  BY <1>1, <1>5, <1>7 DEF PostsExist, OutcomesStay, Live
<1>10. NoneDisappears'
  BY <1>1, <1>2, <1>5, <1>7 DEF ApplicationsSound, NoneDisappears, Listed, Live
<1>11. OneApplication'
  <2> SUFFICES ASSUME NEW a \in Applicants, NEW b \in Applicants, Live(a)', Live(b)', a # b
               PROVE  /\ app'[a].key # app'[b].key
                      /\ app'[a].post = app'[b].post => app'[a].archived \/ app'[b].archived
    BY DEF OneApplication
  <2>1. \A d \in Applicants : Live(d) => app[d].key # k
    BY <1>1 DEF ApplicationsSound, NoneDisappears
  <2> QED BY <1>1, <1>5, <1>7, <2>1 DEF ApplicationsSound, OneApplication
<1>12. HistoryExplains'
  <2>1. Explained(c)'
    <3> DEFINE e == <<entry>>
               Moved(S) == \E i \in DOMAIN e : e[i].kind = "stage_changed" /\ e[i].to \in S
    <3>1. e # <<>> /\ DOMAIN e = {1} /\ Len(e) = 1 /\ e[1] = entry
      OBVIOUS
    <3> HIDE DEF e
    <3>2. \A S : ~Moved(S)
      BY <3>1, <1>6
    <3>3. /\ app'[c].applied = Moved({Applied})
          /\ app'[c].outcome = Moved(Outcomes)
      BY <3>2, <1>5, <1>7, Zenon
    <3>4. /\ e # <<>> /\ e[1].kind = "created"
          /\ \A i \in 2..Len(e) : e[i].kind # "created" /\ e[i].from = e[i - 1].to
          /\ e[Len(e)].to = app'[c].stage
      BY <3>1, <1>5, <1>6, <1>7
    <3>5. events'[c] = e
      BY <1>7 DEF e
    <3> QED BY <3>3, <3>4, <3>5, Zenon DEF Explained, Last
  <2>2. ASSUME NEW a \in Applicants \ {c}, Live(a) PROVE Explained(a)'
    <3>1. Explained(a)
      BY <2>2 DEF ApplicationsSound, HistoryExplains
    <3>2. app'[a] = app[a] /\ events'[a] = events[a]
      BY <1>7
    <3> QED BY <3>1, <3>2, ExplainedStays
  <2> QED BY <2>1, <2>2, <1>7 DEF HistoryExplains
<1> QED BY <1>8, <1>9, <1>10, <1>11, <1>12 DEF ApplicationsSound

\* An event that starts at the application's stage and ends at its next one
\* continues its history.
LEMMA LoggedExplains ==
  ASSUME ApplicationsInv, NEW c \in Applicants, Live(c), NEW x \in Entries,
         events' = [events EXCEPT ![c] = Append(@, x)],
         x.kind # "created", x.from = app[c].stage, x.to = app'[c].stage,
         app'[c] \in Rows,
         app'[c].applied <=> app[c].applied \/ (x.kind = "stage_changed" /\ x.to \in {Applied}),
         app'[c].outcome <=> app[c].outcome \/ (x.kind = "stage_changed" /\ x.to \in Outcomes)
  PROVE  Explained(c)'
<1> USE DEF ApplicationsInv
<1> DEFINE old == events[c]
           new == Append(old, x)
           Moved(e, S) == \E i \in DOMAIN e : e[i].kind = "stage_changed" /\ e[i].to \in S
<1>1. old \in Seq(Entries) /\ events'[c] = new
  BY DEF AppsTyped
<1>2. Explained(c)
  BY DEF ApplicationsSound, HistoryExplains
<1>3. /\ old # <<>> /\ old[1].kind = "created"
      /\ \A i \in 2..Len(old) : old[i].kind # "created" /\ old[i].from = old[i - 1].to
      /\ old[Len(old)].to = app[c].stage
  BY <1>2 DEF Explained, Last
<1>4. app[c].applied = Moved(old, {Applied}) /\ app[c].outcome = Moved(old, Outcomes)
  BY <1>2, Zenon DEF Explained
<1> HIDE DEF old
<1>5. /\ Len(new) = Len(old) + 1 /\ DOMAIN new = DOMAIN old \cup {Len(new)}
      /\ \A i \in DOMAIN old : new[i] = old[i]
      /\ new[Len(new)] = x /\ Len(old) \in Nat /\ DOMAIN old = 1 .. Len(old)
  BY <1>1
<1> HIDE DEF new
<1>6. \A S : Moved(new, S) <=> Moved(old, S) \/ (x.kind = "stage_changed" /\ x.to \in S)
  BY <1>5
<1>7. app'[c].applied \in BOOLEAN /\ app'[c].outcome \in BOOLEAN
  BY DEF Rows
<1>8. app'[c].applied = Moved(new, {Applied}) /\ app'[c].outcome = Moved(new, Outcomes)
  <2> HIDE DEF Moved
  <2>1. /\ app'[c].applied <=> Moved(new, {Applied})
        /\ app'[c].outcome <=> Moved(new, Outcomes)
    BY <1>4, <1>6
  <2>2. /\ Moved(new, {Applied}) \in BOOLEAN /\ Moved(new, Outcomes) \in BOOLEAN
    BY DEF Moved
  <2> QED BY <1>7, <2>1, <2>2
<1>9. Len(old) # 0
  BY <1>1, <1>3
<1>10. /\ new # <<>> /\ new[1].kind = "created"
       /\ \A i \in 2..Len(new) : new[i].kind # "created" /\ new[i].from = new[i - 1].to
       /\ new[Len(new)].to = app'[c].stage
  <2>1. new # <<>> /\ new[1] = old[1] /\ new[Len(new)].to = app'[c].stage
    BY <1>5, <1>9
  <2>2. ASSUME NEW i \in 2..Len(new)
        PROVE  new[i].kind # "created" /\ new[i].from = new[i - 1].to
    <3>1. CASE i = Len(new)
      <4>1. i - 1 = Len(old) /\ new[i - 1] = old[Len(old)] /\ new[i] = x
        BY <3>1, <1>5, <1>9
      <4> QED BY <4>1, <1>3
    <3>2. CASE i # Len(new)
      <4>1. i \in 2..Len(old) /\ new[i] = old[i] /\ new[i - 1] = old[i - 1]
        BY <3>2, <1>5
      <4> QED BY <4>1, <1>3
    <3> QED BY <3>1, <3>2
  <2> QED BY <2>1, <2>2, <1>3
<1> QED BY <1>1, <1>8, <1>10, Zenon DEF Explained, Last

\* One application's row may change, if it keeps its posting and its key, stands
\* in the pipeline, is not taken out of the archive and is explained.
LEMMA RowKeeps ==
  ASSUME ApplicationsInv, NEW c \in Applicants, Live(c),
         UNCHANGED <<pipe, post, upload>>,
         NEW row \in Rows, app' = [app EXCEPT ![c] = row],
         row.post = app[c].post, row.key = app[c].key, app[c].archived => row.archived,
         row.stage \in ToSet(pipe[row.post]), row.outcome => Outcome(row.stage),
         events' \in [Applicants -> Seq(Entries)],
         \A a \in Applicants \ {c} : events'[a] = events[a],
         Explained(c)'
  PROVE  ApplicationsInv'
<1> USE DEF ApplicationsInv
<1>1. /\ app'[c] = row /\ Live(c)'
      /\ \A a \in Applicants \ {c} : app'[a] = app[a] /\ (Live(a)' <=> Live(a))
  BY DEF AppsTyped, Live, Rows
<1>2. AppsTyped'
  BY DEF AppsTyped
<1>3. PostsExist' /\ OutcomesStay'
  BY <1>1 DEF PostsExist, OutcomesStay
<1>4. NoneDisappears'
  BY <1>1 DEF ApplicationsSound, NoneDisappears, Listed
<1>5. OneApplication'
  <2> SUFFICES ASSUME NEW a \in Applicants, NEW b \in Applicants, Live(a)', Live(b)', a # b
               PROVE  /\ app'[a].key # app'[b].key
                      /\ app'[a].post = app'[b].post => app'[a].archived \/ app'[b].archived
    BY DEF OneApplication
  <2>1. /\ app[a].key # app[b].key
        /\ app[a].post = app[b].post => app[a].archived \/ app[b].archived
    BY <1>1 DEF ApplicationsSound, OneApplication
  <2>2. ASSUME NEW d \in {a, b}
        PROVE  app'[d].key = app[d].key /\ app'[d].post = app[d].post /\ (app[d].archived => app'[d].archived)
    BY <1>1
  <2> QED BY <2>1, <2>2
<1>6. HistoryExplains'
  <2>1. ASSUME NEW a \in Applicants \ {c}, Live(a) PROVE Explained(a)'
    <3>1. Explained(a)
      BY <2>1 DEF ApplicationsSound, HistoryExplains
    <3>2. app'[a] = app[a] /\ events'[a] = events[a]
      BY <1>1
    <3> QED BY <3>1, <3>2, ExplainedStays
  <2> QED BY <2>1, <1>1 DEF HistoryExplains
<1> QED BY <1>2, <1>3, <1>4, <1>5, <1>6 DEF ApplicationsSound

\* An application is moved, gets a note or an interview, or is archived.
LEMMA ApplicationStep ==
  ASSUME ApplicationsInv, NEW c \in Applicants,
         \/ \E s \in Stages : Transition(c, s)
         \/ Record(c) \/ ArchiveApplication(c)
  PROVE  ApplicationsInv'
<1> USE DEF ApplicationsInv
<1>1. Live(c)
  BY DEF Transition, Movable, Record, ArchiveApplication, Listed
<1>2. app[c] \in Rows /\ c \in Listed /\ Explained(c)
  BY <1>1, LiveIsRow DEF ApplicationsSound, NoneDisappears, HistoryExplains
<1>3. app[c].stage \in ToSet(pipe[app[c].post]) /\ (app[c].outcome => Outcome(app[c].stage))
  BY <1>1, <1>2 DEF Listed, OutcomesStay
<1>4. events[c] \in Seq(Entries)
  BY DEF AppsTyped
<1>5. ASSUME NEW s \in Stages, Transition(c, s) PROVE ApplicationsInv'
  <2> DEFINE x == [kind |-> "stage_changed", from |-> app[c].stage, to |-> s]
             row == [app[c] EXCEPT !.stage = s, !.status = StatusOf(s),
                                   !.applied = @ \/ s = Applied, !.outcome = @ \/ Outcome(s)]
  <2>1. /\ UNCHANGED <<pipe, post, upload>> /\ app' = [app EXCEPT ![c] = row]
        /\ events' = [events EXCEPT ![c] = Append(@, x)]
    BY <1>5 DEF Transition, AppsTyped
  <2>2. s \in ToSet(pipe[app[c].post]) /\ ~Outcome(app[c].stage)
    BY <1>5 DEF Transition, Movable
  <2>3. x \in Entries /\ x.kind = "stage_changed" /\ x.from = app[c].stage /\ x.to = s
    BY <1>2 DEF Entries, Kinds, Rows
  <2>4. StatusOf(s) \in Statuses
    BY DEF StatusOf, Statuses, Outcome
  <2>5. /\ row \in Rows /\ row.post = app[c].post /\ row.key = app[c].key
        /\ row.archived = app[c].archived /\ row.stage = s
        /\ (row.applied <=> app[c].applied \/ s = Applied)
        /\ (row.outcome <=> app[c].outcome \/ Outcome(s))
    BY <1>2, <2>4 DEF Rows
  <2> HIDE DEF x, row
  <2>6. app'[c] = row
    BY <2>1 DEF AppsTyped
  <2>7. Explained(c)'
    BY <1>1, <2>1, <2>3, <2>5, <2>6, LoggedExplains DEF Outcome
  <2>8. /\ events' \in [Applicants -> Seq(Entries)]
        /\ \A a \in Applicants \ {c} : events'[a] = events[a]
    BY <1>4, <2>1, <2>3 DEF AppsTyped
  <2> QED BY <1>1, <1>3, <2>1, <2>2, <2>5, <2>7, <2>8, RowKeeps
<1>6. CASE Record(c)
  <2> DEFINE x == [kind |-> "recorded", from |-> app[c].stage, to |-> app[c].stage]
  <2>1. /\ UNCHANGED <<pipe, post, upload, app>>
        /\ events' = [events EXCEPT ![c] = Append(@, x)]
    BY <1>6 DEF Record
  <2>2. x \in Entries /\ x.kind = "recorded" /\ x.from = app[c].stage /\ x.to = app[c].stage
    BY <1>2 DEF Entries, Kinds, Rows
  <2> HIDE DEF x
  <2>3. Explained(c)'
    BY <1>1, <1>2, <2>1, <2>2, LoggedExplains
  <2>4. /\ events' \in [Applicants -> Seq(Entries)]
        /\ \A a \in Applicants \ {c} : events'[a] = events[a]
    BY <1>4, <2>1, <2>2 DEF AppsTyped
  <2>5. app' = [app EXCEPT ![c] = app[c]]
    BY <2>1 DEF AppsTyped
  <2> QED BY <1>1, <1>2, <1>3, <2>1, <2>3, <2>4, <2>5, RowKeeps
<1>7. CASE ArchiveApplication(c)
  <2> DEFINE row == [app[c] EXCEPT !.archived = TRUE]
  <2>1. UNCHANGED <<pipe, post, upload, events>> /\ app' = [app EXCEPT ![c] = row]
    BY <1>7 DEF ArchiveApplication
  <2>2. /\ row \in Rows /\ row.post = app[c].post /\ row.key = app[c].key /\ row.archived
        /\ row.stage = app[c].stage /\ row.outcome = app[c].outcome /\ row.applied = app[c].applied
    BY <1>2 DEF Rows
  <2> HIDE DEF row
  <2>3. app'[c] = row /\ events'[c] = events[c]
    BY <2>1 DEF AppsTyped
  <2>4. Explained(c)'
    BY <1>2, <2>2, <2>3 DEF Explained
  <2> QED BY <1>1, <1>3, <2>1, <2>2, <2>4, RowKeeps DEF AppsTyped
<1> QED BY <1>5, <1>6, <1>7

\* Every step of ApplicationsNext is one of the above.
LEMMA ApplicationsKept ==
  ApplicationsInv /\ [ApplicationsNext]_applicationsVars => ApplicationsInv'
<1> SUFFICES ASSUME ApplicationsInv, [ApplicationsNext]_applicationsVars PROVE ApplicationsInv'
  OBVIOUS
<1>1. ASSUME NEW s \in Customs, CreateStage(s) \/ DeleteStage(s) PROVE ApplicationsInv'
  <2>1. UNCHANGED <<pipe, post, app, events, upload>>
    BY <1>1 DEF CreateStage, DeleteStage
  <2> QED BY <2>1, PostingsKeep DEF ApplicationsInv, AppsTyped, PostsExist, Live
<1>2. ASSUME NEW p \in Posts,
        \/ CreatePost(p) \/ ArchivePost(p) \/ ReorderPostStages(p)
        \/ \E s \in Customs : CreatePostStage(p, s)
        \/ \E s \in Stages : DeletePostStage(p, s)
        \/ \E u \in Uploads : BeginPostVersion(u, p)
      PROVE  ApplicationsInv'
  BY <1>2, StagesStep, PostingStep
<1>3. ASSUME NEW p \in Posts, NEW a \in Applicants, NEW k \in Keys, CreateApplication(a, p, k)
      PROVE  ApplicationsInv'
  BY <1>3, CreationStep
<1>4. ASSUME NEW u \in Uploads, AddPostVersion(u) PROVE ApplicationsInv'
  <2>1. upload[u] \in [busy : {TRUE}, post : Posts]
    <3>1. upload[u] \in {NoUpload} \cup [busy : {TRUE}, post : Posts] /\ upload[u].busy
      BY <1>4 DEF AddPostVersion, ApplicationsInv, AppsTyped
    <3>2. upload[u] # NoUpload
      BY <3>1 DEF NoUpload
    <3> QED BY <3>1, <3>2
  <2>2. upload[u].post \in Posts
    BY <2>1
  <2> QED BY <1>4, <2>2, PostingStep
<1>5. ASSUME NEW a \in Applicants,
        (\E s \in Stages : Transition(a, s)) \/ Record(a) \/ ArchiveApplication(a)
      PROVE  ApplicationsInv'
  BY <1>5, ApplicationStep
<1>6. CASE UNCHANGED applicationsVars
  <2>1. UNCHANGED <<pipe, post, app, events, upload>>
    BY <1>6 DEF applicationsVars
  <2> QED BY <2>1, PostingsKeep DEF ApplicationsInv, AppsTyped, PostsExist, Live
<1> QED BY <1>1, <1>2, <1>3, <1>4, <1>5, <1>6 DEF ApplicationsNext
-----------------------------------------------------------------------------
(* The theorems.                                                           *)

\* However the pipelines are edited while applications stand in them, none
\* disappears from applications(), a posting has one at a time, a key names one,
\* and the events of each explain its row.
THEOREM ApplicationsStaySound == ApplicationsSpec => []ApplicationsSound
<1>1. ApplicationsInv => ApplicationsSound
  BY DEF ApplicationsInv
<1> QED BY <1>1, ApplicationsStart, ApplicationsKept, PTL DEF ApplicationsSpec

\* What was archived changes no more, not even by a request that found the posting
\* active before it awaited a text; and an outcome is never taken back.
THEOREM ClosedStaysClosed == ApplicationsSpec => ClosedIsFinal
<1> DEFINE Closed ==
      /\ \A p \in Posts : post[p].state = "archived" => post'[p] = post[p]
      /\ \A a \in Applicants : Live(a) =>
           /\ app[a].archived => app'[a] = app[a] /\ events'[a] = events[a]
           /\ app[a].outcome => app'[a].stage = app[a].stage /\ app'[a].status = app[a].status
<1>1. ApplicationsInv /\ [ApplicationsNext]_applicationsVars => [Closed]_applicationsVars
  <2> SUFFICES ASSUME ApplicationsInv, ApplicationsNext PROVE Closed
    OBVIOUS
  <2> USE DEF ApplicationsInv
  <2>1. ASSUME NEW p \in Posts, post[p].state = "archived" PROVE post'[p] = post[p]
    <3>1. ASSUME NEW u \in Uploads, AddPostVersion(u) PROVE post'[p] = post[p]
      BY <2>1, <3>1 DEF AddPostVersion, AppsTyped
    <3> QED BY <2>1, <3>1 DEF ApplicationsNext, CreateStage, DeleteStage, CreatePost, ArchivePost,
                 ReorderPostStages, CreatePostStage, DeletePostStage, BeginPostVersion,
                 CreateApplication, Transition, Record, ArchiveApplication, AppsTyped
  <2>2. ASSUME NEW a \in Applicants, Live(a), app[a].archived
        PROVE  app'[a] = app[a] /\ events'[a] = events[a]
    <3>1. ASSUME NEW b \in Applicants,
                 \/ \E p \in Posts, k \in Keys : CreateApplication(b, p, k)
                 \/ \E s \in Stages : Transition(b, s)
                 \/ Record(b) \/ ArchiveApplication(b)
          PROVE  app'[a] = app[a] /\ events'[a] = events[a]
      <4>1. b # a
        BY <2>2, <3>1 DEF CreateApplication, Transition, Movable, Record, ArchiveApplication, Live
      <4> QED BY <3>1, <4>1 DEF CreateApplication, Transition, Record, ArchiveApplication, AppsTyped
    <3> QED BY <3>1 DEF ApplicationsNext, CreateStage, DeleteStage, CreatePost, ArchivePost,
              ReorderPostStages, CreatePostStage, DeletePostStage, BeginPostVersion, AddPostVersion
  <2>3. ASSUME NEW a \in Applicants, Live(a), app[a].outcome
        PROVE  app'[a].stage = app[a].stage /\ app'[a].status = app[a].status
    <3>1. Outcome(app[a].stage)
      BY <2>3 DEF OutcomesStay
    <3>2. app[a] \in Rows
      BY <2>3, LiveIsRow
    <3>3. app'[a] = app[a] \/ app'[a] = [app[a] EXCEPT !.archived = TRUE]
      <4>1. CASE UNCHANGED app
        BY <4>1
      <4>2. ASSUME NEW p \in Posts, NEW c \in Applicants, NEW k \in Keys, CreateApplication(c, p, k)
            PROVE  app'[a] = app[a]
        BY <2>3, <4>2 DEF CreateApplication, AppsTyped
      <4>3. ASSUME NEW c \in Applicants, NEW s \in Stages, Transition(c, s)
            PROVE  app'[a] = app[a]
        BY <3>1, <4>3 DEF Transition, Movable, AppsTyped
      <4>4. ASSUME NEW c \in Applicants, ArchiveApplication(c)
            PROVE  app'[a] = app[a] \/ app'[a] = [app[a] EXCEPT !.archived = TRUE]
        BY <4>4 DEF ArchiveApplication, AppsTyped
      <4> QED BY <4>1, <4>2, <4>3, <4>4 DEF ApplicationsNext, CreateStage, DeleteStage, CreatePost,
                   ArchivePost, ReorderPostStages, CreatePostStage, DeletePostStage,
                   BeginPostVersion, AddPostVersion, Record
    <3> QED BY <3>2, <3>3 DEF Rows
  <2> QED BY <2>1, <2>2, <2>3
<1> QED BY <1>1, ApplicationsStart, ApplicationsKept, PTL DEF ApplicationsSpec, ClosedIsFinal
=============================================================================
