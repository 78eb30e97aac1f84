-------------------------- MODULE Workspace_proofs --------------------------
(***************************************************************************)
(* Proofs about the parts of the workspace that share no state: the schema *)
(* that servers start on, the store of the library and of the research,    *)
(* the conversations, and the pages of the client, with tasks or lists.    *)
(*                                                                         *)
(* For any servers and releases, every server works on the schema of its   *)
(* release.  For any number of uploads and studies, wherever they are      *)
(* interrupted, what a version or a record refers to can be read, and what *)
(* is shelved stays.  For any number of turns that overlap in any way, are *)
(* aborted, or die while their answer is stored, conversations are sound.  *)
(* For any number of contexts and tasks, what a page shows is of its own   *)
(* context, and a page is busy only while a function is there to end that. *)
(* For any number of items and requests, a page with lists ends up as the  *)
(* server has it, and one that brings things together shows what there was.*)
(* Together the parts are as each is alone, and nothing closed reopens.     *)
(***************************************************************************)
EXTENDS MCWorkspace, Applications_proofs, SequenceTheorems, FiniteSetTheorems, WellFoundedInduction, TLAPS

-----------------------------------------------------------------------------
(***************************************************************************)
(* THE SCHEMA.                                                             *)
(***************************************************************************)

Checksums == UNION {{r[m] : m \in DOMAIN r} : r \in Releases}
Records == [id : Nat, sum : Checksums]
Migrating == {"migrating", "recording"}
Upcoming == {"down", "opening"} \cup Migrating
ServerStages == Upcoming \cup {"ready", "scheduling", "serving", "stranded", "stopping"}

SchemaTyped ==
  /\ rows \in Seq(Records)
  /\ draft \in [rows : Seq(Records), made : SUBSET Nat]
  /\ server \in [Servers -> [pc : ServerStages, release : Releases \cup {<<>>}]]
  /\ \A p \in Servers : server[p].pc # "down" => server[p].release \in Releases

\* The records are migrations of the release, those that come first in it.
Partly(release, records) ==
  /\ \A i \in 1 .. Len(records) :
       records[i].id \in DOMAIN release /\ records[i].sum = release[records[i].id]
  /\ \A m \in DOMAIN release \ Ids(records), n \in Ids(records) : n < m

Continues(longer, shorter) ==
  /\ Len(shorter) <= Len(longer)
  /\ \A i \in 1 .. Len(shorter) : longer[i] = shorter[i]

\* What the one process in its transaction has done so far.
DraftOK(p) ==
  /\ Continues(draft.rows, rows) /\ Ascending(draft.rows)
  /\ Partly(server[p].release, draft.rows)
  /\ server[p].pc = "migrating" => draft.made = Ids(draft.rows)
  /\ server[p].pc = "recording" =>
       Missing(p) # {} /\ draft.made = Ids(draft.rows) \cup {Min(Missing(p))}

SchemaInv ==
  /\ SchemaTyped
  /\ SchemaSound
  /\ \A p \in Servers : server[p].pc \in Migrating <=> writer = p
  /\ \A p \in Servers : writer = p => DraftOK(p)

-----------------------------------------------------------------------------
(* Records.                                                                *)

\* Releases are migrations with natural numbers as ids, so some are first.
LEMMA FirstExists ==
  ASSUME NEW S \in SUBSET Nat, S # {}
  PROVE  Min(S) \in S /\ \A n \in S : Min(S) <= n
<1> DEFINE R == OpToRel(<, Nat)
<1>1. PICK m \in S : \A n \in S : <<n, m>> \notin R
  BY NatLessThanWellFounded, WFMin
<1>2. ASSUME NEW n \in S PROVE m <= n
  <2>1. R = {ss \in Nat \X Nat : ss[1] < ss[2]}
    BY DEF OpToRel
  <2>2. <<n, m>> \notin R /\ <<n, m>> \in Nat \X Nat
    BY <1>1
  <2> HIDE DEF R
  <2>3. ~(n < m)
    BY <2>1, <2>2
  <2>4. QED
    BY <2>3
<1>3. QED
  BY <1>2 DEF Min

\* What is recorded has numbers as ids.
LEMMA IdsAreNumbers ==
  ASSUME NEW d \in Seq(Records)
  PROVE  Ids(d) \subseteq Nat
<1>1. \A i \in DOMAIN d : d[i] \in Records
  OBVIOUS
<1>2. \A i \in DOMAIN d : d[i].id \in Nat
  BY <1>1 DEF Records
<1>3. QED
  BY <1>2 DEF Ids

\* A release fits what it was applied to, and whatever extends that in order.
LEMMA FitsLonger ==
  ASSUME NEW r \in Releases, NEW short \in Seq(Records), NEW long \in Seq(Records),
         Fits(r, short), Continues(long, short), Ascending(long)
  PROVE  Fits(r, long)
<1>1. DOMAIN r \subseteq Ids(long)
  BY DEF Fits, Ids, Continues
<1>2. ASSUME NEW i \in DOMAIN long
      PROVE  IF long[i].id \in DOMAIN r THEN long[i].sum = r[long[i].id]
             ELSE \A m \in DOMAIN r : m < long[i].id
  <2>1. CASE i <= Len(short)
    BY <2>1 DEF Fits, Continues
  <2>2. CASE i > Len(short)
    <3>1. \A m \in DOMAIN r : m < long[i].id
      <4> TAKE m \in DOMAIN r
      <4>1. PICK j \in DOMAIN short : short[j].id = m
        BY DEF Fits, Ids
      <4>2. j < i /\ j \in DOMAIN long /\ long[j] = short[j]
        BY <2>2, <4>1 DEF Continues
      <4>3. QED
        BY <4>1, <4>2 DEF Ascending
    <3>2. long[i].id \notin DOMAIN r
      BY <3>1, StartupAssumption DEF Records
    <3>3. QED
      BY <3>1, <3>2
  <2>3. QED
    BY <2>1, <2>2
<1>3. QED
  BY <1>1, <1>2 DEF Fits

\* A release whose migrations are all recorded, and nothing else, fits.
LEMMA WholeFits ==
  ASSUME NEW r \in Releases, NEW d \in Seq(Records), Partly(r, d), DOMAIN r \ Ids(d) = {}
  PROVE  Fits(r, d)
BY DEF Partly, Fits

\* The insert keeps the draft a beginning of the release.
LEMMA RecordNext ==
  ASSUME NEW r \in Releases, NEW d \in Seq(Records), Ascending(d), Partly(r, d),
         NEW m \in DOMAIN r \ Ids(d), \A k \in DOMAIN r \ Ids(d) : m <= k
  PROVE  LET e == Append(d, [id |-> m, sum |-> r[m]])
         IN /\ e \in Seq(Records) /\ Continues(e, d) /\ Ascending(e)
            /\ Partly(r, e) /\ Ids(e) = Ids(d) \cup {m}
<1> DEFINE row == [id |-> m, sum |-> r[m]]
           e == Append(d, row)
<1>1. row \in Records
  BY StartupAssumption DEF Records, Checksums
<1>2. /\ e \in Seq(Records) /\ Len(e) = Len(d) + 1
      /\ \A i \in 1 .. Len(d) : e[i] = d[i]
      /\ e[Len(d) + 1] = row
  BY <1>1, AppendProperties
<1> HIDE DEF e
<1>3. Ids(e) = Ids(d) \cup {m}
  BY <1>2 DEF Ids
<1>4. \A i \in 1 .. Len(d) : d[i].id < m
  BY DEF Partly, Ids
<1>5. Ascending(e)
  BY <1>2, <1>4 DEF Ascending
<1>6. Partly(r, e)
  <2>1. \A i \in 1 .. Len(e) : e[i].id \in DOMAIN r /\ e[i].sum = r[e[i].id]
    BY <1>2 DEF Partly
  <2>2. ASSUME NEW k \in DOMAIN r \ Ids(e), NEW n \in Ids(e) PROVE n < k
    <3>1. k \in DOMAIN r \ Ids(d) /\ k # m /\ m <= k /\ k \in Nat /\ m \in Nat
      BY <1>3, StartupAssumption
    <3>2. QED
      BY <1>3, <3>1 DEF Partly
  <2>3. QED
    BY <2>1, <2>2 DEF Partly
<1>7. QED
  BY <1>2, <1>3, <1>5, <1>6 DEF Continues, e

-----------------------------------------------------------------------------
(* The invariant.                                                          *)

\* A server's next step leaves the types, and the schema it works on.
LEMMA InitSchema == StartupInit => SchemaInv
<1> SUFFICES ASSUME StartupInit PROVE SchemaInv
  OBVIOUS
<1>1. SchemaTyped
  BY DEF StartupInit, SchemaTyped, Down, ServerStages, Upcoming
<1>2. SchemaSound
  BY DEF StartupInit, SchemaSound, Down, Ids, Ascending
<1>3. \A p \in Servers : server[p].pc \notin Migrating /\ writer # p
  BY StartupAssumption DEF StartupInit, Down, Migrating
<1>4. QED
  BY <1>1, <1>2, <1>3 DEF SchemaInv

\* The steps that touch neither the database nor the transaction of another
\* process, except that a writer may give its transaction up.
LEMMA QuietStep ==
  ASSUME SchemaInv, NEW p \in Servers,
         NEW s \in [pc : ServerStages \ Migrating, release : Releases \cup {<<>>}],
         server' = [server EXCEPT ![p] = s],
         s.pc # "down" => s.release \in Releases,
         s.pc \notin Upcoming => server[p].pc \notin Upcoming /\ s.release = server[p].release,
         writer' = IF writer = p THEN NoServer ELSE writer,
         UNCHANGED <<rows, made, draft>>
  PROVE  SchemaInv'
<1>1. SchemaTyped'
  BY DEF SchemaInv, SchemaTyped
<1>2. SchemaSound'
  BY DEF SchemaInv, SchemaSound, SchemaTyped, Upcoming, Migrating, ServerStages
<1>3. \A q \in Servers : server'[q].pc \in Migrating <=> writer' = q
  BY StartupAssumption DEF SchemaInv, SchemaTyped
<1>4. ASSUME NEW q \in Servers, writer' = q PROVE DraftOK(q)'
  <2>1. q # p /\ writer = q
    BY <1>4, StartupAssumption
  <2>2. server'[q] = server[q]
    BY <2>1 DEF SchemaInv, SchemaTyped
  <2>3. DraftOK(q)
    BY <2>1 DEF SchemaInv
  <2>4. QED
    BY <2>2, <2>3 DEF DraftOK, Missing
<1>5. QED
  BY <1>1, <1>2, <1>3, <1>4 DEF SchemaInv

\* Taking the lock begins a draft that is what the schema records.
LEMMA LockKeeps ==
  ASSUME SchemaInv, NEW p \in Servers, Lock(p)
  PROVE  SchemaInv'
<1> DEFINE r == server[p].release
<1>0. rows \in Seq(Records) /\ r \in Releases /\ DOMAIN r \subseteq Nat /\ p # NoServer
  BY StartupAssumption DEF SchemaInv, SchemaTyped, Lock
<1>1. CASE Drifted(r) \/ Gap(r)
  BY <1>1, QuietStep DEF Lock, SchemaInv, SchemaTyped, Down, ServerStages, Upcoming, Migrating
<1>2. CASE ~Drifted(r) /\ ~Gap(r)
  <2>1. /\ server' = [server EXCEPT ![p].pc = "migrating"]
        /\ writer = NoServer /\ writer' = p
        /\ draft' = [rows |-> rows, made |-> made] /\ rows' = rows /\ made' = made
    BY <1>2 DEF Lock, Move
  <2>2. SchemaTyped'
    <3>1. made \in SUBSET Nat
      BY <1>0, IdsAreNumbers DEF SchemaInv, SchemaSound
    <3>2. draft' \in [rows : Seq(Records), made : SUBSET Nat]
      BY <2>1, <3>1, <1>0
    <3>3. QED
      BY <2>1, <3>2, <1>0 DEF SchemaInv, SchemaTyped, ServerStages, Upcoming, Migrating
  <2>3. SchemaSound'
    BY <2>1 DEF SchemaInv, SchemaSound, SchemaTyped
  <2>4. ASSUME NEW q \in Servers PROVE server'[q].pc \in Migrating <=> writer' = q
    <3>1. CASE q = p
      BY <2>1, <3>1 DEF SchemaInv, SchemaTyped, Migrating
    <3>2. CASE q # p
      <4>1. server[q].pc \notin Migrating
        BY <2>1, StartupAssumption DEF SchemaInv
      <4>2. QED
        BY <2>1, <3>2, <4>1 DEF SchemaInv, SchemaTyped
    <3>3. QED
      BY <3>1, <3>2
  <2>5. Partly(r, rows)
    <3>1. \A i \in 1 .. Len(rows) : rows[i].id \in DOMAIN r /\ rows[i].sum = r[rows[i].id]
      BY <1>2, <1>0 DEF Drifted
    <3>2. ASSUME NEW m \in DOMAIN r \ Ids(rows), NEW n \in Ids(rows) PROVE n < m
      <4>1. n \in Nat /\ m \in Nat /\ n # m
        BY <1>0, IdsAreNumbers
      <4>2. ~(m < n)
        BY <1>2, <4>1 DEF Gap
      <4>3. QED
        BY <4>1, <4>2
    <3>3. QED
      BY <3>1, <3>2 DEF Partly
  <2>6. DraftOK(p)'
    <3>1. /\ server'[p].pc = "migrating" /\ server'[p].release = r
          /\ draft'.rows = rows /\ draft'.made = made
      BY <2>1 DEF SchemaInv, SchemaTyped
    <3>2. Continues(rows, rows) /\ Ascending(rows) /\ made = Ids(rows)
      BY <1>0 DEF Continues, SchemaInv, SchemaSound
    <3>3. QED
      BY <2>1, <2>5, <3>1, <3>2 DEF DraftOK
  <2>7. QED
    BY <2>1, <2>2, <2>3, <2>4, <2>6 DEF SchemaInv
<1>3. QED
  BY <1>1, <1>2

\* The SQL of the next migration runs: the draft is one id ahead of its rows.
LEMMA ExecuteKeeps ==
  ASSUME SchemaInv, NEW p \in Servers, ExecuteMigration(p)
  PROVE  SchemaInv'
<1>1. /\ writer = p /\ DraftOK(p)
      /\ server[p].pc = "migrating" /\ server[p].release \in Releases
  BY DEF SchemaInv, SchemaTyped, ExecuteMigration, Migrating
<1>2. Missing(p) \in SUBSET Nat /\ Missing(p) # {}
  BY <1>1, StartupAssumption DEF Missing, ExecuteMigration
<1>3. Min(Missing(p)) \in Nat
  BY <1>2, FirstExists
<1>4. /\ server' = [server EXCEPT ![p].pc = "recording"]
      /\ draft' = [draft EXCEPT !.made = @ \cup {Min(Missing(p))}]
      /\ UNCHANGED <<rows, made, writer>>
  BY DEF ExecuteMigration, Move
<1>5. SchemaTyped'
  BY <1>1, <1>3, <1>4 DEF SchemaInv, SchemaTyped, ServerStages, Upcoming, Migrating
<1>6. SchemaSound'
  BY <1>4 DEF SchemaInv, SchemaSound, SchemaTyped
<1>7. ASSUME NEW q \in Servers PROVE server'[q].pc \in Migrating <=> writer' = q
  BY <1>1, <1>4 DEF SchemaInv, SchemaTyped, Migrating
<1>8. DraftOK(p)'
  <2>1. /\ server'[p].pc = "recording" /\ server'[p].release = server[p].release
        /\ draft'.rows = draft.rows /\ draft'.made = draft.made \cup {Min(Missing(p))}
    BY <1>4 DEF SchemaInv, SchemaTyped
  <2>2. Missing(p)' = Missing(p)
    BY <2>1 DEF Missing
  <2>3. QED
    BY <1>1, <1>2, <1>4, <2>1, <2>2 DEF DraftOK
<1>9. QED
  BY <1>1, <1>4, <1>5, <1>6, <1>7, <1>8 DEF SchemaInv

\* The insert makes the rows of the draft catch up with what was executed.
LEMMA RecordKeeps ==
  ASSUME SchemaInv, NEW p \in Servers, RecordMigration(p)
  PROVE  SchemaInv'
<1> DEFINE r == server[p].release
           m == Min(Missing(p))
           e == Append(draft.rows, [id |-> m, sum |-> r[m]])
<1>1. /\ writer = p /\ DraftOK(p)
      /\ server[p].pc = "recording" /\ r \in Releases
      /\ draft.rows \in Seq(Records) /\ rows \in Seq(Records)
  BY DEF SchemaInv, SchemaTyped, RecordMigration, Migrating
<1>2. Missing(p) \in SUBSET Nat /\ Missing(p) # {} /\ Missing(p) = DOMAIN r \ Ids(draft.rows)
  BY <1>1, StartupAssumption DEF Missing, DraftOK
<1>3. m \in Missing(p) /\ \A k \in Missing(p) : m <= k
  BY <1>2, FirstExists
<1>4. /\ server' = [server EXCEPT ![p].pc = "migrating"]
      /\ draft' = [draft EXCEPT !.rows = e]
      /\ UNCHANGED <<rows, made, writer>>
  BY DEF RecordMigration, Move
<1>5. /\ Continues(draft.rows, rows) /\ Ascending(draft.rows) /\ Partly(r, draft.rows)
      /\ draft.made = Ids(draft.rows) \cup {m}
  BY <1>1 DEF DraftOK
<1> HIDE DEF m
<1>6. /\ e \in Seq(Records) /\ Continues(e, draft.rows) /\ Ascending(e)
      /\ Partly(r, e) /\ Ids(e) = Ids(draft.rows) \cup {m}
  BY <1>1, <1>2, <1>3, <1>5, RecordNext
<1> HIDE DEF e
<1>7. SchemaTyped'
  BY <1>1, <1>4, <1>6 DEF SchemaInv, SchemaTyped, ServerStages, Upcoming, Migrating
<1>8. SchemaSound'
  BY <1>4 DEF SchemaInv, SchemaSound, SchemaTyped
<1>9. ASSUME NEW q \in Servers PROVE server'[q].pc \in Migrating <=> writer' = q
  BY <1>1, <1>4 DEF SchemaInv, SchemaTyped, Migrating
<1>10. DraftOK(p)'
  <2>1. /\ server'[p].pc = "migrating" /\ server'[p].release = r
        /\ draft'.rows = e /\ draft'.made = draft.made
    BY <1>4 DEF SchemaInv, SchemaTyped
  <2>2. Continues(e, rows)
    BY <1>1, <1>5, <1>6 DEF Continues
  <2>3. QED
    BY <1>4, <1>5, <1>6, <2>1, <2>2 DEF DraftOK
<1>11. QED
  BY <1>1, <1>4, <1>7, <1>8, <1>9, <1>10 DEF SchemaInv

\* The commit: the writer has the whole of its release, and those that were
\* past their migrations keep theirs, since the draft extends what they had.
LEMMA CommitKeeps ==
  ASSUME SchemaInv, NEW p \in Servers, CommitMigrations(p)
  PROVE  SchemaInv'
<1> DEFINE r == server[p].release
<1>1. /\ writer = p /\ DraftOK(p) /\ p # NoServer
      /\ server[p].pc = "migrating" /\ r \in Releases
      /\ draft.rows \in Seq(Records) /\ rows \in Seq(Records)
  BY StartupAssumption DEF SchemaInv, SchemaTyped, CommitMigrations, Migrating
<1>2. /\ server' = [server EXCEPT ![p].pc = "ready"]
      /\ rows' = draft.rows /\ made' = draft.made /\ draft' = draft
      /\ writer' = NoServer /\ Missing(p) = {}
  BY DEF CommitMigrations, Move
<1>3. /\ Continues(draft.rows, rows) /\ Ascending(draft.rows) /\ Partly(r, draft.rows)
      /\ draft.made = Ids(draft.rows)
  BY <1>1 DEF DraftOK
<1>4. SchemaTyped'
  BY <1>1, <1>2 DEF SchemaInv, SchemaTyped, ServerStages, Upcoming, Migrating
<1>5. SchemaSound'
  <2>1. ASSUME NEW q \in Servers,
               server'[q].pc \notin {"down", "opening", "migrating", "recording"}
        PROVE  Fits(server'[q].release, draft.rows)
    <3>1. CASE q = p
      <4>1. server'[q].release = r /\ DOMAIN r \ Ids(draft.rows) = {}
        BY <1>2, <3>1 DEF SchemaInv, SchemaTyped, Missing
      <4>2. QED
        BY <1>1, <1>3, <4>1, WholeFits
    <3>2. CASE q # p
      <4>1. server'[q] = server[q] /\ server[q].release \in Releases
        BY <1>2, <2>1, <3>2 DEF SchemaInv, SchemaTyped
      <4>2. Fits(server[q].release, rows)
        BY <2>1, <4>1 DEF SchemaInv, SchemaSound
      <4>3. QED
        BY <1>1, <1>3, <4>1, <4>2, FitsLonger
    <3>3. QED
      BY <3>1, <3>2
  <2>2. QED
    BY <1>2, <1>3, <2>1 DEF SchemaSound
<1>6. ASSUME NEW q \in Servers PROVE server'[q].pc \notin Migrating /\ writer' # q
  BY <1>1, <1>2, StartupAssumption DEF SchemaInv, SchemaTyped, Migrating
<1>7. QED
  BY <1>4, <1>5, <1>6 DEF SchemaInv

\* Every step keeps the invariant.
LEMMA NextSchema == SchemaInv /\ [StartupNext]_startupVars => SchemaInv'
<1> SUFFICES ASSUME SchemaInv, [StartupNext]_startupVars PROVE SchemaInv'
  OBVIOUS
<1> USE DEF Down, ServerStages, Upcoming, Migrating, Move
<1>0. ASSUME NEW p \in Servers
      PROVE  /\ server[p] \in [pc : ServerStages, release : Releases \cup {<<>>}]
             /\ server \in [Servers -> [pc : ServerStages, release : Releases \cup {<<>>}]]
             /\ server[p].pc # "down" => server[p].release \in Releases
             /\ server[p].pc \in Migrating <=> writer = p
  BY DEF SchemaInv, SchemaTyped
<1>1. ASSUME NEW p \in Servers, NEW release \in Releases, Boot(p, release) PROVE SchemaInv'
  BY <1>0, <1>1, QuietStep DEF Boot
<1>2. ASSUME NEW p \in Servers, BootFails(p) PROVE SchemaInv'
  BY <1>0, <1>2, QuietStep DEF BootFails
<1>3. ASSUME NEW p \in Servers, Lock(p) PROVE SchemaInv'
  BY <1>3, LockKeeps
<1>4. ASSUME NEW p \in Servers, ExecuteMigration(p) PROVE SchemaInv'
  BY <1>4, ExecuteKeeps
<1>5. ASSUME NEW p \in Servers, RecordMigration(p) PROVE SchemaInv'
  BY <1>5, RecordKeeps
<1>6. ASSUME NEW p \in Servers, CommitMigrations(p) PROVE SchemaInv'
  BY <1>6, CommitKeeps
<1>7. ASSUME NEW p \in Servers, RollBack(p) PROVE SchemaInv'
  BY <1>0, <1>7, QuietStep DEF RollBack
<1>8. ASSUME NEW p \in Servers, StartScheduler(p) PROVE SchemaInv'
  BY <1>0, <1>8, QuietStep DEF StartScheduler
<1>9. ASSUME NEW p \in Servers, Listen(p) PROVE SchemaInv'
  BY <1>0, <1>9, QuietStep DEF Listen
<1>10. ASSUME NEW p \in Servers, ListenFails(p) PROVE SchemaInv'
  BY <1>0, <1>10, QuietStep DEF ListenFails
<1>11. ASSUME NEW p \in Servers, Shutdown(p) PROVE SchemaInv'
  BY <1>0, <1>11, QuietStep DEF Shutdown
<1>12. ASSUME NEW p \in Servers, ShutDown(p) PROVE SchemaInv'
  BY <1>0, <1>12, QuietStep DEF ShutDown
<1>13. ASSUME NEW p \in Servers, Dies(p) PROVE SchemaInv'
  BY <1>0, <1>13, QuietStep DEF Dies
<1>14. CASE UNCHANGED startupVars
  BY <1>14 DEF startupVars, SchemaInv, SchemaTyped, SchemaSound, DraftOK, Missing
<1>15. QED
  BY <1>1, <1>2, <1>3, <1>4, <1>5, <1>6, <1>7, <1>8, <1>9, <1>10, <1>11, <1>12, <1>13, <1>14
     DEF StartupNext

\* Whichever releases are started, in whatever order, and wherever they fail
\* or die: what the schema records is what was executed, in order, and every
\* process past its migrations has the schema of its own release.
THEOREM SchemaIsSound == StartupSpec => []SchemaSound
<1>1. SchemaInv => SchemaSound
  BY DEF SchemaInv
<1>2. QED
  BY InitSchema, NextSchema, <1>1, PTL DEF StartupSpec

-----------------------------------------------------------------------------
(***************************************************************************)
(* THE STORE.                                                              *)
(***************************************************************************)

States == {"none", "active", "archived", "deleted"}
Phases == {"writing", "written", "verifying"}
Files == Seq(Documents \X Contents)
UploadRecords == [pc : Phases, fresh : BOOLEAN, files : Files, stored : Nat]
Waiting == {"idle", "discovering", "fetching", "analyzing", "written", "verifying"}

InFlight(r) == request[r].pc # "idle"
Aims(r) == Targets(request[r].files)

\* What a version refers to is registered (its type); the newest is shown.
DocumentOK(d) ==
  /\ document[d].state # "none" => document[d].versions # <<>> /\
                                   document[d].current = Len(document[d].versions)
  /\ d \in selected => document[d].state = "active"

\* What an upload has found on disk is not collected meanwhile.  A batch
\* alone is about documents that do not exist yet.
RequestOK(r) ==
  InFlight(r) =>
    /\ request[r].pc = "verifying" => Content(r) \in disk
    /\ \A d \in Aims(r) : d \in Documents /\ (request[r].fresh <=> document[d].state = "none")
    /\ request[r].fresh => \A q \in Requests \ {r} : InFlight(q) => Aims(r) \cap Aims(q) = {}

LibraryInv ==
  /\ selected \subseteq Documents
  /\ document \in [Documents -> [state : States, versions : Seq(blobs), current : Nat]]
  /\ request \in [Requests -> {NoRequest} \cup UploadRecords]
  /\ \A d \in Documents : DocumentOK(d)
  /\ \A r \in Requests : RequestOK(r)

StudiesInv ==
  /\ study \in [Studies -> [pc : Waiting, left : Nat, bodies : SUBSET Contents, content : SUBSET Contents]]
  /\ record \in [Studies -> [bodies : SUBSET blobs, analysis : SUBSET blobs]]
  /\ \A s \in Studies : study[s].pc = "verifying" => study[s].content \subseteq disk

\* Nothing is registered but what is on disk.
StoreInv == blobs \subseteq disk /\ LibraryInv /\ StudiesInv

\* The store only grows.
Grows == blobs \subseteq blobs' /\ disk \subseteq disk' /\ blobs' \subseteq disk'

-----------------------------------------------------------------------------
(***************************************************************************)
(* Sequences.                                                              *)
(***************************************************************************)

LEMMA SeqWithin ==
  ASSUME NEW S, NEW T, NEW s \in Seq(S), ToSet(s) \subseteq T PROVE s \in Seq(T)
<1>1. \A i \in 1 .. Len(s) : s[i] \in T
  BY DEF ToSet
<1> QED BY <1>1

LEMMA SeqGrows ==
  ASSUME NEW S, NEW T, NEW s \in Seq(S), S \subseteq T PROVE s \in Seq(T)
<1>1. \A i \in 1 .. Len(s) : s[i] \in T
  OBVIOUS
<1> QED BY <1>1

LEMMA SeqElements == ASSUME NEW S, NEW s \in Seq(S) PROVE ToSet(s) \subseteq S
BY DEF ToSet

LEMMA PrefixOfItself == ASSUME NEW S, NEW s \in Seq(S) PROVE IsPrefix(s, s)
BY DEF IsPrefix

LEMMA PrefixOfLonger ==
  ASSUME NEW S, NEW s \in Seq(S), NEW x PROVE IsPrefix(s, Append(s, x))
<1>1. Len(s) \in Nat /\ Len(Append(s, x)) = Len(s) + 1
  OBVIOUS
<1>2. SubSeq(s, 1, Len(s)) = SubSeq(Append(s, x), 1, Len(s))
  OBVIOUS
<1> QED BY <1>1, <1>2 DEF IsPrefix

-----------------------------------------------------------------------------
(***************************************************************************)
(* The library.                                                            *)
(***************************************************************************)

\* Its part of the store, when only the research moves.
LEMMA LibraryRests ==
  ASSUME LibraryInv, Grows, UNCHANGED <<document, selected, request>> PROVE LibraryInv'
<1>1. document' \in [Documents -> [state : States, versions : Seq(blobs'), current : Nat]]
  <2>1. ASSUME NEW d \in Documents PROVE document[d] \in [state : States, versions : Seq(blobs'), current : Nat]
    <3>1. document[d] \in [state : States, versions : Seq(blobs), current : Nat]
      BY DEF LibraryInv
    <3>2. document[d].versions \in Seq(blobs')
      BY <3>1, SeqGrows DEF Grows
    <3> QED BY <3>1, <3>2
  <2> QED BY <2>1 DEF LibraryInv
<1>2. \A r \in Requests : RequestOK(r)'
  BY DEF LibraryInv, RequestOK, InFlight, Aims, Content, Grows
<1>3. \A d \in Documents : DocumentOK(d)'
  BY DEF LibraryInv, DocumentOK
<1> QED BY <1>1, <1>2, <1>3 DEF LibraryInv

\* One upload goes a step on, or begins, or ends; the documents stay.
LEMMA OneUpload ==
  ASSUME LibraryInv, NEW r \in Requests, NEW x \in {NoRequest} \cup UploadRecords,
         request' = [request EXCEPT ![r] = x], disk \subseteq disk', UNCHANGED document,
         RequestOK(r)',
         x.pc # "idle" =>
           \A q \in Requests \ {r} :
             InFlight(q) /\ request[q].fresh => Aims(q) \cap Targets(x.files) = {}
  PROVE  request' \in [Requests -> {NoRequest} \cup UploadRecords] /\ \A q \in Requests : RequestOK(q)'
<1>1. request' \in [Requests -> {NoRequest} \cup UploadRecords] /\ request'[r] = x
  BY DEF LibraryInv
<1>2. ASSUME NEW q \in Requests \ {r} PROVE RequestOK(q)'
  <2>1. request'[q] = request[q] /\ RequestOK(q)
    BY DEF LibraryInv
  <2>2. \A t \in Requests \ {r} : request'[t] = request[t]
    BY DEF LibraryInv
  <2>3. SUFFICES ASSUME InFlight(q) PROVE RequestOK(q)'
    BY <2>1 DEF RequestOK, InFlight
  <2>4. request'[q].pc = "verifying" => Content(q)' \in disk'
    BY <2>1, <2>3 DEF RequestOK, Content
  <2>5. \A d \in Aims(q)' : d \in Documents /\ (request'[q].fresh <=> document'[d].state = "none")
    BY <2>1, <2>3 DEF RequestOK, Aims
  <2>6. request'[q].fresh => \A t \in Requests \ {q} : InFlight(t)' => Aims(q)' \cap Aims(t)' = {}
    BY <1>1, <2>1, <2>2, <2>3 DEF RequestOK, Aims, InFlight
  <2> QED BY <2>4, <2>5, <2>6 DEF RequestOK
<1> QED BY <1>1, <1>2

LEMMA PhaseMoves ==
  ASSUME NEW u \in UploadRecords, NEW ph \in Phases
  PROVE  /\ [u EXCEPT !.pc = ph] \in UploadRecords /\ [u EXCEPT !.pc = ph].pc = ph
         /\ [u EXCEPT !.pc = ph].files = u.files /\ [u EXCEPT !.pc = ph].fresh = u.fresh
         /\ [u EXCEPT !.pc = ph].stored = u.stored
BY DEF UploadRecords, Phases

\* An upload that is in flight stays about the same documents.
LEMMA UploadGoesOn ==
  ASSUME LibraryInv, NEW r \in Requests, NEW x \in UploadRecords, InFlight(r),
         request' = [request EXCEPT ![r] = x], disk \subseteq disk', UNCHANGED document,
         x.files = request[r].files, x.fresh = request[r].fresh,
         x.pc = "verifying" => x.files[x.stored + 1][2] \in disk'
  PROVE  request' \in [Requests -> {NoRequest} \cup UploadRecords] /\ \A q \in Requests : RequestOK(q)'
<1>1. request'[r] = x /\ \A t \in Requests \ {r} : request'[t] = request[t]
  BY DEF LibraryInv
<1>2. RequestOK(r) /\ Aims(r)' = Aims(r)
  BY <1>1 DEF LibraryInv, Aims
<1>3. RequestOK(r)'
  BY <1>1, <1>2 DEF RequestOK, Aims, InFlight, Content
<1>4. \A q \in Requests \ {r} : InFlight(q) /\ request[q].fresh => Aims(q) \cap Targets(x.files) = {}
  BY DEF LibraryInv, RequestOK, Aims
<1> QED BY <1>3, <1>4, OneUpload

LEMMA UploadEnds ==
  ASSUME LibraryInv, NEW r \in Requests, request' = [request EXCEPT ![r] = NoRequest],
         disk \subseteq disk', UNCHANGED document
  PROVE  request' \in [Requests -> {NoRequest} \cup UploadRecords] /\ \A q \in Requests : RequestOK(q)'
<1>1. request'[r] = NoRequest
  BY DEF LibraryInv
<1>2. RequestOK(r)'
  BY <1>1 DEF RequestOK, InFlight, NoRequest
<1> QED BY <1>2, OneUpload DEF NoRequest

LEMMA BatchBegins ==
  ASSUME LibraryInv, NEW r \in Requests, NEW files \in Batches, BeginBatch(r, files)
  PROVE  request' \in [Requests -> {NoRequest} \cup UploadRecords] /\ \A q \in Requests : RequestOK(q)'
<1> DEFINE x == [pc |-> "writing", fresh |-> TRUE, files |-> files, stored |-> 0]
<1>1. files \in Files
  BY DEF Batches, Files
<1>2. x \in UploadRecords /\ x.pc = "writing" /\ x.fresh /\ x.files = files
  BY <1>1 DEF UploadRecords, Phases
<1>3. request' = [request EXCEPT ![r] = x] /\ UNCHANGED <<disk, document>>
  BY DEF BeginBatch
<1> HIDE DEF x
<1>4. /\ \A d \in Targets(files) : document[d].state = "none"
      /\ \A q \in Requests : InFlight(q) => Targets(files) \cap Aims(q) = {}
  BY DEF BeginBatch, InFlight, Aims
<1>5. Targets(files) \subseteq Documents
  BY <1>1 DEF Files, Targets
<1>6. request'[r] = x /\ \A q \in Requests \ {r} : request'[q] = request[q]
  BY <1>3 DEF LibraryInv
<1>7. RequestOK(r)'
  BY <1>2, <1>3, <1>4, <1>5, <1>6 DEF RequestOK, InFlight, Aims
<1> QED BY <1>2, <1>3, <1>4, <1>7, OneUpload

LEMMA VersionBegins ==
  ASSUME LibraryInv, NEW r \in Requests, NEW d \in Documents, NEW c \in Contents,
         BeginDocumentVersion(r, d, c)
  PROVE  request' \in [Requests -> {NoRequest} \cup UploadRecords] /\ \A q \in Requests : RequestOK(q)'
<1> DEFINE x == [pc |-> "writing", fresh |-> FALSE, files |-> << <<d, c>> >>, stored |-> 0]
<1>1. << <<d, c>> >> \in Files
  BY DEF Files
<1>2. x \in UploadRecords /\ x.pc = "writing" /\ ~x.fresh /\ x.files = << <<d, c>> >>
  BY <1>1 DEF UploadRecords, Phases
<1>3. request' = [request EXCEPT ![r] = x] /\ UNCHANGED <<disk, document>> /\ document[d].state = "active"
  BY DEF BeginDocumentVersion
<1> HIDE DEF x
<1>4. Targets(x.files) = {d}
  BY <1>2 DEF Targets
<1>5. request'[r] = x
  BY <1>3 DEF LibraryInv
<1>6. RequestOK(r)'
  BY <1>2, <1>3, <1>4, <1>5 DEF RequestOK, InFlight, Aims
<1>7. \A q \in Requests \ {r} : InFlight(q) /\ request[q].fresh => Aims(q) \cap Targets(x.files) = {}
  BY <1>3, <1>4 DEF LibraryInv, RequestOK
<1> QED BY <1>2, <1>3, <1>6, <1>7, OneUpload

\* What a step may make of a document.
Keeps(d) ==
  /\ document[d].state \in {"archived", "deleted"} => document'[d].versions = document[d].versions
  /\ document[d].state = "deleted" => document'[d].state = "deleted"
  /\ IsPrefix(document[d].versions, document'[d].versions)

LEMMA KeepsItself == ASSUME LibraryInv, NEW d \in Documents, document'[d] = document[d] PROVE Keeps(d)
<1>1. document[d].versions \in Seq(blobs)
  BY DEF LibraryInv
<1> QED BY <1>1, PrefixOfItself DEF Keeps

\* The transaction of an upload gives documents that do not exist yet, or are
\* active, a version.
Gains(d, known) ==
  \E c \in known : document'[d] =
    [state |-> "active", versions |-> Append(document[d].versions, c),
     current |-> Len(document[d].versions) + 1]

LEMMA Committed ==
  ASSUME LibraryInv, NEW r \in Requests, InFlight(r), NEW known,
         Commit(request[r].files, request[r].fresh, known)
  PROVE  /\ document' = [d \in Documents |-> document'[d]]
         /\ \A d \in Documents :
              \/ document'[d] = document[d]
              \/ /\ d \in Aims(r) /\ Gains(d, known)
                 /\ document[d].state = IF request[r].fresh THEN "none" ELSE "active"
<1> DEFINE Denied == \E d \in Aims(r) :
             \/ ~request[r].fresh /\ document[d].state # "active"
             \/ ContentOf(request[r].files, d) \notin known
             \/ Len(document[d].versions) = MaxDocumentVersions
<1>1. document' = [d \in Documents |-> IF d \in Aims(r) /\ ~Denied
                                       THEN Grown(request[r].files, d) ELSE document[d]]
  BY DEF Commit, Aims
<1>2. ASSUME NEW d \in Aims(r), ~Denied
      PROVE  /\ ContentOf(request[r].files, d) \in known
             /\ request[r].fresh \/ document[d].state = "active"
  BY <1>2
<1>3. \A d \in Aims(r) : request[r].fresh => document[d].state = "none"
  BY DEF LibraryInv, RequestOK
<1> HIDE DEF Denied
<1>4. ASSUME NEW d \in Documents
      PROVE  \/ document'[d] = document[d]
             \/ /\ d \in Aims(r) /\ Gains(d, known)
                /\ document[d].state = IF request[r].fresh THEN "none" ELSE "active"
  <2>1. CASE ~(d \in Aims(r) /\ ~Denied)
    BY <1>1, <2>1
  <2>2. CASE d \in Aims(r) /\ ~Denied
    <3>1. document'[d] = Grown(request[r].files, d)
      BY <1>1, <2>2
    <3>2. ContentOf(request[r].files, d) \in known
      BY <1>2, <2>2
    <3>3. document[d].state = IF request[r].fresh THEN "none" ELSE "active"
      BY <1>2, <1>3, <2>2
    <3>4. Gains(d, known)
      BY <3>1, <3>2, <3>3 DEF Gains, Grown
    <3> QED BY <2>2, <3>3, <3>4
  <2> QED BY <2>1, <2>2
<1>5. document' = [d \in Documents |-> document'[d]]
  BY <1>1
<1> QED BY <1>4, <1>5

\* Documents that gained a version in the step that registered its blob.
LEMMA DocumentsGain ==
  ASSUME LibraryInv, Grows, UNCHANGED selected, document' = [d \in Documents |-> document'[d]],
         \A d \in Documents : \/ document'[d] = document[d]
                              \/ document[d].state \in {"none", "active"} /\ Gains(d, blobs')
  PROVE  /\ document' \in [Documents -> [state : States, versions : Seq(blobs'), current : Nat]]
         /\ \A d \in Documents : DocumentOK(d)' /\ Keeps(d)
<1>1. ASSUME NEW d \in Documents
      PROVE  /\ document'[d] \in [state : States, versions : Seq(blobs'), current : Nat]
             /\ DocumentOK(d)' /\ Keeps(d)
  <2>1. /\ document[d] \in [state : States, versions : Seq(blobs), current : Nat]
        /\ DocumentOK(d)
    BY DEF LibraryInv
  <2>2. document[d].versions \in Seq(blobs')
    BY <2>1, SeqGrows DEF Grows
  <2>3. CASE document'[d] = document[d]
    <3>1. Keeps(d)
      BY <2>3, KeepsItself
    <3> QED BY <2>1, <2>2, <2>3, <3>1 DEF DocumentOK
  <2>4. ASSUME document[d].state \in {"none", "active"}, NEW c \in blobs',
               document'[d] = [state |-> "active", versions |-> Append(document[d].versions, c),
                               current |-> Len(document[d].versions) + 1]
        PROVE  /\ document'[d] \in [state : States, versions : Seq(blobs'), current : Nat]
               /\ DocumentOK(d)' /\ Keeps(d)
    <3> DEFINE v == document[d].versions
    <3>1. /\ Append(v, c) \in Seq(blobs') /\ Append(v, c) # <<>>
          /\ Len(Append(v, c)) = Len(v) + 1 /\ Len(v) + 1 \in Nat
      BY <2>2
    <3>2. /\ document'[d].versions = Append(v, c) /\ document'[d].current = Len(v) + 1
          /\ document'[d].state = "active"
      BY <2>4
    <3>3. IsPrefix(v, Append(v, c))
      BY <2>2, PrefixOfLonger
    <3>4. document'[d] \in [state : States, versions : Seq(blobs'), current : Nat]
      BY <2>4, <3>1 DEF States
    <3>5. DocumentOK(d)'
      BY <3>1, <3>2 DEF DocumentOK
    <3>6. Keeps(d)
      BY <2>4, <3>2, <3>3 DEF Keeps
    <3> QED BY <3>4, <3>5, <3>6
  <2> QED BY <2>3, <2>4 DEF Gains
<1>2. document' \in [Documents -> [state : States, versions : Seq(blobs'), current : Nat]]
  BY <1>1
<1> QED BY <1>1, <1>2

LibraryMoves == Grows /\ LibraryInv' /\ \A d \in Documents : Keeps(d)

LEMMA UploadsMove ==
  ASSUME LibraryInv, blobs \subseteq disk, disk \subseteq disk', UNCHANGED <<blobs, document, selected>>,
         request' \in [Requests -> {NoRequest} \cup UploadRecords], \A q \in Requests : RequestOK(q)'
  PROVE  LibraryMoves
<1>1. \A d \in Documents : Keeps(d)
  BY KeepsItself
<1>2. Grows
  BY DEF Grows
<1>3. \A d \in Documents : DocumentOK(d)'
  BY DEF LibraryInv, DocumentOK
<1> QED BY <1>1, <1>2, <1>3 DEF LibraryMoves, LibraryInv

\* The last file of an upload: the documents of all of them change at once,
\* and no other upload was about to make one of them.
LEMMA UploadCommits ==
  ASSUME LibraryInv, Grows, NEW r \in Requests, InFlight(r), UNCHANGED selected,
         Commit(request[r].files, request[r].fresh, blobs'),
         request' = [request EXCEPT ![r] = NoRequest]
  PROVE  LibraryMoves
<1>1. /\ document' = [d \in Documents |-> document'[d]]
      /\ \A d \in Documents :
           \/ document'[d] = document[d]
           \/ /\ d \in Aims(r) /\ Gains(d, blobs')
              /\ document[d].state = IF request[r].fresh THEN "none" ELSE "active"
  BY Committed
<1>2. /\ document' \in [Documents -> [state : States, versions : Seq(blobs'), current : Nat]]
      /\ \A d \in Documents : DocumentOK(d)' /\ Keeps(d)
  BY <1>1, DocumentsGain
<1>3. \A d \in Documents : Gains(d, blobs') => document'[d].state = "active"
  BY DEF Gains
<1>4. \A q \in Requests \ {r} : request'[q] = request[q]
  BY DEF LibraryInv
<1>5. ~InFlight(r)'
  BY DEF LibraryInv, InFlight, NoRequest
<1>6. ASSUME NEW q \in Requests, InFlight(q)' PROVE RequestOK(q)'
  <2>1. q # r /\ request'[q] = request[q] /\ InFlight(q) /\ RequestOK(q) /\ RequestOK(r)
    BY <1>4, <1>5, <1>6 DEF InFlight, LibraryInv
  <2>2. ASSUME NEW d \in Aims(q)
        PROVE  d \in Documents /\ (request[q].fresh <=> document'[d].state = "none")
    <3>1. d \in Documents /\ (request[q].fresh <=> document[d].state = "none")
      BY <2>1 DEF RequestOK
    <3>2. CASE document'[d] = document[d]
      BY <3>1, <3>2
    <3>3. CASE d \in Aims(r) /\ document[d].state = IF request[r].fresh THEN "none" ELSE "active"
      <4>1. ~request[r].fresh
        BY <2>1, <3>3 DEF RequestOK
      <4>2. document[d].state = "active" /\ ~request[q].fresh
        BY <3>1, <3>3, <4>1
      <4>3. document'[d].state # "none"
        BY <1>1, <1>3, <3>1, <4>2
      <4> QED BY <3>1, <4>2, <4>3
    <3> QED BY <1>1, <3>1, <3>2, <3>3
  <2>3. request[q].pc = "verifying" => Content(q) \in disk'
    BY <2>1 DEF RequestOK, Grows
  <2>4. \A t \in Requests \ {q} : request[q].fresh /\ InFlight(t)' => Aims(q) \cap Aims(t)' = {}
    BY <1>4, <1>5, <2>1 DEF RequestOK, InFlight, Aims
  <2> QED BY <2>1, <2>2, <2>3, <2>4 DEF RequestOK, Aims, Content
<1>7. \A q \in Requests : RequestOK(q)'
  BY <1>6 DEF RequestOK
<1>8. request' \in [Requests -> {NoRequest} \cup UploadRecords]
  BY DEF LibraryInv
<1> QED BY <1>2, <1>7, <1>8 DEF LibraryMoves, LibraryInv

LEMMA UploadRegisters ==
  ASSUME LibraryInv, blobs \subseteq disk, NEW r \in Requests, InFlight(r), UNCHANGED selected,
         disk' = disk \cup {Content(r)}, Registered(r)
  PROVE  LibraryMoves
<1>1. request[r] \in UploadRecords
  BY DEF LibraryInv, InFlight, NoRequest
<1>2. Grows
  BY DEF Grows, Registered
<1>3. CASE request[r].stored + 1 = Len(request[r].files)
  BY <1>2, <1>3, UploadCommits DEF Registered
<1>4. CASE request[r].stored + 1 # Len(request[r].files)
  <2> DEFINE u == [request[r] EXCEPT !.stored = @ + 1]
             x == [u EXCEPT !.pc = "writing"]
  <2>1. request' = [request EXCEPT ![r].stored = @ + 1, ![r].pc = "writing"] /\ UNCHANGED document
    BY <1>4 DEF Registered
  <2>2. request' = [request EXCEPT ![r] = x]
    BY <2>1 DEF LibraryInv
  <2>3. u \in UploadRecords /\ u.files = request[r].files /\ u.fresh = request[r].fresh
    BY <1>1 DEF UploadRecords
  <2> HIDE DEF u
  <2>4. x \in UploadRecords /\ x.pc = "writing" /\ x.files = request[r].files /\ x.fresh = request[r].fresh
    BY <2>3, PhaseMoves DEF Phases
  <2> HIDE DEF x
  <2>5. request' \in [Requests -> {NoRequest} \cup UploadRecords] /\ \A q \in Requests : RequestOK(q)'
    BY <1>2, <2>1, <2>2, <2>4, UploadGoesOn DEF Grows
  <2>6. \A d \in Documents : Keeps(d)
    BY <2>1, KeepsItself
  <2>7. document' \in [Documents -> [state : States, versions : Seq(blobs'), current : Nat]]
    <3>1. ASSUME NEW d \in Documents
          PROVE  document[d] \in [state : States, versions : Seq(blobs'), current : Nat]
      <4>1. document[d] \in [state : States, versions : Seq(blobs), current : Nat]
        BY DEF LibraryInv
      <4>2. document[d].versions \in Seq(blobs')
        BY <1>2, <4>1, SeqGrows DEF Grows
      <4> QED BY <4>1, <4>2
    <3> QED BY <2>1, <3>1 DEF LibraryInv
  <2>8. \A d \in Documents : DocumentOK(d)'
    BY <2>1 DEF LibraryInv, DocumentOK
  <2> QED BY <1>2, <2>5, <2>6, <2>7, <2>8 DEF LibraryMoves, LibraryInv
<1> QED BY <1>3, <1>4

\* A selection, or the end of a document.
LEMMA DocumentMoves ==
  ASSUME LibraryInv, blobs \subseteq disk, NEW d \in Documents,
         Select(d) \/ Deselect(d) \/ \E to \in {"archived", "deleted"} : TransitionDocument(d, to)
  PROVE  LibraryMoves
<1>1. Grows /\ UNCHANGED <<disk, blobs, request>>
  BY DEF Select, Deselect, TransitionDocument, Grows
<1>2. CASE Select(d) \/ Deselect(d)
  <2>1. /\ UNCHANGED document /\ document[d].state = "active"
        /\ selected' = selected \cup {d} \/ selected' = selected \ {d}
    BY <1>2 DEF Select, Deselect
  <2>2. \A e \in Documents : Keeps(e)
    BY <2>1, KeepsItself
  <2>3. \A e \in Documents : DocumentOK(e)'
    BY <2>1 DEF LibraryInv, DocumentOK
  <2>4. \A r \in Requests : RequestOK(r)'
    BY <1>1, <2>1 DEF LibraryInv, RequestOK, InFlight, Aims, Content
  <2> QED BY <1>1, <2>1, <2>2, <2>3, <2>4 DEF LibraryMoves, LibraryInv
<1>3. ASSUME NEW to \in {"archived", "deleted"}, TransitionDocument(d, to) PROVE LibraryMoves
  <2>1. /\ document[d].state \in {"active", "archived"}
        /\ document' = [document EXCEPT ![d].state = to] /\ selected' = selected \ {d}
    BY <1>3 DEF TransitionDocument
  <2>2. document[d] \in [state : States, versions : Seq(blobs), current : Nat]
    BY DEF LibraryInv
  <2>3. /\ document'[d].state = to /\ document'[d].versions = document[d].versions
        /\ document'[d].current = document[d].current
        /\ document'[d] \in [state : States, versions : Seq(blobs), current : Nat]
    BY <2>1, <2>2 DEF LibraryInv, States
  <2>4. \A e \in Documents \ {d} : document'[e] = document[e]
    BY <2>1 DEF LibraryInv
  <2>5. document' \in [Documents -> [state : States, versions : Seq(blobs), current : Nat]]
    BY <2>1, <2>3 DEF LibraryInv, States
  <2>6. \A e \in Documents : DocumentOK(e)'
    BY <2>1, <2>3, <2>4 DEF LibraryInv, DocumentOK
  <2>7. \A e \in Documents : document'[e].state = "none" <=> document[e].state = "none"
    BY <2>1, <2>3, <2>4
  <2>8. \A r \in Requests : RequestOK(r)'
    BY <1>1, <2>7 DEF LibraryInv, RequestOK, InFlight, Aims, Content
  <2>9. Keeps(d)
    BY <2>1, <2>2, <2>3, PrefixOfItself DEF Keeps
  <2>10. \A e \in Documents : Keeps(e)
    BY <2>4, <2>9, KeepsItself
  <2> QED BY <1>1, <2>1, <2>5, <2>6, <2>8, <2>10 DEF LibraryMoves, LibraryInv
<1> QED BY <1>2, <1>3

LEMMA LibraryStepMoves ==
  ASSUME LibraryInv, blobs \subseteq disk, LibraryStep PROVE LibraryMoves
<1>1. ASSUME NEW r \in Requests, NEW files \in Batches, BeginBatch(r, files) PROVE LibraryMoves
  BY <1>1, BatchBegins, UploadsMove DEF BeginBatch
<1>2. ASSUME NEW r \in Requests, NEW d \in Documents, NEW c \in Contents, BeginDocumentVersion(r, d, c)
      PROVE  LibraryMoves
  BY <1>2, VersionBegins, UploadsMove DEF BeginDocumentVersion
<1>3. ASSUME NEW r \in Requests, Refused(r) PROVE LibraryMoves
  <2>1. /\ disk \subseteq disk' /\ request' = [request EXCEPT ![r] = NoRequest]
        /\ UNCHANGED <<blobs, document, selected>>
    BY <1>3 DEF Refused
  <2>2. request' \in [Requests -> {NoRequest} \cup UploadRecords] /\ \A q \in Requests : RequestOK(q)'
    BY <2>1, UploadEnds
  <2> QED BY <2>1, <2>2, UploadsMove
<1>4. ASSUME NEW r \in Requests, NEW ph \in {"written", "verifying"}, InFlight(r),
             request' = [request EXCEPT ![r].pc = ph], UNCHANGED <<disk, blobs, document, selected>>,
             ph = "verifying" => Content(r) \in disk
      PROVE  LibraryMoves
  <2>1. request[r] \in UploadRecords
    BY <1>4 DEF LibraryInv, InFlight, NoRequest
  <2>0. ph \in Phases
    BY DEF Phases
  <2> DEFINE x == [request[r] EXCEPT !.pc = ph]
  <2>2. request' = [request EXCEPT ![r] = x]
    BY <1>4 DEF LibraryInv
  <2>3. /\ x \in UploadRecords /\ x.pc = ph /\ x.files = request[r].files
        /\ x.fresh = request[r].fresh /\ x.stored = request[r].stored
    BY <2>0, <2>1, PhaseMoves
  <2> HIDE DEF x
  <2>4. x.pc = "verifying" => x.files[x.stored + 1][2] \in disk'
    BY <1>4, <2>3 DEF Content
  <2>5. request' \in [Requests -> {NoRequest} \cup UploadRecords] /\ \A q \in Requests : RequestOK(q)'
    BY <1>4, <2>2, <2>3, <2>4, UploadGoesOn
  <2> QED BY <1>4, <2>5, UploadsMove
<1>5. ASSUME NEW r \in Requests, Write(r) \/ Exists(r) PROVE LibraryMoves
  BY <1>4, <1>5 DEF Write, Exists, InFlight
<1>6. ASSUME NEW r \in Requests, Link(r) PROVE LibraryMoves
  BY <1>6, UploadRegisters DEF Link, InFlight
<1>7. ASSUME NEW r \in Requests, Verified(r) PROVE LibraryMoves
  <2>1. Content(r) \in disk /\ UNCHANGED disk /\ InFlight(r)
    BY <1>7 DEF Verified, LibraryInv, RequestOK, InFlight
  <2>2. disk' = disk \cup {Content(r)}
    BY <2>1
  <2> QED BY <1>7, <2>1, <2>2, UploadRegisters DEF Verified
<1> QED BY <1>1, <1>2, <1>3, <1>5, <1>6, <1>7, DocumentMoves DEF LibraryStep

-----------------------------------------------------------------------------
(***************************************************************************)
(* The research.                                                           *)
(***************************************************************************)

Studying == [pc : Waiting, left : Nat, bodies : SUBSET Contents, content : SUBSET Contents]

LEMMA StudiesRest ==
  ASSUME StudiesInv, Grows, UNCHANGED <<study, record>> PROVE StudiesInv'
<1>1. record \in [Studies -> [bodies : SUBSET blobs', analysis : SUBSET blobs']]
  <2>1. ASSUME NEW s \in Studies PROVE record[s] \in [bodies : SUBSET blobs', analysis : SUBSET blobs']
    <3>1. record[s] \in [bodies : SUBSET blobs, analysis : SUBSET blobs]
      BY DEF StudiesInv
    <3> QED BY <3>1 DEF Grows
  <2> QED BY <2>1 DEF StudiesInv
<1> QED BY <1>1 DEF StudiesInv, Grows

\* One study goes on; it may write its record.
LEMMA OneStudy ==
  ASSUME StudiesInv, Grows, NEW s \in Studies, NEW x \in Studying, study' = [study EXCEPT ![s] = x],
         x.pc = "verifying" => x.content \subseteq disk',
         \/ UNCHANGED record
         \/ \E bodies \in SUBSET blobs', analysis \in SUBSET blobs' :
              record' = [record EXCEPT ![s] = [bodies |-> bodies, analysis |-> analysis]]
  PROVE  StudiesInv'
<1>1. record' \in [Studies -> [bodies : SUBSET blobs', analysis : SUBSET blobs']]
  <2>1. record \in [Studies -> [bodies : SUBSET blobs', analysis : SUBSET blobs']]
    <3>1. ASSUME NEW t \in Studies PROVE record[t] \in [bodies : SUBSET blobs', analysis : SUBSET blobs']
      <4>1. record[t] \in [bodies : SUBSET blobs, analysis : SUBSET blobs]
        BY DEF StudiesInv
      <4> QED BY <4>1 DEF Grows
    <3> QED BY <3>1 DEF StudiesInv
  <2>2. ASSUME NEW bodies \in SUBSET blobs', NEW analysis \in SUBSET blobs',
               record' = [record EXCEPT ![s] = [bodies |-> bodies, analysis |-> analysis]]
        PROVE  record' \in [Studies -> [bodies : SUBSET blobs', analysis : SUBSET blobs']]
    <3>1. [bodies |-> bodies, analysis |-> analysis] \in [bodies : SUBSET blobs', analysis : SUBSET blobs']
      OBVIOUS
    <3> QED BY <2>1, <2>2, <3>1
  <2> QED BY <2>1, <2>2
<1>2. study' \in [Studies -> Studying]
  BY DEF StudiesInv, Studying
<1>3. \A t \in Studies : study'[t].pc = "verifying" => study'[t].content \subseteq disk'
  BY DEF StudiesInv, Grows
<1> QED BY <1>1, <1>2, <1>3 DEF StudiesInv, Studying

LEMMA FetchingType ==
  ASSUME NEW n \in Nat, NEW bodies \in SUBSET Contents
  PROVE  Fetching(n, bodies) \in Studying /\ Fetching(n, bodies).pc # "verifying"
BY DEF Fetching, Studying, Waiting

LEMMA NoStudyType == NoStudy \in Studying /\ NoStudy.pc # "verifying"
BY DEF NoStudy, Studying, Waiting

\* put returned for a content that is on disk by now.
LEMMA StudyStores ==
  ASSUME StudiesInv, Grows, NEW s \in Studies, Stored(s)
  PROVE  StudiesInv'
<1>1. study[s] \in Studying
  BY DEF StudiesInv, Studying
<1>2. CASE Source(s)
  <2>1. /\ study' = [study EXCEPT ![s] = Fetching(@.left - 1, @.bodies \cup @.content)]
        /\ UNCHANGED record
    BY <1>2 DEF Stored
  <2>2. study[s].left - 1 \in Nat /\ study[s].bodies \cup study[s].content \in SUBSET Contents
    BY <1>1, <1>2 DEF Studying, Source
  <2> DEFINE x == Fetching(study[s].left - 1, study[s].bodies \cup study[s].content)
  <2>3. x \in Studying /\ x.pc # "verifying"
    BY <2>2, FetchingType
  <2>4. study' = [study EXCEPT ![s] = x]
    BY <2>1 DEF StudiesInv
  <2> HIDE DEF x
  <2> QED BY <2>1, <2>3, <2>4, OneStudy
<1>3. CASE ~Source(s)
  <2>1. /\ study' = [study EXCEPT ![s] = NoStudy]
        /\ \/ /\ study[s].bodies \cup study[s].content \subseteq blobs'
              /\ record' = [record EXCEPT ![s] =
                   [bodies |-> study[s].bodies, analysis |-> study[s].content]]
           \/ UNCHANGED record
    BY <1>3 DEF Stored, Save
  <2>2. \/ UNCHANGED record
        \/ \E bodies \in SUBSET blobs', analysis \in SUBSET blobs' :
             record' = [record EXCEPT ![s] = [bodies |-> bodies, analysis |-> analysis]]
    BY <2>1
  <2> QED BY <2>1, <2>2, NoStudyType, OneStudy
<1> QED BY <1>2, <1>3

StudyStep(s) ==
  \/ Begin(s) \/ Discovered(s) \/ Rejected(s) \/ SourceFails(s)
  \/ \E c \in Contents : Held(s, c)
  \/ StudyLink(s) \/ StudyExists(s) \/ StudyVerified(s)

LEMMA StudyMoves ==
  ASSUME StoreInv, NEW s \in Studies, StudyStep(s)
  PROVE  Grows /\ UNCHANGED <<document, selected, request>> /\ StudiesInv'
<1>1. study[s] \in Studying /\ study = [t \in Studies |-> study[t]] /\ StudiesInv
  BY DEF StoreInv, StudiesInv, Studying
<1>2. ASSUME UNCHANGED <<libraryVars, record>>, NEW x \in Studying,
             study' = [study EXCEPT ![s] = x], x.pc = "verifying" => x.content \subseteq disk
      PROVE  Grows /\ UNCHANGED <<document, selected, request>> /\ StudiesInv'
  <2>1. Grows /\ UNCHANGED <<document, selected, request, disk>>
    BY <1>2 DEF Grows, StoreInv, libraryVars
  <2> QED BY <1>1, <1>2, <2>1, OneStudy
<1>3. CASE Begin(s) \/ Discovered(s)
  <2>1. /\ UNCHANGED <<libraryVars, record>>
        /\ \/ study' = [study EXCEPT ![s] = [NoStudy EXCEPT !.pc = "discovering"]]
           \/ \E n \in 1 .. MaxSources : study' = [study EXCEPT ![s] = Fetching(n, {})]
    BY <1>3 DEF Begin, Discovered
  <2>2. [NoStudy EXCEPT !.pc = "discovering"] \in Studying
        /\ [NoStudy EXCEPT !.pc = "discovering"].pc = "discovering"
    BY DEF NoStudy, Studying, Waiting
  <2>3. \A n \in 1 .. MaxSources : Fetching(n, {}) \in Studying /\ Fetching(n, {}).pc # "verifying"
    BY FetchingType
  <2> QED BY <1>2, <2>1, <2>2, <2>3
<1>4. CASE Rejected(s)
  BY <1>2, <1>4, NoStudyType DEF Rejected
<1>5. CASE SourceFails(s)
  <2> DEFINE x == Fetching(study[s].left - 1, study[s].bodies)
  <2>1. study' = [study EXCEPT ![s] = x] /\ UNCHANGED <<libraryVars, record>>
    BY <1>1, <1>5 DEF SourceFails
  <2>2. study[s].left - 1 \in Nat /\ study[s].bodies \in SUBSET Contents
    BY <1>1, <1>5 DEF SourceFails, Source, Studying
  <2>3. x \in Studying /\ x.pc # "verifying"
    BY <2>2, FetchingType
  <2> HIDE DEF x
  <2> QED BY <1>2, <2>1, <2>3
<1>6. ASSUME NEW c \in Contents, Held(s, c)
      PROVE  Grows /\ UNCHANGED <<document, selected, request>> /\ StudiesInv'
  <2> DEFINE x == [study[s] EXCEPT !.pc = "written", !.content = {c}]
  <2>1. study' = [study EXCEPT ![s] = x] /\ UNCHANGED <<libraryVars, record>>
    BY <1>1, <1>6 DEF Held
  <2>2. x \in Studying /\ x.pc = "written"
    BY <1>1 DEF Studying, Waiting
  <2> HIDE DEF x
  <2> QED BY <1>2, <2>1, <2>2
<1>7. CASE StudyExists(s)
  <2> DEFINE x == [study[s] EXCEPT !.pc = "verifying"]
  <2>1. study' = [study EXCEPT ![s] = x] /\ UNCHANGED <<libraryVars, record>> /\ study[s].content \subseteq disk
    BY <1>1, <1>7 DEF StudyExists
  <2>2. x \in Studying /\ x.content = study[s].content
    BY <1>1 DEF Studying, Waiting
  <2> HIDE DEF x
  <2> QED BY <1>2, <2>1, <2>2
<1>8. CASE StudyLink(s)
  <2>1. Grows /\ UNCHANGED <<document, selected, request>> /\ Stored(s)
    BY <1>8 DEF StudyLink, Stored, Grows, StoreInv
  <2> QED BY <1>1, <2>1, StudyStores
<1>9. CASE StudyVerified(s)
  <2>1. study[s].content \subseteq disk /\ blobs \subseteq disk
    BY <1>1, <1>9 DEF StudyVerified, StudiesInv, StoreInv
  <2>2. Grows /\ UNCHANGED <<document, selected, request>> /\ Stored(s)
    BY <1>9, <2>1 DEF StudyVerified, Stored, Grows
  <2> QED BY <1>1, <2>2, StudyStores
<1> QED BY <1>3, <1>4, <1>5, <1>6, <1>7, <1>8, <1>9 DEF StudyStep

-----------------------------------------------------------------------------
(***************************************************************************)
(* Crashes and the collector.                                              *)
(***************************************************************************)

\* Everything in memory is gone.
LEMMA AllForgotten ==
  ASSUME StoreInv, Grows, request' = [r \in Requests |-> NoRequest],
         study' = [s \in Studies |-> NoStudy], UNCHANGED <<document, selected, record>>
  PROVE  StoreInv'
<1>1. document' \in [Documents -> [state : States, versions : Seq(blobs'), current : Nat]]
  <2>1. ASSUME NEW d \in Documents
        PROVE  document[d] \in [state : States, versions : Seq(blobs'), current : Nat]
    <3>1. document[d] \in [state : States, versions : Seq(blobs), current : Nat]
      BY DEF StoreInv, LibraryInv
    <3>2. document[d].versions \in Seq(blobs')
      BY <3>1, SeqGrows DEF Grows
    <3> QED BY <3>1, <3>2
  <2> QED BY <2>1 DEF StoreInv, LibraryInv
<1>2. LibraryInv'
  BY <1>1 DEF StoreInv, LibraryInv, RequestOK, InFlight, NoRequest, DocumentOK
<1>3. record' \in [Studies -> [bodies : SUBSET blobs', analysis : SUBSET blobs']]
  <2>1. ASSUME NEW s \in Studies PROVE record[s] \in [bodies : SUBSET blobs', analysis : SUBSET blobs']
    <3>1. record[s] \in [bodies : SUBSET blobs, analysis : SUBSET blobs]
      BY DEF StoreInv, StudiesInv
    <3> QED BY <3>1 DEF Grows
  <2> QED BY <2>1 DEF StoreInv, StudiesInv
<1>4. StudiesInv'
  BY <1>3, NoStudyType DEF StudiesInv, Studying
<1> QED BY <1>2, <1>4 DEF StoreInv, Grows

\* What a crash leaves behind was linked before it was registered.
LEMMA CrashGrows ==
  ASSUME StoreInv, NEW linked \in BOOLEAN, NEW registered \in BOOLEAN,
         \/ \E r \in Requests : LibraryCrash(r, linked, registered)
         \/ \E s \in Studies : StudyCrash(s, linked, registered)
  PROVE  Grows
<1>1. ASSUME NEW r \in Requests, LibraryCrash(r, linked, registered) PROVE Grows
  <2>1. registered => Content(r) \in disk'
    BY <1>1 DEF LibraryCrash, Registers, Links, StoreInv, LibraryInv, RequestOK, InFlight
  <2> QED BY <1>1, <2>1 DEF LibraryCrash, Grows, StoreInv
<1>2. ASSUME NEW s \in Studies, StudyCrash(s, linked, registered) PROVE Grows
  <2>1. registered => study[s].content \subseteq disk'
    BY <1>2 DEF StudyCrash, StoreInv, StudiesInv
  <2> QED BY <1>2, <2>1 DEF StudyCrash, Grows, StoreInv
<1> QED BY <1>1, <1>2

LEMMA CollectorSpares ==
  ASSUME StoreInv, NoUploads, NoStudies, NEW candidates \in SUBSET Contents,
         UNCHANGED <<document, selected, request, study, record>>,
         blobs' = blobs \ Claims(RecordBlobs, candidates), blobs' \subseteq disk'
  PROVE  StoreInv'
<1>1. Referenced \cup RecordBlobs \subseteq blobs
  <2>1. \A d \in Documents : ToSet(document[d].versions) \subseteq blobs
    BY SeqElements DEF StoreInv, LibraryInv
  <2>2. \A s \in Studies : record[s].bodies \cup record[s].analysis \subseteq blobs
    BY DEF StoreInv, StudiesInv
  <2> QED BY <2>1, <2>2 DEF Referenced, RecordBlobs
<1>2. Referenced \cup RecordBlobs \subseteq blobs'
  BY <1>1 DEF Claims
<1>3. document' \in [Documents -> [state : States, versions : Seq(blobs'), current : Nat]]
  <2>1. ASSUME NEW d \in Documents
        PROVE  document[d] \in [state : States, versions : Seq(blobs'), current : Nat]
    <3>1. document[d] \in [state : States, versions : Seq(blobs), current : Nat]
      BY DEF StoreInv, LibraryInv
    <3>2. ToSet(document[d].versions) \subseteq blobs'
      BY <1>2 DEF Referenced
    <3>3. document[d].versions \in Seq(blobs')
      BY <3>1, <3>2, SeqWithin
    <3> QED BY <3>1, <3>3
  <2> QED BY <2>1 DEF StoreInv, LibraryInv
<1>4. LibraryInv'
  BY <1>3 DEF StoreInv, LibraryInv, RequestOK, InFlight, NoUploads, DocumentOK
<1>5. record' \in [Studies -> [bodies : SUBSET blobs', analysis : SUBSET blobs']]
  <2>1. ASSUME NEW s \in Studies PROVE record[s] \in [bodies : SUBSET blobs', analysis : SUBSET blobs']
    <3>1. record[s] \in [bodies : SUBSET blobs, analysis : SUBSET blobs]
      BY DEF StoreInv, StudiesInv
    <3>2. record[s].bodies \cup record[s].analysis \subseteq blobs'
      BY <1>2 DEF RecordBlobs
    <3> QED BY <3>1, <3>2
  <2> QED BY <2>1 DEF StoreInv, StudiesInv
<1>6. StudiesInv'
  BY <1>5 DEF StoreInv, StudiesInv, NoStudies
<1> QED BY <1>4, <1>6 DEF StoreInv

-----------------------------------------------------------------------------
(***************************************************************************)
(* The theorems.                                                           *)
(***************************************************************************)

LEMMA StoreStarts == ResearchInit => StoreInv
<1>1. ASSUME ResearchInit PROVE StoreInv
  <2>1. document = [d \in Documents |-> NoDocument] /\ NoDocument \in [state : States, versions : Seq(blobs), current : Nat]
    BY <1>1 DEF ResearchInit, LibraryInit, NoDocument, States
  <2>2. document \in [Documents -> [state : States, versions : Seq(blobs), current : Nat]]
    BY <2>1
  <2>3. LibraryInv
    BY <1>1, <2>2 DEF ResearchInit, LibraryInit, LibraryInv, RequestOK, InFlight, NoRequest, DocumentOK, NoDocument
  <2>4. StudiesInv
    BY <1>1, NoStudyType DEF ResearchInit, NoRecord, StudiesInv, Studying
  <2> QED BY <1>1, <2>3, <2>4 DEF StoreInv, ResearchInit, LibraryInit
<1> QED BY <1>1

LEMMA StoreMoves ==
  ASSUME StoreInv, ResearchNext PROVE StoreInv' /\ \A d \in Documents : Keeps(d)
<1>1. LibraryInv /\ StudiesInv /\ blobs \subseteq disk
  BY DEF StoreInv
<1>2. ASSUME UNCHANGED document PROVE \A d \in Documents : Keeps(d)
  BY <1>1, <1>2, KeepsItself
<1>3. CASE LibraryStep /\ UNCHANGED <<study, record>>
  <2>1. LibraryMoves
    BY <1>1, <1>3, LibraryStepMoves
  <2>2. StudiesInv'
    BY <1>1, <1>3, <2>1, StudiesRest DEF LibraryMoves
  <2> QED BY <2>1, <2>2 DEF LibraryMoves, StoreInv, Grows
<1>4. ASSUME NEW s \in Studies, StudyStep(s) PROVE StoreInv' /\ \A d \in Documents : Keeps(d)
  <2>1. Grows /\ UNCHANGED <<document, selected, request>> /\ StudiesInv'
    BY <1>4, StudyMoves
  <2>2. LibraryInv'
    BY <1>1, <2>1, LibraryRests
  <2> QED BY <1>2, <2>1, <2>2 DEF StoreInv, Grows
<1>5. ASSUME NEW linked \in BOOLEAN, NEW registered \in BOOLEAN,
             \/ \E s \in Studies : StudyCrash(s, linked, registered)
             \/ /\ \E r \in Requests : LibraryCrash(r, linked, registered)
                /\ study' = [s \in Studies |-> NoStudy] /\ UNCHANGED record
      PROVE  StoreInv' /\ \A d \in Documents : Keeps(d)
  <2>1. Grows
    BY <1>5, CrashGrows
  <2>2. /\ request' = [r \in Requests |-> NoRequest] /\ study' = [s \in Studies |-> NoStudy]
        /\ UNCHANGED <<document, selected, record>>
    BY <1>5 DEF StudyCrash, LibraryCrash
  <2> QED BY <1>2, <2>1, <2>2, AllForgotten
<1>6. ASSUME NEW candidates \in SUBSET Contents, NoStudies, UNCHANGED <<study, record>>,
             \/ Collect(RecordBlobs, candidates)
             \/ \E removed \in SUBSET Contents : CollectCrash(RecordBlobs, candidates, removed)
      PROVE  StoreInv' /\ \A d \in Documents : Keeps(d)
  <2>1. /\ NoUploads /\ UNCHANGED <<document, selected, request>>
        /\ blobs' = blobs \ Claims(RecordBlobs, candidates) /\ blobs' \subseteq disk'
    BY <1>1, <1>6 DEF Collect, CollectCrash
  <2> QED BY <1>2, <1>6, <2>1, CollectorSpares
<1> QED BY <1>3, <1>4, <1>5, <1>6 DEF ResearchNext, StudyStep

LEMMA StoreKept == StoreInv /\ [ResearchNext]_researchVars => StoreInv'
<1>1. ASSUME StoreInv, UNCHANGED researchVars PROVE StoreInv'
  BY <1>1 DEF StoreInv, LibraryInv, StudiesInv, DocumentOK, RequestOK, InFlight, Aims, Content,
     researchVars, libraryVars
<1> QED BY <1>1, StoreMoves

LEMMA StoreInvariant == ResearchSpec => []StoreInv
BY StoreStarts, StoreKept, PTL DEF ResearchSpec

\* StoreSound: what a version of a document, a source of a record or an
\* analysis refers to is registered and on disk, whatever uploads and studies
\* a crash has cut off and whatever the collector took; documents show their
\* newest version, and the profile is made of active ones.
THEOREM StoreIsSound == ResearchSpec => []StoreSound
<1>1. ASSUME StoreInv PROVE StoreSound
  <2>1. LibraryInv /\ StudiesInv /\ blobs \subseteq disk
    BY <1>1 DEF StoreInv
  <2>2. VersionsStored
    <3>1. \A d \in Documents : ToSet(document[d].versions) \subseteq blobs
      BY <2>1, SeqElements DEF LibraryInv
    <3> QED BY <2>1, <3>1 DEF VersionsStored
  <2>3. NewestShown
    BY <2>1 DEF LibraryInv, DocumentOK, NewestShown
  <2>4. ProfileActive
    BY <2>1 DEF LibraryInv, DocumentOK, ProfileActive
  <2>5. RecordsStored
    <3>1. \A s \in Studies : record[s].bodies \cup record[s].analysis \subseteq blobs
      BY <2>1 DEF StudiesInv
    <3> QED BY <2>1, <3>1 DEF RecordsStored, RecordBlobs
  <2> QED BY <2>2, <2>3, <2>4, <2>5 DEF StoreSound, LibrarySound
<1> QED BY <1>1, StoreInvariant, PTL

\* ShelvedIsFinal: a document that was archived or deleted while an upload of
\* a version was under way does not get that version, and none ever loses one.
\* The new documents of a batch need no such check: nobody else can make them.
THEOREM ShelvedStays == ResearchSpec => ShelvedIsFinal
<1>1. StoreInv /\ [ResearchNext]_researchVars => [\A d \in Documents : Keeps(d)]_libraryVars
  BY StoreMoves DEF researchVars
<1>2. (\A d \in Documents : Keeps(d)) =>
        \A d \in Documents :
          /\ document[d].state \in {"archived", "deleted"} => document'[d].versions = document[d].versions
          /\ document[d].state = "deleted" => document'[d].state = "deleted"
          /\ IsPrefix(document[d].versions, document'[d].versions)
  BY DEF Keeps
<1> QED BY <1>1, <1>2, StoreInvariant, PTL DEF ResearchSpec, ShelvedIsFinal

-----------------------------------------------------------------------------
(***************************************************************************)
(* THE CONVERSATIONS.                                                      *)
(***************************************************************************)

JobStates == {"none", "queued", "running", "cancelling"} \cup Over
Messages == Turns \X {"user", "assistant"}
Turned == [job : JobStates, in : Conversations \cup {New}, history : Seq(Messages),
           aborted : BOOLEAN, died : BOOLEAN]

LibraryKept(t) == \E c \in Open : Roles(c, t) # {}

\* A provider runs for a job that runs, unless that job was given up.
LifeOK(t) ==
  /\ turn[t].job \in {"none", "queued"} => run[t] = "none" /\ ~turn[t].died /\ ~turn[t].aborted
  /\ run[t] = "running" /\ ~turn[t].died /\ ~turn[t].aborted => turn[t].job = "running"

\* Conversations only grow, so what was disclosed stays their beginning.
HistoryOK(t) ==
  IF turn[t].in = New THEN turn[t].history = <<>>
  ELSE turn[t].in \in Open /\ IsPrefix(turn[t].history, messages[turn[t].in])

TellsOK(t) ==
  /\ turn[t].job = "succeeded" => LibraryKept(t)
  /\ LibraryKept(t) => run[t] = "succeeded" /\ (turn[t].job = "succeeded" \/ turn[t].died)

\* The messages of a turn are neighbours.
PlaceOK(c, t) ==
  Roles(c, t) # {} =>
    /\ turn[t].in \in {c, New}
    /\ \E k \in Nat : Roles(c, t) \subseteq {k, k + 1}
    /\ \A e \in Open \ {c} : Roles(e, t) = {}

WholeAt(c, i) ==
  LET m == messages[c][i] IN
  IF m[2] = "user"
  THEN turn[m[1]].died \/ (i < Len(messages[c]) /\ messages[c][i + 1] = <<m[1], "assistant">>)
  ELSE i > 1 /\ messages[c][i - 1] = <<m[1], "user">>

ChatTyped ==
  /\ Open \subseteq Conversations /\ messages = [c \in Open |-> messages[c]]
  /\ \A c \in Open : messages[c] \in Seq(Messages)
  /\ turn \in [Turns -> Turned]
  /\ run \in [Turns -> {"none", "running", "succeeded", "failed", "cancelled"}]

ChatInv ==
  /\ ChatTyped
  /\ \A t \in Turns : LifeOK(t) /\ HistoryOK(t) /\ TellsOK(t)
  /\ \A c \in Open, t \in Turns : PlaceOK(c, t)
  /\ \A c \in Open : \A i \in DOMAIN messages[c] : WholeAt(c, i)

-----------------------------------------------------------------------------
(***************************************************************************)
(* What a step does to the messages.                                       *)
(***************************************************************************)

Past(c) == IF c \in Open THEN messages[c] ELSE <<>>

\* Conversation c grows by n messages of t, the others stay.
Writes(t, c, n) ==
  /\ Open' = Open \cup {c} /\ messages' = [x \in Open' |-> messages'[x]]
  /\ \A x \in Open \ {c} : messages'[x] = messages[x]
  /\ messages'[c] \in Seq(Messages) /\ Len(messages'[c]) = Len(Past(c)) + n
  /\ \A i \in 1 .. Len(Past(c)) : messages'[c][i] = Past(c)[i]
  /\ messages'[c][Len(Past(c)) + 1] = <<t, "user">>
  /\ n = 2 => messages'[c][Len(Past(c)) + 2] = <<t, "assistant">>

LEMMA BothMessages ==
  ASSUME NEW t \in Turns, NEW n \in 1 .. 2
  PROVE  LET add == SubSeq(<< <<t, "user">>, <<t, "assistant">> >>, 1, n) IN
         /\ add \in Seq(Messages) /\ Len(add) = n
         /\ add[1] = <<t, "user">> /\ (n = 2 => add[2] = <<t, "assistant">>)
<1> DEFINE both == << <<t, "user">>, <<t, "assistant">> >>
<1>1. both \in Seq(Messages) /\ Len(both) = 2 /\ both[1] = <<t, "user">> /\ both[2] = <<t, "assistant">>
  BY DEF Messages
<1> HIDE DEF both
<1>2. /\ SubSeq(both, 1, n) \in Seq(Messages) /\ Len(SubSeq(both, 1, n)) = n
      /\ \A i \in 1 .. n : SubSeq(both, 1, n)[i] = both[i]
  BY <1>1
<1>3. 1 \in 1 .. n /\ (n = 2 => 2 \in 1 .. n)
  OBVIOUS
<1>4. /\ SubSeq(both, 1, n)[1] = <<t, "user">> /\ (n = 2 => SubSeq(both, 1, n)[2] = <<t, "assistant">>)
  BY <1>1, <1>2, <1>3
<1> QED BY <1>2, <1>4 DEF both

LEMMA Joined ==
  ASSUME NEW S, NEW s \in Seq(S), NEW a \in Seq(S)
  PROVE  /\ s \o a \in Seq(S) /\ Len(s \o a) = Len(s) + Len(a)
         /\ \A i \in 1 .. Len(s) : (s \o a)[i] = s[i]
         /\ \A i \in 1 .. Len(a) : (s \o a)[Len(s) + i] = a[i]
OBVIOUS

LEMMA WrittenWrites ==
  ASSUME ChatTyped, NEW t \in Turns, NEW d \in Conversations \ Open, NEW n \in 1 .. 2, HistoryOK(t),
         messages' = Written(t, d, n)
  PROVE  \E c \in Conversations : /\ Writes(t, c, n) /\ turn[t].in \in {c, New}
                                  /\ turn[t].in = New => c \notin Open
<1> DEFINE c == IF turn[t].in = New THEN d ELSE turn[t].in
           add == SubSeq(<< <<t, "user">>, <<t, "assistant">> >>, 1, n)
<1>1. c \in Conversations /\ turn[t].in \in {c, New} /\ (turn[t].in = New => c \notin Open)
  BY DEF HistoryOK, ChatTyped
<1>2. messages' = [x \in Open \cup {c} |-> (IF x \in Open THEN messages[x] ELSE <<>>) \o
                                          (IF x = c THEN add ELSE <<>>)]
  BY DEF Written
<1>3. /\ add \in Seq(Messages) /\ Len(add) = n
      /\ add[1] = <<t, "user">> /\ (n = 2 => add[2] = <<t, "assistant">>)
  BY BothMessages
<1> HIDE DEF c, add
<1>4. Past(c) \in Seq(Messages)
  BY DEF ChatTyped, Past
<1>5. messages'[c] = Past(c) \o add
  BY <1>2 DEF Past
<1>6. /\ messages'[c] \in Seq(Messages) /\ Len(messages'[c]) = Len(Past(c)) + n
      /\ \A i \in 1 .. Len(Past(c)) : messages'[c][i] = Past(c)[i]
      /\ \A i \in 1 .. n : messages'[c][Len(Past(c)) + i] = add[i]
  BY <1>3, <1>4, <1>5, Joined
<1>7. ASSUME NEW x \in Open \ {c} PROVE messages'[x] = messages[x]
  <2>1. messages'[x] = messages[x] \o <<>> /\ messages[x] \in Seq(Messages)
    BY <1>2 DEF ChatTyped
  <2> QED BY <2>1
<1>8. Open' = Open \cup {c} /\ messages' = [x \in Open' |-> messages'[x]]
  BY <1>2 DEF Open
<1>9. /\ messages'[c][Len(Past(c)) + 1] = <<t, "user">>
      /\ n = 2 => messages'[c][Len(Past(c)) + 2] = <<t, "assistant">>
  BY <1>3, <1>6
<1>10. Writes(t, c, n)
  BY <1>6, <1>7, <1>8, <1>9 DEF Writes
<1> QED BY <1>1, <1>10

\* The conversation is created, if it is new.
LEMMA WrittenOpens ==
  ASSUME ChatTyped, NEW t \in Turns, NEW d \in Conversations \ Open, HistoryOK(t),
         messages' = Written(t, d, 0)
  PROVE  /\ Open \subseteq Open' /\ Open' \subseteq Conversations
         /\ messages' = [x \in Open' |-> messages'[x]]
         /\ \A x \in Open : messages'[x] = messages[x]
         /\ \A x \in Open' \ Open : messages'[x] = <<>>
<1> DEFINE c == IF turn[t].in = New THEN d ELSE turn[t].in
           add == SubSeq(<< <<t, "user">>, <<t, "assistant">> >>, 1, 0)
<1>1. c \in Conversations /\ Open \subseteq Conversations
  BY DEF HistoryOK, ChatTyped
<1>2. messages' = [x \in Open \cup {c} |-> (IF x \in Open THEN messages[x] ELSE <<>>) \o
                                          (IF x = c THEN add ELSE <<>>)]
  BY DEF Written
<1>3. add = <<>>
  OBVIOUS
<1> HIDE DEF c, add
<1>4. Open' = Open \cup {c} /\ messages' = [x \in Open' |-> messages'[x]]
  BY <1>2 DEF Open
<1>5. ASSUME NEW x \in Open PROVE messages'[x] = messages[x]
  <2>1. messages'[x] = messages[x] \o <<>> /\ messages[x] \in Seq(Messages)
    BY <1>2, <1>3 DEF ChatTyped
  <2> QED BY <2>1
<1>6. ASSUME NEW x \in Open' \ Open PROVE messages'[x] = <<>>
  <2>1. messages'[x] = <<>> \o <<>>
    BY <1>2, <1>3, <1>4
  <2> QED BY <2>1
<1> QED BY <1>1, <1>4, <1>5, <1>6

LEMMA RolesGrow ==
  ASSUME ChatTyped, NEW t \in Turns, NEW c \in Conversations, NEW n \in 1 .. 2, Writes(t, c, n),
         NEW u \in Turns
  PROVE  /\ \A x \in Open \ {c} : Roles(x, u)' = Roles(x, u)
         /\ u # t => Roles(c, u)' = IF c \in Open THEN Roles(c, u) ELSE {}
         /\ (c \in Open => Roles(c, t) = {}) =>
              Roles(c, t)' = IF n = 1 THEN {Len(Past(c)) + 1} ELSE {Len(Past(c)) + 1, Len(Past(c)) + 2}
<1> DEFINE L == Len(Past(c))
           m == messages'[c]
<1>1. L \in Nat /\ m \in Seq(Messages) /\ DOMAIN m = 1 .. L + n
  BY DEF Writes, Past, ChatTyped
<1>2. /\ \A i \in 1 .. L : c \in Open /\ m[i] = messages[c][i]
      /\ m[L + 1] = <<t, "user">> /\ (n = 2 => m[L + 2] = <<t, "assistant">>)
  BY DEF Writes, Past
<1>3. c \in Open => DOMAIN messages[c] = 1 .. L
  BY DEF Past, ChatTyped
<1>4. Roles(c, u)' = {i \in 1 .. L + n : m[i][1] = u} /\ Roles(c, t)' = {i \in 1 .. L + n : m[i][1] = t}
  BY <1>1 DEF Roles
<1>5. \A x \in Open \ {c} : Roles(x, u)' = Roles(x, u)
  BY DEF Writes, Roles
<1>6. c \notin Open => L = 0
  BY DEF Past
<1> HIDE DEF L, m
<1>7. 1 .. L + n = (1 .. L) \cup (IF n = 1 THEN {L + 1} ELSE {L + 1, L + 2})
  BY <1>1
<1>8. ASSUME u # t PROVE Roles(c, u)' = IF c \in Open THEN Roles(c, u) ELSE {}
  <2>1. \A i \in 1 .. L + n : m[i][1] = u => i \in 1 .. L
    BY <1>2, <1>7, <1>8
  <2>2. CASE c \in Open
    <3>1. Roles(c, u) = {i \in 1 .. L : messages[c][i][1] = u}
      BY <1>3, <2>2 DEF Roles
    <3>2. \A i \in 1 .. L : m[i][1] = messages[c][i][1]
      BY <1>2
    <3>3. \A i \in 1 .. L : i \in 1 .. L + n
      BY <1>1
    <3>4. Roles(c, u)' = {i \in 1 .. L : m[i][1] = u}
      BY <1>4, <2>1, <3>3
    <3> QED BY <2>2, <3>1, <3>2, <3>4
  <2>3. CASE c \notin Open
    BY <1>1, <1>4, <1>6, <2>1, <2>3
  <2> QED BY <2>2, <2>3
<1>9. ASSUME c \in Open => Roles(c, t) = {}
      PROVE  Roles(c, t)' = IF n = 1 THEN {L + 1} ELSE {L + 1, L + 2}
  <2>1. \A i \in 1 .. L : m[i][1] # t
    BY <1>2, <1>3, <1>9 DEF Roles
  <2>2. \A i \in (IF n = 1 THEN {L + 1} ELSE {L + 1, L + 2}) : m[i][1] = t
    BY <1>2
  <2> QED BY <1>4, <1>7, <2>1, <2>2
<1> QED BY <1>5, <1>8, <1>9 DEF L

-----------------------------------------------------------------------------
(***************************************************************************)
(* What a step does to the turns.                                          *)
(***************************************************************************)

LEMMA PrefixPointwise ==
  ASSUME NEW S, NEW s \in Seq(S), NEW t \in Seq(S), IsPrefix(s, t)
  PROVE  Len(s) <= Len(t) /\ \A i \in 1 .. Len(s) : s[i] = t[i]
<1>1. Len(s) <= Len(t) /\ SubSeq(s, 1, Len(s)) = SubSeq(t, 1, Len(s))
  BY DEF IsPrefix
<1>2. \A i \in 1 .. Len(s) : SubSeq(s, 1, Len(s))[i] = s[i] /\ SubSeq(t, 1, Len(s))[i] = t[i]
  BY <1>1
<1> QED BY <1>1, <1>2

LEMMA PointwisePrefix ==
  ASSUME NEW S, NEW s \in Seq(S), NEW t \in Seq(S), Len(s) <= Len(t), \A i \in 1 .. Len(s) : s[i] = t[i]
  PROVE  IsPrefix(s, t)
<1>1. SubSeq(s, 1, Len(s)) = SubSeq(t, 1, Len(s))
  OBVIOUS
<1> QED BY <1>1 DEF IsPrefix

\* Where a turn was asked stays, and so does its death.
Same(u) ==
  /\ turn'[u].in = turn[u].in /\ turn'[u].history = turn[u].history
  /\ turn[u].died => turn'[u].died

TypesKept == turn' \in [Turns -> Turned] /\ run' \in [Turns -> {"none", "running", "succeeded", "failed", "cancelled"}]

LEMMA WholeStays ==
  ASSUME ChatInv, NEW c \in Open, NEW i \in DOMAIN messages[c], \A u \in Turns : turn[u].died => turn'[u].died,
         c \in Open', Len(messages[c]) <= Len(messages'[c]), messages'[c] \in Seq(Messages),
         \A j \in DOMAIN messages[c] : messages'[c][j] = messages[c][j]
  PROVE  WholeAt(c, i)'
<1>1. WholeAt(c, i) /\ messages[c] \in Seq(Messages)
  BY DEF ChatInv, ChatTyped
<1>2. /\ i \in Nat /\ i >= 1 /\ i <= Len(messages[c]) /\ messages'[c][i] = messages[c][i]
      /\ messages[c][i][1] \in Turns /\ Len(messages[c]) \in Nat /\ Len(messages'[c]) \in Nat
  BY <1>1 DEF Messages
<1>3. i < Len(messages[c]) => messages'[c][i + 1] = messages[c][i + 1]
  BY <1>1, <1>2
<1>4. i > 1 => messages'[c][i - 1] = messages[c][i - 1]
  BY <1>1, <1>2
<1>5. i < Len(messages[c]) => i < Len(messages'[c])
  BY <1>2
<1>6. CASE messages[c][i][2] = "user"
  BY <1>1, <1>2, <1>3, <1>5, <1>6 DEF WholeAt
<1>7. CASE messages[c][i][2] # "user"
  BY <1>1, <1>2, <1>4, <1>7 DEF WholeAt
<1> QED BY <1>6, <1>7

\* A conversation may be created; no message is written.
Silent ==
  /\ Open \subseteq Open' /\ Open' \subseteq Conversations
  /\ messages' = [c \in Open' |-> messages'[c]]
  /\ \A c \in Open : messages'[c] = messages[c]
  /\ \A c \in Open' \ Open : messages'[c] = <<>>

LEMMA StillIsSilent == ASSUME ChatInv, UNCHANGED messages PROVE Silent
BY DEF ChatInv, ChatTyped, Silent, Open

\* Steps that write no message.
LEMMA KeptInSilence ==
  ASSUME ChatInv, Silent, TypesKept,
         \A u \in Turns : turn[u].died => turn'[u].died,
         \A u \in Turns : Same(u) \/ ~LibraryKept(u),
         \A u \in Turns : LifeOK(u)' /\ HistoryOK(u)',
         \A u \in Turns : turn'[u].job = "succeeded" => turn[u].job = "succeeded",
         \A u \in Turns : LibraryKept(u) => run'[u] = run[u] /\ (turn'[u].job = turn[u].job \/ turn'[u].died)
  PROVE  ChatInv'
<1>1. ChatTyped'
  <2>1. ASSUME NEW c \in Open' PROVE messages'[c] \in Seq(Messages)
    <3>1. CASE c \in Open
      BY <3>1 DEF ChatInv, ChatTyped, Silent
    <3>2. CASE c \notin Open
      <4>1. messages'[c] = <<>>
        BY <3>2 DEF Silent
      <4> QED BY <4>1
    <3> QED BY <3>1, <3>2
  <2>2. Open' \subseteq Conversations /\ messages' = [c \in Open' |-> messages'[c]]
    BY DEF Silent
  <2> QED BY <2>1, <2>2 DEF ChatTyped, TypesKept
<1>2. /\ \A c \in Open : \A t \in Turns : Roles(c, t)' = Roles(c, t)
      /\ \A c \in Open' \ Open : DOMAIN messages'[c] = {} /\ \A t \in Turns : Roles(c, t)' = {}
      /\ Open \subseteq Open'
  BY DEF Roles, Silent
<1>3. \A u \in Turns : LibraryKept(u)' <=> LibraryKept(u)
  BY <1>2 DEF LibraryKept
<1>4. \A u \in Turns : TellsOK(u)'
  BY <1>3 DEF ChatInv, TellsOK
<1>5. ASSUME NEW c \in Open', NEW u \in Turns PROVE PlaceOK(c, u)'
  <2>1. CASE Roles(c, u)' = {}
    BY <2>1 DEF PlaceOK
  <2>2. CASE Roles(c, u)' # {}
    <3>1. c \in Open /\ Roles(c, u)' = Roles(c, u) /\ LibraryKept(u) /\ PlaceOK(c, u)
      BY <1>2, <2>2 DEF LibraryKept, ChatInv
    <3>2. \A e \in Open' \ {c} : Roles(e, u)' = {}
      BY <1>2, <2>2, <3>1 DEF PlaceOK
    <3> QED BY <2>2, <3>1, <3>2 DEF PlaceOK, Same
  <2> QED BY <2>1, <2>2
<1>6. \A c \in Open : \A i \in DOMAIN messages[c] : WholeAt(c, i)'
  <2>1. \A c \in Open : messages[c] \in Seq(Messages)
    BY DEF ChatInv, ChatTyped
  <2>2. ASSUME NEW c \in Open, NEW i \in DOMAIN messages[c] PROVE WholeAt(c, i)'
    <3>1. /\ c \in Open' /\ Len(messages[c]) <= Len(messages'[c]) /\ messages'[c] \in Seq(Messages)
          /\ \A j \in DOMAIN messages[c] : messages'[c][j] = messages[c][j]
      BY <2>1 DEF Silent
    <3> QED BY <3>1, WholeStays
  <2> QED BY <2>2
<1>7. \A c \in Open' : \A i \in DOMAIN messages'[c] : WholeAt(c, i)'
  BY <1>2, <1>6 DEF Silent
<1> QED BY <1>1, <1>4, <1>5, <1>7 DEF ChatInv

\* Steps that store a turn, whole or, when it dies with that, in part.
LEMMA KeptByWriting ==
  ASSUME ChatInv, TypesKept, NEW t \in Turns, NEW c \in Conversations, NEW n \in 1 .. 2,
         Writes(t, c, n), ~LibraryKept(t), turn[t].in \in {c, New}, turn[t].in = New => c \notin Open,
         \A u \in Turns : Same(u) /\ LifeOK(u)',
         n = 2 \/ turn'[t].died, run'[t] = "succeeded", turn'[t].job = "succeeded" \/ turn'[t].died,
         \A u \in Turns : turn'[u].job = "succeeded" => turn[u].job = "succeeded" \/ u = t,
         \A u \in Turns : LibraryKept(u) => run'[u] = run[u] /\ (turn'[u].job = turn[u].job \/ turn'[u].died)
  PROVE  ChatInv'
<1>0. /\ ChatTyped /\ Open' = Open \cup {c}
      /\ \A x \in Open : messages[x] \in Seq(Messages)
      /\ messages'[c] \in Seq(Messages) /\ Past(c) \in Seq(Messages)
  BY DEF ChatInv, ChatTyped, Writes, Past
<1>1. ChatTyped'
  <2>1. \A x \in Open' : messages'[x] \in Seq(Messages)
    BY <1>0 DEF Writes
  <2>2. Open' \subseteq Conversations /\ messages' = [x \in Open' |-> messages'[x]]
    BY <1>0 DEF Writes, ChatTyped
  <2> QED BY <2>1, <2>2 DEF ChatTyped, TypesKept
<1>2. \A x \in Open : Roles(x, t) = {}
  BY DEF LibraryKept
<1>3. /\ \A u \in Turns : \A x \in Open \ {c} : Roles(x, u)' = Roles(x, u)
      /\ \A u \in Turns \ {t} : Roles(c, u)' = IF c \in Open THEN Roles(c, u) ELSE {}
      /\ Roles(c, t)' = IF n = 1 THEN {Len(Past(c)) + 1} ELSE {Len(Past(c)) + 1, Len(Past(c)) + 2}
  BY <1>0, <1>2, RolesGrow
<1>4. \A u \in Turns : LibraryKept(u)' <=> LibraryKept(u) \/ u = t
  <2>1. LibraryKept(t)'
    <3>1. Len(Past(c)) + 1 \in Roles(c, t)'
      BY <1>3
    <3> QED BY <1>0, <3>1 DEF LibraryKept
  <2>2. ASSUME NEW u \in Turns \ {t} PROVE LibraryKept(u)' <=> LibraryKept(u)
    <3>1. \A x \in Open : Roles(x, u)' = Roles(x, u)
      BY <1>3
    <3>2. c \notin Open => Roles(c, u)' = {}
      BY <1>3
    <3> QED BY <1>0, <3>1, <3>2 DEF LibraryKept
  <2> QED BY <2>1, <2>2
<1>5. ASSUME NEW u \in Turns PROVE TellsOK(u)'
  <2>1. TellsOK(u)
    BY DEF ChatInv
  <2>2. CASE u = t
    BY <1>4, <2>2 DEF TellsOK
  <2>3. CASE u # t
    <3>1. turn'[u].job = "succeeded" => LibraryKept(u)'
      BY <1>4, <2>1, <2>3 DEF TellsOK
    <3>2. LibraryKept(u)' => run'[u] = "succeeded" /\ (turn'[u].job = "succeeded" \/ turn'[u].died)
      <4>1. ASSUME LibraryKept(u) PROVE run'[u] = "succeeded" /\ (turn'[u].job = "succeeded" \/ turn'[u].died)
        <5>1. run'[u] = run[u] /\ (turn'[u].job = turn[u].job \/ turn'[u].died)
          BY <4>1
        <5>2. turn[u].died => turn'[u].died
          BY DEF Same
        <5> QED BY <2>1, <4>1, <5>1, <5>2 DEF TellsOK
      <4> QED BY <1>4, <2>3, <4>1
    <3> QED BY <3>1, <3>2 DEF TellsOK
  <2> QED BY <2>2, <2>3
<1>6. ASSUME NEW u \in Turns, NEW x \in Open' PROVE PlaceOK(x, u)'
  <2>1. turn'[u].in = turn[u].in
    BY DEF Same
  <2>2. CASE u = t
    <3>1. x # c => Roles(x, t)' = {}
      BY <1>0, <1>2, <1>3
    <3>2. \A e \in Open' \ {c} : Roles(e, t)' = {}
      BY <1>0, <1>2, <1>3
    <3>3. Len(Past(c)) + 1 \in Nat /\ (Len(Past(c)) + 1) + 1 = Len(Past(c)) + 2
      BY <1>0
    <3>4. Roles(c, t)' \subseteq {Len(Past(c)) + 1, (Len(Past(c)) + 1) + 1}
      BY <1>3, <3>3
    <3>5. \E k \in Nat : Roles(c, t)' \subseteq {k, k + 1}
      BY <3>3, <3>4
    <3> QED BY <2>1, <2>2, <3>1, <3>2, <3>5 DEF PlaceOK
  <2>3. CASE u # t
    <3>1. Roles(x, u)' # {} => x \in Open /\ Roles(x, u)' = Roles(x, u)
      BY <1>0, <1>3, <2>3
    <3>2. x \in Open => PlaceOK(x, u)
      BY DEF ChatInv
    <3>3. \A e \in Open' : (e \in Open => Roles(e, u) = {}) => Roles(e, u)' = {}
      BY <1>0, <1>3, <2>3
    <3> QED BY <2>1, <3>1, <3>2, <3>3 DEF PlaceOK
  <2> QED BY <2>2, <2>3
<1>7. ASSUME NEW u \in Turns PROVE HistoryOK(u)'
  <2>1. HistoryOK(u) /\ turn'[u].in = turn[u].in /\ turn'[u].history = turn[u].history
    BY DEF ChatInv, Same
  <2>2. CASE turn[u].in = New
    BY <2>1, <2>2 DEF HistoryOK
  <2>3. CASE turn[u].in # New
    <3> DEFINE e == turn[u].in
               h == turn[u].history
    <3>1. e \in Open /\ IsPrefix(h, messages[e]) /\ h \in Seq(Messages) /\ messages[e] \in Seq(Messages)
      BY <1>0, <2>1, <2>3 DEF HistoryOK, ChatTyped, Turned
    <3>2. /\ messages'[e] \in Seq(Messages) /\ Len(messages[e]) <= Len(messages'[e])
          /\ \A i \in 1 .. Len(messages[e]) : messages'[e][i] = messages[e][i]
      <4>1. CASE e = c
        BY <1>0, <3>1, <4>1 DEF Writes, Past
      <4>2. CASE e # c
        BY <3>1, <4>2 DEF Writes
      <4> QED BY <4>1, <4>2
    <3> HIDE DEF e, h
    <3>3. Len(h) <= Len(messages[e]) /\ \A i \in 1 .. Len(h) : h[i] = messages[e][i]
      BY <3>1, PrefixPointwise
    <3>4. IsPrefix(h, messages'[e])
      BY <3>1, <3>2, <3>3, PointwisePrefix
    <3> QED BY <1>0, <2>1, <2>3, <3>1, <3>4 DEF HistoryOK, e, h
  <2> QED BY <2>2, <2>3
<1>8. ASSUME NEW x \in Open', NEW i \in DOMAIN messages'[x] PROVE WholeAt(x, i)'
  <2>0. \A u \in Turns : turn[u].died => turn'[u].died
    BY DEF Same
  <2>1. CASE x # c
    <3>1. x \in Open /\ messages'[x] = messages[x] /\ messages[x] \in Seq(Messages)
      BY <1>0, <2>1 DEF Writes
    <3> QED BY <2>0, <3>1, WholeStays
  <2>2. CASE x = c /\ i <= Len(Past(c))
    <3>1. c \in Open /\ Past(c) = messages[c] /\ i \in DOMAIN messages[c]
      BY <1>0, <2>2 DEF Past
    <3>2. /\ Len(messages[c]) <= Len(messages'[c])
          /\ \A j \in DOMAIN messages[c] : messages'[c][j] = messages[c][j]
      <4>1. /\ Len(messages'[c]) = Len(messages[c]) + n
            /\ \A j \in 1 .. Len(messages[c]) : messages'[c][j] = messages[c][j]
        BY <3>1 DEF Writes
      <4>2. Len(messages[c]) \in Nat /\ DOMAIN messages[c] = 1 .. Len(messages[c])
        BY <1>0, <3>1
      <4> QED BY <4>1, <4>2
    <3> QED BY <1>0, <2>0, <2>2, <3>1, <3>2, WholeStays
  <2>3. CASE x = c /\ i > Len(Past(c))
    <3> DEFINE L == Len(Past(c))
    <3>1. /\ L \in Nat /\ Len(messages'[c]) = L + n /\ i \in L + 1 .. L + n
          /\ messages'[c][L + 1] = <<t, "user">> /\ (n = 2 => messages'[c][L + 2] = <<t, "assistant">>)
      BY <1>0, <2>3 DEF Writes
    <3> HIDE DEF L
    <3>2. CASE i = L + 1
      <4>1. n = 2 => i < Len(messages'[c]) /\ messages'[c][i + 1] = <<t, "assistant">>
        BY <3>1, <3>2
      <4> QED BY <2>3, <3>1, <3>2, <4>1 DEF WholeAt
    <3>3. CASE n = 2 /\ i = L + 2
      <4>1. i > 1 /\ messages'[c][i - 1] = <<t, "user">> /\ messages'[c][i] = <<t, "assistant">>
        BY <3>1, <3>3
      <4> QED BY <2>3, <4>1 DEF WholeAt
    <3> QED BY <3>1, <3>2, <3>3
  <2> QED BY <1>0, <2>1, <2>2, <2>3
<1>9. \A u \in Turns : LifeOK(u)'
  OBVIOUS
<1> QED BY <1>1, <1>5, <1>6, <1>7, <1>8, <1>9 DEF ChatInv

-----------------------------------------------------------------------------
(***************************************************************************)
(* The steps.                                                              *)
(***************************************************************************)

RunStates == {"none", "running", "succeeded", "failed", "cancelled"}

\* A turn moves on and writes nothing.
LEMMA OneTurn ==
  ASSUME ChatInv, NEW t \in Turns, NEW x \in Turned, NEW y \in RunStates,
         turn' = [turn EXCEPT ![t] = x], run' = [run EXCEPT ![t] = y], UNCHANGED messages,
         LifeOK(t)', HistoryOK(t)', turn[t].died => x.died,
         (x.in = turn[t].in /\ x.history = turn[t].history) \/ ~LibraryKept(t),
         x.job # "succeeded" \/ x.job = turn[t].job,
         LibraryKept(t) => y = run[t] /\ (x.job = turn[t].job \/ x.died)
  PROVE  ChatInv'
<1>1. turn \in [Turns -> Turned] /\ run \in [Turns -> RunStates]
  BY DEF ChatInv, ChatTyped, RunStates
<1>2. /\ turn'[t] = x /\ run'[t] = y
      /\ \A u \in Turns \ {t} : turn'[u] = turn[u] /\ run'[u] = run[u]
  BY <1>1
<1>3. TypesKept
  BY <1>1 DEF TypesKept, RunStates
<1>4. ASSUME NEW u \in Turns \ {t} PROVE LifeOK(u)' /\ HistoryOK(u)'
  <2>1. LifeOK(u) /\ HistoryOK(u)
    BY DEF ChatInv
  <2> QED BY <1>2, <2>1 DEF LifeOK, HistoryOK, Open
<1>5. \A u \in Turns : LifeOK(u)' /\ HistoryOK(u)'
  BY <1>4
<1>6. \A u \in Turns : turn[u].died => turn'[u].died
  BY <1>2
<1>7. \A u \in Turns : Same(u) \/ ~LibraryKept(u)
  BY <1>2 DEF Same
<1>8. \A u \in Turns : turn'[u].job = "succeeded" => turn[u].job = "succeeded"
  BY <1>2
<1>9. \A u \in Turns : LibraryKept(u) => run'[u] = run[u] /\ (turn'[u].job = turn[u].job \/ turn'[u].died)
  BY <1>2
<1> QED BY <1>3, <1>5, <1>6, <1>7, <1>8, <1>9, StillIsSilent, KeptInSilence

LEMMA HistoryType ==
  ASSUME ChatTyped, NEW c \in Open \cup {New}
  PROVE  History(c) \in Seq(Messages) /\ (c # New => IsPrefix(History(c), messages[c]))
<1>1. c # New => messages[c] \in Seq(Messages)
  BY DEF ChatTyped
<1>2. History(c) \in Seq(Messages) /\ (c # New => History(c) = messages[c])
  BY <1>1 DEF History
<1> QED BY <1>1, <1>2, PointwisePrefix

LEMMA AskKept == ASSUME ChatInv, NEW t \in Turns, NEW c \in Conversations \cup {New}, Ask(t, c) PROVE ChatInv'
<1> DEFINE x == [turn[t] EXCEPT !.job = "queued", !.in = c, !.history = History(c)]
<1>1. turn[t] \in Turned /\ turn \in [Turns -> Turned] /\ run \in [Turns -> RunStates]
  BY DEF ChatInv, ChatTyped, RunStates
<1>2. turn' = [turn EXCEPT ![t] = x] /\ run' = [run EXCEPT ![t] = run[t]] /\ UNCHANGED messages
  BY <1>1 DEF Ask
<1>3. History(c) \in Seq(Messages) /\ (c # New => IsPrefix(History(c), messages[c])) /\ c \in Open \cup {New}
  BY HistoryType DEF Ask, ChatInv
<1>4. /\ x \in Turned /\ x.job = "queued" /\ x.in = c /\ x.history = History(c)
      /\ x.died = turn[t].died /\ x.aborted = turn[t].aborted
  BY <1>1, <1>3 DEF Turned, JobStates
<1> HIDE DEF x
<1>5. turn[t].job = "none" /\ run[t] = "none" /\ ~turn[t].died /\ ~turn[t].aborted
  BY DEF Ask, ChatInv, LifeOK
<1>6. ~LibraryKept(t)
  BY <1>5 DEF ChatInv, TellsOK
<1>7. turn'[t] = x /\ run'[t] = run[t]
  BY <1>1, <1>2
<1>8. LifeOK(t)'
  BY <1>4, <1>5, <1>7 DEF LifeOK
<1>9. HistoryOK(t)'
  BY <1>2, <1>3, <1>4, <1>7 DEF HistoryOK, Open, History
<1> QED BY <1>1, <1>2, <1>4, <1>5, <1>6, <1>8, <1>9, OneTurn

\* The turn stays where it was asked.
LEMMA GoesOn ==
  ASSUME ChatInv, NEW t \in Turns, NEW job \in JobStates \ {"none", "queued"}, NEW gone \in BOOLEAN,
         NEW y \in RunStates,
         turn' = [turn EXCEPT ![t].aborted = gone, ![t].job = job],
         run' = [run EXCEPT ![t] = y], UNCHANGED messages,
         y = "running" /\ ~turn[t].died /\ ~gone => job = "running",
         job # "succeeded" \/ job = turn[t].job,
         LibraryKept(t) => y = run[t] /\ (job = turn[t].job \/ turn[t].died)
  PROVE  ChatInv'
<1> DEFINE x == [turn[t] EXCEPT !.aborted = gone, !.job = job]
<1>1. turn[t] \in Turned /\ turn \in [Turns -> Turned] /\ run \in [Turns -> RunStates]
  BY DEF ChatInv, ChatTyped, RunStates
<1>2. turn' = [turn EXCEPT ![t] = x]
  BY <1>1
<1>3. /\ x \in Turned /\ x.job = job /\ x.in = turn[t].in /\ x.history = turn[t].history
      /\ x.died = turn[t].died /\ x.aborted = gone
  BY <1>1 DEF Turned
<1> HIDE DEF x
<1>4. turn'[t] = x /\ run'[t] = y
  BY <1>1, <1>2
<1>5. LifeOK(t)'
  BY <1>3, <1>4 DEF LifeOK
<1>6. HistoryOK(t)
  BY DEF ChatInv
<1>7. HistoryOK(t)'
  BY <1>3, <1>4, <1>6 DEF HistoryOK, Open
<1> QED BY <1>2, <1>3, <1>5, <1>7, OneTurn

LEMMA ExecuteKept == ASSUME ChatInv, NEW t \in Turns, Execute(t) \/ CancelQueued(t) PROVE ChatInv'
<1>1. turn \in [Turns -> Turned] /\ run \in [Turns -> RunStates] /\ UNCHANGED messages
  BY DEF ChatInv, ChatTyped, RunStates, Execute, CancelQueued
<1>2. /\ turn[t].job = "queued" /\ run[t] = "none" /\ ~turn[t].died /\ ~turn[t].aborted /\ ~LibraryKept(t)
  BY DEF Execute, CancelQueued, ChatInv, LifeOK, TellsOK
<1>3. ASSUME NEW job \in {"running", "failed", "cancelled"}, turn' = [turn EXCEPT ![t].job = job]
      PROVE  turn' = [turn EXCEPT ![t].aborted = FALSE, ![t].job = job]
  <2>1. turn[t] \in Turned /\ turn[t].aborted = FALSE
    BY <1>1, <1>2 DEF Turned
  <2>2. [turn[t] EXCEPT !.job = job] = [turn[t] EXCEPT !.aborted = FALSE, !.job = job]
    BY <2>1 DEF Turned
  <2>3. turn' = [turn EXCEPT ![t] = [turn[t] EXCEPT !.job = job]]
    BY <1>1, <1>3
  <2>4. turn' = [turn EXCEPT ![t] = [turn[t] EXCEPT !.aborted = FALSE, !.job = job]]
    BY <2>2, <2>3
  <2> QED BY <1>1, <2>4
<1>4. CASE Execute(t) /\ SameRequest(t)
  <2>1. turn' = [turn EXCEPT ![t].job = "running"] /\ run' = [run EXCEPT ![t] = "running"]
    BY <1>4 DEF Execute
  <2>2. turn' = [turn EXCEPT ![t].aborted = FALSE, ![t].job = "running"]
    BY <1>3, <2>1
  <2>3. /\ "running" \in JobStates \ {"none", "queued"} /\ "running" \in RunStates
        /\ "running" # "succeeded"
    BY DEF JobStates, RunStates
  <2> QED BY <1>1, <1>2, <2>1, <2>2, <2>3, GoesOn
<1>5. CASE CancelQueued(t) \/ (Execute(t) /\ ~SameRequest(t))
  <2>1. \E job \in {"failed", "cancelled"} : turn' = [turn EXCEPT ![t].job = job]
    BY <1>5 DEF Execute, CancelQueued
  <2>2. run' = [run EXCEPT ![t] = "none"]
    BY <1>1, <1>2, <1>5 DEF Execute, CancelQueued
  <2>3. PICK job \in {"failed", "cancelled"} : turn' = [turn EXCEPT ![t].aborted = FALSE, ![t].job = job]
    BY <1>3, <2>1
  <2>4. job \in JobStates \ {"none", "queued"} /\ job # "succeeded" /\ "none" \in RunStates
    BY DEF JobStates, RunStates, Over
  <2> QED BY <1>1, <1>2, <2>2, <2>3, <2>4, GoesOn
<1> QED BY <1>4, <1>5

LEMMA AbortKept ==
  ASSUME ChatInv, NEW t \in Turns, NEW job \in {"cancelling", "failed"}, Abort(t, job) PROVE ChatInv'
<1>1. turn \in [Turns -> Turned] /\ run \in [Turns -> RunStates] /\ UNCHANGED messages
  BY DEF ChatInv, ChatTyped, RunStates, Abort
<1>2. turn[t].job = "running" /\ run' = [run EXCEPT ![t] = run[t]] /\ run[t] \in RunStates
  BY <1>1 DEF Abort
<1>3. turn' = [turn EXCEPT ![t].aborted = TRUE, ![t].job = job]
  BY <1>1 DEF Abort
<1>4. LibraryKept(t) => turn[t].died
  BY <1>2 DEF ChatInv, TellsOK
<1>5. job \in JobStates \ {"none", "queued"} /\ job # "succeeded"
  BY DEF JobStates, Over
<1> QED BY <1>1, <1>2, <1>3, <1>4, <1>5, GoesOn

Answers == {"cited", "uncited", "unstructured", "failed", "cancelled"}

\* The end of a job when its provider has answered.
JobAfter(t, written) ==
  IF turn[t].job \in Over THEN turn[t].job
  ELSE IF turn[t].job = "cancelling" THEN "cancelled" ELSE IF written THEN "succeeded" ELSE "failed"

LEMMA AnswerKept ==
  ASSUME ChatInv, NEW t \in Turns, NEW answer \in Answers, NEW d \in Conversations, Answer(t, answer, d)
  PROVE  ChatInv'
<1> DEFINE job == JobAfter(t, MayWrite(t, answer))
           x == [turn[t] EXCEPT !.job = job]
<1>1. /\ turn \in [Turns -> Turned] /\ turn[t] \in Turned /\ run \in [Turns -> RunStates]
      /\ ChatTyped /\ HistoryOK(t) /\ LifeOK(t)
  BY DEF ChatInv, ChatTyped, RunStates
<1>2. run[t] = "running" /\ ~turn[t].died /\ d \in Conversations \ Open /\ ~LibraryKept(t)
  BY DEF Answer, ChatInv, TellsOK
<1>3. turn' = [turn EXCEPT ![t].job = job]
  BY <1>1 DEF Answer, JobAfter
<1>4. turn' = [turn EXCEPT ![t] = x]
  BY <1>1, <1>3
<1>5. run' = [run EXCEPT ![t] = RunEnd(answer)] /\ RunEnd(answer) \in {"succeeded", "failed", "cancelled"}
  BY DEF Answer, RunEnd, Answers
<1>6. job \in Over
  BY DEF JobAfter, Over
<1>7. job = "succeeded" => turn[t].job = "succeeded" \/ MayWrite(t, answer)
  BY DEF JobAfter
<1>8. MayWrite(t, answer) => answer = "cited" /\ ~turn[t].aborted /\ job = "succeeded"
  BY <1>1, <1>2 DEF MayWrite, LifeOK, JobAfter, Over
<1> HIDE DEF job
<1>9. /\ x \in Turned /\ x.job = job /\ x.in = turn[t].in /\ x.history = turn[t].history
      /\ x.died = turn[t].died /\ x.aborted = turn[t].aborted
  BY <1>1, <1>6 DEF Turned, JobStates
<1> HIDE DEF x
<1>10. /\ turn'[t] = x /\ run'[t] = RunEnd(answer)
       /\ \A u \in Turns \ {t} : turn'[u] = turn[u] /\ run'[u] = run[u]
  BY <1>1, <1>4, <1>5
<1>11. LifeOK(t)'
  BY <1>5, <1>6, <1>9, <1>10 DEF LifeOK, Over
<1>12. CASE MayWrite(t, answer)
  <2>1. messages' = Written(t, d, 2)
    BY <1>12 DEF Answer
  <2>2. PICK c \in Conversations : /\ Writes(t, c, 2) /\ turn[t].in \in {c, New}
                                   /\ turn[t].in = New => c \notin Open
    BY <1>1, <1>2, <2>1, WrittenWrites
  <2>3. TypesKept
    BY <1>1, <1>4, <1>5, <1>9 DEF TypesKept, RunStates
  <2>4. ASSUME NEW u \in Turns PROVE Same(u) /\ LifeOK(u)'
    <3>1. CASE u = t
      BY <1>9, <1>10, <1>11, <3>1 DEF Same
    <3>2. CASE u # t
      BY <1>10, <3>2 DEF Same, ChatInv, LifeOK
    <3> QED BY <3>1, <3>2
  <2>5. run'[t] = "succeeded" /\ turn'[t].job = "succeeded"
    BY <1>8, <1>9, <1>10, <1>12 DEF RunEnd
  <2>6. \A u \in Turns : turn'[u].job = "succeeded" => turn[u].job = "succeeded" \/ u = t
    BY <1>10
  <2>7. \A u \in Turns : LibraryKept(u) => run'[u] = run[u] /\ (turn'[u].job = turn[u].job \/ turn'[u].died)
    BY <1>2, <1>10
  <2> QED BY <1>2, <2>2, <2>3, <2>4, <2>5, <2>6, <2>7, KeptByWriting
<1>13. CASE ~MayWrite(t, answer)
  <2>1. UNCHANGED messages
    BY <1>13 DEF Answer
  <2>2. HistoryOK(t)'
    BY <1>1, <1>9, <1>10, <2>1 DEF HistoryOK, Open
  <2>3. RunEnd(answer) \in RunStates
    BY <1>5 DEF RunStates
  <2>4. x.job # "succeeded" \/ x.job = turn[t].job
    BY <1>7, <1>9, <1>13
  <2> QED BY <1>2, <1>4, <1>5, <1>9, <1>11, <2>1, <2>2, <2>3, <2>4, OneTurn
<1> QED BY <1>12, <1>13

\* What a crash makes of a turn whose messages may be written.
LEMMA CrashedTurn ==
  ASSUME ChatInv, NEW t \in Turns, NEW d \in Conversations, NEW n \in 0 .. 3, ChatCrash(t, d, n), NEW u \in Turns
  PROVE  /\ turn'[u] \in Turned /\ Same(u) /\ LifeOK(u)'
         /\ turn'[u].job = "succeeded" => turn[u].job = "succeeded"
         /\ turn'[u].job = turn[u].job \/ turn'[u].died
         /\ u = t /\ n > 0 => turn'[u].died
         /\ run'[u] = run[u] \/ (u = t /\ n > 0)
<1>1. turn[u] \in Turned /\ run \in [Turns -> RunStates] /\ LifeOK(u) /\ LifeOK(t)
  BY DEF ChatInv, ChatTyped, RunStates
<1>2. run'[u] = (IF u = t /\ n > 0 THEN "succeeded" ELSE run[u])
  BY <1>1 DEF ChatCrash
<1>3. n > 0 => run[t] = "running" /\ turn[t].job = "running"
  BY <1>1 DEF ChatCrash, LifeOK
<1>4. CASE turn[u].job \in {"running", "cancelling"} \/ (u = t /\ n > 0)
  <2> DEFINE job == IF turn[u].job \in Over THEN turn[u].job
                    ELSE IF turn[u].job = "cancelling" THEN "cancelled" ELSE "failed"
  <2>1. turn'[u] = [turn[u] EXCEPT !.job = job, !.died = TRUE]
    BY <1>4 DEF ChatCrash
  <2>2. turn[u].job \in {"running", "cancelling"} /\ job \in {"cancelled", "failed"}
    BY <1>3, <1>4 DEF Over
  <2> HIDE DEF job
  <2>3. job \in JobStates
    BY <2>2 DEF JobStates, Over
  <2>4. /\ turn'[u] \in Turned /\ turn'[u].job = job /\ turn'[u].died
        /\ turn'[u].in = turn[u].in /\ turn'[u].history = turn[u].history
    BY <1>1, <2>1, <2>3 DEF Turned
  <2> QED BY <1>2, <2>2, <2>4 DEF Same, LifeOK
<1>5. CASE ~(turn[u].job \in {"running", "cancelling"} \/ (u = t /\ n > 0))
  <2> DEFINE died == turn[u].died \/ run[u] = "running"
  <2>1. turn'[u] = [turn[u] EXCEPT !.died = died]
    BY <1>5 DEF ChatCrash
  <2>2. /\ died \in BOOLEAN /\ (turn[u].died => died) /\ (run[u] = "running" => died)
        /\ died => turn[u].died \/ run[u] = "running"
    BY <1>1 DEF Turned
  <2> HIDE DEF died
  <2>3. /\ turn'[u] \in Turned /\ turn'[u].job = turn[u].job /\ turn'[u].died = died
        /\ turn'[u].in = turn[u].in /\ turn'[u].history = turn[u].history /\ turn'[u].aborted = turn[u].aborted
    BY <1>1, <2>1, <2>2 DEF Turned
  <2>4. run'[u] = run[u]
    BY <1>2, <1>5
  <2>5. LifeOK(u)'
    BY <1>1, <2>2, <2>3, <2>4 DEF LifeOK
  <2>6. Same(u)
    BY <2>2, <2>3 DEF Same
  <2> QED BY <1>5, <2>3, <2>4, <2>5, <2>6
<1> QED BY <1>4, <1>5

LEMMA CrashKept ==
  ASSUME ChatInv, NEW t \in Turns, NEW d \in Conversations, NEW n \in 0 .. 3, ChatCrash(t, d, n)
  PROVE  ChatInv'
<1>1. TypesKept
  <2>1. turn' = [u \in Turns |-> turn'[u]]
    BY DEF ChatCrash
  <2>2. turn' \in [Turns -> Turned]
    BY <2>1, CrashedTurn
  <2>3. run' \in [Turns -> {"none", "running", "succeeded", "failed", "cancelled"}]
    BY DEF ChatCrash, ChatInv, ChatTyped
  <2> QED BY <2>2, <2>3 DEF TypesKept
<1>2. \A u \in Turns : Same(u) /\ LifeOK(u)'
  BY CrashedTurn
<1>3. \A u \in Turns : turn'[u].job = "succeeded" => turn[u].job = "succeeded"
  BY CrashedTurn
<1>4. \A u \in Turns : turn[u].died => turn'[u].died
  BY <1>2 DEF Same
<1>5. CASE n \in {0, 1}
  <2>1. ChatTyped /\ HistoryOK(t) /\ run \in [Turns -> RunStates] /\ d \in Conversations \ Open
    BY DEF ChatInv, ChatTyped, RunStates, ChatCrash
  <2>2. Silent
    <3>1. CASE n = 0
      BY <3>1, StillIsSilent DEF ChatCrash
    <3>2. CASE n = 1
      <4>0. n # 0 /\ n - 1 = 0
        BY <3>2
      <4>1. messages' = (IF n = 0 THEN messages ELSE Written(t, d, n - 1))
        BY DEF ChatCrash
      <4>2. messages' = Written(t, d, n - 1)
        BY <4>0, <4>1
      <4>3. messages' = Written(t, d, 0)
        BY <4>0, <4>2
      <4> QED BY <2>1, <4>3, WrittenOpens DEF Silent
    <3> QED BY <1>5, <3>1, <3>2
  <2>3. \A u \in Turns : HistoryOK(u)'
    BY <1>2, <2>2 DEF ChatInv, HistoryOK, Same, Silent
  <2>4. n > 0 => ~LibraryKept(t)
    BY DEF ChatCrash, ChatInv, TellsOK
  <2>5. \A u \in Turns : LibraryKept(u) => run'[u] = run[u] /\ (turn'[u].job = turn[u].job \/ turn'[u].died)
    BY <2>4, CrashedTurn
  <2> QED BY <1>1, <1>2, <1>3, <1>4, <2>2, <2>3, <2>5, KeptInSilence
<1>6. CASE n \notin {0, 1}
  <2>0. n - 1 \in 1 .. 2 /\ n > 0
    BY <1>6
  <2>1. messages' = Written(t, d, n - 1) /\ d \in Conversations \ Open
    BY <1>6 DEF ChatCrash
  <2>2. ChatTyped /\ HistoryOK(t) /\ run \in [Turns -> RunStates]
    BY DEF ChatInv, ChatTyped, RunStates
  <2>3. PICK c \in Conversations : /\ Writes(t, c, n - 1) /\ turn[t].in \in {c, New}
                                   /\ turn[t].in = New => c \notin Open
    BY <2>0, <2>1, <2>2, WrittenWrites
  <2>4. run[t] = "running" /\ run'[t] = "succeeded"
    BY <2>0, <2>2 DEF ChatCrash
  <2>5. ~LibraryKept(t)
    BY <2>4 DEF ChatInv, TellsOK
  <2>6. turn'[t].died
    BY <2>0, CrashedTurn
  <2>7. \A u \in Turns : LibraryKept(u) => run'[u] = run[u] /\ (turn'[u].job = turn[u].job \/ turn'[u].died)
    BY <2>5, CrashedTurn
  <2> QED BY <1>1, <1>2, <1>3, <2>0, <2>3, <2>4, <2>5, <2>6, <2>7, KeptByWriting
<1> QED BY <1>5, <1>6

-----------------------------------------------------------------------------
(***************************************************************************)
(* The theorem.                                                            *)
(***************************************************************************)

LEMMA ChatStarts == ChatInit => ChatInv
<1>1. ASSUME ChatInit PROVE ChatInv
  <2>1. Open = {} /\ messages = <<>>
    BY <1>1 DEF ChatInit, Open
  <2>2. turn \in [Turns -> Turned] /\ \A t \in Turns : turn[t].job = "none" /\ turn[t].in = New
                                       /\ turn[t].history = <<>> /\ ~turn[t].died /\ ~turn[t].aborted
    BY <1>1 DEF ChatInit, Turned, JobStates
  <2>3. ChatTyped
    <3>1. run \in [Turns -> {"none", "running", "succeeded", "failed", "cancelled"}]
      BY <1>1 DEF ChatInit
    <3>2. <<>> = [c \in {} |-> messages[c]]
      OBVIOUS
    <3>3. messages = [c \in Open |-> messages[c]]
      BY <2>1, <3>2
    <3> QED BY <2>1, <2>2, <3>1, <3>3 DEF ChatTyped
  <2>4. ASSUME NEW t \in Turns PROVE LifeOK(t) /\ HistoryOK(t) /\ TellsOK(t)
    <3>1. ~LibraryKept(t)
      BY <2>1 DEF LibraryKept
    <3> QED BY <1>1, <2>2, <3>1 DEF ChatInit, LifeOK, HistoryOK, TellsOK
  <2> QED BY <2>1, <2>3, <2>4 DEF ChatInv
<1> QED BY <1>1

LEMMA ChatKept == ChatInv /\ [ChatNext]_chatVars => ChatInv'
<1>1. ASSUME ChatInv, UNCHANGED chatVars PROVE ChatInv'
  BY <1>1 DEF ChatInv, ChatTyped, LifeOK, HistoryOK, TellsOK, PlaceOK, WholeAt, LibraryKept, Roles, Open, chatVars
<1>2. ASSUME ChatInv, ChatNext PROVE ChatInv'
  BY <1>2, AskKept, ExecuteKept, AbortKept, AnswerKept, CrashKept DEF ChatNext, Answers
<1> QED BY <1>1, <1>2

LEMMA ChatInvariant == ChatSpec => []ChatInv
BY ChatStarts, ChatKept, PTL DEF ChatSpec

LEMMA FewRoles ==
  ASSUME NEW k \in Nat, NEW S, S \subseteq {k, k + 1} PROVE Cardinality(S) <= 2
<1>1. IsFiniteSet({k}) /\ Cardinality({k}) = 1
  BY FS_Singleton
<1>2. {k, k + 1} = {k} \cup {k + 1} /\ k + 1 \notin {k}
  OBVIOUS
<1>3. IsFiniteSet({k, k + 1}) /\ Cardinality({k, k + 1}) = 2
  BY <1>1, <1>2, FS_AddElement
<1>4. Cardinality(S) <= Cardinality({k, k + 1})
  BY <1>3, FS_Subset
<1> QED BY <1>3, <1>4

\* ConversationSound: turns of one conversation that overlap never break up
\* each other's questions and answers; each is stored at most once, where it
\* was asked and after the history its answer was given, and its job and its
\* provider run say so; only a crash leaves a question without its answer.
THEOREM ConversationsAreSound == ChatSpec => []ConversationSound
<1>1. ASSUME ChatInv PROVE ConversationSound
  <2>1. TurnsWhole
    BY <1>1 DEF ChatInv, WholeAt, TurnsWhole
  <2>2. JobTells
    BY <1>1 DEF ChatInv, TellsOK, LibraryKept, JobTells
  <2>3. ASSUME NEW c \in Open, NEW t \in Turns, Roles(c, t) # {}
        PROVE  /\ turn[t].in \in {c, New} /\ Cardinality(Roles(c, t)) <= 2
               /\ \A e \in Open \ {c} : Roles(e, t) = {}
               /\ IsPrefix(turn[t].history, messages[c])
    <3>1. PlaceOK(c, t) /\ HistoryOK(t) /\ messages[c] \in Seq(Messages)
      BY <1>1 DEF ChatInv, ChatTyped
    <3>2. Cardinality(Roles(c, t)) <= 2
      BY <2>3, <3>1, FewRoles DEF PlaceOK
    <3>3. IsPrefix(turn[t].history, messages[c])
      <4>1. CASE turn[t].in = New
        <5>1. turn[t].history = <<>> /\ <<>> \in Seq(Messages)
          BY <3>1, <4>1 DEF HistoryOK
        <5>2. /\ Len(<<>>) <= Len(messages[c])
              /\ \A i \in 1 .. Len(<<>>) : <<>>[i] = messages[c][i]
          BY <3>1
        <5>3. IsPrefix(<<>>, messages[c])
          BY <3>1, <5>1, <5>2, PointwisePrefix
        <5> QED BY <5>1, <5>3
      <4>2. CASE turn[t].in # New
        BY <2>3, <3>1, <4>2 DEF HistoryOK, PlaceOK
      <4> QED BY <4>1, <4>2
    <3> QED BY <2>3, <3>1, <3>2, <3>3 DEF PlaceOK
  <2>4. InItsPlace
    BY <2>3 DEF InItsPlace
  <2> QED BY <2>1, <2>2, <2>4 DEF ConversationSound
<1> QED BY <1>1, ChatInvariant, PTL

-----------------------------------------------------------------------------
(***************************************************************************)
(* THE PAGES WITH TASKS.                                                   *)
(***************************************************************************)

ViewInit == ChatPageInit \/ PreparationPageInit \/ ResearchPageInit \/ SearchPageInit
ViewNext == ChatPageNext \/ PreparationPageNext \/ ResearchPageNext \/ SearchPageNext
ViewSpec == ViewInit /\ [][ViewNext]_viewVars

\* The awaits of a function that has a task in hand.
Working ==
  {"confirming", "token", "posting", "waiting", "fetching", "proving", "reloading", "opening"}

ThreadType ==
  [pc : Working \cup {"loading", "reviewing"},
   op : {"load", "review", "send", "resume", "prove", "open"},
   here : BOOLEAN, latest : BOOLEAN, task : Tasks \cup {NoTask}, scope : Contexts \cup {"none"}]

Started == {j \in Tasks : task[j].state # "none"}

\* Tasks that were asked for in context c, as far as the user's leaving a
\* careless function behind has not confused that.
OwnedBy(c) == {j \in Started : calm => task[j].of = c}

\* Tasks whose results the page may show, with the same proviso.
Showable == {j \in Started : calm => task[j].of \in Kin}

\* After these awaits a function goes on as if it were still in its context.
Unchecked(t) == t.pc \in {"token", "reloading"} \/ (t.pc = "fetching" /\ t.op = "resume")

ThreadOK(t) ==
  /\ t \in ThreadType
  /\ t.op = "load" <=> t.pc = "loading"
  /\ t.op = "review" <=> t.pc = "reviewing"
  /\ t.pc \in Working => t.task \in Started
  /\ t.pc \in {"posting", "waiting"} => t.scope \in Contexts
  /\ calm /\ Unchecked(t) => t.here
  /\ t.pc \in Working /\ t.here => t.task \in OwnedBy(ctx)
  /\ t.pc = "opening" /\ t.latest => t.task \in Showable
  /\ t.pc = "posting" => t.task \in OwnedBy(t.scope)
  /\ t.pc = "reviewing" /\ t.here => t.scope = ctx
  /\ view = "search" /\ t.pc \in Working => t.here

Bag(B) == IsFiniteSet(BagToSet(B)) /\ \A t \in BagToSet(B) : B[t] \in Nat \ {0}

\* What a page shows, keeps and waits for.
PageOK ==
  /\ ctx \in Contexts /\ reviewed \in {"none", ctx}
  /\ shown \subseteq Showable /\ aside \in Showable \cup {NoTask}
  /\ store = [c \in Contexts |-> store[c]]
  /\ \A c \in Contexts : store[c] \in OwnedBy(c) \cup {NoTask}
  /\ task \in [Tasks -> [state : {"none", "asked", "active", "done", "failed"}, of : Contexts]]

Busy(T) == \E t \in T : t.here /\ t.op \in {"send", "resume"}
InReview(T) == \E t \in T : t.here /\ t.op = "review"
Opens(T) == \E t \in T : t.latest /\ t.pc = "opening"

ViewInv ==
  /\ PageOK /\ Bag(thread)
  /\ \A t \in Threads : ThreadOK(t)
  /\ running => Busy(Threads)
  /\ reviewing => InReview(Threads)
  /\ aside # NoTask /\ view = "research" => Opens(Threads)

-----------------------------------------------------------------------------
(* Bags of threads.                                                        *)

LEMMA OneIs == ASSUME NEW t PROVE Bag(One(t)) /\ BagToSet(One(t)) = {t}
<1>1. BagToSet(One(t)) = {t} /\ One(t)[t] = 1
  BY DEF One, SetToBag, BagToSet
<1>2. IsFiniteSet({t})
  BY FS_Singleton
<1> QED BY <1>1, <1>2 DEF Bag

LEMMA NoneIs == Bag(EmptyBag) /\ BagToSet(EmptyBag) = {}
<1>1. BagToSet(EmptyBag) = {}
  BY DEF EmptyBag, SetToBag, BagToSet
<1> QED BY <1>1, FS_EmptySet DEF Bag

LEMMA RestIs ==
  ASSUME Bag(thread), NEW t \in Threads
  PROVE  /\ Bag(Rest(t)) /\ BagToSet(Rest(t)) \subseteq Threads
         /\ Threads \ {t} \subseteq BagToSet(Rest(t))
<1> DEFINE left == [u \in Threads |-> IF u \in DOMAIN One(t) THEN thread[u] - One(t)[u] ELSE thread[u]]
<1>1. DOMAIN One(t) = {t} /\ One(t)[t] = 1
  BY DEF One, SetToBag
<1>2. /\ DOMAIN left = Threads
      /\ \A u \in Threads : left[u] = IF u = t THEN thread[u] - 1 ELSE thread[u]
  BY <1>1
<1>3. Rest(t) = [u \in {v \in DOMAIN left : left[v] > 0} |-> left[u]]
  BY DEF Rest, Threads, BagToSet, (-)
<1> HIDE DEF left
<1>4. /\ BagToSet(Rest(t)) = {v \in Threads : left[v] > 0}
      /\ \A u \in BagToSet(Rest(t)) : Rest(t)[u] = left[u]
  BY <1>2, <1>3 DEF BagToSet
<1>5. \A u \in Threads : thread[u] \in Nat \ {0} /\ left[u] \in Nat
  BY <1>2 DEF Bag, Threads
<1>6. IsFiniteSet(BagToSet(Rest(t)))
  BY <1>4, FS_Subset DEF Bag, Threads
<1>7. \A u \in BagToSet(Rest(t)) : Rest(t)[u] \in Nat \ {0}
  BY <1>4, <1>5
<1>8. \A u \in Threads \ {t} : left[u] > 0
  BY <1>2, <1>5
<1> QED BY <1>4, <1>6, <1>7, <1>8 DEF Bag

LEMMA PlusIs ==
  ASSUME NEW A, NEW B, Bag(A), Bag(B)
  PROVE  Bag(A (+) B) /\ BagToSet(A (+) B) = BagToSet(A) \cup BagToSet(B)
<1>1. /\ BagToSet(A (+) B) = BagToSet(A) \cup BagToSet(B)
      /\ \A u \in BagToSet(A) \cup BagToSet(B) :
           (A (+) B)[u] = (IF u \in BagToSet(A) THEN A[u] ELSE 0) + (IF u \in BagToSet(B) THEN B[u] ELSE 0)
  BY DEF (+), BagToSet
<1>2. IsFiniteSet(BagToSet(A) \cup BagToSet(B))
  BY FS_Union DEF Bag
<1>3. \A u \in BagToSet(A) \cup BagToSet(B) : (A (+) B)[u] \in Nat \ {0}
  BY <1>1 DEF Bag
<1> QED BY <1>1, <1>2, <1>3 DEF Bag

LEMMA ImageIsFinite ==
  ASSUME NEW S, IsFiniteSet(S), NEW f, DOMAIN f = S
  PROVE  IsFiniteSet({f[x] : x \in S})
<1> DEFINE T == {f[x] : x \in S}
           g == [x \in S |-> f[x]]
<1>1. g \in Surjection(S, T)
  BY DEF Surjection
<1> HIDE DEF T, g
<1>2. IsFiniteSet(T)
  BY <1>1, FS_Surjection
<1> QED BY <1>2 DEF T

LEMMA EachIs ==
  ASSUME NEW B, Bag(B), NEW image
  PROVE  Bag(Each(B, image)) /\ BagToSet(Each(B, image)) = {image[t] : t \in BagToSet(B)}
<1> DEFINE images == {image[t] : t \in BagToSet(B)}
           copies == UNION {{t} \X (1 .. B[t]) : t \in BagToSet(B)}
           ofImage(u) == {c \in copies : image[c[1]] = u}
<1>1. /\ BagToSet(Each(B, image)) = images
      /\ \A u \in images : Each(B, image)[u] = Cardinality(ofImage(u))
  BY DEF Each, BagToSet
<1>2. IsFiniteSet(images)
  <2> DEFINE f == [t \in BagToSet(B) |-> image[t]]
  <2>1. DOMAIN f = BagToSet(B) /\ images = {f[t] : t \in BagToSet(B)}
    OBVIOUS
  <2> HIDE DEF f, images
  <2> QED BY <2>1, ImageIsFinite DEF Bag
<1>3. IsFiniteSet(copies)
  <2> DEFINE parts == {{t} \X (1 .. B[t]) : t \in BagToSet(B)}
  <2>1. IsFiniteSet(parts)
    <3> DEFINE f == [t \in BagToSet(B) |-> {t} \X (1 .. B[t])]
    <3>1. DOMAIN f = BagToSet(B) /\ parts = {f[t] : t \in BagToSet(B)}
      OBVIOUS
    <3> HIDE DEF f, parts
    <3> QED BY <3>1, ImageIsFinite DEF Bag
  <2>2. ASSUME NEW p \in parts PROVE IsFiniteSet(p)
    <3>1. PICK t \in BagToSet(B) : p = {t} \X (1 .. B[t])
      OBVIOUS
    <3>2. IsFiniteSet({t}) /\ IsFiniteSet(1 .. B[t])
      <4>1. B[t] \in Int /\ 1 \in Int
        BY DEF Bag
      <4>2. IsFiniteSet(1 .. B[t])
        BY <4>1, FS_Interval
      <4> QED BY <4>2, FS_Singleton
    <3> QED BY <3>1, <3>2, FS_Product
  <2> QED BY <2>1, <2>2, FS_UNION
<1>4. ASSUME NEW u \in images PROVE Cardinality(ofImage(u)) \in Nat \ {0}
  <2>1. PICK t \in BagToSet(B) : image[t] = u
    OBVIOUS
  <2>2. 1 \in 1 .. B[t]
    BY DEF Bag
  <2>3. <<t, 1>> \in copies /\ <<t, 1>>[1] = t
    BY <2>2
  <2>4. ofImage(u) # {}
    BY <2>1, <2>3
  <2>5. IsFiniteSet(ofImage(u))
    BY <1>3, FS_Subset
  <2> QED BY <2>4, <2>5, FS_CardinalityType, FS_EmptySet
<1> QED BY <1>1, <1>2, <1>4 DEF Bag

LEMMA SupersededIs ==
  ASSUME NEW B, Bag(B), NEW pcs
  PROVE  /\ Bag(Superseded(B, pcs))
         /\ BagToSet(Superseded(B, pcs)) =
              {[t EXCEPT !.latest = t.latest /\ t.pc \notin pcs] : t \in BagToSet(B)}
<1> DEFINE image == [t \in BagToSet(B) |-> [t EXCEPT !.latest = @ /\ t.pc \notin pcs]]
<1>1. /\ Superseded(B, pcs) = Each(B, image)
      /\ \A t \in BagToSet(B) : image[t] = [t EXCEPT !.latest = t.latest /\ t.pc \notin pcs]
  BY DEF Superseded
<1>2. {image[t] : t \in BagToSet(B)} = {[t EXCEPT !.latest = t.latest /\ t.pc \notin pcs] : t \in BagToSet(B)}
  OBVIOUS
<1> HIDE DEF image
<1>3. Bag(Each(B, image)) /\ BagToSet(Each(B, image)) = {image[t] : t \in BagToSet(B)}
  BY EachIs
<1>4. Bag(Superseded(B, pcs)) /\ BagToSet(Superseded(B, pcs)) = {image[t] : t \in BagToSet(B)}
  BY <1>1, <1>3, Zenon
<1> QED BY <1>2, <1>4, Zenon

LEMMA PlusAssociates ==
  ASSUME NEW A, NEW B, NEW C, Bag(A), Bag(B), Bag(C)
  PROVE  (A (+) B) (+) C = A (+) (B (+) C)
<1> DEFINE D == BagToSet(A) \cup BagToSet(B) \cup BagToSet(C)
           times(X, u) == IF u \in BagToSet(X) THEN X[u] ELSE 0
<1>1. (A (+) B) (+) C = [u \in D |-> (times(A, u) + times(B, u)) + times(C, u)]
  BY DEF (+), BagToSet, Bag
<1>2. A (+) (B (+) C) = [u \in D |-> times(A, u) + (times(B, u) + times(C, u))]
  BY DEF (+), BagToSet, Bag
<1>3. ASSUME NEW u \in D
      PROVE  (times(A, u) + times(B, u)) + times(C, u) = times(A, u) + (times(B, u) + times(C, u))
  <2>1. times(A, u) \in Nat /\ times(B, u) \in Nat /\ times(C, u) \in Nat
    BY DEF Bag
  <2> HIDE DEF times
  <2> QED BY <2>1
<1> HIDE DEF times
<1> QED BY <1>1, <1>2, <1>3

\* What goes on, and what starts.
LEMMA TaskGoesOn ==
  ASSUME Bag(thread), NEW t \in Threads, NEW u
  PROVE  /\ Bag(Rest(t) (+) One(u))
         /\ BagToSet(Rest(t) (+) One(u)) = BagToSet(Rest(t)) \cup {u}
BY RestIs, OneIs, PlusIs

LEMMA Starts ==
  ASSUME Bag(thread), NEW u
  PROVE  Bag(thread (+) One(u)) /\ BagToSet(thread (+) One(u)) = Threads \cup {u}
BY OneIs, PlusIs DEF Threads

-----------------------------------------------------------------------------
(* Steps that stay in the context.                                         *)

\* No task is forgotten, or given to another context.
TasksGrow ==
  \A j \in Tasks : task[j].state # "none" => task'[j].state # "none" /\ task'[j].of = task[j].of

LEMMA StillOwned ==
  ASSUME TasksGrow, calm' => calm
  PROVE  /\ Started \subseteq Started' /\ \A c : OwnedBy(c) \subseteq OwnedBy(c)'
         /\ UNCHANGED <<view, ctx>> => Showable \subseteq Showable'
<1>1. Started \subseteq Started'
  BY DEF Started, TasksGrow
<1>2. ASSUME NEW c PROVE OwnedBy(c) \subseteq OwnedBy(c)'
  BY <1>1 DEF OwnedBy, Started, TasksGrow
<1>3. ASSUME UNCHANGED <<view, ctx>> PROVE Showable \subseteq Showable'
  <2>1. Kin' = Kin
    BY <1>3 DEF Kin
  <2> QED BY <1>1, <2>1 DEF Showable, Started, TasksGrow
<1> QED BY <1>1, <1>2, <1>3

\* A context's own tasks may be shown in it.
LEMMA OwnIsShowable ==
  ASSUME ctx \in Contexts
  PROVE  OwnedBy(ctx) \subseteq Showable /\ (view # "research" => Showable = OwnedBy(ctx))
<1>1. ctx \in Kin /\ (view # "research" => Kin = {ctx})
  BY DEF Kin
<1> QED BY <1>1 DEF OwnedBy, Showable

LEMMA StillOK ==
  ASSUME TasksGrow, UNCHANGED <<view, ctx, calm>>, NEW t, ThreadOK(t)
  PROVE  ThreadOK(t)'
<1>1. Started \subseteq Started' /\ \A c : OwnedBy(c) \subseteq OwnedBy(c)'
  BY StillOwned
<1>2. /\ OwnedBy(ctx) \subseteq OwnedBy(ctx)' /\ OwnedBy(t.scope) \subseteq OwnedBy(t.scope)'
      /\ Showable \subseteq Showable'
  BY <1>1, StillOwned
<1>3. t \in ThreadType
  BY DEF ThreadOK
<1> QED BY <1>1, <1>2, <1>3 DEF ThreadOK, Unchecked

\* A thread is superseded.
LEMMA SupersededOK ==
  ASSUME NEW t, ThreadOK(t), NEW b \in BOOLEAN, b => t.latest
  PROVE  /\ ThreadOK([t EXCEPT !.latest = b])
         /\ [t EXCEPT !.latest = b].here = t.here /\ [t EXCEPT !.latest = b].op = t.op
         /\ [t EXCEPT !.latest = b].pc = t.pc /\ [t EXCEPT !.latest = b].latest = b
<1>1. t \in ThreadType
  BY DEF ThreadOK
<1>2. PICK u : u = [t EXCEPT !.latest = b]
  OBVIOUS
<1>3. /\ u \in ThreadType /\ u.pc = t.pc /\ u.op = t.op /\ u.here = t.here /\ u.latest = b
      /\ u.task = t.task /\ u.scope = t.scope
  BY <1>1, <1>2 DEF ThreadType
<1>4. ThreadOK(u)
  BY <1>3 DEF ThreadOK, Unchecked
<1> QED BY <1>2, <1>3, <1>4

LEMMA StepKeeps ==
  ASSUME ViewInv, UNCHANGED <<view, ctx, calm>>, TasksGrow, Bag(thread'),
         \A t \in Threads' : ThreadOK(t) \/ ThreadOK(t)',
         reviewed' \in {reviewed, "none", ctx},
         shown' \subseteq Showable', aside' \in Showable' \cup {NoTask},
         store' = [c \in Contexts |-> store'[c]],
         \A c \in Contexts : store'[c] \in OwnedBy(c)' \cup {NoTask},
         task' \in [Tasks -> [state : {"none", "asked", "active", "done", "failed"}, of : Contexts]],
         running' => Busy(Threads'), reviewing' => InReview(Threads'),
         aside' # NoTask /\ view' = "research" => Opens(Threads')
  PROVE  ViewInv'
<1>1. \A t \in Threads' : ThreadOK(t)'
  BY StillOK
<1>2. ctx' \in Contexts /\ reviewed' \in {"none", ctx'}
  BY DEF ViewInv, PageOK
<1>3. PageOK'
  BY <1>2 DEF PageOK
<1>4. /\ running' => Busy(Threads)'
      /\ reviewing' => InReview(Threads)'
      /\ aside' # NoTask /\ view' = "research" => Opens(Threads)'
  BY DEF Busy, InReview, Opens
<1> QED BY <1>1, <1>3, <1>4 DEF ViewInv

\* The same, when the tasks are as they were.
LEMMA QuietStepKeeps ==
  ASSUME ViewInv, UNCHANGED <<view, ctx, calm, task>>, Bag(thread'),
         \A t \in Threads' : ThreadOK(t),
         reviewed' \in {reviewed, "none", ctx},
         shown' \subseteq Showable, aside' \in Showable \cup {NoTask},
         store' = [c \in Contexts |-> store'[c]],
         \A c \in Contexts : store'[c] \in OwnedBy(c) \cup {NoTask},
         running' => Busy(Threads'), reviewing' => InReview(Threads'),
         aside' # NoTask /\ view' = "research" => Opens(Threads')
  PROVE  ViewInv'
<1>1. TasksGrow
  BY DEF TasksGrow
<1>2. Showable \subseteq Showable' /\ \A c : OwnedBy(c) \subseteq OwnedBy(c)'
  BY <1>1, StillOwned
<1>3. task' \in [Tasks -> [state : {"none", "asked", "active", "done", "failed"}, of : Contexts]]
  BY DEF ViewInv, PageOK
<1>4. \A t \in Threads' : ThreadOK(t) \/ ThreadOK(t)'
  OBVIOUS
<1>5. /\ shown' \subseteq Showable' /\ aside' \in Showable' \cup {NoTask}
      /\ \A c \in Contexts : store'[c] \in OwnedBy(c)' \cup {NoTask}
  BY <1>2
<1> QED BY <1>1, <1>3, <1>4, <1>5, StepKeeps

\* What the invariant says of the state before a step.
LEMMA ViewHolds ==
  ASSUME ViewInv
  PROVE  /\ Bag(thread) /\ \A t \in Threads : ThreadOK(t) /\ t \in ThreadType
         /\ shown \subseteq Showable /\ aside \in Showable \cup {NoTask}
         /\ ctx \in Contexts /\ reviewed \in {"none", ctx}
         /\ store = [c \in Contexts |-> store[c]]
         /\ \A c \in Contexts : store[c] \in OwnedBy(c) \cup {NoTask}
         /\ running => Busy(Threads)
         /\ reviewing => InReview(Threads)
         /\ aside # NoTask /\ view = "research" => Opens(Threads)
BY DEF ViewInv, PageOK, ThreadOK

-----------------------------------------------------------------------------
(* What is busy stays so until it ends.                                    *)

\* All threads but t are still there.
LEMMA OthersStay ==
  ASSUME NEW T, NEW U, NEW t, T \ {t} \subseteq U
  PROVE  /\ Busy(T) /\ ~(t.here /\ t.op \in {"send", "resume"}) => Busy(U)
         /\ InReview(T) /\ ~(t.here /\ t.op = "review") => InReview(U)
         /\ Opens(T) /\ ~(t.latest /\ t.pc = "opening") => Opens(U)
BY DEF Busy, InReview, Opens

LEMMA AllStay ==
  ASSUME NEW T, NEW U, T \subseteq U
  PROVE  (Busy(T) => Busy(U)) /\ (InReview(T) => InReview(U)) /\ (Opens(T) => Opens(U))
BY DEF Busy, InReview, Opens

\* t goes on as u, and remains what it was to the page.
LEMMA StaysInPlace ==
  ASSUME NEW T, NEW U, NEW t, NEW u \in U, T \ {t} \subseteq U,
         u.here = t.here, u.op = t.op, u.latest /\ u.pc = "opening" <=> t.latest /\ t.pc = "opening"
  PROVE  (Busy(T) => Busy(U)) /\ (InReview(T) => InReview(U)) /\ (Opens(T) => Opens(U))
BY DEF Busy, InReview, Opens

-----------------------------------------------------------------------------
(* The steps of all pages.                                                 *)

\* Whoever ends, the busy flag is told.
LEMMA FinishKeeps ==
  ASSUME ViewInv, NEW t \in Threads, Finish(t), UNCHANGED <<view, ctx, task, calm>>,
         reviewed' \in {reviewed, "none", ctx},
         shown' \subseteq Showable, aside' \in Showable \cup {NoTask},
         store' = [c \in Contexts |-> store'[c]],
         \A c \in Contexts : store'[c] \in OwnedBy(c) \cup {NoTask},
         reviewing' => reviewing /\ ~(t.op = "review" /\ t.here),
         aside' # NoTask /\ view = "research" => aside # NoTask /\ ~(t.latest /\ t.pc = "opening")
  PROVE  ViewInv'
<1>1. /\ Bag(thread) /\ \A u \in Threads : ThreadOK(u)
      /\ running => Busy(Threads)
      /\ reviewing => InReview(Threads)
      /\ aside # NoTask /\ view = "research" => Opens(Threads)
  BY ViewHolds
<1>2. thread' = Rest(t) /\ running' = (running /\ ~(t.here /\ t.op \in {"send", "resume"}))
  BY DEF Finish
<1>3. Bag(Rest(t)) /\ BagToSet(Rest(t)) \subseteq Threads /\ Threads \ {t} \subseteq BagToSet(Rest(t))
  BY <1>1, RestIs
<1>4. Threads' = BagToSet(Rest(t))
  BY <1>2 DEF Threads
<1>5. Bag(thread') /\ Threads' \subseteq Threads /\ Threads \ {t} \subseteq Threads'
  BY <1>2, <1>3, <1>4
<1>6. PICK T, U : T = Threads /\ U = Threads'
  OBVIOUS
<1>7. T \ {t} \subseteq U
  BY <1>5, <1>6
<1>8. /\ Busy(T) /\ ~(t.here /\ t.op \in {"send", "resume"}) => Busy(U)
      /\ InReview(T) /\ ~(t.here /\ t.op = "review") => InReview(U)
      /\ Opens(T) /\ ~(t.latest /\ t.pc = "opening") => Opens(U)
  BY <1>7, OthersStay
<1>9. /\ running' => Busy(Threads')
      /\ reviewing' => InReview(Threads')
      /\ aside' # NoTask /\ view' = "research" => Opens(Threads')
  BY <1>1, <1>2, <1>6, <1>8
<1>10. \A u \in Threads' : ThreadOK(u)
  BY <1>1, <1>5
<1> QED BY <1>5, <1>9, <1>10, QuietStepKeeps

\* A thread goes on as u, and the page is as busy as before.
LEMMA Placed ==
  ASSUME ViewInv, NEW t \in Threads, NEW u, Become(t, u),
         u.here = t.here, u.op = t.op, u.latest /\ u.pc = "opening" <=> t.latest /\ t.pc = "opening",
         UNCHANGED <<view, aside, reviewing>>, running' => running \/ (u.here /\ u.op \in {"send", "resume"})
  PROVE  /\ Bag(thread') /\ Threads' \subseteq Threads \cup {u}
         /\ running' => Busy(Threads')
         /\ reviewing' => InReview(Threads')
         /\ aside' # NoTask /\ view' = "research" => Opens(Threads')
<1>1. /\ Bag(thread)
      /\ running => Busy(Threads)
      /\ reviewing => InReview(Threads)
      /\ aside # NoTask /\ view = "research" => Opens(Threads)
  BY ViewHolds
<1>2. thread' = Rest(t) (+) One(u)
  BY DEF Become
<1>3. Bag(thread') /\ Threads' = BagToSet(Rest(t)) \cup {u}
  BY <1>1, <1>2, TaskGoesOn DEF Threads
<1>4. BagToSet(Rest(t)) \subseteq Threads /\ Threads \ {t} \subseteq BagToSet(Rest(t))
  BY <1>1, RestIs
<1>5. PICK T, U : T = Threads /\ U = Threads'
  OBVIOUS
<1>6. T \ {t} \subseteq U /\ u \in U
  BY <1>3, <1>4, <1>5
<1>7. (Busy(T) => Busy(U)) /\ (InReview(T) => InReview(U)) /\ (Opens(T) => Opens(U))
  BY <1>6, StaysInPlace
<1>8. u.here /\ u.op \in {"send", "resume"} => Busy(U)
  BY <1>6 DEF Busy
<1> QED BY <1>1, <1>3, <1>4, <1>5, <1>7, <1>8

LEMMA BecomeKeeps ==
  ASSUME ViewInv, NEW t \in Threads, NEW u, Become(t, u), ThreadOK(u),
         u.here = t.here, u.op = t.op, u.latest /\ u.pc = "opening" <=> t.latest /\ t.pc = "opening",
         UNCHANGED <<view, ctx, shown, aside, reviewing, reviewed, task, calm>>,
         running' => running \/ (u.here /\ u.op \in {"send", "resume"}),
         store' = [c \in Contexts |-> store'[c]],
         \A c \in Contexts : store'[c] \in OwnedBy(c) \cup {NoTask}
  PROVE  ViewInv'
<1>1. /\ Bag(thread') /\ Threads' \subseteq Threads \cup {u}
      /\ running' => Busy(Threads')
      /\ reviewing' => InReview(Threads')
      /\ aside' # NoTask /\ view' = "research" => Opens(Threads')
  BY Placed
<1>2. /\ \A v \in Threads : ThreadOK(v)
      /\ shown' \subseteq Showable /\ aside' \in Showable \cup {NoTask}
  BY ViewHolds
<1>3. \A v \in Threads' : ThreadOK(v)
  BY <1>1, <1>2
<1> QED BY <1>1, <1>2, <1>3, QuietStepKeeps

\* Threads that are superseded are as busy as before.
LEMMA SupersededKeep ==
  ASSUME NEW B, Bag(B), \A t \in BagToSet(B) : ThreadOK(t), NEW pcs, NEW T, NEW S,
         T = BagToSet(B), S = BagToSet(Superseded(B, pcs))
  PROVE  /\ Bag(Superseded(B, pcs))
         /\ \A v \in S : ThreadOK(v)
         /\ (Busy(T) => Busy(S)) /\ (InReview(T) => InReview(S))
         /\ "opening" \notin pcs => (Opens(T) => Opens(S))
<1> DEFINE image(t) == [t EXCEPT !.latest = t.latest /\ t.pc \notin pcs]
<1>1. Bag(Superseded(B, pcs)) /\ S = {image(t) : t \in T}
  BY SupersededIs
<1>2. ASSUME NEW t \in T
      PROVE  /\ ThreadOK(image(t)) /\ image(t).here = t.here /\ image(t).op = t.op
             /\ image(t).pc = t.pc /\ image(t).latest = (t.latest /\ t.pc \notin pcs)
  <2>1. PICK b : b = (t.latest /\ t.pc \notin pcs)
    OBVIOUS
  <2>2. ThreadOK(t) /\ b \in BOOLEAN /\ (b => t.latest)
    BY <1>2, <2>1
  <2>3. /\ ThreadOK([t EXCEPT !.latest = b])
        /\ [t EXCEPT !.latest = b].here = t.here /\ [t EXCEPT !.latest = b].op = t.op
        /\ [t EXCEPT !.latest = b].pc = t.pc /\ [t EXCEPT !.latest = b].latest = b
    BY <2>2, SupersededOK
  <2> QED BY <2>1, <2>3
<1> HIDE DEF image
<1>3. \A v \in S : ThreadOK(v)
  BY <1>1, <1>2
<1>4. Busy(T) => Busy(S)
  BY <1>1, <1>2 DEF Busy
<1>5. InReview(T) => InReview(S)
  BY <1>1, <1>2 DEF InReview
<1>6. ASSUME "opening" \notin pcs, Opens(T) PROVE Opens(S)
  <2>1. PICK t \in T : t.latest /\ t.pc = "opening"
    BY <1>6 DEF Opens
  <2>2. image(t) \in S /\ image(t).pc = "opening" /\ image(t).latest
    BY <1>1, <1>2, <1>6, <2>1
  <2> QED BY <2>2 DEF Opens
<1> QED BY <1>1, <1>3, <1>4, <1>5, <1>6

-----------------------------------------------------------------------------
(* The steps of all pages.                                                 *)

LEMMA FirstLoad == ThreadOK([NoThread EXCEPT !.pc = "loading", !.op = "load", !.latest = TRUE])
BY DEF ThreadOK, ThreadType, NoThread, Unchecked, Working

LEMMA LoadThreadIs ==
  Bag(LoadThread) /\ \A t \in BagToSet(LoadThread) : ThreadOK(t) /\ t.task = NoTask
<1>1. PICK u : u = [NoThread EXCEPT !.pc = "loading", !.op = "load", !.latest = TRUE]
  OBVIOUS
<1>2. u.task = NoTask /\ ThreadOK(u) /\ LoadThread = One(u)
  BY <1>1, FirstLoad DEF NoThread, LoadThread
<1> QED BY <1>2, OneIs

\* A load belongs to any context.
LEMMA LoadThreadOK == \A t \in BagToSet(LoadThread) : ThreadOK(t)'
<1>1. ASSUME NEW t \in BagToSet(LoadThread) PROVE ThreadOK(t)'
  <2>1. t = [NoThread EXCEPT !.pc = "loading", !.op = "load", !.latest = TRUE]
    BY OneIs DEF LoadThread
  <2> QED BY <2>1 DEF ThreadOK, ThreadType, NoThread, Unchecked, Working
<1> QED BY <1>1

LEMMA ViewStart == ViewInit => ViewInv
<1> SUFFICES ASSUME NEW v, TaskViewInit(v) PROVE ViewInv
  BY DEF ViewInit, ChatPageInit, PreparationPageInit, ResearchPageInit, SearchPageInit
<1>1. PageOK
  BY DEF TaskViewInit, PageOK
<1>2. Bag(thread) /\ \A t \in Threads : ThreadOK(t)
  BY LoadThreadIs DEF TaskViewInit, Threads
<1> QED BY <1>1, <1>2 DEF TaskViewInit, ViewInv

LEMMA ReopenKeeps == ASSUME ViewInv, NEW c \in Contexts, Reopen(c) PROVE ViewInv'
<1>1. /\ shown' = {} /\ aside' = NoTask /\ ~reviewing' /\ reviewed' = "none" /\ ~running'
      /\ ctx' = c /\ thread' = LoadThread /\ UNCHANGED <<view, store, task, calm>>
  BY DEF Reopen, Cleared
<1>2. Bag(thread') /\ Threads' = BagToSet(LoadThread)
  BY <1>1, LoadThreadIs DEF Threads
<1>3. \A t \in Threads' : ThreadOK(t)'
  BY <1>2, LoadThreadOK
<1>4. /\ store' = [d \in Contexts |-> store'[d]]
      /\ \A d \in Contexts : store'[d] \in OwnedBy(d)' \cup {NoTask}
  <2>1. \A d : OwnedBy(d)' = OwnedBy(d)
    BY <1>1 DEF OwnedBy, Started
  <2> QED BY <1>1, <2>1, ViewHolds
<1>5. task' \in [Tasks -> [state : {"none", "asked", "active", "done", "failed"}, of : Contexts]]
  BY <1>1 DEF ViewInv, PageOK
<1>6. PageOK'
  BY <1>1, <1>4, <1>5 DEF PageOK
<1> QED BY <1>1, <1>2, <1>3, <1>6 DEF ViewInv

LEMMA SwitchKeeps ==
  ASSUME ViewInv, view # "search", NEW c \in Contexts, SwitchTo(c) PROVE ViewInv'
<1>0. PICK image : image = [t \in Threads |-> [t EXCEPT !.here = FALSE, !.latest = FALSE]]
  OBVIOUS
<1>1. /\ shown' = {} /\ aside' = NoTask /\ ~reviewing' /\ reviewed' = "none" /\ ~running'
      /\ ctx' = c /\ UNCHANGED <<view, store, task>>
      /\ calm' = (calm /\ \A t \in Threads : t.pc \notin Careless)
      /\ thread' = Each(thread, image) (+) LoadThread
  BY <1>0 DEF SwitchTo, Cleared
<1>2. /\ Bag(thread) /\ \A t \in Threads : ThreadOK(t) /\ t \in ThreadType
      /\ store = [d \in Contexts |-> store[d]]
      /\ \A d \in Contexts : store[d] \in OwnedBy(d) \cup {NoTask}
  BY ViewHolds
<1>3. TasksGrow /\ (calm' => calm)
  BY <1>1 DEF TasksGrow
<1>4. Started' = Started /\ \A d : OwnedBy(d) \subseteq OwnedBy(d)'
  <2>1. Started' = Started
    BY <1>1 DEF Started
  <2> QED BY <1>3, <2>1, StillOwned
<1>5. Threads' = {image[t] : t \in Threads} \cup BagToSet(LoadThread) /\ Bag(thread')
  <2>1. Bag(Each(thread, image)) /\ BagToSet(Each(thread, image)) = {image[t] : t \in Threads}
    BY <1>2, EachIs DEF Threads
  <2>2. /\ Bag(Each(thread, image) (+) LoadThread)
        /\ BagToSet(Each(thread, image) (+) LoadThread) = {image[t] : t \in Threads} \cup BagToSet(LoadThread)
    BY <2>1, LoadThreadIs, PlusIs
  <2> QED BY <1>1, <2>2 DEF Threads
<1>6. ASSUME NEW t \in Threads PROVE ThreadOK(image[t])'
  <2>1. PICK u : u = [t EXCEPT !.here = FALSE, !.latest = FALSE]
    OBVIOUS
  <2>2. ThreadOK(t) /\ t \in ThreadType /\ u = image[t]
    BY <1>0, <1>2, <2>1
  <2>3. /\ u \in ThreadType /\ u.pc = t.pc /\ u.op = t.op /\ ~u.here /\ ~u.latest
        /\ u.task = t.task /\ u.scope = t.scope
    BY <2>1, <2>2 DEF ThreadType
  <2>4. OwnedBy(u.scope) \subseteq OwnedBy(u.scope)'
    BY <1>4
  <2>5. ~(calm' /\ Unchecked(u))
    BY <1>1, <2>3 DEF Unchecked, Careless
  <2>6. ThreadOK(u)'
    BY <1>1, <1>4, <2>2, <2>3, <2>4, <2>5 DEF ThreadOK, Unchecked
  <2> QED BY <1>1, <2>2, <2>6
<1>7. \A t \in BagToSet(LoadThread) : ThreadOK(t)'
  BY LoadThreadOK
<1>8. \A t \in Threads' : ThreadOK(t)'
  BY <1>5, <1>6, <1>7
<1>9. PageOK'
  <2>1. \A d \in Contexts : store'[d] \in OwnedBy(d)' \cup {NoTask}
    BY <1>1, <1>2, <1>4
  <2>2. /\ ctx' \in Contexts /\ reviewed' \in {"none", ctx'} /\ shown' \subseteq Showable'
        /\ aside' \in Showable' \cup {NoTask} /\ store' = [d \in Contexts |-> store'[d]]
    BY <1>1, <1>2
  <2>3. task' \in [Tasks -> [state : {"none", "asked", "active", "done", "failed"}, of : Contexts]]
    BY <1>1 DEF ViewInv, PageOK
  <2> QED BY <2>1, <2>2, <2>3 DEF PageOK
<1> QED BY <1>1, <1>5, <1>8, <1>9 DEF ViewInv


LEMMA TaskEndsKeeps ==
  ASSUME ViewInv, NEW j \in Tasks, NEW state \in {"done", "failed"}, TaskEnds(j, state)
  PROVE  ViewInv'
<1>1. /\ task' = [task EXCEPT ![j].state = state]
      /\ UNCHANGED <<view, ctx, shown, aside, reviewing, reviewed, running, store, thread, calm>>
  BY DEF TaskEnds
<1>2. task \in [Tasks -> [state : {"none", "asked", "active", "done", "failed"}, of : Contexts]]
  BY DEF ViewInv, PageOK
<1>3. /\ task' \in [Tasks -> [state : {"none", "asked", "active", "done", "failed"}, of : Contexts]]
      /\ TasksGrow
  BY <1>1, <1>2 DEF TasksGrow
<1>4. Showable \subseteq Showable' /\ \A c : OwnedBy(c) \subseteq OwnedBy(c)'
  BY <1>1, <1>3, StillOwned
<1>5. /\ Bag(thread') /\ \A t \in Threads' : ThreadOK(t)
      /\ shown' \subseteq Showable' /\ aside' \in Showable' \cup {NoTask}
      /\ store' = [c \in Contexts |-> store'[c]]
      /\ \A c \in Contexts : store'[c] \in OwnedBy(c)' \cup {NoTask}
  BY <1>1, <1>4, ViewHolds DEF Threads
<1>6. /\ running' => Busy(Threads')
      /\ reviewing' => InReview(Threads')
      /\ aside' # NoTask /\ view' = "research" => Opens(Threads')
  BY <1>1, ViewHolds DEF Threads
<1> QED BY <1>1, <1>3, <1>5, <1>6, StepKeeps

\* A thread starts, and all others go on.
LEMMA StartKeeps ==
  ASSUME ViewInv, NEW u, thread' = thread (+) One(u)
  PROVE  /\ Bag(thread') /\ Threads' = Threads \cup {u}
         /\ running => Busy(Threads')
         /\ reviewing => InReview(Threads')
         /\ aside # NoTask /\ view = "research" => Opens(Threads')
<1>1. /\ Bag(thread)
      /\ running => Busy(Threads)
      /\ reviewing => InReview(Threads)
      /\ aside # NoTask /\ view = "research" => Opens(Threads)
  BY ViewHolds
<1>2. Bag(thread') /\ Threads' = Threads \cup {u}
  BY <1>1, Starts DEF Threads
<1>3. PICK T, U : T = Threads /\ U = Threads'
  OBVIOUS
<1>4. (Busy(T) => Busy(U)) /\ (InReview(T) => InReview(U)) /\ (Opens(T) => Opens(U))
  BY <1>2, <1>3, AllStay
<1> QED BY <1>1, <1>2, <1>3, <1>4

LEMMA ReviewKeeps == ASSUME ViewInv, Review PROVE ViewInv'
<1>1. PICK u : u = [NoThread EXCEPT !.pc = "reviewing", !.op = "review", !.here = TRUE, !.scope = ctx]
  OBVIOUS
<1>2. /\ thread' = thread (+) One(u)
      /\ UNCHANGED <<view, ctx, shown, aside, reviewed, running, store, task, calm>>
  BY <1>1 DEF Review
<1>3. u.here /\ u.op = "review" /\ ThreadOK(u)
  BY <1>1, ViewHolds DEF ThreadOK, ThreadType, NoThread, Unchecked, Working
<1>4. /\ Bag(thread') /\ Threads' = Threads \cup {u}
      /\ running => Busy(Threads')
      /\ aside # NoTask /\ view = "research" => Opens(Threads')
  BY <1>2, StartKeeps
<1>5. InReview(Threads')
  BY <1>3, <1>4 DEF InReview
<1>6. /\ \A t \in Threads' : ThreadOK(t)
      /\ shown' \subseteq Showable /\ aside' \in Showable \cup {NoTask}
      /\ store' = [c \in Contexts |-> store'[c]]
      /\ \A c \in Contexts : store'[c] \in OwnedBy(c) \cup {NoTask}
  BY <1>2, <1>3, <1>4, ViewHolds
<1> QED BY <1>2, <1>4, <1>5, <1>6, QuietStepKeeps

LEMMA ReviewedKeeps == ASSUME ViewInv, NEW t \in Threads, Reviewed(t) PROVE ViewInv'
<1>1. /\ t.pc = "reviewing" /\ thread' = Rest(t)
      /\ reviewed' = (IF t.here THEN t.scope ELSE reviewed)
      /\ reviewing' = (reviewing /\ ~t.here)
      /\ UNCHANGED <<view, ctx, shown, aside, running, store, task, calm>>
  BY DEF Reviewed, Mine
<1>2. t.op = "review" /\ (t.here => t.scope = ctx)
  BY <1>1, ViewHolds DEF ThreadOK
<1>3. /\ shown' \subseteq Showable /\ aside' \in Showable \cup {NoTask}
      /\ store' = [c \in Contexts |-> store'[c]]
      /\ \A c \in Contexts : store'[c] \in OwnedBy(c) \cup {NoTask}
      /\ (running => Busy(Threads)) /\ (reviewing => InReview(Threads))
      /\ (aside # NoTask /\ view = "research" => Opens(Threads))
      /\ Bag(thread) /\ \A u \in Threads : ThreadOK(u)
  BY <1>1, ViewHolds
<1>4. /\ Bag(thread') /\ Threads' \subseteq Threads /\ Threads \ {t} \subseteq Threads'
  BY <1>1, <1>3, RestIs DEF Threads
<1>5. PICK T, U : T = Threads /\ U = Threads'
  OBVIOUS
<1>6. /\ Busy(T) /\ ~(t.here /\ t.op \in {"send", "resume"}) => Busy(U)
      /\ InReview(T) /\ ~(t.here /\ t.op = "review") => InReview(U)
      /\ Opens(T) /\ ~(t.latest /\ t.pc = "opening") => Opens(U)
  BY <1>4, <1>5, OthersStay
<1>7. /\ running' => Busy(Threads')
      /\ reviewing' => InReview(Threads')
      /\ aside' # NoTask /\ view' = "research" => Opens(Threads')
  BY <1>1, <1>2, <1>3, <1>5, <1>6
<1>8. reviewed' \in {reviewed, "none", ctx} /\ \A u \in Threads' : ThreadOK(u)
  BY <1>1, <1>2, <1>3, <1>4
<1> QED BY <1>1, <1>3, <1>4, <1>7, <1>8, QuietStepKeeps

\* Only what is shown changes, or the dialog.
LEMMA ThreadsRest ==
  ASSUME ViewInv, UNCHANGED <<view, ctx, calm, task, thread, store, aside, reviewing, shown>>,
         reviewed' \in {reviewed, "none", ctx}, running' => running \/ Busy(Threads)
  PROVE  ViewInv'
<1>1. /\ shown' \subseteq Showable /\ aside' \in Showable \cup {NoTask}
      /\ store' = [c \in Contexts |-> store'[c]]
      /\ \A c \in Contexts : store'[c] \in OwnedBy(c) \cup {NoTask}
      /\ Bag(thread') /\ \A u \in Threads' : ThreadOK(u)
      /\ (running' => Busy(Threads')) /\ (reviewing' => InReview(Threads'))
      /\ (aside' # NoTask /\ view' = "research" => Opens(Threads'))
  BY ViewHolds DEF Threads
<1> QED BY <1>1, QuietStepKeeps

LEMMA CloseReviewKeeps == ASSUME ViewInv, CloseReview PROVE ViewInv'
BY ThreadsRest DEF CloseReview

LEMMA PollKeeps == ASSUME ViewInv, NEW t \in Threads, Poll(t) PROVE ViewInv'
<1>1. Busy(Threads)
  BY DEF Poll, Mine, Busy
<1> QED BY <1>1, ThreadsRest DEF Poll

LEMMA SendKeeps ==
  ASSUME ViewInv, NEW j \in Tasks, NEW pc \in {"confirming", "token"}, NEW results,
         results \subseteq shown, Send(j, pc, results)
  PROVE  ViewInv'
<1>1. PICK u : u = [NoThread EXCEPT !.pc = pc, !.op = "send", !.here = TRUE, !.task = j]
  OBVIOUS
<1>2. /\ task[j].state = "none" /\ task' = [task EXCEPT ![j] = [state |-> "asked", of |-> ctx]]
      /\ shown' = results /\ thread' = thread (+) One(u)
      /\ UNCHANGED <<view, ctx, aside, reviewing, reviewed, store, calm>>
  BY <1>1 DEF Send
<1>3. /\ ctx \in Contexts
      /\ task \in [Tasks -> [state : {"none", "asked", "active", "done", "failed"}, of : Contexts]]
  BY DEF ViewInv, PageOK
<1>4. /\ task' \in [Tasks -> [state : {"none", "asked", "active", "done", "failed"}, of : Contexts]]
      /\ TasksGrow /\ task'[j].state = "asked" /\ task'[j].of = ctx
  BY <1>2, <1>3 DEF TasksGrow
<1>5. Showable \subseteq Showable' /\ \A c : OwnedBy(c) \subseteq OwnedBy(c)'
  BY <1>2, <1>4, StillOwned
<1>6. j \in Started' /\ j \in OwnedBy(ctx)'
  BY <1>2, <1>4 DEF Started, OwnedBy
<1>7. u.here /\ u.op = "send" /\ ThreadOK(u)'
  BY <1>1, <1>2, <1>6 DEF ThreadOK, ThreadType, NoThread, Unchecked, Working
<1>8. /\ Bag(thread') /\ Threads' = Threads \cup {u}
      /\ reviewing => InReview(Threads')
      /\ aside # NoTask /\ view = "research" => Opens(Threads')
  BY <1>2, StartKeeps
<1>9. Busy(Threads')
  BY <1>7, <1>8 DEF Busy
<1>10. /\ \A t \in Threads' : ThreadOK(t) \/ ThreadOK(t)'
       /\ shown' \subseteq Showable' /\ aside' \in Showable' \cup {NoTask}
       /\ store' = [c \in Contexts |-> store'[c]]
       /\ \A c \in Contexts : store'[c] \in OwnedBy(c)' \cup {NoTask}
  BY <1>2, <1>5, <1>7, <1>8, ViewHolds
<1> QED BY <1>2, <1>4, <1>8, <1>9, <1>10, StepKeeps

LEMMA TokenKeeps == ASSUME ViewInv, NEW t \in Threads, Token(t) PROVE ViewInv'
<1>1. PICK u : u = [t EXCEPT !.pc = "posting", !.scope = ctx]
  OBVIOUS
<1>2. /\ t.pc = "token" /\ Become(t, u)
      /\ UNCHANGED <<view, ctx, shown, aside, reviewing, reviewed, running, store, task, calm>>
  BY <1>1 DEF Token
<1>3. ThreadOK(t) /\ t \in ThreadType /\ ctx \in Contexts
  BY ViewHolds
<1>4. /\ u \in ThreadType /\ u.pc = "posting" /\ u.scope = ctx /\ u.op = t.op /\ u.here = t.here
      /\ u.latest = t.latest /\ u.task = t.task
  BY <1>1, <1>3 DEF ThreadType, Working
<1>5. t.task \in OwnedBy(ctx)
  <2>1. t.task \in Started /\ (calm => t.here) /\ (t.here => t.task \in OwnedBy(ctx))
    BY <1>2, <1>3 DEF ThreadOK, Unchecked, Working
  <2> QED BY <2>1 DEF OwnedBy
<1>6. ThreadOK(u)
  BY <1>2, <1>3, <1>4, <1>5 DEF ThreadOK, Unchecked, Working
<1>7. /\ store' = [c \in Contexts |-> store'[c]]
      /\ \A c \in Contexts : store'[c] \in OwnedBy(c) \cup {NoTask}
  BY <1>2, ViewHolds
<1> QED BY <1>2, <1>4, <1>6, <1>7, BecomeKeeps

LEMMA ConfirmedKeeps == ASSUME ViewInv, NEW t \in Threads, Confirmed(t) PROVE ViewInv'
<1>1. /\ t.pc = "confirming"
      /\ UNCHANGED <<view, ctx, shown, aside, reviewing, reviewed, store, task, calm>>
      /\ IF t.here THEN Become(t, [t EXCEPT !.pc = "token"]) /\ running' = running ELSE Finish(t)
  BY DEF Confirmed, Mine
<1>2. /\ ThreadOK(t) /\ t \in ThreadType
      /\ shown' \subseteq Showable /\ aside' \in Showable \cup {NoTask}
      /\ store' = [c \in Contexts |-> store'[c]]
      /\ \A c \in Contexts : store'[c] \in OwnedBy(c) \cup {NoTask}
  BY <1>1, ViewHolds
<1>3. CASE t.here
  <2>1. PICK u : u = [t EXCEPT !.pc = "token"]
    OBVIOUS
  <2>2. /\ u \in ThreadType /\ u.pc = "token" /\ u.scope = t.scope /\ u.op = t.op /\ u.here = t.here
        /\ u.latest = t.latest /\ u.task = t.task
    BY <1>2, <2>1 DEF ThreadType, Working
  <2>3. ThreadOK(u)
    BY <1>1, <1>2, <1>3, <2>2 DEF ThreadOK, Unchecked, Working
  <2>4. /\ Become(t, u) /\ running' = running
        /\ u.latest /\ u.pc = "opening" <=> t.latest /\ t.pc = "opening"
    BY <1>1, <1>3, <2>1, <2>2
  <2> QED BY <1>1, <1>2, <2>2, <2>3, <2>4, BecomeKeeps
<1>4. CASE ~t.here
  <2>1. /\ reviewing' => reviewing /\ ~(t.op = "review" /\ t.here)
        /\ aside' # NoTask /\ view = "research" => aside # NoTask /\ ~(t.latest /\ t.pc = "opening")
    BY <1>1, <1>4
  <2> QED BY <1>1, <1>2, <1>4, <2>1, FinishKeeps
<1> QED BY <1>3, <1>4

LEMMA PostedKeeps == ASSUME ViewInv, NEW t \in Threads, Posted(t) PROVE ViewInv'
<1>1. PICK u : u = [t EXCEPT !.pc = "waiting"]
  OBVIOUS
<1>2. /\ t.pc = "posting" /\ Become(t, u)
      /\ task' = [task EXCEPT ![t.task].state = "active"]
      /\ store' = [store EXCEPT ![t.scope] = t.task]
      /\ UNCHANGED <<view, ctx, shown, aside, reviewing, reviewed, running, calm>>
  BY <1>1 DEF Posted
<1>3. /\ ThreadOK(t) /\ t \in ThreadType /\ (\A v \in Threads : ThreadOK(v))
      /\ shown \subseteq Showable /\ aside \in Showable \cup {NoTask}
      /\ store = [c \in Contexts |-> store[c]]
      /\ \A c \in Contexts : store[c] \in OwnedBy(c) \cup {NoTask}
      /\ task \in [Tasks -> [state : {"none", "asked", "active", "done", "failed"}, of : Contexts]]
  BY ViewHolds DEF ViewInv, PageOK
<1>4. /\ t.task \in Started /\ t.task \in Tasks /\ t.scope \in Contexts
      /\ t.task \in OwnedBy(t.scope)
  BY <1>2, <1>3 DEF ThreadOK, Working, Started
<1>5. /\ task' \in [Tasks -> [state : {"none", "asked", "active", "done", "failed"}, of : Contexts]]
      /\ TasksGrow
  BY <1>2, <1>3, <1>4 DEF TasksGrow
<1>6. Showable \subseteq Showable' /\ \A c : OwnedBy(c) \subseteq OwnedBy(c)'
  BY <1>2, <1>5, StillOwned
<1>7. /\ u \in ThreadType /\ u.pc = "waiting" /\ u.scope = t.scope /\ u.op = t.op /\ u.here = t.here
      /\ u.latest = t.latest /\ u.task = t.task
  BY <1>1, <1>3 DEF ThreadType, Working
<1>8. ThreadOK(u)
  BY <1>2, <1>3, <1>7 DEF ThreadOK, Unchecked, Working
<1>9. /\ Bag(thread') /\ Threads' \subseteq Threads \cup {u}
      /\ running' => Busy(Threads')
      /\ reviewing' => InReview(Threads')
      /\ aside' # NoTask /\ view' = "research" => Opens(Threads')
  <2>1. u.latest /\ u.pc = "opening" <=> t.latest /\ t.pc = "opening"
    BY <1>2, <1>7
  <2> QED BY <1>2, <1>7, <2>1, Placed
<1>10. /\ store' = [c \in Contexts |-> store'[c]]
       /\ \A c \in Contexts : store'[c] \in {store[c], IF c = t.scope THEN t.task ELSE store[c]}
  BY <1>2, <1>3, <1>4
<1>11. \A c \in Contexts : store'[c] \in OwnedBy(c)' \cup {NoTask}
  BY <1>3, <1>4, <1>6, <1>10
<1>12. /\ \A v \in Threads' : ThreadOK(v)
       /\ shown' \subseteq Showable' /\ aside' \in Showable' \cup {NoTask}
  BY <1>2, <1>3, <1>6, <1>8, <1>9
<1> QED BY <1>2, <1>5, <1>9, <1>10, <1>11, <1>12, StepKeeps

LEMMA FailedKeeps == ASSUME ViewInv, NEW t \in Threads, Failed(t) PROVE ViewInv'
<1>1. /\ Finish(t) /\ reviewing' = (reviewing /\ ~(t.op = "review" /\ t.here))
      /\ aside' = (IF t.pc = "opening" /\ t.latest THEN NoTask ELSE aside)
      /\ UNCHANGED <<view, ctx, shown, reviewed, store, task, calm>>
  BY DEF Failed
<1>2. /\ shown' \subseteq Showable /\ aside' \in Showable \cup {NoTask}
      /\ store' = [c \in Contexts |-> store'[c]]
      /\ \A c \in Contexts : store'[c] \in OwnedBy(c) \cup {NoTask}
  BY <1>1, ViewHolds
<1>3. /\ reviewing' => reviewing /\ ~(t.op = "review" /\ t.here)
      /\ aside' # NoTask /\ view = "research" => aside # NoTask /\ ~(t.latest /\ t.pc = "opening")
  BY <1>1
<1> QED BY <1>1, <1>2, <1>3, FinishKeeps

\* The id of the task that is over is forgotten.
LEMMA MonitoredIs ==
  ASSUME ViewInv, NEW t \in Threads, NEW done, Monitored(t, done)
  PROVE  /\ t.pc = "waiting" /\ ThreadOK(t) /\ t \in ThreadType
         /\ t.op # "review" /\ t.op # "load" /\ t.task \in Started
         /\ t.here => t.task \in OwnedBy(ctx)
         /\ store' = [c \in Contexts |-> store'[c]]
         /\ \A c \in Contexts : store'[c] \in OwnedBy(c) \cup {NoTask}
<1>1. t.pc = "waiting" /\ store' = [store EXCEPT ![t.scope] = NoTask]
  BY DEF Monitored
<1>2. /\ ThreadOK(t) /\ t \in ThreadType
      /\ store = [c \in Contexts |-> store[c]]
      /\ \A c \in Contexts : store[c] \in OwnedBy(c) \cup {NoTask}
  BY ViewHolds
<1>3. /\ store' = [c \in Contexts |-> store'[c]]
      /\ \A c \in Contexts : store'[c] \in {store[c], NoTask}
  BY <1>1, <1>2
<1>4. /\ t.op # "review" /\ t.op # "load" /\ t.task \in Started
      /\ t.here => t.task \in OwnedBy(ctx)
  BY <1>1, <1>2 DEF ThreadOK, Working
<1> QED BY <1>1, <1>2, <1>3, <1>4

LEMMA DroppedKeeps ==
  ASSUME ViewInv, NEW t \in Threads, NEW done, Dropped(t, done) PROVE ViewInv'
<1>1. /\ Monitored(t, done) /\ Finish(t)
      /\ UNCHANGED <<view, ctx, shown, aside, reviewing, reviewed, task, calm>>
  BY DEF Dropped
<1>2. /\ t.pc = "waiting" /\ t.op # "review"
      /\ store' = [c \in Contexts |-> store'[c]]
      /\ \A c \in Contexts : store'[c] \in OwnedBy(c) \cup {NoTask}
      /\ shown' \subseteq Showable /\ aside' \in Showable \cup {NoTask}
  BY <1>1, MonitoredIs, ViewHolds
<1>3. /\ reviewing' => reviewing /\ ~(t.op = "review" /\ t.here)
      /\ aside' # NoTask /\ view = "research" => aside # NoTask /\ ~(t.latest /\ t.pc = "opening")
  BY <1>1, <1>2
<1> QED BY <1>1, <1>2, <1>3, FinishKeeps

LEMMA ResumedIs ==
  ASSUME ViewInv PROVE Bag(Resumed) /\ \A u \in BagToSet(Resumed) : ThreadOK(u)
<1>1. CASE store[ctx] = NoTask
  BY <1>1, NoneIs DEF Resumed
<1>2. CASE store[ctx] # NoTask
  <2>1. PICK u : u = [NoThread EXCEPT !.pc = "waiting", !.op = "resume", !.here = TRUE,
                                      !.task = store[ctx], !.scope = ctx]
    OBVIOUS
  <2>2. Resumed = One(u)
    BY <1>2, <2>1 DEF Resumed
  <2>3. store[ctx] \in OwnedBy(ctx) /\ ctx \in Contexts
    BY <1>2, ViewHolds
  <2>4. store[ctx] \in Started /\ store[ctx] \in Tasks
    BY <2>3 DEF OwnedBy, Started
  <2>5. ThreadOK(u)
    BY <2>1, <2>3, <2>4 DEF ThreadOK, ThreadType, NoThread, Unchecked, Working
  <2> QED BY <2>2, <2>5, OneIs
<1> QED BY <1>1, <1>2

\* A load is over, and something follows it or not.
LEMMA LoadEnds ==
  ASSUME ViewInv, NEW t \in Threads, t.pc = "loading",
         NEW B, Bag(B), \A u \in BagToSet(B) : ThreadOK(u), thread' = Rest(t) (+) B
  PROVE  /\ Bag(thread') /\ \A u \in Threads' : ThreadOK(u)
         /\ running => Busy(Threads')
         /\ reviewing => InReview(Threads')
         /\ aside # NoTask /\ view = "research" => Opens(Threads')
<1>1. /\ (running => Busy(Threads)) /\ (reviewing => InReview(Threads))
      /\ (aside # NoTask /\ view = "research" => Opens(Threads))
      /\ Bag(thread) /\ (\A u \in Threads : ThreadOK(u)) /\ t.op = "load"
  BY ViewHolds DEF ThreadOK
<1>2. Bag(Rest(t)) /\ BagToSet(Rest(t)) \subseteq Threads /\ Threads \ {t} \subseteq BagToSet(Rest(t))
  BY <1>1, RestIs
<1>3. Bag(thread') /\ Threads' = BagToSet(Rest(t)) \cup BagToSet(B)
  BY <1>2, PlusIs DEF Threads
<1>4. PICK T, U : T = Threads /\ U = Threads'
  OBVIOUS
<1>5. T \ {t} \subseteq U
  BY <1>2, <1>3, <1>4
<1>6. /\ Busy(T) /\ ~(t.here /\ t.op \in {"send", "resume"}) => Busy(U)
      /\ InReview(T) /\ ~(t.here /\ t.op = "review") => InReview(U)
      /\ Opens(T) /\ ~(t.latest /\ t.pc = "opening") => Opens(U)
  BY <1>5, OthersStay
<1>7. /\ running => Busy(Threads')
      /\ reviewing => InReview(Threads')
      /\ aside # NoTask /\ view = "research" => Opens(Threads')
  BY <1>1, <1>4, <1>6
<1>8. \A u \in Threads' : ThreadOK(u)
  BY <1>1, <1>2, <1>3
<1> QED BY <1>3, <1>7, <1>8

LEMMA LoadedKeeps ==
  ASSUME ViewInv, NEW t \in Threads, NEW results, results \subseteq Showable, Loaded(t, results)
  PROVE  ViewInv'
<1>1. /\ t.pc = "loading" /\ thread' = Rest(t) (+) Resumed
      /\ shown' = (IF t.latest THEN results ELSE shown)
      /\ UNCHANGED <<view, ctx, aside, reviewing, reviewed, running, store, task, calm>>
  BY DEF Loaded
<1>2. /\ Bag(thread') /\ \A u \in Threads' : ThreadOK(u)
      /\ running' => Busy(Threads')
      /\ reviewing' => InReview(Threads')
      /\ aside' # NoTask /\ view' = "research" => Opens(Threads')
  BY <1>1, ResumedIs, LoadEnds
<1>3. /\ shown' \subseteq Showable /\ aside' \in Showable \cup {NoTask}
      /\ store' = [c \in Contexts |-> store'[c]]
      /\ \A c \in Contexts : store'[c] \in OwnedBy(c) \cup {NoTask}
  BY <1>1, ViewHolds
<1> QED BY <1>1, <1>2, <1>3, QuietStepKeeps

LEMMA LoadFailsKeeps == ASSUME ViewInv, NEW t \in Threads, LoadFails(t) PROVE ViewInv'
<1>1. PICK B : B = IF t.latest THEN EmptyBag ELSE Resumed
  OBVIOUS
<1>2. /\ t.pc = "loading" /\ thread' = Rest(t) (+) B
      /\ UNCHANGED <<view, ctx, shown, aside, reviewing, reviewed, running, store, task, calm>>
  BY <1>1 DEF LoadFails
<1>3. Bag(B) /\ \A u \in BagToSet(B) : ThreadOK(u)
  BY <1>1, ResumedIs, NoneIs
<1>4. /\ Bag(thread') /\ \A u \in Threads' : ThreadOK(u)
      /\ running' => Busy(Threads')
      /\ reviewing' => InReview(Threads')
      /\ aside' # NoTask /\ view' = "research" => Opens(Threads')
  BY <1>2, <1>3, LoadEnds
<1>5. /\ shown' \subseteq Showable /\ aside' \in Showable \cup {NoTask}
      /\ store' = [c \in Contexts |-> store'[c]]
      /\ \A c \in Contexts : store'[c] \in OwnedBy(c) \cup {NoTask}
  BY <1>2, ViewHolds
<1> QED BY <1>2, <1>4, <1>5, QuietStepKeeps

LEMMA TaskViewStepKeeps == ASSUME ViewInv, TaskViewStep PROVE ViewInv'
BY ViewHolds, ReopenKeeps, TaskEndsKeeps, TokenKeeps, PostedKeeps, FailedKeeps, PollKeeps, DroppedKeeps
   DEF TaskViewStep

LEMMA KnownIsShowable == Known \subseteq Showable
BY DEF Known, Showable, Started

-----------------------------------------------------------------------------
(* The chat and the search.                                                *)

\* A task that is over is shown, and its function ends.
LEMMA ShownKeeps ==
  ASSUME ViewInv, NEW t \in Threads, Monitored(t, TRUE), Finish(t), t.here,
         shown' \subseteq shown \cup {t.task}, reviewed' \in {reviewed, "none"},
         UNCHANGED <<view, ctx, aside, reviewing, task, calm>>
  PROVE  ViewInv'
<1>1. /\ t.pc = "waiting" /\ t.op # "review" /\ t.task \in OwnedBy(ctx)
      /\ store' = [c \in Contexts |-> store'[c]]
      /\ \A c \in Contexts : store'[c] \in OwnedBy(c) \cup {NoTask}
      /\ shown \subseteq Showable /\ aside' \in Showable \cup {NoTask}
  BY MonitoredIs, ViewHolds
<1>2. /\ reviewing' => reviewing /\ ~(t.op = "review" /\ t.here)
      /\ aside' # NoTask /\ view = "research" => aside # NoTask /\ ~(t.latest /\ t.pc = "opening")
  BY <1>1
<1>3. shown' \subseteq Showable /\ reviewed' \in {reviewed, "none", ctx}
  BY <1>1, OwnIsShowable, ViewHolds
<1> QED BY <1>1, <1>2, <1>3, FinishKeeps

LEMMA ChatKeeps == ASSUME ViewInv, ChatPageNext PROVE ViewInv'
<1>1. view # "search"
  BY DEF ChatPageNext
<1>2. CASE TaskViewStep
  BY <1>2, TaskViewStepKeeps
<1>3. ASSUME NEW c \in Contexts, LeaveChat(c) PROVE ViewInv'
  BY <1>1, <1>3, SwitchKeeps DEF LeaveChat
<1>4. CASE ReviewMessage \/ CancelMessage
  BY <1>4, ReviewKeeps, CloseReviewKeeps DEF ReviewMessage, CancelMessage
<1>5. ASSUME NEW j \in Tasks, SendMessage(j) PROVE ViewInv'
  BY <1>5, SendKeeps DEF SendMessage
<1>6. ASSUME NEW t \in Threads, ChatLoaded(t) PROVE ViewInv'
  <2>1. PICK some \in SUBSET Known : Loaded(t, some)
    BY <1>6 DEF ChatLoaded
  <2>2. some \subseteq Showable
    BY KnownIsShowable
  <2> QED BY <2>1, <2>2, LoadedKeeps
<1>7. ASSUME NEW t \in Threads, TaskApplied(t) PROVE ViewInv'
  BY <1>7, ShownKeeps DEF TaskApplied, Mine
<1>8. ASSUME NEW t \in Threads, LoadFails(t) \/ Reviewed(t) \/ Confirmed(t) \/ Dropped(t, TRUE)
      PROVE  ViewInv'
  BY <1>8, LoadFailsKeeps, ReviewedKeeps, ConfirmedKeeps, DroppedKeeps
<1> QED BY <1>2, <1>3, <1>4, <1>5, <1>6, <1>7, <1>8 DEF ChatPageNext

LEMMA SearchKeeps == ASSUME ViewInv, SearchPageNext PROVE ViewInv'
<1>1. view = "search"
  BY DEF SearchPageNext
<1>2. CASE TaskViewStep
  BY <1>2, TaskViewStepKeeps
<1>3. ASSUME NEW j \in Tasks, Discover(j) PROVE ViewInv'
  BY <1>3, SendKeeps DEF Discover
<1>4. ASSUME NEW t \in Threads, SearchLoaded(t) PROVE ViewInv'
  BY <1>4, ViewHolds, LoadedKeeps DEF SearchLoaded
<1>5. ASSUME NEW t \in Threads, Recommended(t) PROVE ViewInv'
  <2>1. /\ Monitored(t, TRUE) /\ Finish(t) /\ shown' = {t.task}
        /\ UNCHANGED <<view, ctx, aside, reviewing, reviewed, task, calm>>
    BY <1>5 DEF Recommended
  <2>2. t.here
    BY <1>1, <2>1, MonitoredIs DEF ThreadOK, Working
  <2> QED BY <2>1, <2>2, ShownKeeps
<1> QED BY <1>2, <1>3, <1>4, <1>5 DEF SearchPageNext

-----------------------------------------------------------------------------
(* The preparation and the research.                                       *)

\* All go on but t, some of them superseded, and B starts.
LEMMA SupersedingPlaced ==
  ASSUME ViewInv, NEW t \in Threads, NEW pcs, NEW B, Bag(B), \A u \in BagToSet(B) : ThreadOK(u),
         thread' = Superseded(Rest(t), pcs) (+) B
  PROVE  /\ Bag(thread') /\ BagToSet(B) \subseteq Threads' /\ \A u \in Threads' : ThreadOK(u)
         /\ running /\ ~(t.here /\ t.op \in {"send", "resume"}) => Busy(Threads')
         /\ reviewing /\ ~(t.here /\ t.op = "review") => InReview(Threads')
         /\ aside # NoTask /\ view = "research" /\ "opening" \notin pcs
              /\ ~(t.latest /\ t.pc = "opening") => Opens(Threads')
<1>1. /\ (running => Busy(Threads)) /\ (reviewing => InReview(Threads))
      /\ (aside # NoTask /\ view = "research" => Opens(Threads))
      /\ Bag(thread) /\ \A u \in Threads : ThreadOK(u)
  BY ViewHolds
<1>2. PICK T, R, S, U : /\ T = Threads /\ R = BagToSet(Rest(t))
                        /\ S = BagToSet(Superseded(Rest(t), pcs)) /\ U = Threads'
  OBVIOUS
<1>3. Bag(Rest(t)) /\ R \subseteq T /\ T \ {t} \subseteq R
  BY <1>1, <1>2, RestIs
<1>4. \A u \in BagToSet(Rest(t)) : ThreadOK(u)
  BY <1>1, <1>2, <1>3
<1>5. /\ Bag(Superseded(Rest(t), pcs)) /\ \A v \in S : ThreadOK(v)
      /\ (Busy(R) => Busy(S)) /\ (InReview(R) => InReview(S))
      /\ "opening" \notin pcs => (Opens(R) => Opens(S))
  BY <1>2, <1>3, <1>4, SupersededKeep
<1>6. Bag(thread') /\ U = S \cup BagToSet(B)
  BY <1>2, <1>5, PlusIs DEF Threads
<1>7. (Busy(S) => Busy(U)) /\ (InReview(S) => InReview(U)) /\ (Opens(S) => Opens(U))
  BY <1>6, AllStay
<1>8. /\ Busy(T) /\ ~(t.here /\ t.op \in {"send", "resume"}) => Busy(R)
      /\ InReview(T) /\ ~(t.here /\ t.op = "review") => InReview(R)
      /\ Opens(T) /\ ~(t.latest /\ t.pc = "opening") => Opens(R)
  BY <1>3, OthersStay
<1>9. \A u \in Threads' : ThreadOK(u)
  BY <1>2, <1>5, <1>6
<1> QED BY <1>1, <1>2, <1>5, <1>6, <1>7, <1>8, <1>9

\* t goes on as u.
LEMMA SupersedingBecomes ==
  ASSUME ViewInv, NEW t \in Threads, NEW pcs, NEW u, ThreadOK(u), u.here = t.here, u.op = t.op,
         t.pc # "opening", thread' = Superseded(Rest(t), pcs) (+) One(u)
  PROVE  /\ Bag(thread') /\ u \in Threads' /\ \A v \in Threads' : ThreadOK(v)
         /\ running => Busy(Threads')
         /\ reviewing => InReview(Threads')
         /\ aside # NoTask /\ view = "research" /\ "opening" \notin pcs => Opens(Threads')
<1>1. Bag(One(u)) /\ BagToSet(One(u)) = {u}
  BY OneIs
<1>2. /\ Bag(thread') /\ BagToSet(One(u)) \subseteq Threads' /\ \A v \in Threads' : ThreadOK(v)
      /\ running /\ ~(t.here /\ t.op \in {"send", "resume"}) => Busy(Threads')
      /\ reviewing /\ ~(t.here /\ t.op = "review") => InReview(Threads')
      /\ aside # NoTask /\ view = "research" /\ "opening" \notin pcs
           /\ ~(t.latest /\ t.pc = "opening") => Opens(Threads')
  BY <1>1, SupersedingPlaced
<1>3. t.here /\ t.op \in {"send", "resume"} => Busy(Threads')
  BY <1>1, <1>2 DEF Busy
<1>4. t.here /\ t.op = "review" => InReview(Threads')
  BY <1>1, <1>2 DEF InReview
<1> QED BY <1>1, <1>2, <1>3, <1>4

\* All go on, some of them superseded, and u starts.
LEMMA SupersedingStarts ==
  ASSUME ViewInv, NEW pcs, NEW u, ThreadOK(u), thread' = Superseded(thread, pcs) (+) One(u)
  PROVE  /\ Bag(thread') /\ u \in Threads' /\ \A v \in Threads' : ThreadOK(v)
         /\ running => Busy(Threads')
         /\ reviewing => InReview(Threads')
         /\ aside # NoTask /\ view = "research" /\ "opening" \notin pcs => Opens(Threads')
<1>1. /\ (running => Busy(Threads)) /\ (reviewing => InReview(Threads))
      /\ (aside # NoTask /\ view = "research" => Opens(Threads))
      /\ Bag(thread) /\ \A v \in BagToSet(thread) : ThreadOK(v)
  BY ViewHolds DEF Threads
<1>2. PICK T, S, U : T = Threads /\ S = BagToSet(Superseded(thread, pcs)) /\ U = Threads'
  OBVIOUS
<1>3. /\ Bag(Superseded(thread, pcs)) /\ \A v \in S : ThreadOK(v)
      /\ (Busy(T) => Busy(S)) /\ (InReview(T) => InReview(S))
      /\ "opening" \notin pcs => (Opens(T) => Opens(S))
  BY <1>1, <1>2, SupersededKeep DEF Threads
<1>4. Bag(thread') /\ U = S \cup {u}
  BY <1>2, <1>3, OneIs, PlusIs DEF Threads
<1>5. (Busy(S) => Busy(U)) /\ (InReview(S) => InReview(U)) /\ (Opens(S) => Opens(U))
  BY <1>4, AllStay
<1>6. \A v \in Threads' : ThreadOK(v)
  BY <1>2, <1>3, <1>4
<1> QED BY <1>1, <1>2, <1>3, <1>4, <1>5, <1>6

\* What a function has in hand after an unchecked await is the context's, unless
\* the user has left one there.
LEMMA UncheckedOwns ==
  ASSUME NEW t, ThreadOK(t), t.pc \in Working, Unchecked(t) PROVE t.task \in OwnedBy(ctx)
<1>1. t.task \in Started /\ (calm => t.here) /\ (t.here => t.task \in OwnedBy(ctx))
  BY DEF ThreadOK
<1> QED BY <1>1 DEF OwnedBy

LEMMA FetchRevisionKeeps == ASSUME ViewInv, NEW t \in Threads, FetchRevision(t) PROVE ViewInv'
<1>1. PICK u : u = [t EXCEPT !.pc = "fetching"]
  OBVIOUS
<1>2. /\ Monitored(t, TRUE) /\ (t.here \/ t.op = "send") /\ Become(t, u)
      /\ UNCHANGED <<view, ctx, shown, aside, reviewing, reviewed, running, task, calm>>
  BY <1>1 DEF FetchRevision, Mine
<1>3. /\ t.pc = "waiting" /\ ThreadOK(t) /\ t \in ThreadType
      /\ store' = [c \in Contexts |-> store'[c]]
      /\ \A c \in Contexts : store'[c] \in OwnedBy(c) \cup {NoTask}
  BY <1>2, MonitoredIs
<1>4. /\ u \in ThreadType /\ u.pc = "fetching" /\ u.scope = t.scope /\ u.op = t.op /\ u.here = t.here
      /\ u.latest = t.latest /\ u.task = t.task
  BY <1>1, <1>3 DEF ThreadType, Working
<1>5. ThreadOK(u)
  BY <1>2, <1>3, <1>4 DEF ThreadOK, Unchecked, Working
<1>6. u.latest /\ u.pc = "opening" <=> t.latest /\ t.pc = "opening"
  BY <1>3, <1>4
<1> QED BY <1>2, <1>3, <1>4, <1>5, <1>6, BecomeKeeps

LEMMA FetchedKeeps ==
  ASSUME ViewInv, view = "preparation", NEW t \in Threads, Fetched(t) PROVE ViewInv'
<1>1. /\ t.pc = "fetching" /\ UNCHANGED <<view, ctx, aside, reviewing, store, task, calm>>
  BY DEF Fetched
<1>2. /\ ThreadOK(t) /\ t \in ThreadType /\ t.op # "review"
      /\ shown \subseteq Showable /\ aside' \in Showable \cup {NoTask}
      /\ store' = [c \in Contexts |-> store'[c]]
      /\ \A c \in Contexts : store'[c] \in OwnedBy(c) \cup {NoTask}
  BY <1>1, ViewHolds DEF ThreadOK
<1>3. CASE t.here \/ t.op = "resume"
  <2>1. PICK u : u = [t EXCEPT !.pc = "proving", !.latest = TRUE]
    OBVIOUS
  <2>2. /\ shown' = {t.task} /\ reviewed' = "none" /\ running' = running
        /\ thread' = Superseded(Rest(t), {"proving"}) (+) One(u)
    BY <1>3, <2>1 DEF Fetched, Mine
  <2>3. t.task \in OwnedBy(ctx)
    <3>1. CASE t.here
      BY <1>1, <1>2, <3>1 DEF ThreadOK, Working
    <3>2. CASE t.op = "resume"
      BY <1>1, <1>2, <3>2, UncheckedOwns DEF Unchecked, Working
    <3> QED BY <1>3, <3>1, <3>2
  <2>4. /\ u \in ThreadType /\ u.pc = "proving" /\ u.scope = t.scope /\ u.op = t.op /\ u.here = t.here
        /\ u.task = t.task
    BY <1>2, <2>1 DEF ThreadType, Working
  <2>5. ThreadOK(u)
    BY <1>1, <1>2, <2>4 DEF ThreadOK, Unchecked, Working
  <2>6. /\ Bag(thread') /\ \A v \in Threads' : ThreadOK(v)
        /\ running => Busy(Threads')
        /\ reviewing => InReview(Threads')
    BY <1>1, <2>2, <2>4, <2>5, SupersedingBecomes
  <2>7. t.task \in Showable
    BY <2>3, OwnIsShowable, ViewHolds
  <2> QED BY <1>1, <1>2, <2>2, <2>6, <2>7, QuietStepKeeps
<1>4. CASE ~(t.here \/ t.op = "resume")
  <2>1. Finish(t) /\ UNCHANGED <<shown, reviewed>>
    BY <1>4 DEF Fetched, Mine
  <2>2. /\ reviewing' => reviewing /\ ~(t.op = "review" /\ t.here)
        /\ aside' # NoTask /\ view = "research" => aside # NoTask /\ ~(t.latest /\ t.pc = "opening")
    BY <1>1, <1>2
  <2> QED BY <1>1, <1>2, <2>1, <2>2, FinishKeeps
<1> QED BY <1>3, <1>4

LEMMA RefreshKeeps ==
  ASSUME ViewInv, view = "preparation", NEW j \in Tasks, RefreshProvenance(j) PROVE ViewInv'
<1>1. PICK u : u = [NoThread EXCEPT !.pc = "proving", !.op = "prove", !.here = TRUE, !.latest = TRUE,
                                    !.task = j]
  OBVIOUS
<1>2. /\ j \in shown /\ thread' = Superseded(thread, {"proving"}) (+) One(u)
      /\ UNCHANGED <<view, ctx, shown, aside, reviewing, reviewed, running, store, task, calm>>
  BY <1>1 DEF RefreshProvenance
<1>3. /\ shown' \subseteq Showable /\ aside' \in Showable \cup {NoTask}
      /\ store' = [c \in Contexts |-> store'[c]]
      /\ (\A c \in Contexts : store'[c] \in OwnedBy(c) \cup {NoTask})
      /\ j \in OwnedBy(ctx) /\ j \in Started
  BY <1>2, ViewHolds, OwnIsShowable DEF OwnedBy
<1>4. ThreadOK(u)
  BY <1>1, <1>3 DEF ThreadOK, ThreadType, NoThread, Unchecked, Working
<1>5. /\ Bag(thread') /\ \A v \in Threads' : ThreadOK(v)
      /\ running => Busy(Threads')
      /\ reviewing => InReview(Threads')
  BY <1>2, <1>4, SupersedingStarts
<1> QED BY <1>2, <1>3, <1>5, QuietStepKeeps

LEMMA ProvedKeeps ==
  ASSUME ViewInv, view = "preparation", NEW t \in Threads, Proved(t) PROVE ViewInv'
<1>1. /\ t.pc = "proving" /\ Finish(t)
      /\ aside' = (IF t.latest /\ t.task \in shown THEN t.task ELSE aside)
      /\ UNCHANGED <<view, ctx, shown, reviewing, reviewed, store, task, calm>>
  BY DEF Proved, ProofFits
<1>2. /\ shown' \subseteq Showable /\ aside' \in Showable \cup {NoTask}
      /\ store' = [c \in Contexts |-> store'[c]]
      /\ (\A c \in Contexts : store'[c] \in OwnedBy(c) \cup {NoTask})
      /\ t.op # "review"
  BY <1>1, ViewHolds DEF ThreadOK
<1>3. /\ reviewing' => reviewing /\ ~(t.op = "review" /\ t.here)
      /\ aside' # NoTask /\ view = "research" => aside # NoTask /\ ~(t.latest /\ t.pc = "opening")
  BY <1>1, <1>2
<1> QED BY <1>1, <1>2, <1>3, FinishKeeps

LEMMA PreparationKeeps == ASSUME ViewInv, PreparationPageNext PROVE ViewInv'
<1>1. view = "preparation"
  BY DEF PreparationPageNext
<1>2. CASE TaskViewStep
  BY <1>2, TaskViewStepKeeps
<1>3. ASSUME NEW c \in Contexts, LeavePreparation(c) PROVE ViewInv'
  BY <1>1, <1>3, SwitchKeeps DEF LeavePreparation
<1>4. CASE ReviewDraft \/ CloseDraft
  BY <1>4, ReviewKeeps, CloseReviewKeeps DEF ReviewDraft, CloseDraft
<1>5. ASSUME NEW j \in Tasks, Generate(j) PROVE ViewInv'
  BY <1>5, SendKeeps DEF Generate
<1>6. ASSUME NEW t \in Threads, PreparationLoaded(t) PROVE ViewInv'
  BY <1>6, ViewHolds, LoadedKeeps DEF PreparationLoaded
<1>7. ASSUME NEW t \in Threads, LoadFails(t) \/ Reviewed(t) \/ Confirmed(t) \/ Dropped(t, TRUE)
      PROVE  ViewInv'
  BY <1>7, LoadFailsKeeps, ReviewedKeeps, ConfirmedKeeps, DroppedKeeps
<1>8. ASSUME NEW t \in Threads, FetchRevision(t) \/ Fetched(t) \/ Proved(t) PROVE ViewInv'
  BY <1>1, <1>8, FetchRevisionKeeps, FetchedKeeps, ProvedKeeps
<1> QED BY <1>1, <1>2, <1>3, <1>4, <1>5, <1>6, <1>7, <1>8, RefreshKeeps DEF PreparationPageNext

\* A function that opens a record of the posting.
LEMMA OpeningOK ==
  ASSUME ViewInv, view = "research", NEW j \in Showable, NEW u,
         u = [NoThread EXCEPT !.pc = "opening", !.op = "open", !.latest = TRUE, !.task = j]
  PROVE  ThreadOK(u) /\ u.latest /\ u.pc = "opening"
<1>1. j \in Started /\ j \in Tasks
  BY DEF Showable, Started
<1> QED BY <1>1 DEF ThreadOK, ThreadType, NoThread, Unchecked, Working

LEMMA ResearchLoadedKeeps ==
  ASSUME ViewInv, view = "research", NEW t \in Threads, ResearchLoaded(t) PROVE ViewInv'
<1>1. CASE Loaded(t, shown)
  BY <1>1, ViewHolds, LoadedKeeps
<1>2. CASE ~Loaded(t, shown)
  <2>1. PICK j \in Known :
          /\ t.pc = "loading" /\ aside' = j
          /\ thread' = Superseded(Rest(t), {"opening"}) (+) Resumed (+)
               One([NoThread EXCEPT !.pc = "opening", !.op = "open", !.latest = TRUE, !.task = j])
          /\ UNCHANGED <<view, ctx, shown, reviewing, reviewed, running, store, task, calm>>
    BY <1>2 DEF ResearchLoaded
  <2>2. PICK u : u = [NoThread EXCEPT !.pc = "opening", !.op = "open", !.latest = TRUE, !.task = j]
    OBVIOUS
  <2>3. j \in Showable /\ ThreadOK(u) /\ u.latest /\ u.pc = "opening"
    BY <2>2, KnownIsShowable, OpeningOK
  <2>4. PICK S : S = Superseded(Rest(t), {"opening"})
    OBVIOUS
  <2>5. PICK B : B = Resumed (+) One(u)
    OBVIOUS
  <2>6. Bag(B) /\ BagToSet(B) = BagToSet(Resumed) \cup {u} /\ \A v \in BagToSet(B) : ThreadOK(v)
    BY <2>3, <2>5, ResumedIs, OneIs, PlusIs
  <2>7. thread' = S (+) B
    <3>1. /\ Bag(thread) /\ \A v \in BagToSet(thread) : ThreadOK(v)
      BY ViewHolds DEF Threads
    <3>2. Bag(S)
      BY <2>4, <3>1, RestIs, SupersededIs
    <3> QED BY <2>1, <2>2, <2>4, <2>5, <2>6, <3>2, ResumedIs, OneIs, PlusAssociates
  <2>8. /\ Bag(thread') /\ BagToSet(B) \subseteq Threads' /\ \A v \in Threads' : ThreadOK(v)
        /\ running /\ ~(t.here /\ t.op \in {"send", "resume"}) => Busy(Threads')
        /\ reviewing /\ ~(t.here /\ t.op = "review") => InReview(Threads')
    BY <2>4, <2>6, <2>7, SupersedingPlaced
  <2>9. t.op = "load" /\ Opens(Threads')
    BY <2>1, <2>3, <2>6, <2>8, ViewHolds DEF ThreadOK, Opens
  <2>10. /\ shown' \subseteq Showable /\ aside' \in Showable \cup {NoTask}
         /\ store' = [c \in Contexts |-> store'[c]]
         /\ \A c \in Contexts : store'[c] \in OwnedBy(c) \cup {NoTask}
    BY <2>1, <2>3, ViewHolds
  <2> QED BY <2>1, <2>8, <2>9, <2>10, QuietStepKeeps
<1> QED BY <1>1, <1>2

LEMMA ReloadingKeeps == ASSUME ViewInv, NEW t \in Threads, Reloading(t) PROVE ViewInv'
<1>1. PICK u : u = [t EXCEPT !.pc = "reloading", !.latest = TRUE]
  OBVIOUS
<1>2. /\ Monitored(t, TRUE) /\ t.here
      /\ thread' = Superseded(Rest(t), {"loading", "reloading"}) (+) One(u)
      /\ UNCHANGED <<view, ctx, shown, aside, reviewing, reviewed, running, task, calm>>
  BY <1>1 DEF Reloading, Mine
<1>3. /\ t.pc = "waiting" /\ ThreadOK(t) /\ t \in ThreadType
      /\ store' = [c \in Contexts |-> store'[c]]
      /\ \A c \in Contexts : store'[c] \in OwnedBy(c) \cup {NoTask}
  BY <1>2, MonitoredIs
<1>4. /\ u \in ThreadType /\ u.pc = "reloading" /\ u.scope = t.scope /\ u.op = t.op /\ u.here = t.here
      /\ u.task = t.task
  BY <1>1, <1>3 DEF ThreadType, Working
<1>5. ThreadOK(u)
  BY <1>2, <1>3, <1>4 DEF ThreadOK, Unchecked, Working
<1>6. /\ Bag(thread') /\ \A v \in Threads' : ThreadOK(v)
      /\ running => Busy(Threads')
      /\ reviewing => InReview(Threads')
      /\ aside # NoTask /\ view = "research" => Opens(Threads')
  <2>1. t.pc # "opening" /\ "opening" \notin {"loading", "reloading"}
    BY <1>3
  <2> QED BY <1>2, <1>4, <1>5, <2>1, SupersedingBecomes
<1>7. shown' \subseteq Showable /\ aside' \in Showable \cup {NoTask}
  BY <1>2, ViewHolds
<1> QED BY <1>2, <1>3, <1>6, <1>7, QuietStepKeeps

LEMMA ReloadedKeeps == ASSUME ViewInv, NEW t \in Threads, Reloaded(t) PROVE ViewInv'
<1>1. PICK u : u = [t EXCEPT !.pc = "opening", !.latest = TRUE]
  OBVIOUS
<1>2. /\ t.pc = "reloading" /\ aside' = t.task
      /\ thread' = Superseded(Rest(t), {"opening"}) (+) One(u)
      /\ UNCHANGED <<view, ctx, shown, reviewing, reviewed, running, store, task, calm>>
  BY <1>1 DEF Reloaded
<1>3. /\ ThreadOK(t) /\ t \in ThreadType /\ shown \subseteq Showable
      /\ store' = [c \in Contexts |-> store'[c]]
      /\ \A c \in Contexts : store'[c] \in OwnedBy(c) \cup {NoTask}
  BY <1>2, ViewHolds
<1>4. t.task \in OwnedBy(ctx) /\ t.task \in Showable
  <2>1. t.task \in OwnedBy(ctx)
    BY <1>2, <1>3, UncheckedOwns DEF Unchecked, Working
  <2> QED BY <2>1, OwnIsShowable, ViewHolds
<1>5. /\ u \in ThreadType /\ u.pc = "opening" /\ u.scope = t.scope /\ u.op = t.op /\ u.here = t.here
      /\ u.task = t.task /\ u.latest
  BY <1>1, <1>3 DEF ThreadType, Working
<1>6. ThreadOK(u)
  BY <1>2, <1>3, <1>4, <1>5 DEF ThreadOK, Unchecked, Working
<1>7. /\ Bag(thread') /\ u \in Threads' /\ \A v \in Threads' : ThreadOK(v)
      /\ running => Busy(Threads')
      /\ reviewing => InReview(Threads')
  BY <1>2, <1>5, <1>6, SupersedingBecomes
<1>8. Opens(Threads')
  BY <1>5, <1>7 DEF Opens
<1>9. shown' \subseteq Showable /\ aside' \in Showable \cup {NoTask}
  BY <1>2, <1>3, <1>4
<1> QED BY <1>2, <1>3, <1>7, <1>8, <1>9, QuietStepKeeps

LEMMA OpenRecordKeeps ==
  ASSUME ViewInv, view = "research", NEW j \in Tasks, OpenRecord(j) PROVE ViewInv'
<1>1. PICK u : u = [NoThread EXCEPT !.pc = "opening", !.op = "open", !.latest = TRUE, !.task = j]
  OBVIOUS
<1>2. /\ j \in Known /\ aside' = j /\ thread' = Superseded(thread, {"opening"}) (+) One(u)
      /\ UNCHANGED <<view, ctx, shown, reviewing, reviewed, running, store, task, calm>>
  BY <1>1 DEF OpenRecord, RecordList
<1>3. j \in Showable /\ ThreadOK(u) /\ u.latest /\ u.pc = "opening"
  BY <1>1, <1>2, KnownIsShowable, OpeningOK
<1>4. /\ Bag(thread') /\ u \in Threads' /\ \A v \in Threads' : ThreadOK(v)
      /\ running => Busy(Threads')
      /\ reviewing => InReview(Threads')
  BY <1>2, <1>3, SupersedingStarts
<1>5. Opens(Threads')
  BY <1>3, <1>4 DEF Opens
<1>6. /\ shown' \subseteq Showable /\ aside' \in Showable \cup {NoTask}
      /\ store' = [c \in Contexts |-> store'[c]]
      /\ \A c \in Contexts : store'[c] \in OwnedBy(c) \cup {NoTask}
  BY <1>2, <1>3, ViewHolds
<1> QED BY <1>2, <1>4, <1>5, <1>6, QuietStepKeeps

LEMMA OpenedKeeps == ASSUME ViewInv, NEW t \in Threads, Opened(t) PROVE ViewInv'
<1>1. /\ t.pc = "opening" /\ Finish(t)
      /\ shown' = (IF t.latest THEN {t.task} ELSE shown)
      /\ aside' = (IF t.latest THEN NoTask ELSE aside)
      /\ UNCHANGED <<view, ctx, reviewing, reviewed, store, task, calm>>
  BY DEF Opened
<1>2. /\ store' = [c \in Contexts |-> store'[c]]
      /\ (\A c \in Contexts : store'[c] \in OwnedBy(c) \cup {NoTask})
      /\ t.op # "review" /\ (t.latest => t.task \in Showable)
      /\ shown' \subseteq Showable /\ aside' \in Showable \cup {NoTask}
  BY <1>1, ViewHolds DEF ThreadOK
<1>3. /\ reviewing' => reviewing /\ ~(t.op = "review" /\ t.here)
      /\ aside' # NoTask /\ view = "research" => aside # NoTask /\ ~(t.latest /\ t.pc = "opening")
  BY <1>1, <1>2
<1> QED BY <1>1, <1>2, <1>3, FinishKeeps

LEMMA ResearchKeeps == ASSUME ViewInv, ResearchPageNext PROVE ViewInv'
<1>1. view = "research"
  BY DEF ResearchPageNext
<1>2. CASE TaskViewStep
  BY <1>2, TaskViewStepKeeps
<1>3. ASSUME NEW c \in Contexts, LeaveResearch(c) \/ OtherArea(c) PROVE ViewInv'
  BY <1>1, <1>3, SwitchKeeps, ReopenKeeps DEF LeaveResearch, OtherArea
<1>4. ASSUME NEW j \in Tasks, Submit(j) PROVE ViewInv'
  BY <1>4, SendKeeps DEF Submit
<1>5. ASSUME NEW t \in Threads, LoadFails(t) \/ Dropped(t, TRUE) PROVE ViewInv'
  BY <1>5, LoadFailsKeeps, DroppedKeeps
<1>6. ASSUME NEW t \in Threads, ResearchLoaded(t) \/ Reloading(t) \/ Reloaded(t) \/ Opened(t)
      PROVE  ViewInv'
  BY <1>1, <1>6, ResearchLoadedKeeps, ReloadingKeeps, ReloadedKeeps, OpenedKeeps
<1> QED BY <1>1, <1>2, <1>3, <1>4, <1>5, <1>6, OpenRecordKeeps DEF ResearchPageNext

-----------------------------------------------------------------------------
LEMMA ViewStep == ViewInv /\ [ViewNext]_viewVars => ViewInv'
<1> SUFFICES ASSUME ViewInv, [ViewNext]_viewVars PROVE ViewInv'
  OBVIOUS
<1>1. CASE ViewNext
  BY <1>1, ChatKeeps, PreparationKeeps, ResearchKeeps, SearchKeeps DEF ViewNext
<1>2. CASE UNCHANGED viewVars
  <2>1. UNCHANGED <<view, ctx, calm, task, thread, store, aside, reviewing, shown, reviewed, running>>
    BY <1>2 DEF viewVars
  <2> QED BY <2>1, ThreadsRest
<1> QED BY <1>1, <1>2

LEMMA ViewIsSound == ViewInv => ViewSound
<1> SUFFICES ASSUME ViewInv PROVE ViewSound
  OBVIOUS
<1>1. /\ shown \subseteq Showable /\ aside \in Showable \cup {NoTask} /\ reviewed \in {"none", ctx}
      /\ (running => Busy(Threads)) /\ (reviewing => InReview(Threads))
      /\ (aside # NoTask /\ view = "research" => Opens(Threads))
  BY ViewHolds
<1>2. ASSUME NEW t \in Threads, t.here, t.op \in {"send", "resume"} PROVE t.task \in OwnedBy(ctx)
  <2>1. ThreadOK(t) /\ t \in ThreadType
    BY ViewHolds
  <2>2. t.pc \in Working
    BY <1>2, <2>1 DEF ThreadOK, ThreadType
  <2> QED BY <1>2, <2>1, <2>2 DEF ThreadOK
<1>3. ShownBelongs
  <2>1. ASSUME calm, NEW j \in shown \cup ({aside} \ {NoTask}) PROVE task[j].of \in Kin
    BY <1>1, <2>1 DEF Showable
  <2>2. ASSUME calm, NEW t \in Threads, t.here, t.op \in {"send", "resume"} PROVE task[t.task].of = ctx
    BY <1>2, <2>2 DEF OwnedBy
  <2> QED BY <1>1, <2>1, <2>2 DEF ShownBelongs
<1>4. BusyEnds
  BY <1>1 DEF BusyEnds, Busy, InReview, Opens
<1> QED BY <1>3, <1>4 DEF ViewSound

\* ViewSound: for any contexts and tasks, any postings the contexts may share and
\* any number of async functions of a page, what the page's own functions bring
\* was asked for in the very context it is in, what it shows or opens in that
\* context or, on the research page, in one of the same posting, and what it would
\* disclose in that context, unless the user left one while a function was at an
\* await after which it does not look; and a page is busy only while a function of
\* its context is there to end that.
THEOREM ViewsAreSound == ViewSpec => []ViewSound
BY ViewStart, ViewStep, ViewIsSound, PTL DEF ViewSpec

-----------------------------------------------------------------------------
(***************************************************************************)
(* THE PAGES WITH LISTS.                                                   *)
(***************************************************************************)

LEMMA Least == ASSUME NEW S \in SUBSET Nat, S # {} PROVE \E m \in S : \A n \in S : m <= n
<1> DEFINE R == OpToRel(<, Nat)
<1>1. PICK m \in S : \A n \in S : <<n, m>> \notin R
  BY NatLessThanWellFounded, WFMin
<1>2. ASSUME NEW n \in S PROVE m <= n
  <2>1. R = {ss \in Nat \X Nat : ss[1] < ss[2]}
    BY DEF OpToRel
  <2>2. <<n, m>> \notin R /\ <<n, m>> \in Nat \X Nat
    BY <1>1
  <2> HIDE DEF R
  <2>3. ~(n < m)
    BY <2>1, <2>2
  <2> QED BY <2>3
<1> QED BY <1>2

-----------------------------------------------------------------------------
(***************************************************************************)
(* Pages with lists: what they have in common.                             *)
(***************************************************************************)

\* A call and a sheet have their fields, whatever these are.
CallTyped(c) ==
  c = [at |-> c.at, fn |-> c.fn, item |-> c.item, flag |-> c.flag, newest |-> c.newest,
       served |-> c.served, rows |-> c.rows, fresh |-> c.fresh]

SheetTyped(s) == s = [of |-> s.of, content |-> s.content, rows |-> s.rows]

PageTyped(sheets) ==
  /\ call = [t \in Calls |-> call[t]] /\ \A t \in Calls : CallTyped(call[t])
  /\ sheet = [k \in sheets |-> sheet[k]] /\ \A k \in sheets : SheetTyped(sheet[k])

LEMMA FreeCallIs == FreeCalls # {} => FreeCall \in Calls /\ call[FreeCall].at = "idle"
<1> SUFFICES ASSUME FreeCalls # {} PROVE FreeCall \in FreeCalls
  BY DEF FreeCalls
<1>1. FreeCalls \in SUBSET Nat
  BY ListPageAssumption DEF FreeCalls
<1>2. \E t \in FreeCalls : \A u \in FreeCalls : t <= u
  BY <1>1, Least
<1> QED BY <1>2 DEF FreeCall

LEMMA FirstCallIs == \E t \in Calls : \A u \in Calls : t <= u
BY ListPageAssumption, Least

LEMMA NoCallTyped == CallTyped(NoCall) /\ NoCall.at = "idle" /\ ~NoCall.newest
BY DEF CallTyped, NoCall

\* One call changes, or one sheet.
LEMMA CallChanges ==
  ASSUME call = [u \in Calls |-> call[u]], \A u \in Calls : CallTyped(call[u]),
         NEW t \in Calls, NEW d, CallTyped(d), call' = [call EXCEPT ![t] = d]
  PROVE  /\ call' = [u \in Calls |-> call'[u]] /\ \A u \in Calls : CallTyped(call'[u])
         /\ call'[t] = d /\ \A u \in Calls : u # t => call'[u] = call[u]
<1>1. /\ call' = [u \in Calls |-> call'[u]]
      /\ call'[t] = d /\ \A u \in Calls : u # t => call'[u] = call[u]
  OBVIOUS
<1> QED BY <1>1

LEMMA SheetChanges ==
  ASSUME NEW sheets, sheet = [k \in sheets |-> sheet[k]], \A k \in sheets : SheetTyped(sheet[k]),
         NEW k \in sheets, NEW d, SheetTyped(d), sheet' = [sheet EXCEPT ![k] = d]
  PROVE  /\ sheet' = [j \in sheets |-> sheet'[j]] /\ \A j \in sheets : SheetTyped(sheet'[j])
         /\ sheet'[k] = d /\ \A j \in sheets : j # k => sheet'[j] = sheet[j]
<1>1. /\ sheet' = [j \in sheets |-> sheet'[j]]
      /\ sheet'[k] = d /\ \A j \in sheets : j # k => sheet'[j] = sheet[j]
  OBVIOUS
<1> QED BY <1>1

LEMMA BlankIs == SheetTyped(Blank) /\ Blank.of = NoItem /\ Blank.content = "none"
BY DEF SheetTyped, Blank

LEMMA ReceivedIs ==
  ASSUME NEW t, NEW of, NEW d, d = Received(t, of)
  PROVE  SheetTyped(d) /\ d.of = of /\ d.rows = call[t].rows /\ d.content # "none"
BY DEF Received, SheetTyped

\* Fetches that are no longer the newest.
LEMMA OutdatedIs ==
  ASSUME NEW calls, \A u \in Calls : CallTyped(calls[u]), NEW k, NEW u \in Calls
  PROVE  LET d == Outdated(calls, k)[u] IN
         /\ CallTyped(d) /\ d.at = calls[u].at /\ d.fn = calls[u].fn /\ d.item = calls[u].item
         /\ d.flag = calls[u].flag /\ d.served = calls[u].served /\ d.rows = calls[u].rows
         /\ d.fresh = calls[u].fresh
         /\ (d.newest <=> calls[u].newest /\ calls[u].at # k)
<1>1. PICK c : c = calls[u]
  OBVIOUS
<1>2. CallTyped(c) /\ Outdated(calls, k)[u] = IF c.at = k THEN [c EXCEPT !.newest = FALSE] ELSE c
  BY <1>1 DEF Outdated
<1>3. PICK d : d = [c EXCEPT !.newest = FALSE]
  OBVIOUS
<1>4. /\ CallTyped(d) /\ d.at = c.at /\ d.fn = c.fn /\ d.item = c.item /\ d.flag = c.flag
      /\ d.served = c.served /\ d.rows = c.rows /\ d.fresh = c.fresh /\ ~d.newest
  BY <1>2, <1>3 DEF CallTyped
<1> QED BY <1>1, <1>2, <1>3, <1>4

LEMMA OutdatedMaps == ASSUME NEW calls, NEW k PROVE DOMAIN Outdated(calls, k) = Calls /\ Outdated(calls, k) = [u \in Calls |-> Outdated(calls, k)[u]]
BY DEF Outdated

-----------------------------------------------------------------------------
(***************************************************************************)
(* The pages that bring things together.                                   *)
(***************************************************************************)

OverviewSpec == OverviewInit /\ [][OverviewNext]_listPageVars

\* Facts come one after the other and none goes away.
Causal(states) ==
  /\ states \in [Items -> SUBSET Facts]
  /\ \A i \in Items : \A f \in states[i] : Before(f) \subseteq states[i]

StatesGrow(states, later) == Causal(later) /\ \A i \in Items : states[i] \subseteq later[i]

\* What a request for posting i would have been answered, had the server been so.
ReplyIn(r, i, states) ==
  LET has(fact) == {j \in Items : fact \in states[j]}
  IN CASE r = "postings" -> has("listed")
       [] r = "applications" -> has("applied")
       [] r = "research" -> {i} \cap has("studied")
       [] r = "history" -> {i} \cap has("scheduled")
       [] r \in Items -> {r} \cap has("studied")
       [] OTHER -> {}

\* The answers of a load: each has what there was when it began, and only what
\* there is.
RowsOK(known, i, states) ==
  /\ known = [q \in DOMAIN known |-> known[q]]
  /\ "before" \in DOMAIN known /\ Causal(known["before"])
  /\ \A j \in Items : known["before"][j] \subseteq states[j]
  /\ \A r \in DOMAIN known \ {"before"} :
       /\ r \in Lookups \cup Items
       /\ ReplyIn(r, i, known["before"]) \subseteq known[r] /\ known[r] \subseteq ReplyIn(r, i, states)

LoadOK(c, states, p) ==
  /\ c.at \in {"lists", "history", "research"} /\ c.item \in Items /\ c.flag = PageLoading
  /\ RowsOK(c.rows, c.item, states)
  /\ c.at = "history" =>
       /\ p = "job" /\ {"postings", "applications", "research"} \subseteq DOMAIN c.rows
       /\ c.item \in c.rows["applications"]
  /\ c.at = "research" => p = "search" /\ "postings" \in DOMAIN c.rows

\* The lists shown, of a load for posting i.
ListsOK(i, names) ==
  RowsOK(sheet["lists"].rows, i, backend) /\ names \subseteq DOMAIN sheet["lists"].rows

JobListsOK ==
  sheet["lists"].content # "none"
    => ListsOK(sheet["lists"].of, {"postings", "applications", "research"})

\* The workspace: the load for the posting of the route is under way, has failed,
\* or has brought what is shown.
JobInv ==
  /\ Here \in Items
  /\ \A t \in Calls : call[t].at # "idle" /\ call[t].newest => call[t].item = Here
  /\ JobListsOK
  /\ InterviewsShown \subseteq {Here} \cap With("scheduled")
  /\ InterviewsShown # {} => ApplicationShown
  /\ errors = {} =>
       \/ \E t \in Calls : call[t].at # "idle" /\ call[t].newest
       \/ /\ sheet["lists"].content # "none" /\ sheet["lists"].of = Here
          /\ Here \in Then("scheduled") => Here \in InterviewsShown

SearchInv ==
  /\ \A t, u \in Calls : call[t].at # "idle" /\ call[u].at # "idle" => t = u
  /\ sheet["lists"].content # "none" => \E i \in Items : ListsOK(i, {"postings"})
  /\ sheet["research"].content # "none" => sheet["research"].rows \subseteq With("studied")
  /\ \A t \in Calls : call[t].at = "research" =>
       /\ sheet["lists"].content # "none"
       /\ sheet["lists"].rows["before"] = call[t].rows["before"]
       /\ sheet["lists"].rows["postings"] = call[t].rows["postings"]
  /\ errors = {} =>
       \/ \E t \in Calls : call[t].at # "idle"
       \/ /\ sheet["lists"].content # "none" /\ sheet["research"].content # "none"
          /\ Then("studied") \subseteq sheet["research"].rows

HomeInv ==
  /\ sheet["lists"].content # "none" => \E i \in Items : ListsOK(i, {"postings", "applications"})
  /\ PageLoading \in flags => \E t \in Calls : call[t].at # "idle"
  /\ errors = {} => (\E t \in Calls : call[t].at # "idle") \/ sheet["lists"].content # "none"


OverviewSheets == {"lists", "research", "interviews"}

OverviewBase ==
  /\ page \in {"home", "search", "job"}
  /\ PageTyped(OverviewSheets)
  /\ Causal(backend)
  /\ \A t \in Calls : call[t].at # "idle" => LoadOK(call[t], backend, page)

OverviewInv ==
  /\ OverviewBase
  /\ page = "job" => JobInv
  /\ page = "search" => SearchInv
  /\ page = "home" => HomeInv

-----------------------------------------------------------------------------
LEMMA ReplyGrows ==
  ASSUME NEW states, NEW later, \A i \in Items : states[i] \subseteq later[i],
         NEW r \in Lookups \cup Items, NEW i
  PROVE  ReplyIn(r, i, states) \subseteq ReplyIn(r, i, later)
<1>1. CASE r \in Items
  BY <1>1, OverviewAssumption DEF ReplyIn, Lookups
<1>2. CASE r \in Lookups
  BY <1>2, OverviewAssumption DEF ReplyIn, Lookups
<1> QED BY <1>1, <1>2

LEMMA RowsGrow ==
  ASSUME NEW states, NEW later, StatesGrow(states, later), NEW known, NEW i, RowsOK(known, i, states)
  PROVE  RowsOK(known, i, later)
<1>1. \A r \in Lookups \cup Items : ReplyIn(r, i, states) \subseteq ReplyIn(r, i, later)
  BY ReplyGrows DEF StatesGrow
<1>2. \A j \in Items : known["before"][j] \subseteq later[j]
  BY DEF RowsOK, StatesGrow
<1> QED BY <1>1, <1>2 DEF RowsOK

\* A load that begins.
LEMMA RowsBegin ==
  ASSUME Causal(backend), NEW i
  PROVE  RowsOK([before |-> backend], i, backend)
<1>1. PICK known : known = [before |-> backend]
  OBVIOUS
<1>2. /\ DOMAIN known = {"before"} /\ known = [q \in DOMAIN known |-> known[q]]
      /\ known["before"] = backend
  BY <1>1
<1>3. RowsOK(known, i, backend)
  BY <1>2 DEF RowsOK
<1> QED BY <1>1, <1>3

LEMMA ReplyIs ==
  ASSUME NEW r \in Lookups \cup Items, NEW i PROVE Reply(r, i) = ReplyIn(r, i, backend)
BY OverviewAssumption DEF Reply, ReplyIn, With, Lookups

\* An answer is added.
LEMMA RowsAnswered ==
  ASSUME NEW known, NEW i, RowsOK(known, i, backend), Causal(backend),
         NEW r \in Lookups \cup Items,
         NEW new, new = [q \in DOMAIN known \cup {r} |-> IF q = r THEN Reply(r, i) ELSE known[q]]
  PROVE  /\ RowsOK(new, i, backend) /\ DOMAIN new = DOMAIN known \cup {r}
         /\ new["before"] = known["before"]
         /\ r \notin DOMAIN known => \A q \in DOMAIN known : new[q] = known[q]
<1>1. r # "before"
  BY OverviewAssumption DEF Lookups
<1>2. /\ DOMAIN new = DOMAIN known \cup {r} /\ new = [q \in DOMAIN new |-> new[q]]
      /\ new[r] = ReplyIn(r, i, backend)
      /\ \A q \in DOMAIN known : q # r => new[q] = known[q]
  BY ReplyIs
<1>3. "before" \in DOMAIN known /\ new["before"] = known["before"]
  BY <1>1, <1>2 DEF RowsOK
<1>4. ReplyIn(r, i, known["before"]) \subseteq ReplyIn(r, i, backend)
  BY ReplyGrows DEF RowsOK
<1>5. ASSUME NEW q \in DOMAIN new \ {"before"}
      PROVE  /\ q \in Lookups \cup Items
             /\ ReplyIn(q, i, known["before"]) \subseteq new[q] /\ new[q] \subseteq ReplyIn(q, i, backend)
  <2>1. CASE q = r
    BY <1>2, <1>4, <2>1
  <2>2. CASE q # r
    BY <1>2, <2>2 DEF RowsOK
  <2> QED BY <2>1, <2>2
<1>6. RowsOK(new, i, backend)
  BY <1>2, <1>3, <1>5 DEF RowsOK
<1> QED BY <1>2, <1>3, <1>6

\* What the answers say.
LEMMA RowsSay ==
  ASSUME NEW known, NEW i, NEW states, RowsOK(known, i, states)
  PROVE  LET was(fact) == {j \in Items : fact \in known["before"][j]}
             is(fact) == {j \in Items : fact \in states[j]}
         IN /\ "postings" \in DOMAIN known => was("listed") \subseteq known["postings"] /\ known["postings"] \subseteq is("listed")
            /\ "applications" \in DOMAIN known => was("applied") \subseteq known["applications"] /\ known["applications"] \subseteq is("applied")
            /\ "research" \in DOMAIN known => {i} \cap was("studied") \subseteq known["research"] /\ known["research"] \subseteq {i} \cap is("studied")
            /\ "history" \in DOMAIN known => {i} \cap was("scheduled") \subseteq known["history"] /\ known["history"] \subseteq {i} \cap is("scheduled")
            /\ "general" \in DOMAIN known => known["general"] = {}
            /\ \A j \in Items \cap DOMAIN known : {j} \cap was("studied") \subseteq known[j] /\ known[j] \subseteq {j} \cap is("studied")
<1> DEFINE was(fact) == {j \in Items : fact \in known["before"][j]}
           is(fact) == {j \in Items : fact \in states[j]}
<1>1. ASSUME NEW r \in DOMAIN known, r \in Lookups \cup Items
      PROVE  ReplyIn(r, i, known["before"]) \subseteq known[r] /\ known[r] \subseteq ReplyIn(r, i, states)
  BY <1>1, OverviewAssumption DEF RowsOK, Lookups
<1>2. ASSUME NEW s
      PROVE  LET has(fact) == {j \in Items : fact \in s[j]}
             IN /\ ReplyIn("postings", i, s) = has("listed") /\ ReplyIn("applications", i, s) = has("applied")
                /\ ReplyIn("research", i, s) = {i} \cap has("studied")
                /\ ReplyIn("history", i, s) = {i} \cap has("scheduled")
                /\ ReplyIn("general", i, s) = {}
                /\ \A j \in Items : ReplyIn(j, i, s) = {j} \cap has("studied")
  BY OverviewAssumption DEF ReplyIn, Lookups
<1>3. "postings" \in DOMAIN known => was("listed") \subseteq known["postings"] /\ known["postings"] \subseteq is("listed")
  BY <1>1, <1>2 DEF Lookups
<1>4. "applications" \in DOMAIN known => was("applied") \subseteq known["applications"] /\ known["applications"] \subseteq is("applied")
  BY <1>1, <1>2 DEF Lookups
<1>5. "research" \in DOMAIN known => {i} \cap was("studied") \subseteq known["research"] /\ known["research"] \subseteq {i} \cap is("studied")
  BY <1>1, <1>2 DEF Lookups
<1>6. "history" \in DOMAIN known => {i} \cap was("scheduled") \subseteq known["history"] /\ known["history"] \subseteq {i} \cap is("scheduled")
  BY <1>1, <1>2 DEF Lookups
<1>7. "general" \in DOMAIN known => known["general"] = {}
  BY <1>1, <1>2 DEF Lookups
<1>8. \A j \in Items \cap DOMAIN known : {j} \cap was("studied") \subseteq known[j] /\ known[j] \subseteq {j} \cap is("studied")
  BY <1>1, <1>2
<1> QED BY <1>3, <1>4, <1>5, <1>6, <1>7, <1>8

-----------------------------------------------------------------------------
LEMMA OverviewTyped ==
  ASSUME OverviewBase
  PROVE  /\ call = [t \in Calls |-> call[t]] /\ \A t \in Calls : CallTyped(call[t])
         /\ sheet = [k \in OverviewSheets |-> sheet[k]] /\ \A k \in OverviewSheets : SheetTyped(sheet[k])
         /\ page \in {"home", "search", "job"} /\ Causal(backend)
         /\ \A t \in Calls : call[t].at # "idle" => LoadOK(call[t], backend, page)
BY DEF OverviewBase, PageTyped

LEMMA LoadIs ==
  ASSUME Causal(backend), NEW i \in Items, NEW d, d = Load(i)
  PROVE  /\ CallTyped(d) /\ d.at = "lists" /\ d.newest /\ d.item = i /\ d.rows = [before |-> backend]
         /\ \A p : LoadOK(d, backend, p)
<1>1. PICK n, known : n = NoCall /\ known = [before |-> backend]
  OBVIOUS
<1>2. CallTyped(n) /\ RowsOK(known, i, backend)
  BY <1>1, NoCallTyped, RowsBegin
<1>3. d = [n EXCEPT !.at = "lists", !.item = i, !.newest = TRUE, !.flag = PageLoading, !.rows = known]
  BY <1>1 DEF Load
<1>4. /\ CallTyped(d) /\ d.at = "lists" /\ d.newest /\ d.item = i /\ d.rows = known
      /\ d.flag = PageLoading
  BY <1>2, <1>3 DEF CallTyped
<1>5. \A p : LoadOK(d, backend, p)
  BY <1>2, <1>4 DEF LoadOK
<1> QED BY <1>1, <1>4, <1>5

LEMMA LoadGrows ==
  ASSUME NEW states, NEW later, StatesGrow(states, later), NEW c, NEW p, LoadOK(c, states, p)
  PROVE  LoadOK(c, later, p)
BY RowsGrow DEF LoadOK

\* What a load asks for.
LEMMA WantedIs ==
  ASSUME OverviewBase, NEW t \in Calls, call[t].at # "idle"
  PROVE  /\ Wanted(t) \subseteq Lookups \cup Items
         /\ call[t].at = "research" => Wanted(t) = {"general"} \cup call[t].rows["postings"]
         /\ call[t].at = "history" => Wanted(t) = {"history"}
         /\ call[t].at = "lists" =>
              /\ "postings" \in Wanted(t)
              /\ page = "home" => "applications" \in Wanted(t)
              /\ page = "job" => {"applications", "research"} \subseteq Wanted(t)
<1>1. LoadOK(call[t], backend, page) /\ page \in {"home", "search", "job"}
  BY DEF OverviewBase
<1>2. call[t].at \in {"lists", "history", "research"} /\ RowsOK(call[t].rows, call[t].item, backend)
      /\ (call[t].at = "history" => page = "job")
      /\ (call[t].at = "research" => page = "search" /\ "postings" \in DOMAIN call[t].rows)
  BY <1>1 DEF LoadOK
<1>3. call[t].at = "research" =>
        Wanted(t) = {"general"} \cup call[t].rows["postings"] /\ call[t].rows["postings"] \subseteq Items
  <2> HAVE call[t].at = "research"
  <2>1. call[t].rows["postings"] \subseteq Items
    BY <1>2, RowsSay
  <2>2. Wanted(t) = {"general"} \cup call[t].rows["postings"]
    BY <1>2 DEF Wanted, ResearchOf
  <2> QED BY <2>1, <2>2
<1>4. call[t].at = "history" => Wanted(t) = {"history"}
  BY <1>2 DEF Wanted
<1>5. call[t].at = "lists" =>
        Wanted(t) = IF page = "home" THEN {"postings", "applications"}
                    ELSE IF page = "search" THEN {"postings"}
                    ELSE {"postings", "applications", "research"}
  BY <1>1 DEF Wanted
<1> QED BY <1>1, <1>2, <1>3, <1>4, <1>5 DEF Lookups

\* A load goes on, or ends.
LEMMA BaseMoves ==
  ASSUME OverviewBase, UNCHANGED <<page, backend>>,
         NEW t \in Calls, NEW d, CallTyped(d), call' = [call EXCEPT ![t] = d],
         d.at # "idle" => LoadOK(d, backend, page),
         sheet' = [k \in OverviewSheets |-> sheet'[k]], \A k \in OverviewSheets : SheetTyped(sheet'[k])
  PROVE  OverviewBase' /\ call'[t] = d /\ \A u \in Calls : u # t => call'[u] = call[u]
<1>1. /\ call' = [u \in Calls |-> call'[u]] /\ \A u \in Calls : CallTyped(call'[u])
      /\ call'[t] = d /\ \A u \in Calls : u # t => call'[u] = call[u]
  BY OverviewTyped, CallChanges
<1>2. ASSUME NEW u \in Calls, call'[u].at # "idle" PROVE LoadOK(call'[u], backend', page')
  <2>1. CASE u = t
    BY <1>1, <1>2, <2>1
  <2>2. CASE u # t
    BY <1>1, <1>2, <2>2, OverviewTyped
  <2> QED BY <2>1, <2>2
<1>3. PageTyped(OverviewSheets)'
  BY <1>1 DEF PageTyped
<1> QED BY <1>1, <1>2, <1>3, OverviewTyped DEF OverviewBase

LEMMA OverviewStart == OverviewInit => OverviewInv
<1> SUFFICES ASSUME OverviewInit PROVE OverviewInv
  OBVIOUS
<1>1. Causal(backend)
  <2>1. backend \in [Items -> SUBSET Facts]
    BY DEF OverviewInit, Facts
  <2>2. ASSUME NEW i \in Items, NEW f \in backend[i] PROVE Before(f) \subseteq backend[i]
    <3>1. backend[i] \in {{}, {"listed", "applied"}, Facts} /\ f \in Facts
      BY <2>1 DEF OverviewInit
    <3>2. f \in {"listed", "applied"} => Before(f) \subseteq {"listed"}
      BY DEF Before
    <3>3. Before(f) \subseteq {"listed", "applied"}
      BY <3>1 DEF Before, Facts
    <3> QED BY <3>1, <3>2, <3>3 DEF Facts
  <2> QED BY <2>1, <2>2 DEF Causal
<1>2. PICK i \in Items :
        /\ sheet = [k \in OverviewSheets |-> IF k = "interviews" THEN NoInterviews(i) ELSE Blank]
        /\ call = [t \in Calls |-> IF \A u \in Calls : t <= u THEN Load(i) ELSE NoCall]
  BY DEF OverviewInit, OverviewSheets
<1>3. PICK d : d = Load(i)
  OBVIOUS
<1>4. CallTyped(d) /\ d.at = "lists" /\ d.newest /\ d.item = i /\ \A p : LoadOK(d, backend, p)
  BY <1>1, <1>3, LoadIs
<1>5. PICK t \in Calls : \A u \in Calls : t <= u
  BY FirstCallIs
<1>6. /\ call = [u \in Calls |-> IF u = t THEN d ELSE NoCall]
  <2>1. \A u \in Calls : (\A v \in Calls : u <= v) <=> u = t
    BY <1>5, ListPageAssumption
  <2> QED BY <1>2, <1>3, <2>1
<1>7. PICK n : n = NoInterviews(i)
  OBVIOUS
<1>8. SheetTyped(n) /\ n.of = i /\ n.content = "none" /\ n.rows = {}
  BY <1>7 DEF NoInterviews, Blank, SheetTyped
<1>9. /\ sheet = [k \in OverviewSheets |-> sheet[k]]
      /\ sheet["interviews"] = n /\ sheet["lists"] = Blank /\ sheet["research"] = Blank
  BY <1>2, <1>7 DEF OverviewSheets
<1>10. OverviewBase
  <2>1. \A u \in Calls : CallTyped(call[u]) /\ (call[u].at # "idle" => u = t /\ call[u] = d)
    BY <1>4, <1>6, NoCallTyped
  <2>2. \A k \in OverviewSheets : SheetTyped(sheet[k])
    BY <1>8, <1>9, BlankIs DEF OverviewSheets
  <2>3. PageTyped(OverviewSheets)
    BY <1>6, <1>9, <2>1, <2>2 DEF PageTyped
  <2> QED BY <1>1, <1>4, <2>1, <2>3 DEF OverviewBase, OverviewInit
<1>11. Here = i /\ sheet["lists"].content = "none" /\ sheet["research"].content = "none"
       /\ sheet["interviews"].rows = {}
  BY <1>8, <1>9, BlankIs DEF Here
<1>12. call[t] = d /\ \A u \in Calls : call[u].at # "idle" => u = t
  BY <1>4, <1>6, NoCallTyped
<1>13. JobInv
  BY <1>4, <1>11, <1>12 DEF JobInv, JobListsOK, InterviewsShown
<1>14. SearchInv
  BY <1>4, <1>11, <1>12 DEF SearchInv
<1>15. HomeInv
  BY <1>4, <1>11, <1>12 DEF HomeInv
<1> QED BY <1>10, <1>13, <1>14, <1>15 DEF OverviewInv

\* The server gets more, or nothing happens.
LEMMA ServerGrows ==
  ASSUME OverviewInv, StatesGrow(backend, backend'), UNCHANGED <<page, sheet, flags, errors, call>>
  PROVE  OverviewInv'
<1>1. \A known, i : RowsOK(known, i, backend) => RowsOK(known, i, backend')
  BY RowsGrow
<1>2. \A fact : With(fact) \subseteq With(fact)'
  BY DEF StatesGrow, With
<1>3. OverviewBase'
  <2>1. \A t \in Calls : call[t].at # "idle" => LoadOK(call[t], backend', page)
    BY LoadGrows, OverviewTyped DEF OverviewInv
  <2>2. PageTyped(OverviewSheets)'
    BY DEF OverviewInv, OverviewBase, PageTyped
  <2>3. Causal(backend')
    BY DEF StatesGrow
  <2> QED BY <2>1, <2>2, <2>3 DEF OverviewInv, OverviewBase
<1>4. \A i, names : ListsOK(i, names) => ListsOK(i, names)'
  BY <1>1 DEF ListsOK
<1>5. page = "job" => JobInv'
  BY <1>2, <1>4 DEF OverviewInv, JobInv, JobListsOK, InterviewsShown, ApplicationShown, Here, Then
<1>6. page = "search" => SearchInv'
  BY <1>2, <1>4 DEF OverviewInv, SearchInv, Then
<1>7. page = "home" => HomeInv'
  BY <1>4 DEF OverviewInv, HomeInv
<1> QED BY <1>3, <1>5, <1>6, <1>7 DEF OverviewInv

LEMMA BecomesKeeps ==
  ASSUME OverviewInv, NEW i \in Items, NEW fact \in Facts, Becomes(i, fact) PROVE OverviewInv'
<1>1. backend \in [Items -> SUBSET Facts] /\ Causal(backend)
  BY DEF OverviewInv, OverviewBase, Causal
<1>2. /\ backend' = [backend EXCEPT ![i] = backend[i] \cup {fact}] /\ Before(fact) \subseteq backend[i]
      /\ UNCHANGED <<page, sheet, flags, errors, call>>
  BY DEF Becomes
<1>3. /\ backend' \in [Items -> SUBSET Facts] /\ backend'[i] = backend[i] \cup {fact}
      /\ \A j \in Items : j # i => backend'[j] = backend[j]
  BY <1>1, <1>2
<1>4. ASSUME NEW j \in Items PROVE backend[j] \subseteq backend'[j]
                                   /\ \A f \in backend'[j] : Before(f) \subseteq backend'[j]
  <2>1. CASE j = i
    BY <1>1, <1>2, <1>3, <2>1 DEF Causal
  <2>2. CASE j # i
    BY <1>1, <1>3, <2>2 DEF Causal
  <2> QED BY <2>1, <2>2
<1>5. StatesGrow(backend, backend')
  BY <1>3, <1>4 DEF StatesGrow, Causal
<1> QED BY <1>2, <1>5, ServerGrows

\* An answer comes, a load of the workspace goes on: the lists stay as they are.
LEMMA LoadMovesOn ==
  ASSUME OverviewInv, UNCHANGED <<page, backend, sheet, flags, errors>>,
         NEW t \in Calls, NEW d, CallTyped(d), call' = [call EXCEPT ![t] = d],
         call[t].at # "idle", LoadOK(d, backend, page),
         d.newest = call[t].newest, d.item = call[t].item,
         d.at = "research" =>
           /\ call[t].at = "research"
           /\ d.rows["before"] = call[t].rows["before"] /\ d.rows["postings"] = call[t].rows["postings"]
  PROVE  OverviewInv'
<1>1. OverviewBase
  BY DEF OverviewInv
<1>2. OverviewBase' /\ call'[t] = d /\ \A u \in Calls : u # t => call'[u] = call[u]
  BY <1>1, OverviewTyped, BaseMoves
<1>3. d.at # "idle"
  BY DEF LoadOK
<1>4. \A i, names : ListsOK(i, names)' <=> ListsOK(i, names)
  BY DEF ListsOK
<1>5. \A u \in Calls : (call'[u].at # "idle" <=> call[u].at # "idle") /\ call'[u].newest = call[u].newest
                       /\ call'[u].item = call[u].item
  BY <1>2, <1>3
<1>6. page = "job" => JobInv'
  BY <1>4, <1>5 DEF OverviewInv, JobInv, JobListsOK, InterviewsShown, ApplicationShown, Here, Then, With
<1>7. page = "search" => SearchInv'
  <2>1. \A u \in Calls : call'[u].at = "research" =>
          /\ call[u].at = "research"
          /\ call'[u].rows["before"] = call[u].rows["before"]
          /\ call'[u].rows["postings"] = call[u].rows["postings"]
    BY <1>2
  <2> QED BY <1>4, <1>5, <2>1 DEF OverviewInv, SearchInv, With, Then
<1>8. page = "home" => HomeInv'
  BY <1>4, <1>5 DEF OverviewInv, HomeInv
<1> QED BY <1>2, <1>6, <1>7, <1>8 DEF OverviewInv

LEMMA AnsweredKeeps ==
  ASSUME OverviewInv, NEW t \in Calls, NEW r \in Unanswered(t), Answered(t, r) PROVE OverviewInv'
<1>1. OverviewBase
  BY DEF OverviewInv
<1>2. PICK c, known, new :
        /\ c = call[t] /\ known = c.rows
        /\ new = [q \in DOMAIN known \cup {r} |-> IF q = r THEN Reply(r, c.item) ELSE known[q]]
  OBVIOUS
<1>3. /\ c.at # "idle" /\ r \notin DOMAIN known
      /\ call' = [call EXCEPT ![t].rows = new]
      /\ UNCHANGED <<page, backend, sheet, flags, errors>>
  BY <1>2 DEF Answered, Unanswered
<1>4. CallTyped(c) /\ LoadOK(c, backend, page) /\ RowsOK(known, c.item, backend) /\ Causal(backend)
  BY <1>1, <1>2, <1>3, OverviewTyped DEF LoadOK
<1>5. r \in Lookups \cup Items
  BY <1>1, <1>2, <1>3, WantedIs DEF Unanswered
<1>6. /\ RowsOK(new, c.item, backend) /\ DOMAIN new = DOMAIN known \cup {r}
      /\ new["before"] = known["before"] /\ \A q \in DOMAIN known : new[q] = known[q]
  BY <1>2, <1>3, <1>4, <1>5, RowsAnswered
<1>7. PICK d : d = [c EXCEPT !.rows = new]
  OBVIOUS
<1>8. /\ CallTyped(d) /\ d.at = c.at /\ d.item = c.item /\ d.flag = c.flag /\ d.newest = c.newest
      /\ d.rows = new
  BY <1>4, <1>7 DEF CallTyped
<1>9. LoadOK(d, backend, page)
  BY <1>2, <1>4, <1>6, <1>8 DEF LoadOK
<1>10. call' = [call EXCEPT ![t] = d]
  BY <1>1, <1>2, <1>3, <1>7, OverviewTyped
<1>11. d.at = "research" =>
         /\ call[t].at = "research"
         /\ d.rows["before"] = call[t].rows["before"] /\ d.rows["postings"] = call[t].rows["postings"]
  BY <1>2, <1>4, <1>6, <1>8 DEF LoadOK
<1> QED BY <1>2, <1>3, <1>8, <1>9, <1>10, <1>11, LoadMovesOn

LEMMA WorkspaceGoesOnKeeps ==
  ASSUME OverviewInv, NEW t \in Calls, WorkspaceGoesOn(t) PROVE OverviewInv'
<1>1. OverviewBase
  BY DEF OverviewInv
<1>2. PICK c : c = call[t]
  OBVIOUS
<1>3. /\ page = "job" /\ c.at = "lists" /\ Wanted(t) \subseteq DOMAIN c.rows
      /\ c.item \in c.rows["applications"] /\ call' = [call EXCEPT ![t].at = "history"]
      /\ UNCHANGED <<page, backend, sheet, flags, errors>>
  BY <1>2 DEF WorkspaceGoesOn, Unanswered
<1>4. CallTyped(c) /\ LoadOK(c, backend, page)
  BY <1>1, <1>2, <1>3, OverviewTyped
<1>5. {"postings", "applications", "research"} \subseteq DOMAIN c.rows
  BY <1>1, <1>2, <1>3, WantedIs
<1>6. PICK d : d = [c EXCEPT !.at = "history"]
  OBVIOUS
<1>7. /\ CallTyped(d) /\ d.at = "history" /\ d.item = c.item /\ d.flag = c.flag /\ d.newest = c.newest
      /\ d.rows = c.rows
  BY <1>4, <1>6 DEF CallTyped
<1>8. LoadOK(d, backend, page)
  BY <1>3, <1>4, <1>5, <1>7 DEF LoadOK
<1>9. call' = [call EXCEPT ![t] = d]
  BY <1>1, <1>2, <1>3, <1>6, OverviewTyped
<1> QED BY <1>2, <1>3, <1>7, <1>8, <1>9, LoadMovesOn

LEMMA OpenPostingKeeps ==
  ASSUME OverviewInv, NEW i \in Items, OpenPosting(i) PROVE OverviewInv'
<1>1. OverviewBase /\ JobInv /\ Causal(backend)
  BY DEF OverviewInv, OpenPosting, OverviewBase
<1>2. PICK old, d, n : /\ old = Outdated(Outdated(call, "lists"), "history")
                       /\ d = Load(i) /\ n = NoInterviews(i)
  OBVIOUS
<1>3. /\ page = "job" /\ FreeCalls # {} /\ errors' = {}
      /\ sheet' = [sheet EXCEPT !["interviews"] = n]
      /\ call' = [old EXCEPT ![FreeCall] = d]
      /\ UNCHANGED <<page, backend>>
  BY <1>2 DEF OpenPosting
<1>4. SheetTyped(n) /\ n.of = i /\ n.content = "none" /\ n.rows = {}
  BY <1>2 DEF NoInterviews, Blank, SheetTyped
<1>5. /\ sheet' = [k \in OverviewSheets |-> sheet'[k]] /\ \A k \in OverviewSheets : SheetTyped(sheet'[k])
      /\ sheet'["interviews"] = n /\ sheet'["lists"] = sheet["lists"]
  BY <1>1, <1>3, <1>4, OverviewTyped, SheetChanges DEF OverviewSheets
<1>6. CallTyped(d) /\ d.at = "lists" /\ d.newest /\ d.item = i /\ LoadOK(d, backend, page)
  BY <1>1, <1>2, LoadIs
<1>7. /\ old = [u \in Calls |-> old[u]]
      /\ \A u \in Calls : /\ CallTyped(old[u]) /\ old[u].at = call[u].at /\ old[u].item = call[u].item
                          /\ old[u].flag = call[u].flag /\ old[u].rows = call[u].rows
                          /\ old[u].newest => call[u].at \notin {"lists", "history"}
  <2>1. PICK mid : mid = Outdated(call, "lists")
    OBVIOUS
  <2>2. \A u \in Calls : /\ CallTyped(mid[u]) /\ mid[u].at = call[u].at /\ mid[u].item = call[u].item
                         /\ mid[u].flag = call[u].flag /\ mid[u].rows = call[u].rows
                         /\ mid[u].newest => call[u].at # "lists"
    BY <1>1, <2>1, OverviewTyped, OutdatedIs
  <2>3. old = Outdated(mid, "history")
    BY <1>2, <2>1
  <2>4. \A u \in Calls : /\ CallTyped(old[u]) /\ old[u].at = mid[u].at /\ old[u].item = mid[u].item
                         /\ old[u].flag = mid[u].flag /\ old[u].rows = mid[u].rows
                         /\ (old[u].newest <=> mid[u].newest /\ mid[u].at # "history")
    BY <2>2, <2>3, OutdatedIs
  <2> QED BY <2>2, <2>3, <2>4, OutdatedMaps
<1>8. FreeCall \in Calls /\ call[FreeCall].at = "idle"
  BY <1>3, FreeCallIs
<1>9. /\ call' = [u \in Calls |-> call'[u]] /\ call'[FreeCall] = d
      /\ \A u \in Calls : u # FreeCall => call'[u] = old[u]
  BY <1>3, <1>7, <1>8
<1>10. OverviewBase'
  <2>1. \A u \in Calls : CallTyped(call'[u])
    BY <1>6, <1>7, <1>9
  <2>2. ASSUME NEW u \in Calls, call'[u].at # "idle" PROVE LoadOK(call'[u], backend, page)
    <3>1. CASE u = FreeCall
      BY <1>6, <1>9, <3>1
    <3>2. CASE u # FreeCall
      <4>1. call[u].at # "idle" /\ LoadOK(call[u], backend, page)
        BY <1>1, <1>7, <1>9, <2>2, <3>2, OverviewTyped
      <4> QED BY <1>7, <1>9, <3>2, <4>1 DEF LoadOK
    <3> QED BY <3>1, <3>2
  <2>3. PageTyped(OverviewSheets)'
    BY <1>5, <1>9, <2>1 DEF PageTyped
  <2> QED BY <1>1, <1>3, <2>2, <2>3 DEF OverviewBase
<1>11. \A u \in Calls : call'[u].at # "idle" /\ call'[u].newest => u = FreeCall
  <2> SUFFICES ASSUME NEW u \in Calls, call'[u].at # "idle", call'[u].newest, u # FreeCall PROVE FALSE
    OBVIOUS
  <2>1. call[u].at # "idle" /\ call[u].at \notin {"lists", "history"}
    BY <1>7, <1>9
  <2>2. LoadOK(call[u], backend, page)
    BY <1>1, <2>1, OverviewTyped
  <2> QED BY <1>3, <2>1, <2>2 DEF LoadOK
<1>12. Here' = i /\ sheet'["interviews"].rows = {}
  BY <1>4, <1>5 DEF Here
<1>13. JobListsOK'
  BY <1>1, <1>3, <1>5 DEF JobInv, JobListsOK, ListsOK
<1>14. JobInv'
  BY <1>6, <1>8, <1>9, <1>11, <1>12, <1>13 DEF JobInv, InterviewsShown
<1> QED BY <1>3, <1>10, <1>14 DEF OverviewInv

\* A load that ends without a change of the sheets.
LEMMA OverviewLoadEnds ==
  ASSUME OverviewInv, UNCHANGED <<page, backend, sheet>>, NEW t \in Calls, call[t].at # "idle", End(t),
         page = "job" => IF call[t].newest THEN errors' # {} ELSE errors' = errors,
         page # "job" => errors' # {}
  PROVE  OverviewInv'
<1>1. OverviewBase /\ call' = [call EXCEPT ![t] = NoCall] /\ flags' = flags \ {call[t].flag}
  BY DEF OverviewInv, End
<1>2. OverviewBase' /\ call'[t] = NoCall /\ \A u \in Calls : u # t => call'[u] = call[u]
  BY <1>1, OverviewTyped, NoCallTyped, BaseMoves
<1>3. \A u \in Calls : call'[u].at # "idle" => u # t /\ call'[u] = call[u]
  BY <1>2, NoCallTyped
<1>4. \A i, names : ListsOK(i, names)' <=> ListsOK(i, names)
  BY DEF ListsOK
<1>5. page = "job" => JobInv'
  <2> SUFFICES ASSUME page = "job" PROVE JobInv'
    OBVIOUS
  <2>1. /\ JobListsOK' /\ Here' = Here /\ InterviewsShown' = InterviewsShown
        /\ (ApplicationShown' <=> ApplicationShown) /\ With("scheduled")' = With("scheduled")
        /\ Then("scheduled")' = Then("scheduled")
    BY <1>4 DEF OverviewInv, JobInv, JobListsOK, InterviewsShown, ApplicationShown, Here, Then, With
  <2>2. errors' = {} => errors = {} /\ ~call[t].newest
    OBVIOUS
  <2>3. \A u \in Calls : u # t => (call'[u].at # "idle" <=> call[u].at # "idle") /\ call'[u].newest = call[u].newest
    BY <1>2
  <2> QED BY <1>3, <2>1, <2>2, <2>3 DEF OverviewInv, JobInv
<1>6. page = "search" => SearchInv'
  BY <1>3, <1>4 DEF OverviewInv, SearchInv, With, Then
<1>7. page = "home" => HomeInv'
  <2> SUFFICES ASSUME page = "home" PROVE HomeInv'
    OBVIOUS
  <2>1. call[t].flag = PageLoading
    BY <1>1, OverviewTyped DEF LoadOK
  <2> QED BY <1>1, <1>4, <2>1 DEF OverviewInv, HomeInv
<1> QED BY <1>2, <1>5, <1>6, <1>7 DEF OverviewInv, OverviewBase

LEMMA WorkspaceLoadedKeeps ==
  ASSUME OverviewInv, NEW t \in Calls, WorkspaceLoaded(t) PROVE OverviewInv'
<1>1. PICK c : c = call[t]
  OBVIOUS
<1>2. OverviewBase /\ JobInv /\ page = "job" /\ UNCHANGED <<page, backend, errors>> /\ End(t)
  BY DEF OverviewInv, WorkspaceLoaded
<1>3. /\ Wanted(t) \subseteq DOMAIN c.rows
      /\ c.at = "history" \/ (c.at = "lists" /\ c.item \notin c.rows["applications"])
  <2>1. /\ Unanswered(t) = {}
        /\ call[t].at = "history" \/ (call[t].at = "lists" /\ call[t].item \notin call[t].rows["applications"])
    BY DEF WorkspaceLoaded
  <2> QED BY <1>1, <2>1 DEF Unanswered
<1>4. CallTyped(c) /\ LoadOK(c, backend, page) /\ RowsOK(c.rows, c.item, backend) /\ c.item \in Items
  BY <1>1, <1>2, <1>3, OverviewTyped DEF LoadOK
<1>5. CASE ~IsNewest(t)
  <2>1. sheet' = sheet
    BY <1>5 DEF WorkspaceLoaded
  <2>2. ~call[t].newest
    BY <1>1, <1>2, <1>3, <1>5 DEF IsNewest, JobInv
  <2>3. call[t].at # "idle"
    BY <1>1, <1>3
  <2> QED BY <1>2, <2>1, <2>2, <2>3, OverviewLoadEnds
<1>6. CASE IsNewest(t)
  <2>1. PICK l, said : /\ l = [of |-> c.item, content |-> "old", rows |-> c.rows]
                        /\ said = IF c.at = "history" THEN c.rows["history"] ELSE {}
    OBVIOUS
  <2>2. sheet' = [sheet EXCEPT !["lists"] = l, !["interviews"].content = "old", !["interviews"].rows = said]
    BY <1>1, <1>6, <2>1 DEF WorkspaceLoaded
  <2>3. PICK s, n : s = sheet["interviews"] /\ n = [s EXCEPT !.content = "old", !.rows = said]
    OBVIOUS
  <2>4. SheetTyped(l) /\ l.of = c.item /\ l.content = "old" /\ l.rows = c.rows
    BY <2>1 DEF SheetTyped
  <2>5. SheetTyped(s)
    BY <1>2, <2>3, OverviewTyped DEF OverviewSheets
  <2>6. SheetTyped(n) /\ n.of = s.of /\ n.rows = said
    BY <2>3, <2>5 DEF SheetTyped
  <2>7. /\ sheet' = [k \in OverviewSheets |-> sheet'[k]] /\ \A k \in OverviewSheets : SheetTyped(sheet'[k])
        /\ sheet'["lists"] = l /\ sheet'["interviews"] = n /\ sheet'["research"] = sheet["research"]
    <3>1. sheet = [k \in OverviewSheets |-> sheet[k]] /\ SheetTyped(sheet["research"])
      BY <1>2, OverviewTyped DEF OverviewSheets
    <3>2. /\ sheet' = [k \in OverviewSheets |-> sheet'[k]]
          /\ sheet'["lists"] = l /\ sheet'["interviews"] = n /\ sheet'["research"] = sheet["research"]
      BY <2>2, <2>3, <3>1 DEF OverviewSheets
    <3> QED BY <2>4, <2>6, <3>1, <3>2 DEF OverviewSheets
  <2>8. c.item = Here /\ Here' = Here
    BY <1>1, <1>6, <2>3, <2>6, <2>7 DEF IsNewest, Here
  <2>9. OverviewBase' /\ call'[t] = NoCall /\ \A u \in Calls : u # t => call'[u] = call[u]
    BY <1>2, <2>7, OverviewTyped, NoCallTyped, BaseMoves DEF End
  <2>10. {"postings", "applications", "research"} \subseteq DOMAIN c.rows
    BY <1>1, <1>2, <1>3, <1>4, WantedIs DEF LoadOK
  <2>11. /\ said \subseteq {c.item} \cap With("scheduled")
         /\ said # {} => c.item \in c.rows["applications"]
         /\ "scheduled" \in c.rows["before"][c.item] => c.item \in said
    <3>1. CASE c.at = "history"
      <4>1. "history" \in DOMAIN c.rows /\ c.item \in c.rows["applications"]
        BY <1>1, <1>2, <1>3, <1>4, <3>1, WantedIs DEF LoadOK
      <4>2. {c.item} \cap {j \in Items : "scheduled" \in c.rows["before"][j]} \subseteq c.rows["history"]
            /\ c.rows["history"] \subseteq {c.item} \cap {j \in Items : "scheduled" \in backend[j]}
        BY <1>4, <4>1, RowsSay
      <4> QED BY <1>4, <2>1, <3>1, <4>1, <4>2 DEF With
    <3>2. CASE c.at # "history"
      <4>1. {j \in Items : "applied" \in c.rows["before"][j]} \subseteq c.rows["applications"]
        BY <1>4, <2>10, RowsSay
      <4>2. Causal(c.rows["before"])
        BY <1>4 DEF RowsOK
      <4>3. "scheduled" \in c.rows["before"][c.item] => "applied" \in c.rows["before"][c.item]
        BY <1>4, <4>2 DEF Causal, Before
      <4> QED BY <1>3, <1>4, <2>1, <3>2, <4>1, <4>3
    <3> QED BY <3>1, <3>2
  <2>12. JobListsOK' /\ (sheet'["lists"].content # "none" /\ sheet'["lists"].of = Here')
    BY <1>2, <1>4, <2>4, <2>7, <2>8, <2>10 DEF JobListsOK, ListsOK
  <2>13. /\ InterviewsShown' \subseteq {Here'} \cap With("scheduled")'
         /\ InterviewsShown' # {} => ApplicationShown'
         /\ Here' \in Then("scheduled")' => Here' \in InterviewsShown'
    <3>1. InterviewsShown' = said /\ With("scheduled")' = With("scheduled")
      BY <1>2, <2>6, <2>7 DEF InterviewsShown, With
    <3>2. c.item \in c.rows["applications"] => ApplicationShown'
      BY <2>4, <2>7, <2>8 DEF ApplicationShown
    <3>3. Here' \in Then("scheduled")' => "scheduled" \in c.rows["before"][c.item]
      BY <2>4, <2>7, <2>8 DEF Then
    <3> QED BY <2>8, <2>11, <3>1, <3>2, <3>3
  <2>14. \A u \in Calls : call'[u].at # "idle" /\ call'[u].newest => call'[u].item = Here'
    BY <1>2, <2>8, <2>9, NoCallTyped DEF JobInv
  <2>15. Here' \in Items
    BY <1>4, <2>8
  <2>16. JobInv'
    BY <2>12, <2>13, <2>14, <2>15 DEF JobInv
  <2> QED BY <1>2, <2>9, <2>16 DEF OverviewInv
<1> QED BY <1>5, <1>6

\* The lists of a load of the home page or the search are shown.
LEMMA ListsShown ==
  ASSUME OverviewInv, NEW t \in Calls, call[t].at = "lists", Unanswered(t) = {}, page \in {"home", "search"},
         sheet' = [sheet EXCEPT !["lists"] = [Received(t, NoItem) EXCEPT !.rows = call[t].rows]],
         UNCHANGED backend
  PROVE  /\ sheet' = [k \in OverviewSheets |-> sheet'[k]] /\ \A k \in OverviewSheets : SheetTyped(sheet'[k])
         /\ sheet'["lists"].content # "none" /\ sheet'["lists"].rows = call[t].rows
         /\ sheet'["research"] = sheet["research"]
         /\ \E i \in Items : ListsOK(i, {"postings"})'
         /\ page = "home" => \E i \in Items : ListsOK(i, {"postings", "applications"})'
<1>1. PICK c, r : c = call[t] /\ r = Received(t, NoItem)
  OBVIOUS
<1>2. SheetTyped(r) /\ r.content # "none"
  BY <1>1, ReceivedIs
<1>3. PICK l : l = [r EXCEPT !.rows = c.rows]
  OBVIOUS
<1>4. SheetTyped(l) /\ l.content # "none" /\ l.rows = c.rows
  BY <1>2, <1>3 DEF SheetTyped
<1>5. OverviewBase /\ sheet' = [sheet EXCEPT !["lists"] = l]
  BY <1>1, <1>3 DEF OverviewInv
<1>6. /\ sheet' = [k \in OverviewSheets |-> sheet'[k]] /\ \A k \in OverviewSheets : SheetTyped(sheet'[k])
      /\ sheet'["lists"] = l /\ sheet'["research"] = sheet["research"]
  BY <1>4, <1>5, OverviewTyped, SheetChanges DEF OverviewSheets
<1>7. LoadOK(c, backend, page) /\ c.item \in Items /\ RowsOK(c.rows, c.item, backend)
  BY <1>1, <1>5, OverviewTyped DEF LoadOK
<1>8. "postings" \in DOMAIN c.rows /\ (page = "home" => "applications" \in DOMAIN c.rows)
  BY <1>1, <1>5, WantedIs DEF Unanswered
<1> QED BY <1>1, <1>4, <1>6, <1>7, <1>8 DEF ListsOK

LEMMA HomeLoadedKeeps ==
  ASSUME OverviewInv, NEW t \in Calls, HomeLoaded(t) PROVE OverviewInv'
<1>1. /\ page = "home" /\ call[t].at = "lists" /\ Unanswered(t) = {}
      /\ sheet' = [sheet EXCEPT !["lists"] = [Received(t, NoItem) EXCEPT !.rows = call[t].rows]]
      /\ call' = [call EXCEPT ![t] = NoCall] /\ flags' = flags \ {call[t].flag}
      /\ UNCHANGED <<page, backend, errors>>
  BY DEF HomeLoaded, End
<1>2. OverviewBase /\ LoadOK(call[t], backend, page)
  BY <1>1, OverviewTyped DEF OverviewInv
<1>3. /\ sheet' = [k \in OverviewSheets |-> sheet'[k]] /\ \A k \in OverviewSheets : SheetTyped(sheet'[k])
      /\ sheet'["lists"].content # "none"
      /\ \E i \in Items : ListsOK(i, {"postings", "applications"})'
  BY <1>1, ListsShown
<1>4. OverviewBase'
  BY <1>1, <1>2, <1>3, NoCallTyped, BaseMoves
<1>5. PageLoading \notin flags'
  BY <1>1, <1>2 DEF LoadOK
<1> QED BY <1>1, <1>3, <1>4, <1>5 DEF OverviewInv, HomeInv

LEMMA SearchGoesOnKeeps ==
  ASSUME OverviewInv, NEW t \in Calls, SearchGoesOn(t) PROVE OverviewInv'
<1>1. /\ page = "search" /\ call[t].at = "lists" /\ Unanswered(t) = {}
      /\ sheet' = [sheet EXCEPT !["lists"] = [Received(t, NoItem) EXCEPT !.rows = call[t].rows]]
      /\ call' = [call EXCEPT ![t].at = "research"]
      /\ UNCHANGED <<page, backend, errors>>
  BY DEF SearchGoesOn
<1>2. PICK c : c = call[t]
  OBVIOUS
<1>3. OverviewBase /\ SearchInv /\ LoadOK(c, backend, page) /\ CallTyped(c)
  BY <1>1, <1>2, OverviewTyped DEF OverviewInv
<1>4. PICK d : d = [c EXCEPT !.at = "research"]
  OBVIOUS
<1>5. CallTyped(d) /\ d.at = "research" /\ d.item = c.item /\ d.flag = c.flag /\ d.rows = c.rows
  BY <1>3, <1>4 DEF CallTyped
<1>6. "postings" \in DOMAIN c.rows
  BY <1>1, <1>2, <1>3, WantedIs DEF Unanswered
<1>7. LoadOK(d, backend, page)
  BY <1>1, <1>3, <1>5, <1>6 DEF LoadOK
<1>8. call' = [call EXCEPT ![t] = d]
  BY <1>1, <1>2, <1>3, <1>4, OverviewTyped
<1>9. /\ sheet' = [k \in OverviewSheets |-> sheet'[k]] /\ \A k \in OverviewSheets : SheetTyped(sheet'[k])
      /\ sheet'["lists"].content # "none" /\ sheet'["lists"].rows = c.rows
      /\ sheet'["research"] = sheet["research"]
      /\ \E i \in Items : ListsOK(i, {"postings"})'
  BY <1>1, <1>2, ListsShown
<1>10. OverviewBase' /\ call'[t] = d /\ \A u \in Calls : u # t => call'[u] = call[u]
  BY <1>1, <1>3, <1>5, <1>7, <1>8, <1>9, BaseMoves
<1>11. \A u \in Calls : u # t => call'[u].at = "idle"
  BY <1>1, <1>3, <1>10 DEF SearchInv
<1>12. SearchInv'
  <2>1. \A u, v \in Calls : call'[u].at # "idle" /\ call'[v].at # "idle" => u = v
    BY <1>11
  <2>2. \A u \in Calls : call'[u].at = "research" =>
          /\ sheet'["lists"].content # "none"
          /\ sheet'["lists"].rows["before"] = call'[u].rows["before"]
          /\ sheet'["lists"].rows["postings"] = call'[u].rows["postings"]
    BY <1>5, <1>9, <1>10, <1>11
  <2>3. \E u \in Calls : call'[u].at # "idle"
    BY <1>5, <1>10
  <2>4. sheet'["research"].content # "none" => sheet'["research"].rows \subseteq With("studied")'
    BY <1>1, <1>3, <1>9 DEF SearchInv, With
  <2> QED BY <1>9, <2>1, <2>2, <2>3, <2>4 DEF SearchInv
<1> QED BY <1>1, <1>10, <1>12 DEF OverviewInv

LEMMA RecordsLoadedKeeps ==
  ASSUME OverviewInv, NEW t \in Calls, RecordsLoaded(t) PROVE OverviewInv'
<1>1. PICK c, all : c = call[t] /\ all = UNION {c.rows[r] : r \in Wanted(t)}
  OBVIOUS
<1>2. /\ c.at = "research" /\ Wanted(t) \subseteq DOMAIN c.rows
      /\ sheet' = [sheet EXCEPT !["research"] = [Blank EXCEPT !.content = "old", !.rows = all]]
      /\ call' = [call EXCEPT ![t] = NoCall] /\ UNCHANGED <<page, backend, errors>>
  BY <1>1 DEF RecordsLoaded, End, Unanswered
<1>3. OverviewBase /\ LoadOK(c, backend, page) /\ page = "search" /\ RowsOK(c.rows, c.item, backend)
      /\ "postings" \in DOMAIN c.rows
  BY <1>1, <1>2, OverviewTyped DEF OverviewInv, LoadOK
<1>4. SearchInv
  BY <1>3 DEF OverviewInv
<1>5. PICK b, n : b = Blank /\ n = [b EXCEPT !.content = "old", !.rows = all]
  OBVIOUS
<1>6. SheetTyped(n) /\ n.content = "old" /\ n.rows = all
  BY <1>5, BlankIs DEF SheetTyped
<1>7. /\ sheet' = [k \in OverviewSheets |-> sheet'[k]] /\ \A k \in OverviewSheets : SheetTyped(sheet'[k])
      /\ sheet'["research"] = n /\ sheet'["lists"] = sheet["lists"]
  BY <1>2, <1>3, <1>5, <1>6, OverviewTyped, SheetChanges DEF OverviewSheets
<1>8. OverviewBase' /\ call'[t] = NoCall /\ \A u \in Calls : u # t => call'[u] = call[u]
  BY <1>2, <1>3, <1>7, NoCallTyped, BaseMoves
<1>9. \A u \in Calls : call'[u].at = "idle"
  BY <1>1, <1>2, <1>4, <1>8, NoCallTyped DEF SearchInv
<1>10. Wanted(t) = {"general"} \cup c.rows["postings"]
  BY <1>1, <1>2, <1>3, WantedIs
<1>11. all \subseteq With("studied")
  <2> SUFFICES ASSUME NEW r \in Wanted(t) PROVE c.rows[r] \subseteq With("studied")
    BY <1>1
  <2>1. c.rows["postings"] \subseteq Items
    BY <1>3, RowsSay
  <2>2. CASE r = "general"
    <3>1. c.rows["general"] = {}
      BY <1>2, <1>3, <2>2, RowsSay
    <3> QED BY <2>2, <3>1
  <2>3. CASE r \in Items \cap DOMAIN c.rows
    <3>1. c.rows[r] \subseteq {r} \cap {j \in Items : "studied" \in backend[j]}
      BY <1>3, <2>3, RowsSay
    <3> QED BY <3>1 DEF With
  <2> QED BY <1>2, <1>10, <2>1, <2>2, <2>3
<1>12. \A j \in Items : "studied" \in c.rows["before"][j] => j \in all
  <2> SUFFICES ASSUME NEW j \in Items, "studied" \in c.rows["before"][j] PROVE j \in all
    OBVIOUS
  <2>1. Causal(c.rows["before"])
    BY <1>3 DEF RowsOK
  <2>2. "listed" \in c.rows["before"][j]
    BY <2>1 DEF Causal, Before
  <2>3. j \in c.rows["postings"]
    BY <1>3, <2>2, RowsSay
  <2>4. j \in Wanted(t) /\ j \in DOMAIN c.rows
    BY <1>2, <1>10, <2>3
  <2>5. {j} \cap {k \in Items : "studied" \in c.rows["before"][k]} \subseteq c.rows[j]
    BY <1>3, <2>4, RowsSay
  <2> QED BY <1>1, <2>4, <2>5
<1>13. SearchInv'
  <2>1. sheet["lists"].content # "none" /\ sheet["lists"].rows["before"] = c.rows["before"]
    BY <1>1, <1>2, <1>4 DEF SearchInv
  <2>2. \E i \in Items : ListsOK(i, {"postings"})'
    BY <1>2, <1>4, <1>7, <2>1 DEF SearchInv, ListsOK
  <2>3. With("studied")' = With("studied")
    BY <1>2 DEF With
  <2>4. Then("studied")' \subseteq all
    BY <1>7, <1>12, <2>1 DEF Then
  <2> QED BY <1>6, <1>7, <1>9, <1>11, <2>1, <2>2, <2>3, <2>4 DEF SearchInv
<1> QED BY <1>2, <1>3, <1>8, <1>13 DEF OverviewInv

LEMMA OverviewStep == OverviewInv /\ [OverviewNext]_listPageVars => OverviewInv'
<1> SUFFICES ASSUME OverviewInv, [OverviewNext]_listPageVars PROVE OverviewInv'
  OBVIOUS
<1>1. ASSUME NEW i \in Items, OpenPosting(i) PROVE OverviewInv'
  BY <1>1, OpenPostingKeeps
<1>2. ASSUME NEW i \in Items, NEW fact \in Facts, Becomes(i, fact) PROVE OverviewInv'
  BY <1>2, BecomesKeeps
<1>3. ASSUME NEW t \in Calls, NEW r \in Unanswered(t), Answered(t, r) PROVE OverviewInv'
  BY <1>3, AnsweredKeeps
<1>4. ASSUME NEW t \in Calls, WorkspaceGoesOn(t) \/ WorkspaceLoaded(t) PROVE OverviewInv'
  BY <1>4, WorkspaceGoesOnKeeps, WorkspaceLoadedKeeps
<1>5. ASSUME NEW t \in Calls, SearchGoesOn(t) \/ RecordsLoaded(t) \/ HomeLoaded(t) PROVE OverviewInv'
  BY <1>5, SearchGoesOnKeeps, RecordsLoadedKeeps, HomeLoadedKeeps
<1>6. ASSUME NEW t \in Calls, WorkspaceFails(t) PROVE OverviewInv'
  <2>1. /\ page = "job" /\ call[t].at # "idle" /\ End(t) /\ UNCHANGED <<page, backend, sheet>>
        /\ IF call[t].newest THEN errors' # {} ELSE errors' = errors
    BY <1>6 DEF WorkspaceFails
  <2> QED BY <2>1, OverviewLoadEnds
<1>7. ASSUME NEW t \in Calls, OverviewFails(t) PROVE OverviewInv'
  <2>1. /\ page # "job" /\ call[t].at # "idle" /\ End(t) /\ UNCHANGED <<page, backend, sheet>>
        /\ errors' # {}
    BY <1>7 DEF OverviewFails
  <2> QED BY <2>1, OverviewLoadEnds
<1>8. CASE UNCHANGED listPageVars
  <2>1. UNCHANGED <<page, backend, sheet, flags, errors, call>> /\ Causal(backend)
    BY <1>8 DEF listPageVars, OverviewInv, OverviewBase
  <2> QED BY <2>1, ServerGrows DEF StatesGrow
<1> QED BY <1>1, <1>2, <1>3, <1>4, <1>5, <1>6, <1>7, <1>8 DEF OverviewNext

LEMMA OverviewInvTells == OverviewInv => OverviewSound
<1> SUFFICES ASSUME OverviewInv PROVE OverviewSound
  OBVIOUS
<1>1. WorkspaceSound
  <2> SUFFICES ASSUME page = "job" PROVE
          /\ InterviewsShown \subseteq {Here}
          /\ InterviewsShown # {} => ApplicationShown
          /\ Rested /\ errors = {} =>
               /\ sheet["lists"].of = Here
               /\ Here \in Then("studied") => "research" \notin Advised
               /\ Here \in Then("scheduled") => "interview" \notin Advised
               /\ Here \in With("studied") \/ "research" \in Advised
               /\ Here \in With("scheduled") \/ "interview" \in Advised
    BY DEF WorkspaceSound
  <2>1. JobInv
    BY DEF OverviewInv
  <2>2. ASSUME Rested, errors = {} PROVE
               /\ sheet["lists"].of = Here
               /\ Here \in Then("studied") => "research" \notin Advised
               /\ Here \in Then("scheduled") => "interview" \notin Advised
               /\ Here \in With("studied") \/ "research" \in Advised
               /\ Here \in With("scheduled") \/ "interview" \in Advised
    <3>1. /\ sheet["lists"].content # "none" /\ sheet["lists"].of = Here /\ Here \in Items
          /\ Here \in Then("scheduled") => Here \in InterviewsShown
      BY <2>1, <2>2 DEF JobInv, Rested
    <3>2. PICK known : known = sheet["lists"].rows
      OBVIOUS
    <3>3. RowsOK(known, Here, backend) /\ "research" \in DOMAIN known
      BY <2>1, <3>1, <3>2 DEF JobInv, JobListsOK, ListsOK
    <3>4. /\ {Here} \cap {j \in Items : "studied" \in known["before"][j]} \subseteq known["research"]
          /\ known["research"] \subseteq {Here} \cap {j \in Items : "studied" \in backend[j]}
      BY <3>3, RowsSay
    <3>5. "research" \in Advised <=> known["research"] = {}
      BY <3>2 DEF Advised, Done
    <3>6. "interview" \in Advised <=> InterviewsShown = {}
      BY DEF Advised, Done
    <3>7. Here \in Then("studied") => Here \in known["research"]
      BY <3>2, <3>4 DEF Then
    <3>8. known["research"] # {} => Here \in With("studied")
      BY <3>4 DEF With
    <3>9. InterviewsShown # {} => Here \in With("scheduled")
      BY <2>1 DEF JobInv
    <3> QED BY <3>1, <3>5, <3>6, <3>7, <3>8, <3>9
  <2> QED BY <2>1, <2>2 DEF JobInv
<1>2. SearchSound
  <2> SUFFICES ASSUME page = "search" PROVE
          /\ Results \subseteq {"posting"} \X With("listed") \cup {"research"} \X With("studied")
          /\ Rested /\ errors = {} =>
               /\ {"posting"} \X Then("listed") \cup {"research"} \X Then("studied") \subseteq Results
               /\ SearchSays = "empty" => Then("listed") = {}
    BY DEF SearchSound
  <2>1. SearchInv
    BY DEF OverviewInv
  <2>2. PICK known : known = sheet["lists"].rows
    OBVIOUS
  <2>3. sheet["lists"].content # "none" =>
          /\ {j \in Items : "listed" \in known["before"][j]} \subseteq known["postings"]
          /\ known["postings"] \subseteq With("listed")
    <3> HAVE sheet["lists"].content # "none"
    <3>1. PICK i \in Items : RowsOK(known, i, backend) /\ "postings" \in DOMAIN known
      BY <2>1, <2>2 DEF SearchInv, ListsOK
    <3> QED BY <3>1, RowsSay DEF With
  <2>4. /\ sheet["lists"].content # "none" => {"posting"} \X known["postings"] \subseteq Results
        /\ sheet["research"].content # "none" => {"research"} \X sheet["research"].rows \subseteq Results
        /\ \A f \in Results :
             \/ sheet["lists"].content # "none" /\ f \in {"posting"} \X known["postings"]
             \/ sheet["research"].content # "none" /\ f \in {"research"} \X sheet["research"].rows
    BY <2>2 DEF Results
  <2>5. sheet["research"].content # "none" => sheet["research"].rows \subseteq With("studied")
    BY <2>1 DEF SearchInv
  <2>6. Results \subseteq {"posting"} \X With("listed") \cup {"research"} \X With("studied")
    BY <2>3, <2>4, <2>5
  <2>7. ASSUME Rested, errors = {} PROVE
               /\ {"posting"} \X Then("listed") \cup {"research"} \X Then("studied") \subseteq Results
               /\ SearchSays = "empty" => Then("listed") = {}
    <3>1. /\ sheet["lists"].content # "none" /\ sheet["research"].content # "none"
          /\ Then("studied") \subseteq sheet["research"].rows
      BY <2>1, <2>7 DEF SearchInv, Rested
    <3>2. Then("listed") \subseteq known["postings"]
      BY <2>2, <2>3, <3>1 DEF Then
    <3>3. {"posting"} \X Then("listed") \subseteq Results /\ {"research"} \X Then("studied") \subseteq Results
      BY <2>4, <3>1, <3>2
    <3>4. \A j \in Then("listed") : <<"posting", j>> \in Results
      BY <3>3
    <3> QED BY <3>3, <3>4 DEF SearchSays
  <2> QED BY <2>6, <2>7
<1>3. HomeSound
  <2> SUFFICES ASSUME page = "home" PROVE
          /\ Rested => Summary # {"-"} /\ (errors = {} => Then("listed") \subseteq Summary)
          /\ \A f \in InFocus : f[1] \in Then("listed") => f[1] = f[2]
    BY DEF HomeSound
  <2>1. HomeInv
    BY DEF OverviewInv
  <2>2. PICK known : known = sheet["lists"].rows
    OBVIOUS
  <2>3. sheet["lists"].content # "none" =>
          /\ {j \in Items : "listed" \in known["before"][j]} \subseteq known["postings"]
          /\ known["postings"] \subseteq Items /\ known["applications"] \subseteq Items
    <3> HAVE sheet["lists"].content # "none"
    <3>1. PICK i \in Items : RowsOK(known, i, backend) /\ {"postings", "applications"} \subseteq DOMAIN known
      BY <2>1, <2>2 DEF HomeInv, ListsOK
    <3>2. "postings" \in DOMAIN known /\ "applications" \in DOMAIN known
      BY <3>1
    <3> QED BY <3>1, <3>2, RowsSay
  <2>4. ASSUME Rested PROVE Summary # {"-"} /\ (errors = {} => Then("listed") \subseteq Summary)
    <3>1. PageLoading \notin flags /\ (errors = {} => sheet["lists"].content # "none")
      BY <2>1, <2>4 DEF HomeInv, Rested
    <3>2. /\ sheet["lists"].content = "none" => Summary = {}
          /\ sheet["lists"].content # "none" => Summary = known["postings"] \cup known["applications"]
      BY <2>2, <3>1 DEF Summary
    <3>3. "-" \notin Items
      BY OverviewAssumption
    <3>4. "-" \notin Summary
      BY <2>3, <3>2, <3>3
    <3>5. errors = {} => Then("listed") \subseteq Summary
      BY <2>2, <2>3, <3>1, <3>2 DEF Then
    <3> QED BY <3>4, <3>5
  <2>5. ASSUME NEW f \in InFocus, f[1] \in Then("listed") PROVE f[1] = f[2]
    <3>1. sheet["lists"].content # "none" /\ \E a \in known["applications"] : f = <<a, FocusPosting(a)>>
      BY <2>2 DEF InFocus
    <3>2. PICK a : f = <<a, FocusPosting(a)>>
      BY <3>1
    <3>3. a \in known["postings"]
      BY <2>2, <2>3, <2>5, <3>1, <3>2 DEF Then
    <3>4. FocusPosting(a) = a
      BY <2>2, <3>3 DEF FocusPosting
    <3> QED BY <3>2, <3>4
  <2> QED BY <2>4, <2>5
<1> QED BY <1>1, <1>2, <1>3 DEF OverviewSound

\* OverviewSound, for any postings and any number of loads: however their answers
\* are spread over what another tab adds, overtake one another or fail, a workspace,
\* the search and the home page say what there was, and nothing there is not.
THEOREM OverviewsAreSound == OverviewSpec => []OverviewSound
BY OverviewStart, OverviewStep, OverviewInvTells, PTL DEF OverviewSpec

-----------------------------------------------------------------------------
(***************************************************************************)
(* The pages that list things and change them.                             *)
(***************************************************************************)

SheetsOf(p) ==
  CASE p = "documents" -> {"list", "preview", "history"}
    [] p = "applications" -> {"list", "history", "versions"}
    [] p = "settings" -> {"providers", "runners", "pairing"}

\* The sheets of which it is followed whether they are up to date.
Followed(p) == IF p = "applications" THEN {"list"} ELSE SheetsOf(p)

\* A call, changed or not, of which only the fetches of K are superseded.
Alike(c, d, K) ==
  /\ d.at = c.at /\ d.fn = c.fn /\ d.item = c.item /\ d.flag = c.flag
  /\ d.served = c.served /\ d.fresh = c.fresh /\ d.rows = c.rows
  /\ d.newest <=> c.newest /\ c.at \notin K

\* Call c will fetch sheet k again, which is about of, or say that it failed.
Pursues(p, c, k, of) ==
  \/ /\ p = "documents" /\ k = "list" /\ c.at = "sending" /\ c.served
  \/ /\ p = "documents" /\ k \in {"preview", "history"} /\ c.fn = "uploadVersion" /\ c.item = of
     /\ (c.at = "sending" /\ c.served) \/ c.at = "list" \/ (k = "history" /\ c.at = "preview")
  \/ /\ p = "applications" /\ k = "list" /\ c.at = "sending" /\ c.served
     /\ c.fn \notin {"addNote", "schedule"}
  \/ /\ p = "settings" /\ k = ListOf(c.fn) /\ c.at = "sending" /\ c.served

\* Call c will bring sheet k, as it is now or will be.
Brings(c, k) == c.at = k /\ c.newest /\ (c.served => c.fresh)

Pursued(k) == \E t \in Calls : Pursues(page, call[t], k, sheet[k].of)
Brought(k) == \E t \in Calls : Brings(call[t], k)

\* A sheet is up to date or comes to be; one that is not, once its answer is there,
\* is known to be out of date or will be fetched again.
FollowedOK(k) ==
  /\ \/ k \in errors \/ sheet[k].content = "new" \/ (k \notin Lists /\ sheet[k] = Blank)
     \/ Brought(k) \/ Pursued(k)
  /\ \A t \in Calls : call[t].at = k /\ call[t].newest /\ call[t].served /\ ~call[t].fresh
       => k \in errors \/ Pursued(k)
  /\ \A t, u \in Calls : call[t].at = k /\ call[t].newest /\ call[u].at = k /\ call[u].newest => t = u
  /\ page = "documents" /\ k # "list" =>
       \A t \in Calls : call[t].at = k /\ call[t].newest => call[t].item = sheet[k].of

\* A flag is up as long as a call that will lower it.
FlagsHeld ==
  \A f \in flags : f[1] = "form" \/ \E t \in Calls : call[t].at # "idle" /\ call[t].flag = f

\* The functions of which there is one at a time, and their flags.
Guarded == {"startApplication", "archivePosting", "move", "moved", "archiveApplication"}

GuardOf(fn, i) ==
  CASE fn = "startApplication" -> Starting(i)
    [] fn = "archivePosting" -> PendingPost(i)
    [] fn \in {"move", "moved", "archiveApplication"} -> PendingApplication(i)

GuardNames == {"starting", "pendingPost", "pendingApplication"}

\* Such a call has its flag up, and no other call has such a flag.
GuardsOK ==
  /\ \A t \in Calls : call[t].at # "idle" =>
       /\ call[t].fn \in Guarded => call[t].flag = GuardOf(call[t].fn, call[t].item) /\ call[t].flag \in flags
       /\ call[t].fn \notin Guarded => call[t].flag[1] \notin GuardNames
  /\ OneChange

\* The details of an application or a posting are shown once they are there.
DetailsOK ==
  \A k \in {"history", "versions"} :
    /\ sheet[k] = Blank \/ sheet[k].content = "new"
    /\ \A t \in Calls : call[t].at = k /\ call[t].served => call[t].fresh

ListBase ==
  /\ page \in {"documents", "applications", "settings"}
  /\ PageTyped(SheetsOf(page))

ListInv ==
  /\ ListBase
  /\ \A k \in Followed(page) : FollowedOK(k)
  /\ FlagsHeld
  /\ page = "applications" => DetailsOK /\ GuardsOK
  /\ page # "applications" => \A t \in Calls : call[t].fn \notin Guarded

CallsTyped(calls) == calls = [u \in Calls |-> calls[u]] /\ \A u \in Calls : CallTyped(calls[u])

\* Calls other than t are alike.
AlikeBut(t, old, new, K) == \A u \in Calls : u # t => Alike(old[u], new[u], K)

-----------------------------------------------------------------------------
\* What a step does to a sheet, by what call t does.

\* It does something else.
LEMMA SheetElsewhere ==
  ASSUME NEW k, FollowedOK(k), NEW t \in Calls, NEW K, k \notin K,
         AlikeBut(t, call, call', K),
         page' = page, sheet'[k] = sheet[k], k \in errors => k \in errors',
         call[t].at = k => ~call[t].newest,
         call'[t].at = k => ~call'[t].newest,
         Pursues(page, call[t], k, sheet[k].of) => Pursues(page, call'[t], k, sheet[k].of)
  PROVE  FollowedOK(k)'
<1>1. \A u \in Calls : u # t /\ call[u].at = k => (call'[u].newest <=> call[u].newest)
  BY DEF Alike, AlikeBut
<1>2. \A u \in Calls : Brings(call[u], k) => Brings(call'[u], k)
  BY <1>1 DEF Brings, Alike, AlikeBut
<1>3. \A u \in Calls : u # t => (Pursues(page, call[u], k, sheet[k].of) => Pursues(page, call'[u], k, sheet[k].of))
  BY DEF Pursues, Alike, AlikeBut
<1>4. (Brought(k) => Brought(k)') /\ (Pursued(k) => Pursued(k)')
  BY <1>2, <1>3 DEF Brought, Pursued
<1>5. ASSUME NEW u \in Calls, call'[u].at = k, call'[u].newest
      PROVE  /\ u # t /\ call[u].at = k /\ call[u].newest /\ call[u].item = call'[u].item
             /\ call[u].served = call'[u].served /\ call[u].fresh = call'[u].fresh
  BY <1>5 DEF Alike, AlikeBut
<1> QED BY <1>4, <1>5 DEF FollowedOK

\* It starts to fetch the sheet.
LEMMA SheetAsked ==
  ASSUME NEW k, NEW t \in Calls, NEW K, k \in K,
         AlikeBut(t, call, call', K),
         call'[t].at = k, call'[t].newest, ~call'[t].served,
         page' = "documents" /\ k # "list" => sheet'[k].of = call'[t].item
  PROVE  FollowedOK(k)'
<1>1. \A u \in Calls : call'[u].at = k /\ call'[u].newest => u = t
  BY DEF Alike, AlikeBut
<1>2. Brought(k)'
  BY DEF Brought, Brings
<1> QED BY <1>1, <1>2 DEF FollowedOK

\* It empties the sheet.
LEMMA SheetEmptied ==
  ASSUME NEW k, NEW K, k \in K, k \notin Lists, sheet'[k] = Blank,
         \A u \in Calls : call'[u].at = k => Alike(call[u], call'[u], K)
  PROVE  FollowedOK(k)'
<1>1. \A u \in Calls : call'[u].at = k => ~call'[u].newest
  BY DEF Alike, AlikeBut
<1> QED BY <1>1 DEF FollowedOK

\* It gets the sheet, and does something else then.
LEMMA SheetGot ==
  ASSUME NEW k, FollowedOK(k), NEW t \in Calls, NEW K,
         AlikeBut(t, call, call', K),
         page' = page, k \in errors => k \in errors', call[t].at = k, call[t].newest, call[t].served,
         call'[t].at # k, k # "sending",
         sheet'[k].content = (IF call[t].fresh THEN "new" ELSE "old"),
         sheet'[k].of = sheet[k].of \/ k \in Lists \/ page # "documents",
         ~Pursues(page, call[t], k, sheet[k].of)
  PROVE  FollowedOK(k)'
<1>1. \A u \in Calls : ~(call'[u].at = k /\ call'[u].newest)
  BY DEF FollowedOK, Alike, AlikeBut
<1>2. ~call[t].fresh => k \in errors \/ Pursued(k)
  BY DEF FollowedOK
<1>3. \A of : \A u \in Calls : u # t => (Pursues(page, call[u], k, of) => Pursues(page, call'[u], k, of))
  BY DEF Pursues, Alike, AlikeBut
<1>4. Pursued(k) => Pursued(k)'
  <2>1. k \in Lists => k \notin {"preview", "history"}
    BY DEF Lists
  <2>2. \A of, old : \A u \in Calls : Pursues(page, call[u], k, old) /\ (k \in Lists \/ page # "documents")
          => Pursues(page, call[u], k, of)
    BY <2>1 DEF Pursues
  <2> QED BY <1>3, <2>2 DEF Pursued
<1> QED BY <1>1, <1>2, <1>4 DEF FollowedOK

\* It does not get it, and the page says so.
LEMMA SheetMissed ==
  ASSUME NEW k, FollowedOK(k), NEW t \in Calls, NEW K,
         AlikeBut(t, call, call', K),
         page' = page, k \in errors', call'[t].at # k,
         sheet'[k].of = sheet[k].of \/ (call[t].at = k /\ call[t].newest)
  PROVE  FollowedOK(k)'
<1>1. \A u \in Calls : call'[u].at = k /\ call'[u].newest =>
        u # t /\ call[u].at = k /\ call[u].newest /\ call'[u].item = call[u].item
  BY DEF Alike, AlikeBut
<1> QED BY <1>1 DEF FollowedOK

\* The server answers for the sheet.
LEMMA SheetAnswered ==
  ASSUME NEW k, FollowedOK(k), NEW t \in Calls,
         \A u \in Calls : u # t => call'[u] = call[u],
         UNCHANGED <<page, sheet, errors>>,
         call'[t].at = call[t].at, call'[t].newest = call[t].newest, call'[t].item = call[t].item,
         call'[t].fn = call[t].fn, call'[t].fresh, call[t].at # "sending"
  PROVE  FollowedOK(k)'
<1>1. \A u \in Calls : Brings(call[u], k) => Brings(call'[u], k)
  BY DEF Brings
<1>2. \A u \in Calls : Pursues(page, call[u], k, sheet[k].of) => Pursues(page, call'[u], k, sheet[k].of)
  BY DEF Pursues
<1>3. (Brought(k) => Brought(k)') /\ (Pursued(k) => Pursued(k)')
  BY <1>1, <1>2 DEF Brought, Pursued
<1> QED BY <1>3 DEF FollowedOK
\* No call is at it or goes on to it.
LEMMA SheetRests ==
  ASSUME NEW k, FollowedOK(k), NEW K, k \notin K, \A u \in Calls : Alike(call[u], call'[u], K),
         page' = page, sheet'[k] = sheet[k], k \in errors => k \in errors'
  PROVE  FollowedOK(k)'
<1>1. \A u \in Calls : /\ Brings(call[u], k) => Brings(call'[u], k)
                       /\ Pursues(page, call[u], k, sheet[k].of) => Pursues(page, call'[u], k, sheet[k].of)
  BY DEF Brings, Pursues, Alike
<1>2. (Brought(k) => Brought(k)') /\ (Pursued(k) => Pursued(k)')
  BY <1>1 DEF Brought, Pursued
<1>3. ASSUME NEW u \in Calls, call'[u].at = k, call'[u].newest
      PROVE  /\ call[u].at = k /\ call[u].newest /\ call[u].item = call'[u].item
             /\ call[u].served = call'[u].served /\ call[u].fresh = call'[u].fresh
  BY <1>3 DEF Alike
<1> QED BY <1>2, <1>3 DEF FollowedOK

\* The server makes the change that call t sent, and the sheet is out of date.
LEMMA SheetOutdated ==
  ASSUME NEW k, FollowedOK(k), NEW t \in Calls, UNCHANGED <<page, errors>>, k # "sending",
         \A u \in Calls : /\ call'[u].at = call[u].at /\ call'[u].item = call[u].item
                          /\ call'[u].newest = call[u].newest,
         Pursues(page, call'[t], k, sheet[k].of), sheet'[k].of = sheet[k].of
  PROVE  FollowedOK(k)'
<1>1. Pursued(k)'
  BY DEF Pursued
<1> QED BY <1>1 DEF FollowedOK

\* It makes the change, and the sheet does not show it.
LEMMA SheetUntouched ==
  ASSUME NEW k, FollowedOK(k), NEW t \in Calls, UNCHANGED <<page, errors>>, k # "sending",
         call[t].at = "sending", ~call[t].served,
         \A u \in Calls : /\ call'[u].at = call[u].at /\ call'[u].item = call[u].item
                          /\ call'[u].newest = call[u].newest /\ call'[u].fn = call[u].fn
                          /\ (u # t => call'[u].served = call[u].served)
                          /\ (call[u].at = k /\ call[u].newest => call'[u].fresh = call[u].fresh),
         sheet'[k] = sheet[k]
  PROVE  FollowedOK(k)'
<1>1. \A u \in Calls : Brings(call[u], k) => Brings(call'[u], k)
  BY DEF Brings
<1>2. \A u \in Calls : u # t /\ Pursues(page, call[u], k, sheet[k].of) => Pursues(page, call'[u], k, sheet[k].of)
  BY DEF Pursues
<1>3. ~Pursues(page, call[t], k, sheet[k].of)
  BY DEF Pursues
<1>4. (Brought(k) => Brought(k)') /\ (Pursued(k) => Pursued(k)')
  BY <1>1, <1>2, <1>3 DEF Brought, Pursued
<1>5. ASSUME NEW u \in Calls, call'[u].at = k, call'[u].newest
      PROVE  /\ call[u].at = k /\ call[u].newest /\ call[u].item = call'[u].item
             /\ call[u].served = call'[u].served /\ call[u].fresh = call'[u].fresh
  BY <1>5
<1> QED BY <1>4, <1>5 DEF FollowedOK

-----------------------------------------------------------------------------
\* What a step does to the flags, by what call t does.

Still(c, d) == d.at = c.at /\ d.fn = c.fn /\ d.item = c.item /\ d.flag = c.flag

StillBut(t) == \A u \in Calls : u # t => Still(call[u], call'[u])

LEMMA AlikeStill == ASSUME NEW t, NEW K, AlikeBut(t, call, call', K) PROVE StillBut(t)
BY DEF Alike, AlikeBut, Still, StillBut

LEMMA FlagsStay ==
  ASSUME FlagsHeld, NEW t \in Calls, StillBut(t),
         \A f \in flags' : \/ f[1] = "form"
                           \/ f \in flags /\ (f # call[t].flag \/ call[t].at = "idle")
                           \/ call'[t].at # "idle" /\ call'[t].flag = f
  PROVE  FlagsHeld'
<1> SUFFICES ASSUME NEW f \in flags', f[1] # "form"
             PROVE  \E u \in Calls : call'[u].at # "idle" /\ call'[u].flag = f
  BY DEF FlagsHeld
<1>1. CASE f \in flags /\ (f # call[t].flag \/ call[t].at = "idle")
  <2>1. PICK u \in Calls : call[u].at # "idle" /\ call[u].flag = f
    BY <1>1 DEF FlagsHeld
  <2>2. u # t
    BY <1>1, <2>1
  <2> QED BY <2>1, <2>2 DEF Still, StillBut
<1> QED BY <1>1

LEMMA GuardsDiffer ==
  ASSUME NEW f, NEW g, NEW i, NEW j, f \in Guarded, g \in Guarded, GuardOf(f, i) = GuardOf(g, j)
  PROVE  /\ i = j /\ GuardOf(f, i)[1] \in GuardNames
         /\ \E fns \in {{"startApplication", "archivePosting"}, {"move", "moved", "archiveApplication"}} :
              f \in fns /\ g \in fns
<1>1. \A h, k : h \in Guarded => GuardOf(h, k)[1] \in GuardNames /\ GuardOf(h, k)[2] = k
  BY DEF GuardOf, Guarded, GuardNames, Starting, PendingPost, PendingApplication
<1>2. /\ f = "startApplication" => GuardOf(f, i)[1] = "starting"
      /\ f = "archivePosting" => GuardOf(f, i)[1] = "pendingPost"
      /\ f \in {"move", "moved", "archiveApplication"} => GuardOf(f, i)[1] = "pendingApplication"
  BY DEF GuardOf, Starting, PendingPost, PendingApplication
<1>3. /\ g = "startApplication" => GuardOf(g, j)[1] = "starting"
      /\ g = "archivePosting" => GuardOf(g, j)[1] = "pendingPost"
      /\ g \in {"move", "moved", "archiveApplication"} => GuardOf(g, j)[1] = "pendingApplication"
  BY DEF GuardOf, Starting, PendingPost, PendingApplication
<1>4. /\ f \in {"startApplication", "archivePosting"} <=> g \in {"startApplication", "archivePosting"}
  BY <1>2, <1>3 DEF Guarded
<1> QED BY <1>1, <1>4 DEF Guarded

\* A call ends or goes on.
LEMMA GuardsStay ==
  ASSUME GuardsOK, NEW t \in Calls, StillBut(t),
         \A f \in flags : \/ f \in flags' \/ f[1] \notin GuardNames
                          \/ f = call[t].flag /\ call[t].at # "idle" /\ call'[t].at = "idle",
         call'[t].at # "idle" =>
           /\ call[t].at # "idle" /\ call'[t].item = call[t].item /\ call'[t].flag = call[t].flag
           /\ call'[t].fn = call[t].fn \/ (call[t].fn = "move" /\ call'[t].fn = "moved")
  PROVE  GuardsOK'
<1>1. ASSUME NEW u \in Calls, call'[u].at # "idle"
      PROVE  /\ call[u].at # "idle" /\ call'[u].item = call[u].item /\ call'[u].flag = call[u].flag
             /\ call'[u].fn = call[u].fn \/ (call[u].fn = "move" /\ call'[u].fn = "moved")
  BY <1>1 DEF Still, StillBut
<1>2. ASSUME NEW u \in Calls, call'[u].at # "idle", call'[u].fn \in Guarded
      PROVE  call'[u].flag = GuardOf(call'[u].fn, call'[u].item) /\ call'[u].flag \in flags'
  <2>1. call[u].fn \in Guarded /\ GuardOf(call'[u].fn, call'[u].item) = GuardOf(call[u].fn, call[u].item)
    BY <1>1, <1>2 DEF Guarded, GuardOf
  <2>2. call[u].flag = GuardOf(call[u].fn, call[u].item) /\ call[u].flag \in flags /\ call[u].flag[1] \in GuardNames
    BY <1>1, <1>2, <2>1, GuardsDiffer DEF GuardsOK
  <2>3. ~(call[u].flag = call[t].flag /\ call[t].at # "idle" /\ call'[t].at = "idle")
    <3> SUFFICES ASSUME call[u].flag = call[t].flag, call[t].at # "idle", call'[t].at = "idle" PROVE FALSE
      OBVIOUS
    <3>1. u # t
      BY <1>2
    <3>2. call[t].fn \in Guarded
      BY <2>2 DEF GuardsOK
    <3>3. call[t].flag = GuardOf(call[t].fn, call[t].item)
      BY <3>2 DEF GuardsOK
    <3>4. GuardOf(call[u].fn, call[u].item) = GuardOf(call[t].fn, call[t].item)
      BY <2>2, <3>3
    <3>5. /\ call[u].item = call[t].item
          /\ \E fns \in {{"startApplication", "archivePosting"}, {"move", "moved", "archiveApplication"}} :
               call[u].fn \in fns /\ call[t].fn \in fns
      BY <2>1, <3>2, <3>4, GuardsDiffer
    <3>6. call[u].at # "idle"
      BY <1>1, <1>2
    <3> QED BY <3>1, <3>5, <3>6 DEF GuardsOK, OneChange
  <2> QED BY <1>1, <1>2, <2>1, <2>2, <2>3
<1>3. ASSUME NEW u \in Calls, call'[u].at # "idle", call'[u].fn \notin Guarded
      PROVE  call'[u].flag[1] \notin GuardNames
  <2>1. call[u].fn \notin Guarded
    BY <1>1, <1>3 DEF Guarded
  <2> QED BY <1>1, <1>3, <2>1 DEF GuardsOK
<1>4. OneChange'
  <2> SUFFICES ASSUME NEW u \in Calls, NEW v \in Calls, call'[u].at # "idle", call'[v].at # "idle", u # v,
                      call'[u].item = call'[v].item,
                      NEW fns \in {{"startApplication", "archivePosting"}, {"move", "moved", "archiveApplication"}},
                      call'[u].fn \in fns, call'[v].fn \in fns
               PROVE  FALSE
    BY DEF OneChange
  <2>1. call[u].fn \in fns /\ call[v].fn \in fns
    BY <1>1
  <2> QED BY <1>1, <2>1 DEF GuardsOK, OneChange
<1> QED BY <1>2, <1>3, <1>4 DEF GuardsOK

\* A call begins.
LEMMA GuardsBegin ==
  ASSUME GuardsOK, NEW t \in Calls, StillBut(t),
         call[t].at = "idle", flags \subseteq flags',
         call'[t].fn \in Guarded => /\ call'[t].flag = GuardOf(call'[t].fn, call'[t].item)
                                    /\ call'[t].flag \in flags' /\ call'[t].flag \notin flags,
         call'[t].fn \in {"startApplication", "archivePosting"} =>
           {Starting(call'[t].item), PendingPost(call'[t].item)} \cap flags = {},
         call'[t].fn \notin Guarded => call'[t].flag[1] \notin GuardNames
  PROVE  GuardsOK'
<1>1. ASSUME NEW u \in Calls, u # t, call'[u].at # "idle"
      PROVE  /\ call'[u].fn \in Guarded => /\ call[u].flag = GuardOf(call'[u].fn, call'[u].item)
                                           /\ call'[u].flag = call[u].flag /\ call'[u].flag \in flags
             /\ call'[u].fn \notin Guarded => call'[u].flag[1] \notin GuardNames
  BY <1>1 DEF Still, StillBut, GuardsOK
<1>2. ASSUME NEW u \in Calls, u # t, call'[u].at # "idle", call'[u].item = call'[t].item,
             NEW fns \in {{"startApplication", "archivePosting"}, {"move", "moved", "archiveApplication"}},
             call'[u].fn \in fns, call'[t].fn \in fns
      PROVE  FALSE
  <2>1. call'[u].fn \in Guarded /\ call'[t].fn \in Guarded
    BY <1>2 DEF Guarded
  <2>2. GuardOf(call'[u].fn, call'[u].item) \in flags
    BY <1>1, <1>2, <2>1
  <2>3. CASE fns = {"startApplication", "archivePosting"}
    <3>1. GuardOf(call'[u].fn, call'[u].item) \in {Starting(call'[t].item), PendingPost(call'[t].item)}
      BY <1>2, <2>3 DEF GuardOf
    <3> QED BY <1>2, <2>2, <2>3, <3>1
  <2>4. CASE fns = {"move", "moved", "archiveApplication"}
    <3>1. GuardOf(call'[u].fn, call'[u].item) = GuardOf(call'[t].fn, call'[t].item)
      BY <1>2, <2>4 DEF GuardOf
    <3> QED BY <2>1, <2>2, <3>1
  <2> QED BY <1>2, <2>3, <2>4
<1>3. OneChange'
  <2> SUFFICES ASSUME NEW u \in Calls, NEW v \in Calls, call'[u].at # "idle", call'[v].at # "idle", u # v,
                      call'[u].item = call'[v].item,
                      NEW fns \in {{"startApplication", "archivePosting"}, {"move", "moved", "archiveApplication"}},
                      call'[u].fn \in fns, call'[v].fn \in fns
               PROVE  FALSE
    BY DEF OneChange
  <2>1. CASE u # t /\ v # t
    BY <2>1 DEF GuardsOK, OneChange, Still, StillBut
  <2>2. CASE u = t
    BY <1>2, <2>2
  <2>3. CASE v = t
    BY <1>2, <2>3
  <2> QED BY <2>1, <2>2, <2>3
<1> QED BY <1>1, <1>3 DEF GuardsOK

-----------------------------------------------------------------------------
(* The parts of the functions.                                             *)

LEMMA AlikeSame == ASSUME NEW c, NEW K PROVE Alike(c, c, {})
BY DEF Alike

Fetches(c, k) == c.at = k /\ c.newest /\ ~c.served
IsFor(c, fn, i, flag) == c.fn = fn /\ c.item = i /\ c.flag = flag

\* Call t goes on to fetch sheet k, from what calls has of it.
LEMMA FetchIs ==
  ASSUME NEW calls, CallsTyped(calls),
         NEW t \in Calls, NEW k, NEW K, AlikeBut(t, call, calls, K),
         NEW d, d = Fetch(calls, t, k)
  PROVE  /\ CallsTyped(d)
         /\ AlikeBut(t, call, d, K \cup {k})
         /\ Fetches(d[t], k)
         /\ IsFor(d[t], calls[t].fn, calls[t].item, calls[t].flag)
<1>1. PICK o : o = Outdated(calls, k)
  OBVIOUS
<1>2. o = [u \in Calls |-> o[u]]
  BY <1>1, OutdatedMaps
<1>3. \A u \in Calls : CallTyped(o[u]) /\ Alike(calls[u], o[u], {k})
  <2> TAKE u \in Calls
  <2>1. LET e == o[u] IN
         /\ CallTyped(e) /\ e.at = calls[u].at /\ e.fn = calls[u].fn /\ e.item = calls[u].item
         /\ e.flag = calls[u].flag /\ e.served = calls[u].served /\ e.rows = calls[u].rows
         /\ e.fresh = calls[u].fresh
         /\ (e.newest <=> calls[u].newest /\ calls[u].at # k)
    BY <1>1, OutdatedIs DEF CallsTyped
  <2> QED BY <2>1 DEF Alike
<1>4. PICK c, e : c = o[t] /\ e = [c EXCEPT !.at = k, !.newest = TRUE, !.served = FALSE]
  OBVIOUS
<1>5. CallTyped(e) /\ e.at = k /\ e.newest /\ ~e.served /\ e.fn = c.fn /\ e.item = c.item /\ e.flag = c.flag
  <2>1. CallTyped(c)
    BY <1>3, <1>4
  <2>2. e = [c EXCEPT !.at = k, !.newest = TRUE, !.served = FALSE]
    BY <1>4
  <2> QED BY <2>1, <2>2 DEF CallTyped
<1>6. d = [o EXCEPT ![t] = e]
  BY <1>1, <1>2, <1>4 DEF Fetch
<1>7. d = [u \in Calls |-> d[u]] /\ d[t] = e /\ \A u \in Calls : u # t => d[u] = o[u]
  BY <1>2, <1>6
<1>8. CallsTyped(d)
  BY <1>3, <1>5, <1>7 DEF CallsTyped
<1>9. AlikeBut(t, call, d, K \cup {k})
  BY <1>3, <1>7 DEF Alike, AlikeBut
<1>10. c.fn = calls[t].fn /\ c.item = calls[t].item /\ c.flag = calls[t].flag
  BY <1>3, <1>4 DEF Alike
<1> QED BY <1>5, <1>7, <1>8, <1>9, <1>10 DEF Fetches, IsFor

\* A fetch of the user's begins.
LEMMA ShownIs ==
  ASSUME CallsTyped(call), FreeCalls # {}, NEW k, NEW i, NEW row, NEW d, d = Shown(k, i, row)
  PROVE  /\ FreeCall \in Calls /\ call[FreeCall].at = "idle"
         /\ CallsTyped(d)
         /\ AlikeBut(FreeCall, call, d, {k})
         /\ Fetches(d[FreeCall], k)
         /\ IsFor(d[FreeCall], "show", i, <<"none", NoItem>>)
<1>1. PICK t, n, e : t = FreeCall /\ n = NoCall /\ e = [n EXCEPT !.fn = "show", !.item = i, !.rows = row]
  OBVIOUS
<1>2. t \in Calls /\ call[t].at = "idle"
  BY <1>1, FreeCallIs
<1>3. CallTyped(n) /\ n.flag = <<"none", NoItem>>
  BY <1>1, NoCallTyped DEF NoCall
<1>4. CallTyped(e) /\ e.fn = "show" /\ e.item = i /\ e.flag = <<"none", NoItem>>
  BY <1>1, <1>3 DEF CallTyped
<1>5. PICK calls : calls = [call EXCEPT ![t] = e]
  OBVIOUS
<1>6. d = Fetch(calls, t, k)
  BY <1>1, <1>5 DEF Shown
<1>7. /\ calls = [u \in Calls |-> calls[u]] /\ calls[t] = e /\ \A u \in Calls : u # t => calls[u] = call[u]
  BY <1>2, <1>5 DEF CallsTyped
<1>8. CallsTyped(calls)
  BY <1>4, <1>7 DEF CallsTyped
<1>9. PICK K : K = {}
  OBVIOUS
<1>10. AlikeBut(t, call, calls, K)
  BY <1>7, <1>9, AlikeSame DEF AlikeBut
<1>11. /\ CallsTyped(d)
       /\ AlikeBut(t, call, d, K \cup {k})
       /\ Fetches(d[t], k)
       /\ IsFor(d[t], calls[t].fn, calls[t].item, calls[t].flag)
  BY <1>2, <1>6, <1>7, <1>8, <1>10, FetchIs
<1>12. K \cup {k} = {k}
  BY <1>9
<1> QED BY <1>1, <1>2, <1>4, <1>7, <1>11, <1>12

\* A call ends.
LEMMA EndIs ==
  ASSUME NEW sheets, PageTyped(sheets), NEW t \in Calls, call' = [call EXCEPT ![t] = NoCall]
  PROVE  /\ call' = [u \in Calls |-> call'[u]] /\ \A u \in Calls : CallTyped(call'[u])
         /\ AlikeBut(t, call, call', {})
         /\ call'[t].at = "idle" /\ call'[t].fn = "none" /\ ~call'[t].newest /\ ~call'[t].served
<1>1. PICK n : n = NoCall
  OBVIOUS
<1>2. CallTyped(n) /\ n.at = "idle" /\ n.fn = "none" /\ ~n.newest /\ ~n.served
  BY <1>1, NoCallTyped DEF NoCall
<1>3. call' = [call EXCEPT ![t] = n]
  BY <1>1
<1>4. /\ call' = [u \in Calls |-> call'[u]] /\ \A u \in Calls : CallTyped(call'[u])
      /\ call'[t] = n /\ \A u \in Calls : u # t => call'[u] = call[u]
  BY <1>2, <1>3, CallChanges DEF PageTyped
<1> QED BY <1>2, <1>4 DEF Alike, AlikeBut

\* A change is sent.
LEMMA SendIs ==
  ASSUME NEW sheets, PageTyped(sheets), NEW fn, NEW i, NEW flag, SendChange(fn, i, flag)
  PROVE  /\ FreeCall \in Calls /\ call[FreeCall].at = "idle"
         /\ call' = [u \in Calls |-> call'[u]] /\ \A u \in Calls : CallTyped(call'[u])
         /\ AlikeBut(FreeCall, call, call', {})
         /\ call'[FreeCall].at = "sending" /\ ~call'[FreeCall].newest /\ ~call'[FreeCall].served
         /\ call'[FreeCall].fn = fn /\ call'[FreeCall].item = i /\ call'[FreeCall].flag = flag
         /\ flag \notin flags /\ flags' = flags \cup {flag} /\ UNCHANGED <<page, backend, sheet, errors>>
<1>1. PICK t, n, e : t = FreeCall /\ n = NoCall
                     /\ e = [n EXCEPT !.at = "sending", !.fn = fn, !.item = i, !.flag = flag]
  OBVIOUS
<1>2. t \in Calls /\ call[t].at = "idle"
  BY <1>1, FreeCallIs DEF SendChange
<1>3. CallTyped(n) /\ ~n.newest /\ ~n.served
  BY <1>1, NoCallTyped DEF NoCall
<1>4. CallTyped(e) /\ e.at = "sending" /\ e.fn = fn /\ e.item = i /\ e.flag = flag /\ ~e.newest /\ ~e.served
  BY <1>1, <1>3 DEF CallTyped
<1>5. call' = [call EXCEPT ![t] = e]
  BY <1>1 DEF SendChange
<1>6. /\ call' = [u \in Calls |-> call'[u]] /\ \A u \in Calls : CallTyped(call'[u])
      /\ call'[t] = e /\ \A u \in Calls : u # t => call'[u] = call[u]
  BY <1>2, <1>4, <1>5, CallChanges DEF PageTyped
<1>7. AlikeBut(t, call, call', {})
  BY <1>6 DEF Alike, AlikeBut
<1>8. flag \notin flags /\ flags' = flags \cup {flag} /\ UNCHANGED <<page, backend, sheet, errors>>
  BY DEF SendChange
<1> QED BY <1>1, <1>2, <1>4, <1>6, <1>7, <1>8

\* The server makes a change that shows in the sheets shows.
LEMMA ServeChangeIs ==
  ASSUME NEW sheets, PageTyped(sheets), NEW t \in Calls, NEW steps, NEW shows, ServeChange(t, steps, shows)
  PROVE  /\ call' = [u \in Calls |-> call'[u]] /\ \A u \in Calls : CallTyped(call'[u])
         /\ sheet' = [k \in sheets |-> sheet'[k]] /\ \A k \in sheets : SheetTyped(sheet'[k])
         /\ call[t].at = "sending" /\ ~call[t].served /\ call'[t].served
         /\ \A u \in Calls : /\ Still(call[u], call'[u]) /\ call'[u].newest = call[u].newest
                             /\ u # t => call'[u].served = call[u].served
         /\ \A u \in Calls : u # t /\ ~(call[u].at \in shows /\ (call[u].at \in Lists \/ call[u].item = call[t].item))
              => call'[u] = call[u]
         /\ \A k \in sheets : sheet'[k].of = sheet[k].of
         /\ \A k \in sheets : ~(k \in shows /\ (k \in Lists \/ sheet[k].of = call[t].item)) => sheet'[k] = sheet[k]
         /\ UNCHANGED <<page, flags, errors>>
<1> DEFINE Shows(k, i) == k \in shows /\ (k \in Lists \/ i = call[t].item)
<1>1. /\ call[t].at = "sending" /\ ~call[t].served
      /\ sheet' = [k \in sheets |->
           IF Shows(k, sheet[k].of) /\ sheet[k].content = "new"
           THEN [sheet[k] EXCEPT !.content = "old"] ELSE sheet[k]]
      /\ call' = [u \in Calls |->
           IF u = t THEN [call[t] EXCEPT !.served = TRUE]
           ELSE IF Shows(call[u].at, call[u].item) THEN [call[u] EXCEPT !.fresh = FALSE] ELSE call[u]]
      /\ UNCHANGED <<page, flags, errors>>
  BY DEF ServeChange, PageTyped
<1> HIDE DEF Shows
<1>2. ASSUME NEW k \in sheets
      PROVE  /\ SheetTyped(sheet'[k]) /\ sheet'[k].of = sheet[k].of
             /\ ~Shows(k, sheet[k].of) => sheet'[k] = sheet[k]
  <2>1. PICK s, e : s = sheet[k] /\ e = [s EXCEPT !.content = "old"]
    OBVIOUS
  <2>2. SheetTyped(s)
    BY <2>1 DEF PageTyped
  <2>3. SheetTyped(e) /\ e.of = s.of
    BY <2>1, <2>2 DEF SheetTyped
  <2>4. sheet'[k] = IF Shows(k, s.of) /\ s.content = "new" THEN e ELSE s
    BY <1>1, <2>1
  <2> QED BY <2>1, <2>2, <2>3, <2>4
<1>3. ASSUME NEW u \in Calls, u # t
      PROVE  /\ CallTyped(call'[u]) /\ Still(call[u], call'[u]) /\ call'[u].newest = call[u].newest
             /\ call'[u].served = call[u].served
             /\ ~Shows(call[u].at, call[u].item) => call'[u] = call[u]
  <2>1. PICK c, e : c = call[u] /\ e = [c EXCEPT !.fresh = FALSE]
    OBVIOUS
  <2>2. CallTyped(c)
    BY <2>1 DEF PageTyped
  <2>3. CallTyped(e) /\ Still(c, e) /\ e.newest = c.newest /\ e.served = c.served
    BY <2>1, <2>2 DEF CallTyped, Still
  <2>4. call'[u] = IF Shows(c.at, c.item) THEN e ELSE c
    BY <1>1, <1>3, <2>1
  <2> QED BY <2>1, <2>2, <2>3, <2>4 DEF Still
<1>4. CallTyped(call'[t]) /\ Still(call[t], call'[t]) /\ call'[t].newest = call[t].newest /\ call'[t].served
  <2>1. PICK c, e : c = call[t] /\ e = [c EXCEPT !.served = TRUE]
    OBVIOUS
  <2>2. CallTyped(c) /\ call'[t] = e
    BY <1>1, <2>1 DEF PageTyped
  <2>3. CallTyped(e) /\ Still(c, e) /\ e.newest = c.newest /\ e.served
    BY <2>1, <2>2 DEF CallTyped, Still
  <2> QED BY <2>1, <2>2, <2>3
<1>5. call' = [u \in Calls |-> call'[u]] /\ sheet' = [k \in sheets |-> sheet'[k]]
  BY <1>1
<1>6. \A u \in Calls : CallTyped(call'[u]) /\ Still(call[u], call'[u]) /\ call'[u].newest = call[u].newest
  BY <1>3, <1>4
<1> QED BY <1>1, <1>2, <1>3, <1>4, <1>5, <1>6 DEF Shows

\* A sheet is answered.
LEMMA ServeFetchIs ==
  ASSUME NEW sheets, PageTyped(sheets), NEW t \in Calls,
         call[t].at # "idle", call[t].at # "sending",
         \E r : call' = [call EXCEPT ![t].served = TRUE, ![t].fresh = TRUE, ![t].rows = r]
  PROVE  /\ call' = [u \in Calls |-> call'[u]] /\ \A u \in Calls : CallTyped(call'[u])
         /\ \A u \in Calls : u # t => call'[u] = call[u]
         /\ \A u \in Calls : Still(call[u], call'[u])
         /\ call'[t].newest = call[t].newest /\ call'[t].served /\ call'[t].fresh
<1>1. PICK r : call' = [call EXCEPT ![t].served = TRUE, ![t].fresh = TRUE, ![t].rows = r]
  OBVIOUS
<1>2. PICK c, e : c = call[t] /\ e = [c EXCEPT !.served = TRUE, !.fresh = TRUE, !.rows = r]
  OBVIOUS
<1>3. CallTyped(c) /\ call' = [call EXCEPT ![t] = e]
  BY <1>1, <1>2 DEF PageTyped
<1>4. CallTyped(e) /\ Still(c, e) /\ e.newest = c.newest /\ e.served /\ e.fresh
  BY <1>2, <1>3 DEF CallTyped, Still
<1>5. /\ call' = [u \in Calls |-> call'[u]] /\ \A u \in Calls : CallTyped(call'[u])
      /\ call'[t] = e /\ \A u \in Calls : u # t => call'[u] = call[u]
  BY <1>3, <1>4, CallChanges DEF PageTyped
<1>6. \A u \in Calls : Still(call[u], call'[u])
  <2> TAKE u \in Calls
  <2>1. CASE u = t
    BY <1>2, <1>4, <1>5, <2>1
  <2>2. CASE u # t
    BY <1>5, <2>2 DEF Still
  <2> QED BY <2>1, <2>2
<1> QED BY <1>2, <1>4, <1>5, <1>6

-----------------------------------------------------------------------------
(* All pages.                                                              *)

LEMMA FollowedAre ==
  ASSUME page \in {"documents", "applications", "settings"}
  PROVE  \A k \in Followed(page) : k \in SheetsOf(page) /\ k # "idle" /\ k # "sending"
BY DEF Followed, SheetsOf

LEMMA UnguardedStay ==
  ASSUME NEW t \in Calls, NEW K, AlikeBut(t, call, call', K), \A u \in Calls : call[u].fn \notin Guarded,
         call'[t].fn \notin Guarded
  PROVE  \A u \in Calls : call'[u].fn \notin Guarded
BY DEF AlikeBut, Alike

\* The details of an application or a posting stay as they are, and call t begins to
\* fetch one or does something else.
LEMMA DetailsStay ==
  ASSUME DetailsOK, NEW t \in Calls, NEW K, AlikeBut(t, call, call', K),
         \A k \in {"history", "versions"} : sheet'[k] \in {sheet[k], Blank},
         call'[t].at \in {"history", "versions"} => ~call'[t].served
  PROVE  DetailsOK'
<1>1. ASSUME NEW u \in Calls, NEW k \in {"history", "versions"}, call'[u].at = k, call'[u].served
      PROVE  call'[u].fresh
  BY <1>1 DEF AlikeBut, Alike, DetailsOK
<1>2. \A k \in {"history", "versions"} : sheet'[k] = Blank \/ sheet'[k].content = "new"
  BY DEF DetailsOK
<1> QED BY <1>1, <1>2 DEF DetailsOK

\* A change is sent.
LEMMA ChangeSentKeeps ==
  ASSUME ListInv, NEW fn, NEW i, NEW flag, SendChange(fn, i, flag),
         page # "applications" => fn \notin Guarded,
         fn \in Guarded => flag = GuardOf(fn, i),
         fn \in {"startApplication", "archivePosting"} => {Starting(i), PendingPost(i)} \cap flags = {},
         fn \notin Guarded => flag[1] \notin GuardNames
  PROVE  ListInv'
<1>1. PICK t : t = FreeCall
  OBVIOUS
<1>2. /\ page \in {"documents", "applications", "settings"} /\ PageTyped(SheetsOf(page))
      /\ \A k \in Followed(page) : FollowedOK(k)
  BY DEF ListInv, ListBase
<1>3. /\ t \in Calls /\ call[t].at = "idle"
      /\ call' = [u \in Calls |-> call'[u]] /\ \A u \in Calls : CallTyped(call'[u])
      /\ AlikeBut(t, call, call', {})
      /\ call'[t].at = "sending" /\ ~call'[t].newest /\ ~call'[t].served
      /\ call'[t].fn = fn /\ call'[t].item = i /\ call'[t].flag = flag
      /\ flag \notin flags /\ flags' = flags \cup {flag} /\ UNCHANGED <<page, backend, sheet, errors>>
  BY <1>1, <1>2, SendIs
<1>4. StillBut(t)
  BY <1>3, AlikeStill
<1>5. PageTyped(SheetsOf(page))'
  BY <1>2, <1>3 DEF PageTyped
<1>6. ASSUME NEW k \in Followed(page) PROVE FollowedOK(k)'
  <2>1. FollowedOK(k) /\ k # "idle" /\ k # "sending"
    BY <1>2, FollowedAre
  <2>2. ~Pursues(page, call[t], k, sheet[k].of)
    BY <1>3 DEF Pursues
  <2> QED BY <1>3, <2>1, <2>2, SheetElsewhere
<1>7. FlagsHeld'
  <2>1. FlagsHeld
    BY DEF ListInv
  <2> QED BY <1>3, <1>4, <2>1, FlagsStay
<1>8. page = "applications" => DetailsOK' /\ GuardsOK'
  <2> HAVE page = "applications"
  <2>1. DetailsOK /\ GuardsOK
    BY DEF ListInv
  <2>2. DetailsOK'
    BY <1>3, <2>1, DetailsStay
  <2>3. GuardsOK'
    BY <1>3, <1>4, <2>1, GuardsBegin
  <2> QED BY <2>2, <2>3
<1>9. page # "applications" => \A u \in Calls : call'[u].fn \notin Guarded
  BY <1>3, UnguardedStay DEF ListInv
<1> QED BY <1>2, <1>3, <1>5, <1>6, <1>7, <1>8, <1>9 DEF ListInv, ListBase

\* A sheet is answered.
LEMMA AnswerKeeps ==
  ASSUME ListInv, NEW t \in Calls, call[t].at # "idle", call[t].at # "sending",
         \E r : call' = [call EXCEPT ![t].served = TRUE, ![t].fresh = TRUE, ![t].rows = r],
         UNCHANGED <<page, sheet, flags, errors>>
  PROVE  ListInv'
<1>2. /\ page \in {"documents", "applications", "settings"} /\ PageTyped(SheetsOf(page))
      /\ \A k \in Followed(page) : FollowedOK(k)
  BY DEF ListInv, ListBase
<1>3. /\ call' = [u \in Calls |-> call'[u]] /\ \A u \in Calls : CallTyped(call'[u])
      /\ \A u \in Calls : u # t => call'[u] = call[u]
      /\ \A u \in Calls : Still(call[u], call'[u])
      /\ call'[t].newest = call[t].newest /\ call'[t].served /\ call'[t].fresh
  BY <1>2, ServeFetchIs
<1>4. StillBut(t) /\ Still(call[t], call'[t])
  BY <1>3 DEF StillBut
<1>5. PageTyped(SheetsOf(page))'
  BY <1>2, <1>3 DEF PageTyped
<1>6. ASSUME NEW k \in Followed(page) PROVE FollowedOK(k)'
  <2>1. call'[t].at = call[t].at /\ call'[t].item = call[t].item /\ call'[t].fn = call[t].fn
    BY <1>4 DEF Still
  <2> QED BY <1>2, <1>3, <2>1, SheetAnswered
<1>7. FlagsHeld'
  <2>1. FlagsHeld
    BY DEF ListInv
  <2> QED BY <1>3, <1>4, <2>1, FlagsStay DEF Still
<1>8. page = "applications" => DetailsOK' /\ GuardsOK'
  <2> HAVE page = "applications"
  <2>1. DetailsOK /\ GuardsOK
    BY DEF ListInv
  <2>2. DetailsOK'
    BY <1>3, <2>1 DEF DetailsOK
  <2>3. GuardsOK'
    BY <1>4, <2>1, GuardsStay DEF Still
  <2> QED BY <2>2, <2>3
<1>9. page # "applications" => \A u \in Calls : call'[u].fn \notin Guarded
  BY <1>3 DEF ListInv, Still
<1> QED BY <1>2, <1>3, <1>5, <1>6, <1>7, <1>8, <1>9 DEF ListInv, ListBase

\* The server makes a change, which the page will show.
LEMMA ChangeKeeps ==
  ASSUME ListInv, NEW t \in Calls, NEW steps, NEW shows, ServeChange(t, steps, shows),
         page = "applications" => shows \subseteq {"list"},
         \A k \in Followed(page) : \A c :
           k \in shows /\ (k \in Lists \/ sheet[k].of = c.item)
           /\ c.at = "sending" /\ c.served /\ c.fn = call[t].fn /\ c.item = call[t].item
           => Pursues(page, c, k, sheet[k].of),
         page = "settings" => shows \subseteq Lists
  PROVE  ListInv'
<1>2. /\ page \in {"documents", "applications", "settings"} /\ PageTyped(SheetsOf(page))
      /\ \A k \in Followed(page) : FollowedOK(k)
  BY DEF ListInv, ListBase
<1>3. /\ call' = [u \in Calls |-> call'[u]] /\ \A u \in Calls : CallTyped(call'[u])
      /\ sheet' = [k \in SheetsOf(page) |-> sheet'[k]] /\ \A k \in SheetsOf(page) : SheetTyped(sheet'[k])
      /\ call[t].at = "sending" /\ ~call[t].served /\ call'[t].served
      /\ \A u \in Calls : /\ Still(call[u], call'[u]) /\ call'[u].newest = call[u].newest
                          /\ u # t => call'[u].served = call[u].served
      /\ \A u \in Calls : u # t /\ ~(call[u].at \in shows /\ (call[u].at \in Lists \/ call[u].item = call[t].item))
           => call'[u] = call[u]
      /\ \A k \in SheetsOf(page) : sheet'[k].of = sheet[k].of
      /\ \A k \in SheetsOf(page) : ~(k \in shows /\ (k \in Lists \/ sheet[k].of = call[t].item)) => sheet'[k] = sheet[k]
      /\ UNCHANGED <<page, flags, errors>>
  BY <1>2, ServeChangeIs
<1>4. StillBut(t) /\ Still(call[t], call'[t])
  BY <1>3 DEF StillBut
<1>5. PageTyped(SheetsOf(page))'
  BY <1>2, <1>3 DEF PageTyped
<1>6. ASSUME NEW k \in Followed(page) PROVE FollowedOK(k)'
  <2>1. FollowedOK(k) /\ k # "idle" /\ k # "sending" /\ k \in SheetsOf(page)
    BY <1>2, FollowedAre
  <2>2. \A u \in Calls : /\ call'[u].at = call[u].at /\ call'[u].item = call[u].item
                         /\ call'[u].newest = call[u].newest /\ call'[u].fn = call[u].fn
                         /\ (u # t => call'[u].served = call[u].served)
    BY <1>3 DEF Still
  <2>3. CASE k \in shows /\ (k \in Lists \/ sheet[k].of = call[t].item)
    <3>1. Pursues(page, call'[t], k, sheet[k].of)
      BY <1>3, <2>2, <2>3
    <3> QED BY <1>3, <2>1, <2>2, <3>1, SheetOutdated
  <2>4. CASE ~(k \in shows /\ (k \in Lists \/ sheet[k].of = call[t].item))
    <3>1. ASSUME NEW u \in Calls, call[u].at = k, call[u].newest PROVE call'[u].fresh = call[u].fresh
      <4>1. u # t
        BY <1>3, <2>1, <3>1
      <4>2. k \in shows => k \notin Lists /\ page = "documents" /\ k # "list"
        BY <1>2, <2>4 DEF Lists
      <4>3. k \in shows => call[u].item # call[t].item
        BY <2>1, <2>4, <3>1, <4>2 DEF FollowedOK
      <4> QED BY <1>3, <3>1, <4>1, <4>2, <4>3
    <3>2. sheet'[k] = sheet[k]
      BY <1>3, <2>1, <2>4
    <3> QED BY <1>3, <2>1, <2>2, <3>1, <3>2, SheetUntouched
  <2> QED BY <2>3, <2>4
<1>7. FlagsHeld'
  <2>1. FlagsHeld
    BY DEF ListInv
  <2> QED BY <1>3, <1>4, <2>1, FlagsStay DEF Still
<1>8. page = "applications" => DetailsOK' /\ GuardsOK'
  <2> HAVE page = "applications"
  <2>1. DetailsOK /\ GuardsOK
    BY DEF ListInv
  <2>2. DetailsOK'
    <3>1. \A k \in {"history", "versions"} : sheet'[k] = sheet[k]
      BY <1>3 DEF SheetsOf
    <3>2. \A u \in Calls : call'[u].at \in {"history", "versions"} => call'[u] = call[u]
      BY <1>3 DEF Still
    <3> QED BY <2>1, <3>1, <3>2 DEF DetailsOK
  <2>3. GuardsOK'
    BY <1>3, <1>4, <2>1, GuardsStay DEF Still
  <2> QED BY <2>2, <2>3
<1>9. page # "applications" => \A u \in Calls : call'[u].fn \notin Guarded
  BY <1>3 DEF ListInv, Still
<1> QED BY <1>2, <1>3, <1>5, <1>6, <1>7, <1>8, <1>9 DEF ListInv, ListBase

\* What is left to show of a step of call t.
LEMMA UnguardedAgain ==
  ASSUME ListInv, page # "applications", page' = page, NEW t \in Calls, NEW K,
         AlikeBut(t, call, call', K), PageTyped(SheetsOf(page))',
         \A k \in Followed(page) : FollowedOK(k)',
         \A f \in flags' : \/ f \in flags /\ (f # call[t].flag \/ call[t].at = "idle")
                           \/ call'[t].at # "idle" /\ call'[t].flag = f,
         call'[t].fn \notin Guarded
  PROVE  ListInv'
<1>1. StillBut(t)
  BY AlikeStill
<1>2. FlagsHeld'
  BY <1>1, FlagsStay DEF ListInv
<1>3. \A u \in Calls : call'[u].fn \notin Guarded
  BY UnguardedStay DEF ListInv
<1> QED BY <1>2, <1>3 DEF ListInv, ListBase

LEMMA GuardedAgain ==
  ASSUME ListInv, page = "applications", page' = page, NEW t \in Calls, NEW K,
         AlikeBut(t, call, call', K), PageTyped(SheetsOf(page))', FollowedOK("list")', DetailsOK',
         \A f \in flags' : \/ f[1] = "form"
                           \/ f \in flags /\ (f # call[t].flag \/ call[t].at = "idle")
                           \/ call'[t].at # "idle" /\ call'[t].flag = f,
         \/ /\ flags \subseteq flags' /\ call[t].at = "idle" /\ call'[t].fn = "show"
            /\ call'[t].flag = <<"none", NoItem>>
         \/ /\ \A f \in flags : \/ f \in flags' \/ f[1] \notin GuardNames
                                \/ f = call[t].flag /\ call[t].at # "idle" /\ call'[t].at = "idle"
            /\ call'[t].at # "idle" =>
                 /\ call[t].at # "idle" /\ call'[t].item = call[t].item /\ call'[t].flag = call[t].flag
                 /\ call'[t].fn = call[t].fn \/ (call[t].fn = "move" /\ call'[t].fn = "moved")
  PROVE  ListInv'
<1>1. StillBut(t)
  BY AlikeStill
<1>2. FlagsHeld'
  BY <1>1, FlagsStay DEF ListInv
<1>3. GuardsOK
  BY DEF ListInv
<1>4. CASE /\ flags \subseteq flags' /\ call[t].at = "idle" /\ call'[t].fn = "show"
           /\ call'[t].flag = <<"none", NoItem>>
  <2>1. call'[t].fn \notin Guarded /\ call'[t].fn \notin {"startApplication", "archivePosting"}
        /\ call'[t].flag[1] \notin GuardNames
    BY <1>4 DEF Guarded, GuardNames
  <2>2. GuardsOK'
    BY <1>1, <1>3, <1>4, <2>1, GuardsBegin
  <2> QED BY <1>2, <2>2 DEF ListInv, ListBase, Followed
<1>5. CASE /\ \A f \in flags : \/ f \in flags' \/ f[1] \notin GuardNames
                               \/ f = call[t].flag /\ call[t].at # "idle" /\ call'[t].at = "idle"
           /\ call'[t].at # "idle" =>
                /\ call[t].at # "idle" /\ call'[t].item = call[t].item /\ call'[t].flag = call[t].flag
                /\ call'[t].fn = call[t].fn \/ (call[t].fn = "move" /\ call'[t].fn = "moved")
  <2>1. GuardsOK'
    BY <1>1, <1>3, <1>5, GuardsStay
  <2> QED BY <1>2, <2>1 DEF ListInv, ListBase, Followed
<1> QED BY <1>4, <1>5

-----------------------------------------------------------------------------
(* The documents.                                                          *)

LEMMA DocumentsAre ==
  ASSUME ListInv, page = "documents"
  PROVE  /\ SheetsOf(page) = {"list", "preview", "history"} /\ Followed(page) = SheetsOf(page)
         /\ PageTyped(SheetsOf(page)) /\ DOMAIN sheet = SheetsOf(page)
         /\ FollowedOK("list") /\ FollowedOK("preview") /\ FollowedOK("history")
         /\ \A u \in Calls : call[u].fn \notin Guarded
<1>1. SheetsOf(page) = {"list", "preview", "history"} /\ Followed(page) = SheetsOf(page)
  BY DEF SheetsOf, Followed
<1>2. PageTyped(SheetsOf(page))
  BY DEF ListInv, ListBase
<1>3. DOMAIN sheet = SheetsOf(page)
  BY <1>2 DEF PageTyped
<1> QED BY <1>1, <1>2, <1>3 DEF ListInv

LEMMA PanelsNotLists == Lists \cap {"preview", "history"} = {} /\ "list" \in Lists
BY DEF Lists

SheetsTyped(names, sheets) == sheets = [k \in names |-> sheets[k]] /\ \A k \in names : SheetTyped(sheets[k])

\* Sheets other than k are the same.
SameBut(k, names, old, new) == \A j \in names : j # k => new[j] = old[j]

\* A panel is opened.
LEMMA PanelOpenedIs ==
  ASSUME NEW sheets, NEW names, SheetsTyped(names, sheets), NEW k \in names, NEW i,
         NEW d, d = PanelOpened(sheets, k, i)
  PROVE  SheetsTyped(names, d) /\ d[k].of = i /\ SameBut(k, names, sheets, d)
<1>1. PICK b, e : b = Blank /\ e = [b EXCEPT !.of = i]
  OBVIOUS
<1>2. SheetTyped(b)
  BY <1>1, BlankIs
<1>3. SheetTyped(e) /\ e.of = i
  BY <1>1, <1>2 DEF SheetTyped
<1>4. d = [sheets EXCEPT ![k] = e]
  BY <1>1 DEF PanelOpened
<1>5. /\ d = [j \in names |-> d[j]] /\ d[k] = e /\ \A j \in names : j # k => d[j] = sheets[j]
  BY <1>4 DEF SheetsTyped
<1> QED BY <1>3, <1>5 DEF SheetsTyped, SameBut

\* A panel is opened, or closed.
LEMMA ShowPanelKeeps ==
  ASSUME ListInv, page = "documents", FreeCalls # {}, NEW k \in {"preview", "history"}, NEW i,
         call' = Shown(k, i, <<>>), sheet' = PanelOpened(sheet, k, i), errors' = errors \ {k},
         UNCHANGED <<page, flags>>
  PROVE  ListInv'
<1>1. PICK t : t = FreeCall
  OBVIOUS
<1>2. /\ SheetsOf(page) = {"list", "preview", "history"} /\ Followed(page) = SheetsOf(page)
      /\ PageTyped(SheetsOf(page)) /\ FollowedOK("list") /\ FollowedOK("preview") /\ FollowedOK("history")
  BY DocumentsAre
<1>3. /\ t \in Calls /\ call[t].at = "idle"
      /\ CallsTyped(call') /\ AlikeBut(t, call, call', {k})
      /\ call'[t].at = k /\ call'[t].newest /\ ~call'[t].served
      /\ call'[t].fn = "show" /\ call'[t].item = i
  <2>1. PICK row, d, flag : row = <<>> /\ d = call' /\ flag = <<"none", NoItem>>
    OBVIOUS
  <2>2. d = Shown(k, i, row) /\ CallsTyped(call)
    BY <1>2, <2>1 DEF PageTyped, CallsTyped
  <2>3. /\ FreeCall \in Calls /\ call[FreeCall].at = "idle" /\ CallsTyped(d) /\ AlikeBut(FreeCall, call, d, {k})
        /\ Fetches(d[FreeCall], k) /\ IsFor(d[FreeCall], "show", i, flag)
    BY <2>1, <2>2, ShownIs
  <2> QED BY <1>1, <2>1, <2>3 DEF Fetches, IsFor
<1>4. SheetsTyped(SheetsOf(page), sheet') /\ sheet'[k].of = i /\ SameBut(k, SheetsOf(page), sheet, sheet')
  <2>1. SheetsTyped(SheetsOf(page), sheet) /\ k \in SheetsOf(page)
    BY <1>2 DEF PageTyped, SheetsTyped
  <2> QED BY <2>1, PanelOpenedIs
<1>5. PageTyped(SheetsOf(page))'
  BY <1>3, <1>4 DEF PageTyped, CallsTyped, SheetsTyped
<1>6. FollowedOK(k)'
  BY <1>3, <1>4, SheetAsked
<1>7. ASSUME NEW j \in SheetsOf(page), j # k PROVE FollowedOK(j)'
  <2>1. FollowedOK(j) /\ sheet'[j] = sheet[j] /\ j \notin {k} /\ j # "idle" /\ (j \in errors => j \in errors')
    BY <1>2, <1>4, <1>7 DEF SameBut
  <2>2. ~Pursues(page, call[t], j, sheet[j].of)
    BY <1>3 DEF Pursues
  <2>3. (call[t].at = j => ~call[t].newest) /\ (call'[t].at = j => ~call'[t].newest)
    BY <1>3, <1>7, <2>1
  <2> QED BY <1>3, <2>1, <2>2, <2>3, SheetElsewhere
<1>8. call'[t].fn \notin Guarded
  BY <1>3 DEF Guarded
<1>9. \A j \in Followed(page) : FollowedOK(j)'
  BY <1>2, <1>6, <1>7
<1> QED BY <1>3, <1>5, <1>8, <1>9, UnguardedAgain

LEMMA ClosePanelKeeps ==
  ASSUME ListInv, page = "documents", NEW k \in {"preview", "history"},
         call' = Outdated(call, k), sheet' = [sheet EXCEPT ![k] = Blank], UNCHANGED <<page, flags, errors>>
  PROVE  ListInv'
<1>1. PICK t \in Calls : TRUE
  BY FirstCallIs
<1>2. /\ SheetsOf(page) = {"list", "preview", "history"} /\ Followed(page) = SheetsOf(page)
      /\ PageTyped(SheetsOf(page)) /\ FollowedOK("list") /\ FollowedOK("preview") /\ FollowedOK("history")
  BY DocumentsAre
<1>3. call' = [u \in Calls |-> call'[u]]
  BY OutdatedMaps
<1>4. \A u \in Calls : CallTyped(call'[u]) /\ Alike(call[u], call'[u], {k})
  <2> TAKE u \in Calls
  <2>1. LET e == call'[u] IN
         /\ CallTyped(e) /\ e.at = call[u].at /\ e.fn = call[u].fn /\ e.item = call[u].item
         /\ e.flag = call[u].flag /\ e.served = call[u].served /\ e.rows = call[u].rows
         /\ e.fresh = call[u].fresh
         /\ (e.newest <=> call[u].newest /\ call[u].at # k)
    BY <1>2, OutdatedIs DEF PageTyped
  <2> QED BY <2>1 DEF Alike
<1>5. PICK b : b = Blank
  OBVIOUS
<1>6. /\ sheet' = [j \in SheetsOf(page) |-> sheet'[j]] /\ \A j \in SheetsOf(page) : SheetTyped(sheet'[j])
      /\ sheet'[k] = Blank /\ \A j \in SheetsOf(page) : j # k => sheet'[j] = sheet[j]
  <2>1. sheet' = [sheet EXCEPT ![k] = b] /\ SheetTyped(b) /\ k \in SheetsOf(page)
    BY <1>2, <1>5, BlankIs
  <2> QED BY <1>2, <1>5, <2>1, SheetChanges DEF PageTyped
<1>7. PageTyped(SheetsOf(page))'
  BY <1>3, <1>4, <1>6 DEF PageTyped
<1>8. FollowedOK(k)'
  BY <1>4, <1>6, SheetEmptied, PanelsNotLists
<1>9. \A j \in SheetsOf(page) : j # k => FollowedOK(j)'
  BY <1>2, <1>4, <1>6, SheetRests
<1>10. AlikeBut(t, call, call', {k}) /\ call'[t].fn = call[t].fn /\ call'[t].flag = call[t].flag
       /\ call'[t].at = call[t].at
  BY <1>1, <1>4 DEF AlikeBut, Alike
<1>11. call'[t].fn \notin Guarded
  BY <1>1, <1>10, DocumentsAre
<1>12. \A j \in Followed(page) : FollowedOK(j)'
  BY <1>2, <1>8, <1>9
<1>13. \A f \in flags' : \/ f \in flags /\ (f # call[t].flag \/ call[t].at = "idle")
                         \/ call'[t].at # "idle" /\ call'[t].flag = f
  BY <1>10
<1> QED BY <1>1, <1>7, <1>10, <1>11, <1>12, <1>13, UnguardedAgain

\* A call goes on to the panels, or ends.
FollowEnds(t, panels, sheets, wrong) ==
  /\ \A k \in panels : ~(call[t].fn = "uploadVersion" /\ sheets[k].of = call[t].item)
  /\ CallsTyped(call') /\ AlikeBut(t, call, call', {})
  /\ call'[t].at = "idle" /\ call'[t].fn = "none" /\ ~call'[t].newest
  /\ sheet' = sheets /\ errors' = wrong /\ flags' = flags \ {call[t].flag}

FollowFetches(t, panels, sheets, wrong, k) ==
  /\ call[t].fn = "uploadVersion" /\ sheets[k].of = call[t].item
  /\ k = "history" => ~("preview" \in panels /\ sheets["preview"].of = call[t].item)
  /\ CallsTyped(call') /\ AlikeBut(t, call, call', {k})
  /\ Fetches(call'[t], k) /\ IsFor(call'[t], call[t].fn, call[t].item, call[t].flag)
  /\ SheetsTyped(SheetsOf(page), sheet') /\ sheet'[k].of = call[t].item
  /\ SameBut(k, SheetsOf(page), sheets, sheet')
  /\ errors' = wrong \ {k} /\ UNCHANGED flags

\* What either says of the sheets: K are those that are fetched next.
FollowTells(t, at, panels, sheets, wrong, K) ==
  /\ AlikeBut(t, call, call', K) /\ CallsTyped(call') /\ SheetsTyped(SheetsOf(page), sheet')
  /\ call'[t].fn \notin Guarded /\ call'[t].at \notin SheetsOf(page) \ panels
  /\ \A j \in SheetsOf(page) \ K : sheet'[j] = sheets[j] /\ (j \in wrong => j \in errors') /\ call'[t].at # j
  /\ \A j \in K : j \in panels /\ Fetches(call'[t], j) /\ sheet'[j].of = call'[t].item
  /\ \A j \in SheetsOf(page) \ K : j # at /\ Pursues(page, call[t], j, sheet[j].of)
       => Pursues(page, call'[t], j, sheet[j].of)
  /\ \A f \in flags' : \/ f \in flags /\ f # call[t].flag
                       \/ call'[t].at # "idle" /\ call'[t].flag = f

LEMMA FollowIs ==
  ASSUME ListInv, page = "documents", NEW t \in Calls, NEW panels \in SUBSET {"preview", "history"},
         NEW sheets, SheetsTyped(SheetsOf(page), sheets), NEW wrong, DocumentFollow(t, panels, sheets, wrong)
  PROVE  \/ FollowEnds(t, panels, sheets, wrong)
         \/ \E k \in panels : FollowFetches(t, panels, sheets, wrong, k)
<1> DEFINE open == {k \in panels : call[t].fn = "uploadVersion" /\ sheets[k].of = call[t].item}
           k == IF "preview" \in open THEN "preview" ELSE "history"
<1>1. PageTyped(SheetsOf(page)) /\ SheetsOf(page) = {"list", "preview", "history"}
  BY DocumentsAre
<1>2. CASE open = {}
  <2>1. End(t) /\ sheet' = sheets /\ errors' = wrong
    BY <1>2 DEF DocumentFollow
  <2>2. /\ call' = [u \in Calls |-> call'[u]] /\ \A u \in Calls : CallTyped(call'[u])
        /\ AlikeBut(t, call, call', {})
        /\ call'[t].at = "idle" /\ call'[t].fn = "none" /\ ~call'[t].newest /\ ~call'[t].served
    BY <1>1, <2>1, EndIs DEF End
  <2> QED BY <1>2, <2>1, <2>2 DEF End, CallsTyped, FollowEnds
<1>3. CASE open # {}
  <2>1. call' = Fetch(call, t, k) /\ sheet' = PanelOpened(sheets, k, call[t].item) /\ errors' = wrong \ {k}
        /\ UNCHANGED flags
    BY <1>3 DEF DocumentFollow
  <2>2. k \in panels /\ call[t].fn = "uploadVersion" /\ sheets[k].of = call[t].item
        /\ (k = "history" => ~("preview" \in panels /\ sheets["preview"].of = call[t].item))
    BY <1>3
  <2>3. k \in SheetsOf(page)
    BY <1>1, <2>2
  <2> HIDE DEF k, open
  <2>4. SheetsTyped(SheetsOf(page), sheet') /\ sheet'[k].of = call[t].item
        /\ SameBut(k, SheetsOf(page), sheets, sheet')
    BY <2>1, <2>3, PanelOpenedIs
  <2>5. CallsTyped(call')
        /\ AlikeBut(t, call, call', {k})
        /\ Fetches(call'[t], k) /\ IsFor(call'[t], call[t].fn, call[t].item, call[t].flag)
    <3>1. PICK K, calls : K = {} /\ calls = call
      OBVIOUS
    <3>2. CallsTyped(calls) /\ AlikeBut(t, call, calls, K)
      BY <1>1, <3>1, AlikeSame DEF PageTyped, CallsTyped, AlikeBut
    <3>3. PICK d : d = call'
      OBVIOUS
    <3>4. d = Fetch(calls, t, k)
      BY <2>1, <3>1, <3>3
    <3>5. CallsTyped(d) /\ AlikeBut(t, call, d, K \cup {k}) /\ Fetches(d[t], k)
          /\ IsFor(d[t], calls[t].fn, calls[t].item, calls[t].flag)
      BY <3>2, <3>4, FetchIs
    <3>6. K \cup {k} = {k}
      BY <3>1
    <3> QED BY <3>1, <3>3, <3>5, <3>6
  <2>6. FollowFetches(t, panels, sheets, wrong, k)
    BY <2>1, <2>2, <2>4, <2>5 DEF FollowFetches
  <2> QED BY <2>2, <2>6
<1> QED BY <1>2, <1>3

\* Call t has fetched sheet at, or has not, and goes on.
LEMMA FollowKeeps ==
  ASSUME ListInv, page = "documents", UNCHANGED page, NEW t \in Calls,
         NEW panels \in SUBSET {"preview", "history"},
         NEW sheets, SheetsTyped(SheetsOf(page), sheets), NEW wrong, DocumentFollow(t, panels, sheets, wrong),
         NEW at \in {"list", "preview", "history"}, call[t].at = at,
         panels = (IF at = "list" THEN {"preview", "history"} ELSE IF at = "preview" THEN {"history"} ELSE {}),
         \A j \in {"list", "preview", "history"} : j # at => sheets[j] = sheet[j] /\ (j \in errors => j \in wrong),
         \/ /\ call[t].newest /\ call[t].served /\ (at \in errors => at \in wrong)
            /\ sheets[at].content = (IF call[t].fresh THEN "new" ELSE "old")
            /\ at # "list" => sheets[at].of = call[t].item
         \/ call[t].newest /\ at \in wrong
         \/ ~call[t].newest /\ sheets[at] = sheet[at] /\ (at \in errors => at \in wrong)
  PROVE  ListInv'
<1>1. /\ SheetsOf(page) = {"list", "preview", "history"} /\ Followed(page) = SheetsOf(page)
      /\ \A j \in SheetsOf(page) : FollowedOK(j)
      /\ \A u \in Calls : call[u].fn \notin Guarded
  BY DocumentsAre
<1>2. ~Pursues(page, call[t], at, sheet[at].of)
  BY DEF Pursues
<1>3. \A j \in SheetsOf(page) : j # at /\ Pursues(page, call[t], j, sheet[j].of) =>
        j \in panels /\ call[t].fn = "uploadVersion" /\ sheet[j].of = call[t].item
  BY <1>1 DEF Pursues
<1>4. \E K : FollowTells(t, at, panels, sheets, wrong, K)
  <2>1. CASE FollowEnds(t, panels, sheets, wrong)
    <3>1. \A j \in SheetsOf(page) : j # at => ~Pursues(page, call[t], j, sheet[j].of)
      BY <1>1, <1>3, <2>1 DEF FollowEnds
    <3>2. "none" \notin Guarded /\ "idle" \notin SheetsOf(page)
      BY <1>1 DEF Guarded
    <3> WITNESS {}
    <3> QED BY <2>1, <3>1, <3>2 DEF FollowEnds, FollowTells
  <2>2. ASSUME NEW k \in panels, FollowFetches(t, panels, sheets, wrong, k)
        PROVE  \E K : FollowTells(t, at, panels, sheets, wrong, K)
    <3>1. /\ call'[t].at = k /\ call'[t].fn = call[t].fn /\ call'[t].item = call[t].item
          /\ call'[t].flag = call[t].flag /\ k # "idle" /\ k \in SheetsOf(page)
      BY <1>1, <2>2 DEF Fetches, IsFor, FollowFetches
    <3>2. ASSUME NEW j \in SheetsOf(page), j # k, j # at, Pursues(page, call[t], j, sheet[j].of)
          PROVE  Pursues(page, call'[t], j, sheet[j].of)
      <4>1. j \in panels /\ call[t].fn = "uploadVersion" /\ sheets[j].of = call[t].item /\ sheets[j] = sheet[j]
        BY <1>1, <1>3, <3>2
      <4>2. k = "preview" /\ j = "history"
        BY <2>2, <3>2, <4>1 DEF FollowFetches
      <4> QED BY <3>1, <3>2, <4>1, <4>2 DEF Pursues
    <3>3. \A j \in SheetsOf(page) \ {k} : sheet'[j] = sheets[j]
      BY <2>2 DEF SameBut, FollowFetches
    <3>4. call'[t].fn \notin Guarded /\ call'[t].at \notin SheetsOf(page) \ panels
      BY <1>1, <2>2, <3>1
    <3> WITNESS {k}
    <3> QED BY <2>2, <3>1, <3>2, <3>3, <3>4 DEF FollowFetches, FollowTells
  <2> QED BY <2>1, <2>2, FollowIs
<1>5. PICK K : FollowTells(t, at, panels, sheets, wrong, K)
  BY <1>4
<1>6. /\ AlikeBut(t, call, call', K) /\ CallsTyped(call') /\ SheetsTyped(SheetsOf(page), sheet')
      /\ call'[t].fn \notin Guarded /\ call'[t].at \notin SheetsOf(page) \ panels
      /\ \A j \in SheetsOf(page) \ K : sheet'[j] = sheets[j] /\ (j \in wrong => j \in errors') /\ call'[t].at # j
      /\ \A j \in K : j \in panels /\ Fetches(call'[t], j) /\ sheet'[j].of = call'[t].item
      /\ \A j \in SheetsOf(page) \ K : j # at /\ Pursues(page, call[t], j, sheet[j].of)
           => Pursues(page, call'[t], j, sheet[j].of)
      /\ \A f \in flags' : \/ f \in flags /\ f # call[t].flag
                           \/ call'[t].at # "idle" /\ call'[t].flag = f
  BY <1>5 DEF FollowTells
<1>7. at \notin K
  BY <1>6
<1>8. ASSUME NEW j \in SheetsOf(page) PROVE FollowedOK(j)'
  <2>1. FollowedOK(j) /\ j # "sending" /\ j # "idle"
    BY <1>1
  <2>2. CASE j \in K
    <3>1. call'[t].at = j /\ call'[t].newest /\ ~call'[t].served /\ sheet'[j].of = call'[t].item
      BY <1>6, <2>2 DEF Fetches
    <3> QED BY <1>6, <2>2, <3>1, SheetAsked
  <2>3. CASE j = at
    <3>1. sheet'[at] = sheets[at] /\ (at \in wrong => at \in errors') /\ call'[t].at # at
      BY <1>1, <1>6, <1>7
    <3>2. CASE /\ call[t].newest /\ call[t].served /\ (at \in errors => at \in wrong)
               /\ sheets[at].content = (IF call[t].fresh THEN "new" ELSE "old")
               /\ at # "list" => sheets[at].of = call[t].item
      <4>1. at # "list" => sheets[at].of = sheet[at].of
        BY <2>1, <2>3, <3>2 DEF FollowedOK
      <4>2. sheet'[at].of = sheet[at].of \/ at \in Lists
        BY <3>1, <4>1, PanelsNotLists
      <4>3. /\ sheet'[at].content = (IF call[t].fresh THEN "new" ELSE "old") /\ (at \in errors => at \in errors')
            /\ call[t].newest /\ call[t].served
        BY <3>1, <3>2
      <4>4. FollowedOK(at)'
        BY <1>2, <1>6, <2>1, <2>3, <3>1, <4>2, <4>3, SheetGot
      <4> QED BY <2>3, <4>4
    <3>3. CASE call[t].newest /\ at \in wrong
      BY <1>6, <2>1, <2>3, <3>1, <3>3, SheetMissed
    <3>4. CASE ~call[t].newest /\ sheets[at] = sheet[at] /\ (at \in errors => at \in wrong)
      <4>1. sheet'[at] = sheet[at] /\ (at \in errors => at \in errors') /\ ~call[t].newest
        BY <3>1, <3>4
      <4> QED BY <1>2, <1>6, <1>7, <2>1, <2>3, <3>1, <4>1, SheetElsewhere
    <3> QED BY <3>2, <3>3, <3>4
  <2>4. CASE j \notin K /\ j # at
    <3>1. sheet'[j] = sheet[j] /\ (j \in errors => j \in errors') /\ call'[t].at # j /\ call[t].at # j
      BY <1>1, <1>6, <2>4
    <3>2. Pursues(page, call[t], j, sheet[j].of) => Pursues(page, call'[t], j, sheet[j].of)
      BY <1>6, <2>4
    <3> QED BY <1>6, <2>1, <2>4, <3>1, <3>2, SheetElsewhere
  <2> QED BY <2>2, <2>3, <2>4
<1>9. PageTyped(SheetsOf(page))'
  BY <1>6 DEF PageTyped, CallsTyped, SheetsTyped
<1>10. \A k \in Followed(page) : FollowedOK(k)'
  BY <1>1, <1>8
<1>11. \A f \in flags' : \/ f \in flags /\ (f # call[t].flag \/ call[t].at = "idle")
                         \/ call'[t].at # "idle" /\ call'[t].flag = f
  BY <1>6
<1> QED BY <1>6, <1>9, <1>10, <1>11, UnguardedAgain

\* The sheet that a call fetched is shown, or is not.
Delivered(k, t, of) == [sheet EXCEPT ![k] = Received(t, of)]
ShowsAnswer(s, c) == s.content = (IF c.fresh THEN "new" ELSE "old")

LEMMA ReceivedSheet ==
  ASSUME NEW names, SheetsTyped(names, sheet), NEW k \in names, NEW t, NEW of,
         NEW sheets, sheets = Delivered(k, t, of)
  PROVE  /\ SheetsTyped(names, sheets) /\ sheets[k].of = of
         /\ ShowsAnswer(sheets[k], call[t])
         /\ SameBut(k, names, sheet, sheets)
<1>1. PICK d : d = Received(t, of)
  OBVIOUS
<1>2. SheetTyped(d) /\ d.of = of
  BY <1>1, ReceivedIs
<1>3. d.content = IF call[t].fresh THEN "new" ELSE "old"
  BY <1>1 DEF Received
<1>4. sheets = [sheet EXCEPT ![k] = d]
  BY <1>1 DEF Delivered
<1>5. sheets = [j \in names |-> sheets[j]] /\ sheets[k] = d /\ \A j \in names : j # k => sheets[j] = sheet[j]
  BY <1>4 DEF SheetsTyped
<1> QED BY <1>2, <1>3, <1>5 DEF SheetsTyped, SameBut, ShowsAnswer

LEMMA DocumentsLoadedKeeps == ASSUME ListInv, page = "documents", NEW t \in Calls, DocumentsLoaded(t) PROVE ListInv'
<1>1. SheetsOf(page) = {"list", "preview", "history"} /\ SheetsTyped(SheetsOf(page), sheet)
  BY DocumentsAre DEF PageTyped, SheetsTyped
<1>2. call[t].at = "list" /\ UNCHANGED page
  BY DEF DocumentsLoaded
<1>3. CASE call[t].served /\ DocumentFollow(t, {"preview", "history"},
             IF call[t].newest THEN [sheet EXCEPT !["list"] = Received(t, NoItem)] ELSE sheet, errors)
  <2>1. PICK sheets : sheets = IF call[t].newest THEN [sheet EXCEPT !["list"] = Received(t, NoItem)] ELSE sheet
    OBVIOUS
  <2>2. DocumentFollow(t, {"preview", "history"}, sheets, errors)
    BY <1>3, <2>1
  <2>3. CASE call[t].newest
    <3>1. /\ SheetsTyped(SheetsOf(page), sheets)
          /\ ShowsAnswer(sheets["list"], call[t])
          /\ SameBut("list", SheetsOf(page), sheet, sheets)
      <4>1. sheets = Delivered("list", t, NoItem) /\ "list" \in SheetsOf(page)
        BY <1>1, <2>1, <2>3 DEF Delivered
      <4> QED BY <1>1, <4>1, ReceivedSheet
    <3>2. \A j \in {"list", "preview", "history"} : j # "list" => sheets[j] = sheet[j]
      BY <1>1, <3>1 DEF SameBut
    <3> QED BY <1>2, <1>3, <2>2, <2>3, <3>1, <3>2, FollowKeeps DEF ShowsAnswer
  <2>4. CASE ~call[t].newest
    <3>1. SheetsTyped(SheetsOf(page), sheets) /\ sheets = sheet
      BY <1>1, <2>1, <2>4
    <3> QED BY <1>2, <2>2, <2>4, <3>1, FollowKeeps
  <2> QED BY <2>3, <2>4
<1>4. CASE DocumentFollow(t, {"preview", "history"}, sheet,
             IF call[t].newest THEN errors \cup {"list"} ELSE errors)
  <2>1. PICK wrong : wrong = IF call[t].newest THEN errors \cup {"list"} ELSE errors
    OBVIOUS
  <2>2. DocumentFollow(t, {"preview", "history"}, sheet, wrong)
    BY <1>4, <2>1
  <2>3. (\A j : j \in errors => j \in wrong) /\ (call[t].newest => "list" \in wrong)
    BY <2>1
  <2> QED BY <1>1, <1>2, <2>2, <2>3, FollowKeeps
<1> QED BY <1>3, <1>4 DEF DocumentsLoaded

LEMMA PanelFetchedKeeps ==
  ASSUME ListInv, page = "documents", NEW t \in Calls, NEW k \in {"preview", "history"}, PanelFetched(t, k)
  PROVE  ListInv'
<1>1. SheetsOf(page) = {"list", "preview", "history"} /\ SheetsTyped(SheetsOf(page), sheet)
  BY DocumentsAre DEF PageTyped, SheetsTyped
<1>2. call[t].at = k /\ UNCHANGED page
  BY DEF PanelFetched
<1>3. PICK rest : rest = IF k = "preview" THEN {"history"} ELSE {}
  OBVIOUS
<1>4. /\ rest \in SUBSET {"preview", "history"} /\ k \in {"list", "preview", "history"}
      /\ rest = IF k = "list" THEN {"preview", "history"} ELSE IF k = "preview" THEN {"history"} ELSE {}
      /\ k \in SheetsOf(page) /\ k # "list"
  BY <1>1, <1>3
<1>5. CASE call[t].served /\ DocumentFollow(t, rest,
             IF call[t].newest THEN [sheet EXCEPT ![k] = Received(t, call[t].item)] ELSE sheet, errors)
  <2>1. PICK sheets : sheets = IF call[t].newest THEN [sheet EXCEPT ![k] = Received(t, call[t].item)] ELSE sheet
    OBVIOUS
  <2>2. DocumentFollow(t, rest, sheets, errors)
    BY <1>5, <2>1
  <2>3. CASE call[t].newest
    <3>1. /\ SheetsTyped(SheetsOf(page), sheets) /\ sheets[k].of = call[t].item
          /\ ShowsAnswer(sheets[k], call[t])
          /\ SameBut(k, SheetsOf(page), sheet, sheets)
      <4>1. sheets = Delivered(k, t, call[t].item)
        BY <2>1, <2>3 DEF Delivered
      <4> QED BY <1>1, <1>4, <4>1, ReceivedSheet
    <3>2. \A j \in {"list", "preview", "history"} : j # k => sheets[j] = sheet[j]
      BY <1>1, <3>1 DEF SameBut
    <3> QED BY <1>2, <1>4, <1>5, <2>2, <2>3, <3>1, <3>2, FollowKeeps DEF ShowsAnswer
  <2>4. CASE ~call[t].newest
    <3>1. SheetsTyped(SheetsOf(page), sheets) /\ sheets = sheet
      BY <1>1, <2>1, <2>4
    <3> QED BY <1>2, <1>4, <2>2, <2>4, <3>1, FollowKeeps
  <2> QED BY <2>3, <2>4
<1>6. CASE DocumentFollow(t, rest, IF call[t].newest THEN [sheet EXCEPT ![k].of = NoItem] ELSE sheet,
             IF call[t].newest THEN errors \cup {k} ELSE errors)
  <2>1. PICK sheets, wrong : /\ sheets = IF call[t].newest THEN [sheet EXCEPT ![k].of = NoItem] ELSE sheet
                             /\ wrong = IF call[t].newest THEN errors \cup {k} ELSE errors
    OBVIOUS
  <2>2. DocumentFollow(t, rest, sheets, wrong)
    BY <1>6, <2>1
  <2>3. (\A j : j \in errors => j \in wrong) /\ (call[t].newest => k \in wrong)
    BY <2>1
  <2>4. SheetsTyped(SheetsOf(page), sheets)
    <3>1. PICK s, e : s = sheet[k] /\ e = [s EXCEPT !.of = NoItem]
      OBVIOUS
    <3>2. SheetTyped(s)
      BY <1>1, <1>4, <3>1 DEF SheetsTyped
    <3>3. SheetTyped(e)
      BY <3>1, <3>2 DEF SheetTyped
    <3>4. sheets = IF call[t].newest THEN [sheet EXCEPT ![k] = e] ELSE sheet
      BY <2>1, <3>1
    <3> QED BY <1>1, <3>3, <3>4 DEF SheetsTyped
  <2>5. (\A j \in {"list", "preview", "history"} : j # k => sheets[j] = sheet[j]) /\ (~call[t].newest => sheets = sheet)
    BY <1>1, <2>1 DEF SheetsTyped
  <2> QED BY <1>2, <1>4, <2>2, <2>3, <2>4, <2>5, FollowKeeps
<1> QED BY <1>3, <1>5, <1>6 DEF PanelFetched

LEMMA DocumentServedKeeps == ASSUME ListInv, page = "documents", NEW t \in Calls, DocumentServed(t) PROVE ListInv'
<1>1. CASE ServeFetch(t, Kept)
  <2>1. /\ call[t].at # "idle" /\ call[t].at # "sending" /\ UNCHANGED <<page, sheet, flags, errors>>
        /\ \E r : call' = [call EXCEPT ![t].served = TRUE, ![t].fresh = TRUE, ![t].rows = r]
    BY <1>1 DEF ServeFetch
  <2> QED BY <2>1, AnswerKeeps
<1>2. CASE ServeChange(t, DocumentSteps, {"list"} \cup
        IF call[t].fn = "uploadVersion" THEN {"preview", "history"} ELSE {})
  <2>1. PICK shows : shows = {"list"} \cup IF call[t].fn = "uploadVersion" THEN {"preview", "history"} ELSE {}
    OBVIOUS
  <2>2. ASSUME NEW k \in Followed(page), NEW c, k \in shows, k \in Lists \/ sheet[k].of = c.item,
               c.at = "sending", c.served, c.fn = call[t].fn
        PROVE  Pursues(page, c, k, sheet[k].of)
    BY <2>1, <2>2, PanelsNotLists DEF Pursues
  <2>3. ServeChange(t, DocumentSteps, shows) /\ page # "applications" /\ page # "settings"
    BY <1>2, <2>1
  <2> QED BY <2>2, <2>3, ChangeKeeps
<1> QED BY <1>1, <1>2 DEF DocumentServed

LEMMA DocumentChangedKeeps == ASSUME ListInv, page = "documents", NEW t \in Calls, DocumentChanged(t) PROVE ListInv'
<1>1. /\ SheetsOf(page) = {"list", "preview", "history"} /\ Followed(page) = SheetsOf(page)
      /\ PageTyped(SheetsOf(page)) /\ DOMAIN sheet = SheetsOf(page)
      /\ FollowedOK("list") /\ FollowedOK("preview") /\ FollowedOK("history")
      /\ \A u \in Calls : call[u].fn \notin Guarded
  BY DocumentsAre
<1>2. PICK K : K = IF call[t].fn = "delete"
                   THEN {k \in {"preview", "history"} : sheet[k].of = call[t].item} ELSE {}
  OBVIOUS
<1>3. PICK calls : calls = [u \in Calls |-> IF call[u].at \in K THEN [call[u] EXCEPT !.newest = FALSE] ELSE call[u]]
  OBVIOUS
<1>4. /\ call[t].at = "sending" /\ call[t].served
      /\ sheet' = [k \in DOMAIN sheet |-> IF k \in K THEN Blank ELSE sheet[k]]
      /\ call' = Fetch(calls, t, "list") /\ errors' = errors \ {"list"} /\ UNCHANGED <<page, flags>>
  BY <1>2, <1>3 DEF DocumentChanged
<1>5. K \subseteq {"preview", "history"}
  BY <1>2
<1>6. ASSUME NEW u \in Calls PROVE CallTyped(calls[u]) /\ Alike(call[u], calls[u], K)
  <2>1. PICK c, e : c = call[u] /\ e = [c EXCEPT !.newest = FALSE]
    OBVIOUS
  <2>2. CallTyped(c) /\ calls[u] = IF c.at \in K THEN e ELSE c
    BY <1>1, <1>3, <2>1 DEF PageTyped
  <2>3. CallTyped(e) /\ e.at = c.at /\ e.fn = c.fn /\ e.item = c.item /\ e.flag = c.flag
        /\ e.served = c.served /\ e.rows = c.rows /\ e.fresh = c.fresh /\ ~e.newest
    BY <2>1, <2>2 DEF CallTyped
  <2> QED BY <2>1, <2>2, <2>3 DEF Alike
<1>7. CallsTyped(calls) /\ AlikeBut(t, call, calls, K)
  BY <1>3, <1>6 DEF CallsTyped, AlikeBut
<1>8. CallsTyped(call') /\ AlikeBut(t, call, call', K \cup {"list"}) /\ Fetches(call'[t], "list")
      /\ IsFor(call'[t], call[t].fn, call[t].item, call[t].flag)
  <2>1. PICK d, k : d = call' /\ k = "list"
    OBVIOUS
  <2>2. CallsTyped(d) /\ AlikeBut(t, call, d, K \cup {k}) /\ Fetches(d[t], k)
        /\ IsFor(d[t], calls[t].fn, calls[t].item, calls[t].flag)
    BY <1>4, <1>7, <2>1, FetchIs
  <2>3. calls[t].fn = call[t].fn /\ calls[t].item = call[t].item /\ calls[t].flag = call[t].flag
    BY <1>6 DEF Alike
  <2> QED BY <2>1, <2>2, <2>3
<1>9. PICK b : b = Blank
  OBVIOUS
<1>10. sheet' = [k \in SheetsOf(page) |-> IF k \in K THEN b ELSE sheet[k]] /\ SheetTyped(b)
  BY <1>1, <1>4, <1>9, BlankIs
<1>11. /\ sheet' = [k \in SheetsOf(page) |-> sheet'[k]]
       /\ \A k \in SheetsOf(page) : sheet'[k] = IF k \in K THEN b ELSE sheet[k]
  BY <1>10
<1>12. PageTyped(SheetsOf(page))'
  <2>1. \A k \in SheetsOf(page) : SheetTyped(sheet'[k])
    BY <1>1, <1>10, <1>11 DEF PageTyped
  <2> QED BY <1>4, <1>8, <1>11, <2>1 DEF PageTyped, CallsTyped
<1>13. /\ call'[t].at = "list" /\ call'[t].newest /\ ~call'[t].served /\ call'[t].fn = call[t].fn
       /\ call'[t].item = call[t].item /\ call'[t].flag = call[t].flag
  BY <1>8 DEF Fetches, IsFor
<1>14. ASSUME NEW k \in SheetsOf(page) PROVE FollowedOK(k)'
  <2>1. CASE k = "list"
    <3>1. "list" \in K \cup {"list"}
      OBVIOUS
    <3>2. FollowedOK("list")'
      BY <1>8, <1>13, <3>1, SheetAsked
    <3> QED BY <2>1, <3>2
  <2>2. CASE k \in K
    <3>1. k \in K \cup {"list"} /\ k \notin Lists /\ sheet'[k] = Blank
      BY <1>5, <1>9, <1>11, <2>2, PanelsNotLists
    <3>2. \A u \in Calls : call'[u].at = k => Alike(call[u], call'[u], K \cup {"list"})
      BY <1>5, <1>8, <1>13, <2>2 DEF AlikeBut
    <3> QED BY <3>1, <3>2, SheetEmptied
  <2>3. CASE k # "list" /\ k \notin K
    <3>1. FollowedOK(k) /\ k \notin K \cup {"list"} /\ sheet'[k] = sheet[k] /\ (k \in errors => k \in errors')
      BY <1>1, <1>4, <1>11, <2>3
    <3>2. Pursues(page, call[t], k, sheet[k].of) => Pursues(page, call'[t], k, sheet[k].of)
      BY <1>13, <2>3 DEF Pursues
    <3>3. call[t].at # k /\ call'[t].at # k
      BY <1>1, <1>4, <1>13, <2>3
    <3> QED BY <1>4, <1>8, <3>1, <3>2, <3>3, SheetElsewhere
  <2> QED BY <2>1, <2>2, <2>3
<1>15. call'[t].fn \notin Guarded
  BY <1>1, <1>13
<1>16. \A k \in Followed(page) : FollowedOK(k)'
  BY <1>1, <1>14
<1>17. \A f \in flags' : \/ f \in flags /\ (f # call[t].flag \/ call[t].at = "idle")
                         \/ call'[t].at # "idle" /\ call'[t].flag = f
  BY <1>4, <1>13
<1> QED BY <1>4, <1>8, <1>12, <1>15, <1>16, <1>17, UnguardedAgain

LEMMA DocumentFailsKeeps == ASSUME ListInv, page = "documents", NEW t \in Calls, DocumentFails(t) PROVE ListInv'
<1>1. /\ SheetsOf(page) = {"list", "preview", "history"} /\ Followed(page) = SheetsOf(page)
      /\ PageTyped(SheetsOf(page)) /\ DOMAIN sheet = SheetsOf(page)
      /\ FollowedOK("list") /\ FollowedOK("preview") /\ FollowedOK("history")
  BY DocumentsAre
<1>2. /\ call[t].at = "sending" /\ errors' = SheetsOf(page) /\ call' = [call EXCEPT ![t] = NoCall]
      /\ flags' = flags \ {call[t].flag} /\ UNCHANGED <<page, sheet>>
  BY <1>1 DEF DocumentFails, End
<1>3. /\ call' = [u \in Calls |-> call'[u]] /\ \A u \in Calls : CallTyped(call'[u])
      /\ AlikeBut(t, call, call', {})
      /\ call'[t].at = "idle" /\ call'[t].fn = "none" /\ ~call'[t].newest /\ ~call'[t].served
  BY <1>1, <1>2, EndIs
<1>4. PageTyped(SheetsOf(page))'
  BY <1>1, <1>2, <1>3 DEF PageTyped
<1>5. ASSUME NEW k \in SheetsOf(page) PROVE FollowedOK(k)'
  <2>1. FollowedOK(k) /\ k # "idle" /\ k \in errors'
    BY <1>1, <1>2
  <2> QED BY <1>2, <1>3, <2>1, SheetMissed
<1>6. call'[t].fn \notin Guarded
  BY <1>3 DEF Guarded
<1>7. \A k \in Followed(page) : FollowedOK(k)'
  BY <1>1, <1>5
<1>8. \A f \in flags' : \/ f \in flags /\ (f # call[t].flag \/ call[t].at = "idle")
                        \/ call'[t].at # "idle" /\ call'[t].flag = f
  BY <1>2
<1> QED BY <1>2, <1>3, <1>4, <1>6, <1>7, <1>8, UnguardedAgain

LEMMA DocumentsStep == ASSUME ListInv, DocumentsPageNext PROVE ListInv'
<1>0. page = "documents"
  BY DEF DocumentsPageNext
<1>1. ASSUME NEW i \in Items, UploadFiles(i) \/ UploadVersion(i) \/ ToggleSelection(i)
                              \/ \E action \in {"archive", "delete"} : DocumentTransition(i, action)
      PROVE  ListInv'
  <2>1. PICK fn \in {"uploadFiles", "uploadVersion", "toggleSelection", "archive", "delete"},
             flag \in {<<"uploading", NoItem>>, <<"pending", i>>} : SendChange(fn, i, flag)
    BY <1>1 DEF UploadFiles, UploadVersion, ToggleSelection, DocumentTransition
  <2>2. fn \notin Guarded /\ fn \notin {"startApplication", "archivePosting"} /\ flag[1] \notin GuardNames
    BY <2>1 DEF Guarded, GuardNames
  <2> QED BY <2>1, <2>2, ChangeSentKeeps
<1>2. ASSUME NEW i \in Items, ShowPreview(i) \/ ShowDocumentHistory(i) PROVE ListInv'
  <2>1. PICK k \in {"preview", "history"} :
          /\ FreeCalls # {} /\ call' = Shown(k, i, <<>>) /\ sheet' = PanelOpened(sheet, k, i)
          /\ errors' = errors \ {k} /\ UNCHANGED <<page, flags>>
    BY <1>2 DEF ShowPreview, ShowDocumentHistory
  <2> QED BY <1>0, <2>1, ShowPanelKeeps
<1>3. ASSUME ClosePreview \/ CloseHistory PROVE ListInv'
  <2>1. PICK k \in {"preview", "history"} :
          call' = Outdated(call, k) /\ sheet' = [sheet EXCEPT ![k] = Blank] /\ UNCHANGED <<page, flags, errors>>
    BY <1>3 DEF ClosePreview, CloseHistory
  <2> QED BY <1>0, <2>1, ClosePanelKeeps
<1>4. ASSUME NEW t \in Calls, DocumentServed(t) \/ DocumentChanged(t) \/ DocumentFails(t)
                              \/ DocumentsLoaded(t) \/ \E k \in {"preview", "history"} : PanelFetched(t, k)
      PROVE  ListInv'
  BY <1>0, <1>4, DocumentServedKeeps, DocumentChangedKeeps, DocumentFailsKeeps, DocumentsLoadedKeeps, PanelFetchedKeeps
<1> QED BY <1>1, <1>2, <1>3, <1>4 DEF DocumentsPageNext

-----------------------------------------------------------------------------
(* The settings.                                                           *)

LEMMA SettingsAre ==
  ASSUME ListInv, page = "settings"
  PROVE  /\ SheetsOf(page) = {"providers", "runners", "pairing"} /\ Followed(page) = SheetsOf(page)
         /\ PageTyped(SheetsOf(page)) /\ CallsTyped(call) /\ SheetsTyped(SheetsOf(page), sheet)
         /\ \A k \in SheetsOf(page) : FollowedOK(k)
         /\ \A u \in Calls : call[u].fn \notin Guarded
<1>1. SheetsOf(page) = {"providers", "runners", "pairing"} /\ Followed(page) = SheetsOf(page)
  BY DEF SheetsOf, Followed
<1>2. PageTyped(SheetsOf(page)) /\ CallsTyped(call) /\ SheetsTyped(SheetsOf(page), sheet)
  BY DEF ListInv, ListBase, PageTyped, CallsTyped, SheetsTyped
<1> QED BY <1>1, <1>2 DEF ListInv

LEMMA ListOfIs == \A fn : ListOf(fn) \in {"providers", "runners"} /\ ListOf(fn) \in Lists
BY DEF ListOf, Lists

LEMMA PairingKeeps == ASSUME ListInv, page = "settings", IssuePairingCode PROVE ListInv'
<1>1. /\ SheetsOf(page) = {"providers", "runners", "pairing"} /\ Followed(page) = SheetsOf(page)
      /\ PageTyped(SheetsOf(page)) /\ CallsTyped(call) /\ SheetsTyped(SheetsOf(page), sheet)
      /\ \A k \in SheetsOf(page) : FollowedOK(k)
      /\ \A u \in Calls : call[u].fn \notin Guarded
  BY SettingsAre
<1>2. /\ FreeCalls # {} /\ PairingBusy \notin flags /\ flags' = flags \cup {PairingBusy}
      /\ sheet' = [sheet EXCEPT !["pairing"] = Blank] /\ UNCHANGED <<page, errors>>
      /\ call' = [Shown("pairing", NoItem, <<>>) EXCEPT ![FreeCall].flag = PairingBusy]
  BY DEF IssuePairingCode
<1>3. PICK t, k, i, row, d, none, flag :
        /\ t = FreeCall /\ k = "pairing" /\ i = NoItem /\ row = <<>> /\ d = Shown(k, i, row)
        /\ none = <<"none", NoItem>> /\ flag = PairingBusy
  OBVIOUS
<1>4. /\ FreeCall \in Calls /\ call[FreeCall].at = "idle" /\ CallsTyped(d) /\ AlikeBut(FreeCall, call, d, {k})
      /\ Fetches(d[FreeCall], k) /\ IsFor(d[FreeCall], "show", i, none)
  BY <1>1, <1>2, <1>3, ShownIs
<1>5. t \in Calls /\ call[t].at = "idle"
  BY <1>3, <1>4
<1>6. PICK c, e : c = d[t] /\ e = [c EXCEPT !.flag = flag]
  OBVIOUS
<1>7. CallTyped(c) /\ c.at = "pairing" /\ c.newest /\ ~c.served /\ c.fn = "show"
  BY <1>3, <1>4, <1>6 DEF CallsTyped, Fetches, IsFor
<1>8. CallTyped(e) /\ e.at = "pairing" /\ e.newest /\ ~e.served /\ e.fn = "show" /\ e.flag = flag
  BY <1>6, <1>7 DEF CallTyped
<1>9. call' = [d EXCEPT ![t] = e]
  BY <1>2, <1>3, <1>6
<1>10. /\ call' = [u \in Calls |-> call'[u]] /\ call'[t] = e /\ \A u \in Calls : u # t => call'[u] = d[u]
  BY <1>4, <1>5, <1>9 DEF CallsTyped
<1>11. CallsTyped(call') /\ AlikeBut(t, call, call', {"pairing"})
  BY <1>3, <1>4, <1>8, <1>10 DEF CallsTyped, AlikeBut
<1>12. PICK b : b = Blank
  OBVIOUS
<1>13. /\ sheet' = [j \in SheetsOf(page) |-> sheet'[j]] /\ \A j \in SheetsOf(page) : SheetTyped(sheet'[j])
       /\ \A j \in SheetsOf(page) : j # "pairing" => sheet'[j] = sheet[j]
  <2>1. sheet' = [sheet EXCEPT !["pairing"] = b] /\ SheetTyped(b) /\ "pairing" \in SheetsOf(page)
    BY <1>1, <1>2, <1>12, BlankIs
  <2> QED BY <1>1, <2>1, SheetChanges DEF PageTyped
<1>14. PageTyped(SheetsOf(page))'
  BY <1>2, <1>11, <1>13 DEF PageTyped, CallsTyped
<1>15. ASSUME NEW j \in SheetsOf(page) PROVE FollowedOK(j)'
  <2>1. CASE j = "pairing"
    <3>1. "pairing" \in {"pairing"} /\ call'[t].at = "pairing" /\ call'[t].newest /\ ~call'[t].served
      BY <1>8, <1>10
    <3>2. FollowedOK("pairing")'
      BY <1>2, <1>5, <1>11, <3>1, SheetAsked
    <3> QED BY <2>1, <3>2
  <2>2. CASE j # "pairing"
    <3>1. FollowedOK(j) /\ j \notin {"pairing"} /\ sheet'[j] = sheet[j] /\ (j \in errors => j \in errors')
      BY <1>1, <1>2, <1>13, <2>2
    <3>2. ~Pursues(page, call[t], j, sheet[j].of)
      BY <1>5 DEF Pursues
    <3>3. call[t].at # j /\ call'[t].at # j
      BY <1>1, <1>5, <1>8, <1>10, <2>2
    <3> QED BY <1>2, <1>5, <1>11, <3>1, <3>2, <3>3, SheetElsewhere
  <2> QED BY <2>1, <2>2
<1>16. call'[t].fn \notin Guarded
  BY <1>8, <1>10 DEF Guarded
<1>17. \A j \in Followed(page) : FollowedOK(j)'
  BY <1>1, <1>15
<1>18. \A f \in flags' : \/ f \in flags /\ (f # call[t].flag \/ call[t].at = "idle")
                         \/ call'[t].at # "idle" /\ call'[t].flag = f
  <2>1. flags' = flags \cup {flag} /\ call[t].at = "idle"
    BY <1>2, <1>3, <1>5
  <2>2. call'[t].at # "idle" /\ call'[t].flag = flag
    BY <1>8, <1>10
  <2> QED BY <2>1, <2>2
<1> QED BY <1>2, <1>5, <1>11, <1>14, <1>16, <1>17, <1>18, UnguardedAgain

LEMMA SettingServedKeeps == ASSUME ListInv, page = "settings", NEW t \in Calls, SettingServed(t) PROVE ListInv'
<1>1. CASE ServeChange(t, ProviderSteps \cup RunnerSteps, {ListOf(call[t].fn)})
  <2>1. PICK shows : shows = {ListOf(call[t].fn)}
    OBVIOUS
  <2>2. ASSUME NEW k \in Followed(page), NEW c, k \in shows, c.at = "sending", c.served, c.fn = call[t].fn
        PROVE  Pursues(page, c, k, sheet[k].of)
    BY <2>1, <2>2 DEF Pursues
  <2>3. ServeChange(t, ProviderSteps \cup RunnerSteps, shows) /\ page # "applications" /\ shows \subseteq Lists
    BY <1>1, <2>1, ListOfIs
  <2> QED BY <2>2, <2>3, ChangeKeeps
<1>2. CASE /\ call[t].at = "pairing" /\ ~call[t].served
           /\ call' = [call EXCEPT ![t].served = TRUE, ![t].fresh = TRUE]
           /\ UNCHANGED <<page, backend, sheet, flags, errors, clicks>>
  <2>1. call' = [call EXCEPT ![t].served = TRUE, ![t].fresh = TRUE, ![t].rows = call[t].rows]
    <3>1. PICK c, e, f : c = call[t] /\ e = [c EXCEPT !.served = TRUE, !.fresh = TRUE]
                         /\ f = [c EXCEPT !.served = TRUE, !.fresh = TRUE, !.rows = c.rows]
      OBVIOUS
    <3>2. CallTyped(c) /\ CallsTyped(call)
      BY <3>1, SettingsAre DEF CallsTyped
    <3>3. e = f
      BY <3>1, <3>2 DEF CallTyped
    <3>4. call' = [call EXCEPT ![t] = e]
      BY <1>2, <3>1, <3>2 DEF CallsTyped
    <3>5. [call EXCEPT ![t].served = TRUE, ![t].fresh = TRUE, ![t].rows = call[t].rows] = [call EXCEPT ![t] = f]
      BY <3>1, <3>2 DEF CallsTyped
    <3> QED BY <3>3, <3>4, <3>5
  <2>2. \E r : call' = [call EXCEPT ![t].served = TRUE, ![t].fresh = TRUE, ![t].rows = r]
    BY <2>1
  <2>3. call[t].at # "idle" /\ call[t].at # "sending" /\ UNCHANGED <<page, sheet, flags, errors>>
    BY <1>2
  <2> QED BY <2>2, <2>3, AnswerKeeps
<1>3. CASE ServeFetch(t, {})
  <2>1. /\ call[t].at # "idle" /\ call[t].at # "sending" /\ UNCHANGED <<page, sheet, flags, errors>>
        /\ \E r : call' = [call EXCEPT ![t].served = TRUE, ![t].fresh = TRUE, ![t].rows = r]
    BY <1>3 DEF ServeFetch
  <2> QED BY <2>1, AnswerKeeps
<1> QED BY <1>1, <1>2, <1>3 DEF SettingServed

LEMMA SettingChangedKeeps == ASSUME ListInv, page = "settings", NEW t \in Calls, SettingChanged(t) PROVE ListInv'
<1>1. /\ SheetsOf(page) = {"providers", "runners", "pairing"} /\ Followed(page) = SheetsOf(page)
      /\ PageTyped(SheetsOf(page)) /\ CallsTyped(call) /\ SheetsTyped(SheetsOf(page), sheet)
      /\ \A k \in SheetsOf(page) : FollowedOK(k)
      /\ \A u \in Calls : call[u].fn \notin Guarded
  BY SettingsAre
<1>2. PICK k : k = ListOf(call[t].fn)
  OBVIOUS
<1>3. /\ call[t].at = "sending" /\ call' = Fetch(call, t, k) /\ errors' = errors \ {k}
      /\ UNCHANGED <<page, sheet, flags>>
  BY <1>2 DEF SettingChanged
<1>4. k \in SheetsOf(page) /\ k # "idle" /\ k # "sending"
  BY <1>1, <1>2, ListOfIs
<1>5. CallsTyped(call') /\ AlikeBut(t, call, call', {k}) /\ Fetches(call'[t], k)
      /\ IsFor(call'[t], call[t].fn, call[t].item, call[t].flag)
  <2>1. PICK K, calls, d : K = {} /\ calls = call /\ d = call'
    OBVIOUS
  <2>2. CallsTyped(calls) /\ AlikeBut(t, call, calls, K)
    BY <1>1, <2>1, AlikeSame DEF AlikeBut
  <2>3. d = Fetch(calls, t, k)
    BY <1>3, <2>1
  <2>4. CallsTyped(d) /\ AlikeBut(t, call, d, K \cup {k}) /\ Fetches(d[t], k)
        /\ IsFor(d[t], calls[t].fn, calls[t].item, calls[t].flag)
    BY <2>2, <2>3, FetchIs
  <2>5. K \cup {k} = {k}
    BY <2>1
  <2> QED BY <2>1, <2>4, <2>5
<1>6. call'[t].at = k /\ call'[t].newest /\ ~call'[t].served /\ call'[t].fn = call[t].fn /\ call'[t].flag = call[t].flag
  BY <1>5 DEF Fetches, IsFor
<1>7. PageTyped(SheetsOf(page))'
  BY <1>1, <1>3, <1>5 DEF PageTyped, CallsTyped
<1>8. ASSUME NEW j \in SheetsOf(page) PROVE FollowedOK(j)'
  <2>1. CASE j = k
    <3>1. k \in {k}
      OBVIOUS
    <3>2. FollowedOK(k)'
      BY <1>3, <1>5, <1>6, <3>1, SheetAsked
    <3> QED BY <2>1, <3>2
  <2>2. CASE j # k
    <3>1. FollowedOK(j) /\ j \notin {k} /\ sheet'[j] = sheet[j] /\ (j \in errors => j \in errors')
      BY <1>1, <1>3, <2>2
    <3>2. ~Pursues(page, call[t], j, sheet[j].of)
      BY <1>2, <2>2 DEF Pursues
    <3>3. call[t].at # j /\ call'[t].at # j
      BY <1>1, <1>3, <1>6, <2>2
    <3> QED BY <1>3, <1>5, <3>1, <3>2, <3>3, SheetElsewhere
  <2> QED BY <2>1, <2>2
<1>9. call'[t].fn \notin Guarded
  BY <1>1, <1>6
<1>10. \A j \in Followed(page) : FollowedOK(j)'
  BY <1>1, <1>8
<1>11. \A f \in flags' : \/ f \in flags /\ (f # call[t].flag \/ call[t].at = "idle")
                         \/ call'[t].at # "idle" /\ call'[t].flag = f
  BY <1>3, <1>4, <1>6
<1> QED BY <1>3, <1>5, <1>7, <1>9, <1>10, <1>11, UnguardedAgain

\* A call ends; of sheet at it says that it is out of date, or shows what it fetched, or
\* nothing as there is a newer call.
LEMMA SettingEndKeeps ==
  ASSUME ListInv, page = "settings", UNCHANGED page, NEW t \in Calls, End(t), NEW at \in SheetsOf(page),
         call[t].at = at \/ (call[t].at = "sending" /\ ListOf(call[t].fn) = at),
         SheetsTyped(SheetsOf(page), sheet'), SameBut(at, SheetsOf(page), sheet, sheet'),
         \A j \in SheetsOf(page) : j \in errors => j \in errors',
         \/ at \in errors' /\ sheet'[at] = sheet[at]
         \/ call[t].at = at /\ call[t].newest /\ call[t].served /\ ShowsAnswer(sheet'[at], call[t])
         \/ call[t].at = at /\ ~call[t].newest /\ sheet'[at] = sheet[at]
  PROVE  ListInv'
<1>1. /\ SheetsOf(page) = {"providers", "runners", "pairing"} /\ Followed(page) = SheetsOf(page)
      /\ PageTyped(SheetsOf(page)) /\ CallsTyped(call) /\ SheetsTyped(SheetsOf(page), sheet)
      /\ \A k \in SheetsOf(page) : FollowedOK(k)
  BY SettingsAre
<1>2. call' = [call EXCEPT ![t] = NoCall] /\ flags' = flags \ {call[t].flag}
  BY DEF End
<1>3. /\ call' = [u \in Calls |-> call'[u]] /\ \A u \in Calls : CallTyped(call'[u])
      /\ AlikeBut(t, call, call', {})
      /\ call'[t].at = "idle" /\ call'[t].fn = "none" /\ ~call'[t].newest /\ ~call'[t].served
  BY <1>1, <1>2, EndIs
<1>4. PageTyped(SheetsOf(page))'
  BY <1>3 DEF PageTyped, SheetsTyped
<1>5. ASSUME NEW j \in SheetsOf(page) PROVE FollowedOK(j)'
  <2>1. FollowedOK(j) /\ j # "idle" /\ j # "sending" /\ (j \in errors => j \in errors') /\ j \notin {}
    BY <1>1
  <2>2. CASE j # at
    <3>1. sheet'[j] = sheet[j] /\ call[t].at # j
      BY <1>1, <2>1, <2>2 DEF SameBut
    <3>2. ~Pursues(page, call[t], j, sheet[j].of)
      BY <2>2, <3>1, <1>1 DEF Pursues
    <3> QED BY <1>3, <2>1, <3>1, <3>2, SheetElsewhere
  <2>3. CASE j = at
    <3>1. CASE at \in errors' /\ sheet'[at] = sheet[at]
      BY <1>3, <2>1, <2>3, <3>1, SheetMissed
    <3>2. CASE call[t].at = at /\ call[t].newest /\ call[t].served /\ ShowsAnswer(sheet'[at], call[t])
      <4>1. ~Pursues(page, call[t], at, sheet[at].of) /\ call'[t].at # at
        BY <1>1, <1>3, <3>2 DEF Pursues
      <4>2. sheet'[at].content = (IF call[t].fresh THEN "new" ELSE "old") /\ page # "documents"
        BY <3>2 DEF ShowsAnswer
      <4>3. FollowedOK(at)'
        BY <1>3, <2>1, <2>3, <3>2, <4>1, <4>2, SheetGot
      <4> QED BY <2>3, <4>3
    <3>3. CASE call[t].at = at /\ ~call[t].newest /\ sheet'[at] = sheet[at]
      <4>1. ~Pursues(page, call[t], at, sheet[at].of)
        BY <1>1, <3>3 DEF Pursues
      <4> QED BY <1>3, <2>1, <2>3, <3>3, <4>1, SheetElsewhere
    <3> QED BY <3>1, <3>2, <3>3
  <2> QED BY <2>2, <2>3
<1>6. call'[t].fn \notin Guarded
  BY <1>3 DEF Guarded
<1>7. \A j \in Followed(page) : FollowedOK(j)'
  BY <1>1, <1>5
<1>8. \A f \in flags' : \/ f \in flags /\ (f # call[t].flag \/ call[t].at = "idle")
                        \/ call'[t].at # "idle" /\ call'[t].flag = f
  BY <1>2
<1> QED BY <1>3, <1>4, <1>6, <1>7, <1>8, UnguardedAgain

LEMMA SettingFailsKeeps == ASSUME ListInv, page = "settings", NEW t \in Calls, SettingFails(t) PROVE ListInv'
<1>1. PICK k : k = ListOf(call[t].fn)
  OBVIOUS
<1>2. k \in SheetsOf(page) /\ SheetsTyped(SheetsOf(page), sheet)
  BY <1>1, ListOfIs, SettingsAre
<1>3. /\ call[t].at = "sending" /\ End(t) /\ k \in errors' /\ UNCHANGED <<page, sheet>>
      /\ \A j \in SheetsOf(page) : j \in errors => j \in errors'
  BY <1>1 DEF SettingFails
<1>4. SheetsTyped(SheetsOf(page), sheet') /\ SameBut(k, SheetsOf(page), sheet, sheet') /\ sheet'[k] = sheet[k]
  BY <1>2, <1>3 DEF SameBut
<1> QED BY <1>1, <1>2, <1>3, <1>4, SettingEndKeeps

LEMMA SettingFetchedKeeps ==
  ASSUME ListInv, page = "settings", NEW t \in Calls, NEW k \in {"providers", "runners", "pairing"}, SettingFetched(t, k)
  PROVE  ListInv'
<1>1. k \in SheetsOf(page) /\ SheetsTyped(SheetsOf(page), sheet)
  BY SettingsAre
<1>2. call[t].at = k /\ End(t) /\ UNCHANGED page
  BY DEF SettingFetched
<1>3. CASE call[t].served /\ sheet' = (IF call[t].newest THEN [sheet EXCEPT ![k] = Received(t, NoItem)] ELSE sheet)
           /\ UNCHANGED errors
  <2>1. CASE call[t].newest
    <3>1. PICK of, sheets : of = NoItem /\ sheets = sheet'
      OBVIOUS
    <3>2. sheets = Delivered(k, t, of)
      BY <1>3, <2>1, <3>1 DEF Delivered
    <3>3. SheetsTyped(SheetsOf(page), sheets) /\ ShowsAnswer(sheets[k], call[t]) /\ SameBut(k, SheetsOf(page), sheet, sheets)
      BY <1>1, <3>2, ReceivedSheet
    <3>4. SheetsTyped(SheetsOf(page), sheet') /\ ShowsAnswer(sheet'[k], call[t]) /\ SameBut(k, SheetsOf(page), sheet, sheet')
      BY <3>1, <3>3
    <3> QED BY <1>1, <1>2, <1>3, <2>1, <3>4, SettingEndKeeps
  <2>2. CASE ~call[t].newest
    <3>1. SheetsTyped(SheetsOf(page), sheet') /\ SameBut(k, SheetsOf(page), sheet, sheet') /\ sheet'[k] = sheet[k]
      BY <1>1, <1>3, <2>2 DEF SameBut
    <3> QED BY <1>1, <1>2, <1>3, <2>2, <3>1, SettingEndKeeps
  <2> QED BY <2>1, <2>2
<1>4. CASE errors' = (IF call[t].newest THEN errors \cup {k} ELSE errors) /\ UNCHANGED sheet
  <2>1. SheetsTyped(SheetsOf(page), sheet') /\ SameBut(k, SheetsOf(page), sheet, sheet') /\ sheet'[k] = sheet[k]
    BY <1>1, <1>4 DEF SameBut
  <2>2. (\A j \in SheetsOf(page) : j \in errors => j \in errors') /\ (call[t].newest => k \in errors')
    BY <1>4
  <2> QED BY <1>1, <1>2, <2>1, <2>2, SettingEndKeeps
<1> QED BY <1>3, <1>4 DEF SettingFetched

LEMMA SettingsStep == ASSUME ListInv, SettingsPageNext PROVE ListInv'
<1>0. page = "settings"
  BY DEF SettingsPageNext
<1>1. ASSUME NEW i \in Items, SetProvider(i) \/ RevokeRunner(i) PROVE ListInv'
  <2>1. PICK fn \in {"enable", "disable", "revoke"} : SendChange(fn, i, PendingSetting(i))
    BY <1>1 DEF SetProvider, RevokeRunner, ProviderButton, RunnerButton
  <2>2. fn \notin Guarded /\ fn \notin {"startApplication", "archivePosting"} /\ PendingSetting(i)[1] \notin GuardNames
    BY <2>1 DEF Guarded, GuardNames, PendingSetting
  <2> QED BY <2>1, <2>2, ChangeSentKeeps
<1>2. ASSUME NEW t \in Calls, SettingServed(t) \/ SettingChanged(t) \/ SettingFails(t)
                              \/ \E k \in {"providers", "runners", "pairing"} : SettingFetched(t, k)
      PROVE  ListInv'
  BY <1>0, <1>2, SettingServedKeeps, SettingChangedKeeps, SettingFailsKeeps, SettingFetchedKeeps
<1> QED BY <1>0, <1>1, <1>2, PairingKeeps DEF SettingsPageNext

-----------------------------------------------------------------------------
(* The applications.                                                       *)

LEMMA ApplicationsAre ==
  ASSUME ListInv, page = "applications"
  PROVE  /\ SheetsOf(page) = {"list", "history", "versions"}
         /\ PageTyped(SheetsOf(page)) /\ CallsTyped(call) /\ SheetsTyped(SheetsOf(page), sheet)
         /\ FollowedOK("list") /\ DetailsOK /\ GuardsOK
         /\ \A u \in Calls : call[u].at # "idle" /\ call[u].fn \notin Guarded => call[u].flag[1] \notin GuardNames
<1>1. SheetsOf(page) = {"list", "history", "versions"} /\ Followed(page) = {"list"}
  BY DEF SheetsOf, Followed
<1>2. PageTyped(SheetsOf(page)) /\ CallsTyped(call) /\ SheetsTyped(SheetsOf(page), sheet)
  BY DEF ListInv, ListBase, PageTyped, CallsTyped, SheetsTyped
<1> QED BY <1>1, <1>2 DEF ListInv, GuardsOK

LEMMA ToggleKeeps == ASSUME ListInv, page = "applications", ToggleForm PROVE ListInv'
<1>1. /\ SheetsOf(page) = {"list", "history", "versions"}
      /\ PageTyped(SheetsOf(page)) /\ CallsTyped(call) /\ SheetsTyped(SheetsOf(page), sheet)
      /\ FollowedOK("list") /\ DetailsOK /\ GuardsOK
  BY ApplicationsAre
<1>2. /\ UNCHANGED <<page, backend, sheet, errors, call>>
      /\ \A f \in flags' : f \in flags \/ f = Form
      /\ \A f \in flags : f \in flags' \/ f = Form
  BY DEF ToggleForm
<1>3. Form[1] = "form" /\ Form[1] \notin GuardNames
  BY DEF Form, GuardNames
<1>4. PICK t \in Calls : TRUE
  BY FirstCallIs
<1>5. StillBut(t) /\ AlikeBut(t, call, call', {}) /\ \A u \in Calls : Alike(call[u], call'[u], {})
  BY <1>2, AlikeSame DEF StillBut, Still, AlikeBut
<1>6. FlagsHeld'
  BY <1>2, <1>3 DEF FlagsHeld, ListInv
<1>7. GuardsOK'
  <2>1. \A u \in Calls : call[u].fn \in Guarded /\ call[u].at # "idle" => call[u].flag \in flags'
    <3> TAKE u \in Calls
    <3> HAVE call[u].fn \in Guarded /\ call[u].at # "idle"
    <3>1. call[u].flag \in flags /\ call[u].flag = GuardOf(call[u].fn, call[u].item)
      BY <1>1 DEF GuardsOK
    <3>2. call[u].flag[1] \in GuardNames
      BY <3>1, GuardsDiffer
    <3> QED BY <1>2, <1>3, <3>1, <3>2
  <2>2. OneChange'
    BY <1>1, <1>2 DEF GuardsOK, OneChange
  <2> QED BY <1>1, <1>2, <2>1, <2>2 DEF GuardsOK
<1>8. DetailsOK'
  BY <1>1, <1>2 DEF DetailsOK
<1>9. FollowedOK("list")'
  BY <1>1, <1>2, <1>5, SheetRests
<1>10. PageTyped(SheetsOf(page))'
  BY <1>1, <1>2 DEF PageTyped
<1> QED BY <1>2, <1>6, <1>7, <1>8, <1>9, <1>10 DEF ListInv, ListBase, Followed

LEMMA ShowDetailsKeeps ==
  ASSUME ListInv, page = "applications", FreeCalls # {}, NEW k \in {"history", "versions"}, NEW i, NEW row,
         call' = Shown(k, i, row), UNCHANGED <<page, sheet, flags, errors>>
  PROVE  ListInv'
<1>1. /\ SheetsOf(page) = {"list", "history", "versions"}
      /\ PageTyped(SheetsOf(page)) /\ CallsTyped(call) /\ SheetsTyped(SheetsOf(page), sheet)
      /\ FollowedOK("list") /\ DetailsOK /\ GuardsOK
  BY ApplicationsAre
<1>2. PICK t, d, none : t = FreeCall /\ d = call' /\ none = <<"none", NoItem>>
  OBVIOUS
<1>3. d = Shown(k, i, row)
  BY <1>2
<1>4. /\ FreeCall \in Calls /\ call[FreeCall].at = "idle" /\ CallsTyped(d) /\ AlikeBut(FreeCall, call, d, {k})
      /\ Fetches(d[FreeCall], k) /\ IsFor(d[FreeCall], "show", i, none)
  BY <1>1, <1>2, <1>3, ShownIs
<1>5. /\ t \in Calls /\ call[t].at = "idle" /\ CallsTyped(call') /\ AlikeBut(t, call, call', {k})
      /\ call'[t].at = k /\ call'[t].newest /\ ~call'[t].served
      /\ call'[t].fn = "show" /\ call'[t].item = i /\ call'[t].flag = none
  BY <1>2, <1>4 DEF Fetches, IsFor
<1>6. PageTyped(SheetsOf(page))'
  BY <1>1, <1>5 DEF PageTyped, CallsTyped
<1>7. FollowedOK("list")'
  <2>1. ~Pursues(page, call[t], "list", sheet["list"].of)
    BY <1>5 DEF Pursues
  <2>2. "list" \notin {k} /\ call[t].at # "list" /\ call'[t].at # "list"
    BY <1>5
  <2> QED BY <1>1, <1>5, <2>1, <2>2, SheetElsewhere
<1>8. DetailsOK'
  BY <1>1, <1>5, DetailsStay
<1> QED BY <1>2, <1>5, <1>6, <1>7, <1>8, GuardedAgain

\* A call that sent a change or fetched ends; the list is its business or is not.
LEMMA ApplicationEndKeeps ==
  ASSUME ListInv, page = "applications", UNCHANGED page, NEW t \in Calls, call[t].at # "idle",
         call' = [call EXCEPT ![t] = NoCall],
         SheetsTyped(SheetsOf(page), sheet'),
         \A k \in {"history", "versions"} :
           sheet'[k] \in {sheet[k], Blank} \/ (call[t].at = k /\ call[t].served /\ ShowsAnswer(sheet'[k], call[t])),
         \A f \in flags' : f[1] = "form" \/ (f \in flags /\ f # call[t].flag),
         \A f \in flags : f \in flags' \/ f = call[t].flag \/ f[1] \notin GuardNames,
         \/ "list" \in errors' /\ sheet'["list"] = sheet["list"]
         \/ /\ call[t].at = "list" /\ call[t].newest /\ call[t].served /\ ShowsAnswer(sheet'["list"], call[t])
            /\ errors' = errors
         \/ /\ sheet'["list"] = sheet["list"] /\ errors' = errors
            /\ call[t].at = "list" => ~call[t].newest
            /\ call[t].at = "sending" => ~call[t].served \/ call[t].fn \in {"addNote", "schedule"}
  PROVE  ListInv'
<1>1. /\ SheetsOf(page) = {"list", "history", "versions"}
      /\ PageTyped(SheetsOf(page)) /\ FollowedOK("list") /\ DetailsOK
  BY ApplicationsAre
<1>2. /\ call' = [u \in Calls |-> call'[u]] /\ \A u \in Calls : CallTyped(call'[u])
      /\ AlikeBut(t, call, call', {})
      /\ call'[t].at = "idle" /\ call'[t].fn = "none" /\ ~call'[t].newest /\ ~call'[t].served
  BY <1>1, EndIs
<1>3. PageTyped(SheetsOf(page))'
  BY <1>2 DEF PageTyped, SheetsTyped
<1>4. FollowedOK("list")'
  <2>1. CASE "list" \in errors' /\ sheet'["list"] = sheet["list"]
    BY <1>1, <1>2, <2>1, SheetMissed
  <2>2. CASE /\ call[t].at = "list" /\ call[t].newest /\ call[t].served /\ ShowsAnswer(sheet'["list"], call[t])
             /\ errors' = errors
    <3>1. ~Pursues(page, call[t], "list", sheet["list"].of) /\ call'[t].at # "list"
      BY <1>2, <2>2 DEF Pursues
    <3>2. sheet'["list"].content = (IF call[t].fresh THEN "new" ELSE "old") /\ page # "documents"
      BY <2>2 DEF ShowsAnswer
    <3> QED BY <1>1, <1>2, <2>2, <3>1, <3>2, SheetGot
  <2>3. CASE /\ sheet'["list"] = sheet["list"] /\ errors' = errors
             /\ call[t].at = "list" => ~call[t].newest
             /\ call[t].at = "sending" => ~call[t].served \/ call[t].fn \in {"addNote", "schedule"}
    <3>1. ~Pursues(page, call[t], "list", sheet["list"].of)
      BY <2>3 DEF Pursues
    <3> QED BY <1>1, <1>2, <2>3, <3>1, SheetElsewhere
  <2> QED BY <2>1, <2>2, <2>3
<1>5. DetailsOK'
  <2>1. ASSUME NEW u \in Calls, NEW k \in {"history", "versions"}, call'[u].at = k, call'[u].served
        PROVE  call'[u].fresh
    BY <1>1, <1>2, <2>1 DEF AlikeBut, Alike, DetailsOK
  <2>2. \A k \in {"history", "versions"} : sheet'[k] = Blank \/ sheet'[k].content = "new"
    BY <1>1 DEF DetailsOK, ShowsAnswer
  <2> QED BY <2>1, <2>2 DEF DetailsOK
<1>6. \A f \in flags' : \/ f[1] = "form"
                        \/ f \in flags /\ (f # call[t].flag \/ call[t].at = "idle")
                        \/ call'[t].at # "idle" /\ call'[t].flag = f
  OBVIOUS
<1>7. \A f \in flags : \/ f \in flags' \/ f[1] \notin GuardNames
                       \/ f = call[t].flag /\ call[t].at # "idle" /\ call'[t].at = "idle"
  BY <1>2
<1> QED BY <1>2, <1>3, <1>4, <1>5, <1>6, <1>7, GuardedAgain

\* A call goes on to fetch sheet k, from what calls has of it.
LEMMA ApplicationGoesOnKeeps ==
  ASSUME ListInv, page = "applications", UNCHANGED page, NEW t \in Calls, call[t].at # "idle",
         NEW calls, NEW K, CallsTyped(calls), AlikeBut(t, call, calls, K), NEW k \in SheetsOf(page),
         call' = Fetch(calls, t, k), "list" \notin K,
         calls[t].item = call[t].item /\ calls[t].flag = call[t].flag,
         calls[t].fn = call[t].fn \/ (call[t].fn = "move" /\ calls[t].fn = "moved"),
         SheetsTyped(SheetsOf(page), sheet'),
         \A j \in {"history", "versions"} : sheet'[j] \in {sheet[j], Blank},
         \A f \in flags' : f[1] = "form" \/ f \in flags,
         \A f \in flags : f \in flags' \/ f[1] \notin GuardNames,
         k = "list" \/ /\ call[t].at = "list" /\ call[t].newest /\ call[t].served /\ ShowsAnswer(sheet'["list"], call[t])
                       /\ errors' = errors
                    \/ /\ sheet'["list"] = sheet["list"] /\ errors' = errors
                       /\ call[t].at = "list" => ~call[t].newest
                       /\ call[t].at = "sending" => ~call[t].served \/ call[t].fn \in {"addNote", "schedule"}
  PROVE  ListInv'
<1>1. /\ SheetsOf(page) = {"list", "history", "versions"}
      /\ PageTyped(SheetsOf(page)) /\ FollowedOK("list") /\ DetailsOK
  BY ApplicationsAre
<1>2. CallsTyped(call') /\ AlikeBut(t, call, call', K \cup {k}) /\ Fetches(call'[t], k)
      /\ IsFor(call'[t], calls[t].fn, calls[t].item, calls[t].flag)
  <2>1. PICK d : d = call'
    OBVIOUS
  <2>2. CallsTyped(d) /\ AlikeBut(t, call, d, K \cup {k}) /\ Fetches(d[t], k)
        /\ IsFor(d[t], calls[t].fn, calls[t].item, calls[t].flag)
    BY <2>1, FetchIs
  <2> QED BY <2>1, <2>2
<1>3. /\ call'[t].at = k /\ call'[t].newest /\ ~call'[t].served /\ k # "idle" /\ k # "sending"
      /\ call'[t].fn = calls[t].fn /\ call'[t].item = call[t].item /\ call'[t].flag = call[t].flag
  BY <1>1, <1>2 DEF Fetches, IsFor
<1>4. PageTyped(SheetsOf(page))'
  BY <1>2 DEF PageTyped, SheetsTyped, CallsTyped
<1>5. FollowedOK("list")'
  <2>1. CASE k = "list"
    <3>1. "list" \in K \cup {k} /\ page' # "documents" /\ call'[t].at = "list"
      BY <1>3, <2>1
    <3> QED BY <1>2, <1>3, <3>1, SheetAsked
  <2>2. CASE k # "list"
    <3>1. "list" \notin K \cup {k} /\ call'[t].at # "list"
      BY <1>3, <2>2
    <3>2. CASE /\ call[t].at = "list" /\ call[t].newest /\ call[t].served /\ ShowsAnswer(sheet'["list"], call[t])
               /\ errors' = errors
      <4>1. ~Pursues(page, call[t], "list", sheet["list"].of)
        BY <3>2 DEF Pursues
      <4>2. sheet'["list"].content = (IF call[t].fresh THEN "new" ELSE "old") /\ page # "documents"
        BY <3>2 DEF ShowsAnswer
      <4> QED BY <1>1, <1>2, <3>1, <3>2, <4>1, <4>2, SheetGot
    <3>3. CASE /\ sheet'["list"] = sheet["list"] /\ errors' = errors
               /\ call[t].at = "list" => ~call[t].newest
               /\ call[t].at = "sending" => ~call[t].served \/ call[t].fn \in {"addNote", "schedule"}
      <4>1. ~Pursues(page, call[t], "list", sheet["list"].of)
        BY <3>3 DEF Pursues
      <4> QED BY <1>1, <1>2, <3>1, <3>3, <4>1, SheetElsewhere
    <3> QED BY <2>2, <3>2, <3>3
  <2> QED BY <2>1, <2>2
<1>6. DetailsOK'
  BY <1>1, <1>2, <1>3, DetailsStay
<1>7. \A f \in flags' : \/ f[1] = "form"
                        \/ f \in flags /\ (f # call[t].flag \/ call[t].at = "idle")
                        \/ call'[t].at # "idle" /\ call'[t].flag = f
  BY <1>3
<1>8. /\ \A f \in flags : \/ f \in flags' \/ f[1] \notin GuardNames
                          \/ f = call[t].flag /\ call[t].at # "idle" /\ call'[t].at = "idle"
      /\ call'[t].at # "idle" =>
           /\ call[t].at # "idle" /\ call'[t].item = call[t].item /\ call'[t].flag = call[t].flag
           /\ call'[t].fn = call[t].fn \/ (call[t].fn = "move" /\ call'[t].fn = "moved")
  BY <1>3
<1> QED BY <1>2, <1>4, <1>5, <1>6, <1>7, <1>8, GuardedAgain

LEMMA ApplicationsServedKeeps ==
  ASSUME ListInv, page = "applications", NEW t \in Calls, ApplicationsServed(t) PROVE ListInv'
<1>1. CASE ServeFetch(t, {"active", "archived"} \X {"none", "open", "over", "archived"})
  <2>1. /\ call[t].at # "idle" /\ call[t].at # "sending" /\ UNCHANGED <<page, sheet, flags, errors>>
        /\ \E r : call' = [call EXCEPT ![t].served = TRUE, ![t].fresh = TRUE, ![t].rows = r]
    BY <1>1 DEF ServeFetch
  <2> QED BY <2>1, AnswerKeeps
<1>2. CASE ServeChange(t, PostingSteps \cup ApplicationSteps,
             IF call[t].fn \in {"addNote", "schedule"} THEN {} ELSE {"list"})
  <2>1. PICK shows, steps : /\ shows = IF call[t].fn \in {"addNote", "schedule"} THEN {} ELSE {"list"}
                            /\ steps = PostingSteps \cup ApplicationSteps
    OBVIOUS
  <2>2. ASSUME NEW k \in Followed(page), NEW c, k \in shows, c.at = "sending", c.served, c.fn = call[t].fn
        PROVE  Pursues(page, c, k, sheet[k].of)
    BY <2>1, <2>2 DEF Pursues
  <2>3. ServeChange(t, steps, shows) /\ shows \subseteq {"list"} /\ page # "settings"
    BY <1>2, <2>1
  <2> QED BY <2>2, <2>3, ChangeKeeps
<1> QED BY <1>1, <1>2 DEF ApplicationsServed

LEMMA ApplicationsChangedKeeps ==
  ASSUME ListInv, page = "applications", NEW t \in Calls, ApplicationsChanged(t) PROVE ListInv'
<1>1. /\ SheetsOf(page) = {"list", "history", "versions"} /\ CallsTyped(call) /\ SheetsTyped(SheetsOf(page), sheet)
  BY ApplicationsAre
<1>2. PICK closed : closed =
        IF call[t].fn = "archiveApplication" /\ sheet["history"].of = call[t].item THEN {"history"}
        ELSE IF call[t].fn = "archivePosting" /\ sheet["versions"].of = call[t].item THEN {"versions"}
        ELSE {}
  OBVIOUS
<1>3. PICK calls, b, k : /\ calls = IF "history" \in closed THEN Outdated(call, "history") ELSE call
                         /\ b = Blank /\ k = "list"
  OBVIOUS
<1>4. /\ call[t].at = "sending"
      /\ sheet' = [j \in SheetsOf(page) |-> IF j \in closed THEN b ELSE sheet[j]]
      /\ call' = Fetch(calls, t, k) /\ UNCHANGED page
      /\ flags' = IF call[t].fn = "savePosting" THEN flags \ {Form} ELSE flags
  BY <1>1, <1>2, <1>3 DEF ApplicationsChanged, SheetsTyped
<1>5. ASSUME NEW u \in Calls PROVE CallTyped(calls[u]) /\ Alike(call[u], calls[u], {"history"} \cap closed)
  <2>1. CASE "history" \in closed
    <3>1. LET e == calls[u] IN
         /\ CallTyped(e) /\ e.at = call[u].at /\ e.fn = call[u].fn /\ e.item = call[u].item
         /\ e.flag = call[u].flag /\ e.served = call[u].served /\ e.rows = call[u].rows
         /\ e.fresh = call[u].fresh
         /\ (e.newest <=> call[u].newest /\ call[u].at # "history")
      BY <1>1, <1>3, <2>1, OutdatedIs DEF CallsTyped
    <3> QED BY <2>1, <3>1 DEF Alike
  <2>2. CASE "history" \notin closed
    BY <1>1, <1>3, <2>2 DEF CallsTyped, Alike
  <2> QED BY <2>1, <2>2
<1>6. CallsTyped(calls)
  BY <1>1, <1>3, <1>5, OutdatedMaps DEF CallsTyped
<1>7. PICK K : K = {"history"} \cap closed
  OBVIOUS
<1>8. /\ AlikeBut(t, call, calls, K) /\ "list" \notin K /\ calls[t].item = call[t].item
      /\ calls[t].flag = call[t].flag /\ calls[t].fn = call[t].fn
  BY <1>5, <1>7 DEF AlikeBut, Alike
<1>9. /\ SheetsTyped(SheetsOf(page), sheet')
      /\ \A j \in {"history", "versions"} : sheet'[j] \in {sheet[j], Blank}
  <2>1. /\ sheet' = [j \in SheetsOf(page) |-> sheet'[j]]
        /\ \A j \in SheetsOf(page) : sheet'[j] = IF j \in closed THEN b ELSE sheet[j]
    BY <1>4
  <2>2. SheetTyped(b) /\ b = Blank
    BY <1>3, BlankIs
  <2> QED BY <1>1, <2>1, <2>2 DEF SheetsTyped
<1>10. /\ \A f \in flags' : f[1] = "form" \/ f \in flags
       /\ \A f \in flags : f \in flags' \/ f[1] \notin GuardNames
  BY <1>4 DEF Form, GuardNames
<1>11. k \in SheetsOf(page) /\ k = "list" /\ call[t].at # "idle"
  BY <1>1, <1>3, <1>4
<1> QED BY <1>4, <1>6, <1>8, <1>9, <1>10, <1>11, ApplicationGoesOnKeeps

LEMMA NoteAddedKeeps ==
  ASSUME ListInv, page = "applications", NEW t \in Calls, NoteAdded(t) PROVE ListInv'
<1>1. /\ SheetsOf(page) = {"list", "history", "versions"} /\ CallsTyped(call) /\ SheetsTyped(SheetsOf(page), sheet)
  BY ApplicationsAre
<1>2. /\ call[t].at = "sending" /\ call[t].fn \in {"addNote", "schedule"} /\ UNCHANGED <<page, sheet, errors>>
  BY DEF NoteAdded
<1>3. SheetsTyped(SheetsOf(page), sheet') /\ \A k \in {"history", "versions"} : sheet'[k] \in {sheet[k], Blank}
  BY <1>1, <1>2
<1>4. CASE call' = Fetch(call, t, "history") /\ UNCHANGED flags
  <2>1. PICK calls, K, k : calls = call /\ K = {} /\ k = "history"
    OBVIOUS
  <2>2. /\ CallsTyped(calls) /\ AlikeBut(t, call, calls, K) /\ k \in SheetsOf(page) /\ "list" \notin K
        /\ call' = Fetch(calls, t, k)
        /\ calls[t].item = call[t].item /\ calls[t].flag = call[t].flag /\ calls[t].fn = call[t].fn
    BY <1>1, <1>4, <2>1, AlikeSame DEF AlikeBut
  <2>3. (\A f \in flags' : f[1] = "form" \/ f \in flags) /\ \A f \in flags : f \in flags' \/ f[1] \notin GuardNames
    BY <1>4
  <2>4. call[t].at # "idle" /\ call[t].at # "list" /\ sheet'["list"] = sheet["list"] /\ errors' = errors /\ page' = page
    BY <1>2
  <2> QED BY <1>2, <1>3, <2>2, <2>3, <2>4, ApplicationGoesOnKeeps
<1>5. CASE End(t)
  <2>1. call' = [call EXCEPT ![t] = NoCall] /\ flags' = flags \ {call[t].flag}
    BY <1>5 DEF End
  <2>2. /\ \A f \in flags' : f[1] = "form" \/ (f \in flags /\ f # call[t].flag)
        /\ \A f \in flags : f \in flags' \/ f = call[t].flag \/ f[1] \notin GuardNames
    BY <2>1
  <2>3. call[t].at # "idle" /\ call[t].at # "list" /\ sheet'["list"] = sheet["list"] /\ errors' = errors /\ page' = page
    BY <1>2
  <2> QED BY <1>2, <1>3, <2>1, <2>2, <2>3, ApplicationEndKeeps
<1> QED BY <1>4, <1>5 DEF NoteAdded

LEMMA ApplicationsFailsKeeps ==
  ASSUME ListInv, page = "applications", NEW t \in Calls, ApplicationsFails(t) PROVE ListInv'
<1>1. /\ SheetsOf(page) = {"list", "history", "versions"} /\ CallsTyped(call) /\ SheetsTyped(SheetsOf(page), sheet)
  BY ApplicationsAre
<1>2. call[t].at # "idle" /\ ApplicationsCaught(t) /\ UNCHANGED <<page, sheet>>
  BY DEF ApplicationsFails
<1>3. SheetsTyped(SheetsOf(page), sheet') /\ \A k \in {"history", "versions"} : sheet'[k] \in {sheet[k], Blank}
  BY <1>1, <1>2
<1>4. CASE call[t].fn = "move"
  <2>1. PICK calls, K, k, c, e : /\ calls = [call EXCEPT ![t].fn = "moved"] /\ K = {} /\ k = "list"
                                 /\ c = call[t] /\ e = [c EXCEPT !.fn = "moved"]
    OBVIOUS
  <2>2. CallTyped(c)
    BY <1>1, <2>1 DEF CallsTyped
  <2>3. CallTyped(e) /\ e.fn = "moved" /\ e.item = c.item /\ e.flag = c.flag
    BY <2>1, <2>2 DEF CallTyped
  <2>4. calls = [u \in Calls |-> calls[u]] /\ calls[t] = e /\ \A u \in Calls : u # t => calls[u] = call[u]
    <3>1. calls = [call EXCEPT ![t] = e]
      BY <2>1
    <3> QED BY <1>1, <3>1 DEF CallsTyped
  <2>5. /\ CallsTyped(calls) /\ AlikeBut(t, call, calls, K)
    BY <1>1, <2>1, <2>3, <2>4, AlikeSame DEF AlikeBut, CallsTyped
  <2>6. k \in SheetsOf(page) /\ "list" \notin K /\ call' = Fetch(calls, t, k) /\ k = "list" /\ UNCHANGED flags
    BY <1>1, <1>2, <1>4, <2>1 DEF ApplicationsCaught
  <2>7. calls[t].item = call[t].item /\ calls[t].flag = call[t].flag /\ call[t].fn = "move" /\ calls[t].fn = "moved"
    BY <1>4, <2>1, <2>3, <2>4
  <2>8. (\A f \in flags' : f[1] = "form" \/ f \in flags) /\ \A f \in flags : f \in flags' \/ f[1] \notin GuardNames
    BY <2>6
  <2> QED BY <1>2, <1>3, <2>5, <2>6, <2>7, <2>8, ApplicationGoesOnKeeps
<1>5. CASE call[t].fn # "move"
  <2>1. call' = [call EXCEPT ![t] = NoCall] /\ flags' = flags \ {call[t].flag} /\ "list" \in errors'
    BY <1>2, <1>5 DEF End, ApplicationsCaught
  <2>2. /\ \A f \in flags' : f[1] = "form" \/ (f \in flags /\ f # call[t].flag)
        /\ \A f \in flags : f \in flags' \/ f = call[t].flag \/ f[1] \notin GuardNames
    BY <2>1
  <2> QED BY <1>2, <1>3, <2>1, <2>2, ApplicationEndKeeps
<1> QED BY <1>4, <1>5

LEMMA ApplicationsLoadedKeeps ==
  ASSUME ListInv, page = "applications", NEW t \in Calls, ApplicationsLoaded(t) PROVE ListInv'
<1>1. /\ SheetsOf(page) = {"list", "history", "versions"} /\ CallsTyped(call) /\ SheetsTyped(SheetsOf(page), sheet)
      /\ \A u \in Calls : call[u].at # "idle" /\ call[u].fn \notin Guarded => call[u].flag[1] \notin GuardNames
  BY ApplicationsAre
<1>2. PICK list : list = IF call[t].newest THEN Received(t, NoItem) ELSE sheet["list"]
  OBVIOUS
<1>3. /\ call[t].at = "list" /\ (call[t].newest => call[t].served)
      /\ sheet' = [sheet EXCEPT !["list"] = list] /\ UNCHANGED <<page, errors>>
      /\ \A f \in flags' : (f \in flags \/ f = Form) /\ f # call[t].flag
      /\ \A f \in flags : f \in flags' \/ f = call[t].flag
      /\ \/ call' = [call EXCEPT ![t] = NoCall]
         \/ /\ call[t].fn = "addPostingVersion"
            /\ \E row : call' = Fetch([call EXCEPT ![t].rows = row], t, "versions")
  <2>1. PICK lowered : lowered = IF call[t].newest /\ \A i \in Items : Posting(call[t].rows[i]) = "absent"
                                 THEN flags \cup {Form} ELSE flags
    OBVIOUS
  <2>2. flags' = lowered \ {call[t].flag}
    BY <2>1 DEF ApplicationsLoaded
  <2>3. /\ \A f \in flags' : (f \in flags \/ f = Form) /\ f # call[t].flag
        /\ \A f \in flags : f \in flags' \/ f = call[t].flag
    BY <2>1, <2>2
  <2>4. \/ call' = [call EXCEPT ![t] = NoCall]
        \/ /\ call[t].fn = "addPostingVersion"
           /\ call' = Fetch([call EXCEPT ![t].rows = <<Posting(list.rows[call[t].item])>>], t, "versions")
    BY <1>2 DEF ApplicationsLoaded
  <2>5. \/ call' = [call EXCEPT ![t] = NoCall]
        \/ /\ call[t].fn = "addPostingVersion"
           /\ \E row : call' = Fetch([call EXCEPT ![t].rows = row], t, "versions")
    BY <2>4
  <2>6. sheet' = [sheet EXCEPT !["list"] = list]
    BY <1>2 DEF ApplicationsLoaded
  <2> QED BY <2>3, <2>5, <2>6 DEF ApplicationsLoaded
<1>4. /\ SheetsTyped(SheetsOf(page), sheet') /\ \A k \in {"history", "versions"} : sheet'[k] \in {sheet[k], Blank}
      /\ call[t].newest => ShowsAnswer(sheet'["list"], call[t])
      /\ ~call[t].newest => sheet'["list"] = sheet["list"]
  <2>1. SheetTyped(list)
    BY <1>1, <1>2, ReceivedIs DEF SheetsTyped
  <2>2. call[t].newest => ShowsAnswer(list, call[t])
    BY <1>2 DEF Received, ShowsAnswer
  <2>3. /\ sheet' = [j \in SheetsOf(page) |-> sheet'[j]] /\ sheet'["list"] = list
        /\ \A j \in SheetsOf(page) : j # "list" => sheet'[j] = sheet[j]
    BY <1>1, <1>3 DEF SheetsTyped
  <2> QED BY <1>1, <1>2, <2>1, <2>2, <2>3 DEF SheetsTyped
<1>5. Form[1] = "form"
  BY DEF Form
<1>6. CASE call' = [call EXCEPT ![t] = NoCall]
  <2>1. /\ \A f \in flags' : f[1] = "form" \/ (f \in flags /\ f # call[t].flag)
        /\ \A f \in flags : f \in flags' \/ f = call[t].flag \/ f[1] \notin GuardNames
    BY <1>3, <1>5
  <2>2. call[t].at # "idle" /\ call[t].at # "sending" /\ page' = page /\ errors' = errors
    BY <1>3
  <2> QED BY <1>3, <1>4, <1>6, <2>1, <2>2, ApplicationEndKeeps
<1>7. CASE call[t].fn = "addPostingVersion" /\ \E row : call' = Fetch([call EXCEPT ![t].rows = row], t, "versions")
  <2>1. PICK row : call' = Fetch([call EXCEPT ![t].rows = row], t, "versions")
    BY <1>7
  <2>2. PICK calls, K, k, c, e : /\ calls = [call EXCEPT ![t].rows = row] /\ K = {} /\ k = "versions"
                                 /\ c = call[t] /\ e = [c EXCEPT !.rows = row]
    OBVIOUS
  <2>3. CallTyped(c)
    BY <1>1, <2>2 DEF CallsTyped
  <2>4. CallTyped(e) /\ e.fn = c.fn /\ e.item = c.item /\ e.flag = c.flag
    BY <2>2, <2>3 DEF CallTyped
  <2>5. calls = [u \in Calls |-> calls[u]] /\ calls[t] = e /\ \A u \in Calls : u # t => calls[u] = call[u]
    <3>1. calls = [call EXCEPT ![t] = e]
      BY <2>2
    <3> QED BY <1>1, <3>1 DEF CallsTyped
  <2>6. CallsTyped(calls) /\ AlikeBut(t, call, calls, K)
    BY <1>1, <2>2, <2>4, <2>5, AlikeSame DEF AlikeBut, CallsTyped
  <2>7. k \in SheetsOf(page) /\ "list" \notin K /\ call' = Fetch(calls, t, k)
    BY <1>1, <2>1, <2>2
  <2>8. calls[t].item = call[t].item /\ calls[t].flag = call[t].flag /\ calls[t].fn = call[t].fn
    BY <2>2, <2>4, <2>5
  <2>9. call[t].flag[1] \notin GuardNames
    BY <1>1, <1>3, <1>7 DEF Guarded
  <2>10. (\A f \in flags' : f[1] = "form" \/ f \in flags) /\ \A f \in flags : f \in flags' \/ f[1] \notin GuardNames
    BY <1>3, <1>5, <2>9
  <2>11. call[t].at # "idle" /\ call[t].at # "sending" /\ page' = page /\ errors' = errors
    BY <1>3
  <2> QED BY <1>3, <1>4, <2>6, <2>7, <2>8, <2>10, <2>11, ApplicationGoesOnKeeps
<1> QED BY <1>3, <1>6, <1>7

LEMMA DetailsFetchedKeeps ==
  ASSUME ListInv, page = "applications", NEW t \in Calls, NEW k \in {"history", "versions"}, DetailsFetched(t, k)
  PROVE  ListInv'
<1>1. /\ SheetsOf(page) = {"list", "history", "versions"} /\ CallsTyped(call) /\ SheetsTyped(SheetsOf(page), sheet)
  BY ApplicationsAre
<1>2. /\ call[t].at = k /\ End(t) /\ UNCHANGED <<page, errors>>
      /\ \/ call[t].served /\ sheet' = IF call[t].newest THEN [sheet EXCEPT ![k] = Received(t, call[t].item)] ELSE sheet
         \/ UNCHANGED sheet
  BY DEF DetailsFetched
<1>3. call' = [call EXCEPT ![t] = NoCall] /\ flags' = flags \ {call[t].flag}
  BY <1>2 DEF End
<1>4. /\ \A f \in flags' : f[1] = "form" \/ (f \in flags /\ f # call[t].flag)
      /\ \A f \in flags : f \in flags' \/ f = call[t].flag \/ f[1] \notin GuardNames
  BY <1>3
<1>5. /\ SheetsTyped(SheetsOf(page), sheet') /\ sheet'["list"] = sheet["list"]
      /\ \A j \in {"history", "versions"} :
           sheet'[j] \in {sheet[j], Blank} \/ (call[t].at = j /\ call[t].served /\ ShowsAnswer(sheet'[j], call[t]))
  <2>1. CASE UNCHANGED sheet
    BY <1>1, <2>1
  <2>2. CASE call[t].served /\ call[t].newest /\ sheet' = [sheet EXCEPT ![k] = Received(t, call[t].item)]
    <3>1. PICK of, sheets : of = call[t].item /\ sheets = sheet'
      OBVIOUS
    <3>2. sheets = Delivered(k, t, of) /\ k \in SheetsOf(page)
      BY <1>1, <2>2, <3>1 DEF Delivered
    <3>3. SheetsTyped(SheetsOf(page), sheets) /\ ShowsAnswer(sheets[k], call[t]) /\ SameBut(k, SheetsOf(page), sheet, sheets)
      BY <1>1, <3>2, ReceivedSheet
    <3>4. /\ SheetsTyped(SheetsOf(page), sheet') /\ ShowsAnswer(sheet'[k], call[t])
          /\ \A j \in SheetsOf(page) : j # k => sheet'[j] = sheet[j]
      BY <3>1, <3>3 DEF SameBut
    <3> QED BY <1>1, <1>2, <2>2, <3>4
  <2> QED BY <1>2, <2>1, <2>2
<1>6. call[t].at # "idle" /\ call[t].at # "sending" /\ call[t].at # "list" /\ page' = page /\ errors' = errors
  BY <1>2
<1> QED BY <1>3, <1>4, <1>5, <1>6, ApplicationEndKeeps

LEMMA ApplicationsStep == ASSUME ListInv, ApplicationsPageNext PROVE ListInv'
<1>0. page = "applications"
  BY DEF ApplicationsPageNext
<1>1. ASSUME NEW i \in Items, StartApplication(i) \/ ArchivePosting(i) PROVE ListInv'
  <2>1. PICK fn, flag : /\ fn \in {"startApplication", "archivePosting"}
                         /\ flag = GuardOf(fn, i) /\ SendChange(fn, i, flag)
    BY <1>1 DEF StartApplication, ArchivePosting, GuardOf
  <2>2. {Starting(i), PendingPost(i)} \cap flags = {}
    <3>1. ~PostingBusy(i)
      BY <1>1 DEF StartApplication, ArchivePosting, PostingCard
    <3> QED BY <3>1 DEF PostingBusy
  <2>3. fn \in Guarded
    BY <2>1 DEF Guarded
  <2> QED BY <1>0, <2>1, <2>2, <2>3, ChangeSentKeeps
<1>2. ASSUME NEW i \in Items, AskMove(i) \/ AskArchiveApplication(i) PROVE ListInv'
  <2>1. PICK fn, flag : /\ fn \in {"move", "archiveApplication"}
                         /\ flag = GuardOf(fn, i) /\ SendChange(fn, i, flag)
    BY <1>2 DEF AskMove, AskArchiveApplication, GuardOf
  <2>2. fn \in Guarded /\ fn \notin {"startApplication", "archivePosting"}
    BY <2>1 DEF Guarded
  <2> QED BY <1>0, <2>1, <2>2, ChangeSentKeeps
<1>3. ASSUME NEW i \in Items, \/ SavePosting(i) \/ AddNote(i) \/ Schedule(i) \/ AddPostingVersion(i)
                              \/ AskAddStage(i) \/ AskRenameStage(i) \/ AskMoveStage(i) \/ AskDeleteStage(i)
      PROVE  ListInv'
  <2>1. PICK fn \in {"savePosting", "addNote", "schedule", "addPostingVersion", "editStages"},
             flag \in {Saving, Noting, Scheduling, Updating, StagesBusy} : SendChange(fn, i, flag)
    BY <1>3 DEF SavePosting, AddNote, Schedule, AddPostingVersion, AskAddStage, AskRenameStage, AskMoveStage,
                AskDeleteStage
  <2>2. fn \notin Guarded /\ fn \notin {"startApplication", "archivePosting"}
    BY <2>1 DEF Guarded
  <2>3. flag[1] \notin GuardNames
    BY <2>1 DEF GuardNames, Saving, Noting, Scheduling, Updating, StagesBusy
  <2> QED BY <1>0, <2>1, <2>2, <2>3, ChangeSentKeeps
<1>4. ASSUME NEW i \in Items, ShowApplicationHistory(i) \/ ShowVersions(i) PROVE ListInv'
  <2>1. PICK k \in {"history", "versions"}, row \in {<<>>, <<Posting(Row(i))>>} :
          FreeCalls # {} /\ call' = Shown(k, i, row) /\ UNCHANGED <<page, sheet, flags, errors>>
    BY <1>4 DEF ShowApplicationHistory, ShowVersions
  <2> QED BY <1>0, <2>1, ShowDetailsKeeps
<1>5. ASSUME NEW t \in Calls, \/ ApplicationsServed(t) \/ ApplicationsChanged(t) \/ NoteAdded(t)
                              \/ ApplicationsFails(t) \/ ApplicationsLoaded(t)
                              \/ \E k \in {"history", "versions"} : DetailsFetched(t, k)
      PROVE  ListInv'
  BY <1>0, <1>5, ApplicationsServedKeeps, ApplicationsChangedKeeps, NoteAddedKeeps, ApplicationsFailsKeeps,
     ApplicationsLoadedKeeps, DetailsFetchedKeeps
<1> QED BY <1>0, <1>1, <1>2, <1>3, <1>4, <1>5, ToggleKeeps DEF ApplicationsPageNext

\* At first one call, or two of the settings, fetch what the page lists.
FirstFetches(k) ==
  \E t \in Calls : /\ call[t].at = k /\ call[t].newest /\ ~call[t].served
                   /\ \A u \in Calls : call[u].at = k => u = t

LEMMA FirstFetchFollowed ==
  ASSUME NEW k, FirstFetches(k), page = "documents" => k = "list" PROVE FollowedOK(k)
<1>1. Brought(k)
  BY DEF FirstFetches, Brought, Brings
<1> QED BY <1>1 DEF FirstFetches, FollowedOK

LEMMA BlankFollowed ==
  ASSUME NEW k, k \notin Lists, sheet[k] = Blank, \A t \in Calls : call[t].at # k PROVE FollowedOK(k)
BY DEF FollowedOK

\* A call that fetches what a page lists at first.
LEMMA FirstCallTyped ==
  ASSUME NEW k
  PROVE  LET c == [NoCall EXCEPT !.at = k, !.newest = TRUE] IN
         /\ CallTyped(c) /\ c.at = k /\ c.newest /\ ~c.served /\ c.fn = "none"
         /\ c.flag = <<"none", NoItem>>
<1>1. PICK none : none = NoCall
  OBVIOUS
<1>2. CallTyped(none) /\ none.fn = "none" /\ none.flag = <<"none", NoItem>> /\ ~none.served
  BY <1>1, NoCallTyped DEF NoCall
<1>3. PICK c : c = [none EXCEPT !.at = k, !.newest = TRUE]
  OBVIOUS
<1>4. CallTyped(c) /\ c.at = k /\ c.newest /\ c.served = none.served /\ c.fn = none.fn /\ c.flag = none.flag
  BY <1>2, <1>3 DEF CallTyped
<1> QED BY <1>1, <1>2, <1>3, <1>4

LEMMA NoGuardAtFirst ==
  ASSUME flags = {}, \A t \in Calls : call[t].fn = "none" /\ call[t].flag = <<"none", NoItem>>
  PROVE  FlagsHeld /\ GuardsOK /\ \A t \in Calls : call[t].fn \notin Guarded
<1>1. "none" \notin Guarded /\ <<"none", NoItem>>[1] \notin GuardNames
  BY DEF Guarded, GuardNames
<1>2. OneChange
  BY DEF OneChange
<1> QED BY <1>1, <1>2 DEF FlagsHeld, GuardsOK

LEMMA ListStart == DocumentsInit \/ ApplicationsPageInit \/ SettingsInit => ListInv
<1>0. PICK none : none = NoCall
  OBVIOUS
<1>01. CallTyped(none) /\ none.at = "idle" /\ none.fn = "none" /\ none.flag = <<"none", NoItem>>
  BY <1>0, NoCallTyped DEF NoCall
<1>1. ASSUME DocumentsInit \/ ApplicationsPageInit PROVE ListInv
  <2>1. /\ page \in {"documents", "applications"} /\ flags = {}
        /\ sheet = [k \in SheetsOf(page) |-> Blank]
    BY <1>1 DEF DocumentsInit, ApplicationsPageInit, SheetsOf
  <2>2. PICK c : c = [NoCall EXCEPT !.at = "list", !.newest = TRUE]
    OBVIOUS
  <2>3. call = [t \in Calls |-> IF \A u \in Calls : t <= u THEN c ELSE none]
    BY <1>0, <1>1, <2>2 DEF DocumentsInit, ApplicationsPageInit
  <2>4. /\ CallTyped(c) /\ c.at = "list" /\ c.newest /\ ~c.served /\ c.fn = "none"
        /\ c.flag = <<"none", NoItem>>
    BY <2>2, FirstCallTyped
  <2>5. /\ call = [t \in Calls |-> call[t]]
        /\ \A t \in Calls : /\ CallTyped(call[t]) /\ call[t].fn = "none" /\ call[t].flag = <<"none", NoItem>>
                            /\ call[t].at \in {"idle", "list"}
                            /\ call[t].at = "list" => \A u \in Calls : t <= u
    BY <1>01, <2>3, <2>4
  <2>6. FirstFetches("list")
    <3>1. PICK t \in Calls : \A u \in Calls : t <= u
      BY FirstCallIs
    <3>2. ASSUME NEW u \in Calls, call[u].at = "list" PROVE u = t
      <4>1. u <= t /\ t <= u /\ u \in Nat /\ t \in Nat
        BY <2>5, <3>1, <3>2, ListPageAssumption
      <4> QED BY <4>1
    <3>3. call[t] = c
      BY <2>3, <3>1
    <3> QED BY <2>4, <3>2, <3>3 DEF FirstFetches
  <2>7. /\ sheet = [k \in SheetsOf(page) |-> sheet[k]]
        /\ \A k \in SheetsOf(page) : SheetTyped(sheet[k]) /\ sheet[k] = Blank
    BY <2>1, BlankIs
  <2>8. ListBase
    BY <2>1, <2>5, <2>7 DEF ListBase, PageTyped
  <2>9. ASSUME NEW k \in Followed(page) PROVE FollowedOK(k)
    <3>1. k \in SheetsOf(page) /\ k \in {"list", "preview", "history"}
      BY <2>1 DEF Followed, SheetsOf
    <3>2. CASE k = "list"
      BY <2>6, <3>2, FirstFetchFollowed
    <3>3. CASE k # "list"
      BY <2>5, <2>7, <3>1, <3>3, BlankFollowed DEF Lists
    <3> QED BY <3>2, <3>3
  <2>10. page = "applications" => DetailsOK
    <3>1. page = "applications" => {"history", "versions"} \subseteq SheetsOf(page)
      BY DEF SheetsOf
    <3> QED BY <2>5, <2>7, <3>1 DEF DetailsOK
  <2> QED BY <2>1, <2>5, <2>8, <2>9, <2>10, NoGuardAtFirst DEF ListInv
<1>2. ASSUME SettingsInit PROVE ListInv
  <2>1. /\ page = "settings" /\ flags = {} /\ SheetsOf(page) = {"providers", "runners", "pairing"}
        /\ sheet = [k \in SheetsOf(page) |-> Blank]
    BY <1>2 DEF SettingsInit, SheetsOf
  <2>2. PICK c, d : /\ c = [NoCall EXCEPT !.at = "providers", !.newest = TRUE]
                    /\ d = [NoCall EXCEPT !.at = "runners", !.newest = TRUE]
    OBVIOUS
  <2>3. PICK t \in Calls, u \in Calls :
          /\ t < u
          /\ call = [v \in Calls |->
               IF v \in {t, u} THEN [NoCall EXCEPT !.at = IF v = t THEN "providers" ELSE "runners",
                                                   !.newest = TRUE] ELSE NoCall]
    BY <1>2 DEF SettingsInit
  <2>4. call = [v \in Calls |-> IF v = t THEN c ELSE IF v = u THEN d ELSE none]
    <3>1. \A v \in Calls : v \in {t, u} =>
            [NoCall EXCEPT !.at = IF v = t THEN "providers" ELSE "runners", !.newest = TRUE]
            = IF v = t THEN c ELSE d
      BY <2>2
    <3>2. \A v \in Calls :
            (IF v \in {t, u} THEN [NoCall EXCEPT !.at = IF v = t THEN "providers" ELSE "runners",
                                                 !.newest = TRUE] ELSE NoCall)
            = IF v = t THEN c ELSE IF v = u THEN d ELSE none
      BY <1>0, <3>1
    <3>3. PICK calls : calls = call
      OBVIOUS
    <3>4. calls = [v \in Calls |-> IF v = t THEN c ELSE IF v = u THEN d ELSE none]
      BY <2>3, <3>2, <3>3, Zenon
    <3> QED BY <3>3, <3>4
  <2>5. /\ CallTyped(c) /\ c.at = "providers" /\ c.newest /\ ~c.served /\ c.fn = "none" /\ c.flag = <<"none", NoItem>>
        /\ CallTyped(d) /\ d.at = "runners" /\ d.newest /\ ~d.served /\ d.fn = "none" /\ d.flag = <<"none", NoItem>>
    BY <2>2, FirstCallTyped
  <2>6. t # u
    <3>1. t \in Nat /\ u \in Nat
      BY ListPageAssumption
    <3>2. t < u
      BY <2>3, Zenon
    <3> QED BY <3>1, <3>2
  <2>7. /\ call = [v \in Calls |-> call[v]] /\ call[t] = c /\ call[u] = d
        /\ \A v \in Calls : v \notin {t, u} => call[v] = none
    BY <2>4, <2>6
  <2>8. \A v \in Calls : /\ CallTyped(call[v]) /\ call[v].fn = "none" /\ call[v].flag = <<"none", NoItem>>
                         /\ call[v].at # "pairing"
    BY <1>01, <2>5, <2>7
  <2>9. FirstFetches("providers") /\ FirstFetches("runners")
    BY <1>01, <2>5, <2>7 DEF FirstFetches
  <2>10. /\ sheet = [k \in SheetsOf(page) |-> sheet[k]]
         /\ \A k \in SheetsOf(page) : SheetTyped(sheet[k]) /\ sheet[k] = Blank
    BY <2>1, BlankIs
  <2>11. ListBase
    BY <2>1, <2>7, <2>8, <2>10 DEF ListBase, PageTyped
  <2>12. ASSUME NEW k \in Followed(page) PROVE FollowedOK(k)
    <3>1. k \in {"providers", "runners", "pairing"}
      BY <2>1 DEF Followed
    <3>2. CASE k \in {"providers", "runners"}
      BY <2>1, <2>9, <3>2, FirstFetchFollowed
    <3>3. CASE k = "pairing"
      BY <2>1, <2>8, <2>10, <3>3, BlankFollowed DEF Lists
    <3> QED BY <3>1, <3>2, <3>3
  <2> QED BY <2>1, <2>8, <2>11, <2>12, NoGuardAtFirst DEF ListInv
<1> QED BY <1>1, <1>2

LEMMA ListRests == ListInv /\ UNCHANGED listPageVars => ListInv'
<1> SUFFICES ASSUME ListInv, page' = page, sheet' = sheet, flags' = flags, errors' = errors, call' = call
             PROVE  ListInv'
  BY DEF listPageVars
<1>1. \A k : FollowedOK(k) => FollowedOK(k)'
  BY DEF FollowedOK, Brought, Pursued
<1>2. (DetailsOK => DetailsOK') /\ (GuardsOK => GuardsOK') /\ (FlagsHeld => FlagsHeld')
  BY DEF DetailsOK, GuardsOK, FlagsHeld, OneChange
<1>3. ListBase'
  BY DEF ListInv, ListBase, PageTyped
<1> QED BY <1>1, <1>2, <1>3 DEF ListInv

LEMMA ListStep ==
  ListInv /\ [DocumentsPageNext \/ ApplicationsPageNext \/ SettingsPageNext]_listPageVars => ListInv'
BY DocumentsStep, ApplicationsStep, SettingsStep, ListRests

LEMMA ListTells == ListInv => PageFresh /\ OneChange
<1> SUFFICES ASSUME ListInv PROVE PageFresh /\ OneChange
  OBVIOUS
<1>1. OneChange
  <2>1. CASE page = "applications"
    BY <2>1 DEF ListInv, GuardsOK
  <2>2. CASE page # "applications"
    BY <2>2 DEF ListInv, Guarded, OneChange
  <2> QED BY <2>1, <2>2
<1>2. ASSUME \A t \in Calls : call[t].at = "idle"
      PROVE  /\ \A f \in flags : f[1] = "form"
             /\ \A k \in DOMAIN sheet :
                  k \in errors \/ sheet[k].content = "new" \/ (k \notin Lists /\ sheet[k] = Blank)
  <2>1. \A f \in flags : f[1] = "form"
    BY <1>2 DEF ListInv, FlagsHeld
  <2>2. page \in {"documents", "applications", "settings"} /\ DOMAIN sheet = SheetsOf(page)
    BY DEF ListInv, ListBase, PageTyped
  <2>3. ASSUME NEW k \in SheetsOf(page)
        PROVE  k \in errors \/ sheet[k].content = "new" \/ (k \notin Lists /\ sheet[k] = Blank)
    <3>1. CASE k \in Followed(page)
      <4>1. k # "idle"
        BY <2>2 DEF SheetsOf
      <4>2. ~Brought(k)
        BY <1>2, <4>1 DEF Brought, Brings
      <4>3. ~Pursued(k)
        BY <1>2 DEF Pursued, Pursues
      <4> QED BY <3>1, <4>2, <4>3 DEF ListInv, FollowedOK
    <3>2. CASE k \notin Followed(page)
      <4>1. page = "applications" /\ k \in {"history", "versions"}
        BY <2>2, <3>2 DEF Followed, SheetsOf
      <4>2. sheet[k] = Blank \/ sheet[k].content = "new"
        BY <4>1 DEF ListInv, DetailsOK
      <4> QED BY <4>1, <4>2 DEF Lists
    <3> QED BY <3>1, <3>2
  <2> QED BY <2>1, <2>2, <2>3
<1> QED BY <1>1, <1>2 DEF PageFresh

\* The pages with lists, alone.
ListSpec ==
  /\ DocumentsInit \/ ApplicationsPageInit \/ SettingsInit
  /\ [][DocumentsPageNext \/ ApplicationsPageNext \/ SettingsPageNext]_listPageVars

\* Once a page with lists rests, it is not busy and shows what the server has, or
\* says that this may be out of date; the applications page never has two changes
\* under way that do not go together (DocumentsView.vue, ApplicationsView.vue and
\* SettingsView.vue).
THEOREM PagesAreFresh == ListSpec => [](PageFresh /\ OneChange)
<1>1. ListSpec => []ListInv
  BY ListStart, ListStep, PTL DEF ListSpec
<1>2. ListInv => PageFresh /\ OneChange
  BY ListTells
<1> QED BY <1>1, <1>2, PTL

-----------------------------------------------------------------------------
(***************************************************************************)
(* All pages that are no tasks'.                                           *)
(***************************************************************************)

\* The pages move alone, and rest while another part moves.
PagesInv ==
  /\ part = "page" => ListInv \/ OverviewInv
  /\ part # "page" => page = "none"

LEMMA PagesStart == MCInit => PagesInv
<1> SUFFICES ASSUME MCInit PROVE PagesInv
  OBVIOUS
<1>1. CASE part = "page"
  <2>1. DocumentsInit \/ ApplicationsPageInit \/ SettingsInit \/ OverviewInit
    BY <1>1 DEF MCInit
  <2> QED BY <1>1, <2>1, ListStart, OverviewStart DEF PagesInv
<1>2. CASE part # "page"
  <2>1. PageRests
    BY <1>2 DEF MCInit
  <2> QED BY <1>2, <2>1 DEF PagesInv, PageRests
<1> QED BY <1>1, <1>2

LEMMA PagesStep == PagesInv /\ [MCNext]_MCVars => PagesInv'
<1> SUFFICES ASSUME PagesInv, [MCNext]_MCVars PROVE PagesInv'
  OBVIOUS
<1>1. CASE UNCHANGED <<listPageVars, part>>
  <2>1. page' = page /\ part' = part /\ UNCHANGED listPageVars
    BY <1>1 DEF listPageVars
  <2> QED BY <2>1, ListRests, OverviewStep DEF PagesInv
<1>2. CASE /\ part = "page" /\ UNCHANGED part
           /\ DocumentsPageNext \/ ApplicationsPageNext \/ SettingsPageNext \/ OverviewNext
  <2>1. ListInv \/ OverviewInv
    BY <1>2 DEF PagesInv
  <2>2. CASE DocumentsPageNext \/ ApplicationsPageNext \/ SettingsPageNext
    <3>1. page \in {"documents", "applications", "settings"}
      BY <2>2 DEF DocumentsPageNext, ApplicationsPageNext, SettingsPageNext
    <3>2. ListInv
      BY <2>1, <3>1 DEF OverviewInv, OverviewBase
    <3>3. ListInv'
      BY <2>2, <3>2, ListStep
    <3> QED BY <1>2, <3>3 DEF PagesInv
  <2>3. CASE OverviewNext
    <3>1. page \in {"home", "search", "job"}
      BY <2>3 DEF OverviewNext
    <3>2. OverviewInv
      BY <2>1, <3>1 DEF ListInv, ListBase
    <3>3. OverviewInv'
      BY <2>3, <3>2, OverviewStep
    <3> QED BY <1>2, <3>3 DEF PagesInv
  <2> QED BY <1>2, <2>2, <2>3
<1>3. \/ UNCHANGED <<listPageVars, part>>
      \/ /\ part = "page" /\ UNCHANGED part
         /\ DocumentsPageNext \/ ApplicationsPageNext \/ SettingsPageNext \/ OverviewNext
  <2>1. CASE MCNext
    BY <2>1 DEF MCNext
  <2>2. CASE UNCHANGED MCVars
    BY <2>2 DEF MCVars
  <2> QED BY <2>1, <2>2
<1> QED BY <1>1, <1>2, <1>3

LEMMA PagesInvTells == PagesInv => PagesSound
<1> SUFFICES ASSUME PagesInv PROVE PagesSound
  OBVIOUS
<1>1. CASE ListInv
  <2>1. page \in {"documents", "applications", "settings"}
    BY <1>1 DEF ListInv, ListBase
  <2>2. OverviewSound
    BY <2>1 DEF OverviewSound, WorkspaceSound, SearchSound, HomeSound
  <2> QED BY <1>1, <2>2, ListTells DEF PagesSound
<1>2. CASE OverviewInv
  <2>1. page \notin {"documents", "applications", "settings"}
    BY <1>2 DEF OverviewInv, OverviewBase
  <2> QED BY <1>2, <2>1, OverviewInvTells DEF PagesSound
<1>3. CASE page = "none"
  <2>1. OverviewSound
    BY <1>3 DEF OverviewSound, WorkspaceSound, SearchSound, HomeSound
  <2> QED BY <1>3, <2>1 DEF PagesSound
<1> QED BY <1>1, <1>2, <1>3 DEF PagesInv

\* PagesSound, for any items and any number of async functions: the pages with
\* lists end up as the server has them and send no changes that do not go
\* together, and the others show what there was, whatever order requests are
\* served and answered in and whichever of them fail.
THEOREM PagesAreSound == MCSpec => []PagesSound
<1>1. MCSpec => []PagesInv
  BY PagesStart, PagesStep, PTL DEF MCSpec
<1>2. PagesInv => PagesSound
  BY PagesInvTells
<1> QED BY <1>1, <1>2, PTL

-----------------------------------------------------------------------------
(***************************************************************************)
(* THE PARTS TOGETHER.                                                     *)
(***************************************************************************)

\* Whichever part moves, each is as it would be alone: what is proved of a
\* part's own specification holds of the whole.
THEOREM PartsAreAlone == MCSpec => ApplicationsSpec /\ ResearchSpec /\ ChatSpec /\ StartupSpec
<1>1. MCInit => ApplicationsInit /\ ResearchInit /\ ChatInit /\ StartupInit
  BY DEF MCInit
<1>2. [MCNext]_MCVars => /\ [ApplicationsNext]_applicationsVars /\ [ResearchNext]_researchVars
                         /\ [ChatNext]_chatVars /\ [StartupNext]_startupVars
  <2> SUFFICES ASSUME [MCNext]_MCVars
               PROVE  /\ [ApplicationsNext]_applicationsVars /\ [ResearchNext]_researchVars
                      /\ [ChatNext]_chatVars /\ [StartupNext]_startupVars
    OBVIOUS
  <2>1. CASE MCNext
    BY <2>1 DEF MCNext
  <2>2. CASE UNCHANGED MCVars
    BY <2>2 DEF MCVars
  <2> QED BY <2>1, <2>2
<1> QED BY <1>1, <1>2, PTL DEF MCSpec, ApplicationsSpec, ResearchSpec, ChatSpec, StartupSpec

\* NothingReopens: what was archived, deleted or given an outcome stays so,
\* even against a request that found it open before it awaited a text or the
\* store; no document loses a version.
THEOREM NoneReopens == MCSpec => NothingReopens
BY PartsAreAlone, ClosedStaysClosed, ShelvedStays DEF NothingReopens
=============================================================================
