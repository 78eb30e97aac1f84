------------------------------- MODULE Startup -------------------------------
(***************************************************************************)
(* Processes of the server that come and go on one data directory:         *)
(* server/src/index.ts, db/index.ts and db/migrations.ts.                  *)
(*                                                                         *)
(* A process brings the schema to its own release in one exclusive         *)
(* transaction, starts its scheduler, and then takes the port.  Several    *)
(* may be started, of different releases, while others run: db/process-    *)
(* open.ts and its test do so.  Any of them may die at any step.  A        *)
(* release is the checksums of its migrations by their ids, which order    *)
(* them; what the migrations create is left out.                           *)
(***************************************************************************)
EXTENDS Naturals, Sequences, FiniteSets, FiniteSetsExt

CONSTANTS
  Servers,   \* processes
  Releases,  \* functions from ids of migrations to checksums
  NoServer

ASSUME StartupAssumption ==
  /\ NoServer \notin Servers
  /\ \A r \in Releases : DOMAIN r \subseteq Nat /\ IsFiniteSet(DOMAIN r)

VARIABLES
  rows,    \* schema_migrations, in the order of their insertion
  made,    \* ids of the migrations whose SQL has taken effect
  writer,  \* the process in its exclusive transaction
  draft,   \* rows and made as that transaction has them
  server,  \* each process: its step and its release
  port     \* the process that listens

startupVars == <<rows, made, writer, draft, server, port>>

Ids(records) == {records[i].id : i \in DOMAIN records}
Down == [pc |-> "down", release |-> <<>>]

StartupInit ==
  /\ rows = <<>> /\ made = {}
  /\ writer = NoServer /\ draft = [rows |-> <<>>, made |-> {}]
  /\ server = [p \in Servers |-> Down]
  /\ port = NoServer

Move(p, pc) == server' = [server EXCEPT ![p].pc = pc]
-----------------------------------------------------------------------------
Boot(p, release) ==
  /\ server[p].pc = "down"
  /\ server' = [server EXCEPT ![p] = [pc |-> "opening", release |-> release]]
  /\ UNCHANGED <<rows, made, writer, draft, port>>

\* The configuration, the directory or the lock is not to be had.
BootFails(p) ==
  /\ server[p].pc = "opening"
  /\ server' = [server EXCEPT ![p] = Down]
  /\ UNCHANGED <<rows, made, writer, draft, port>>

\* An applied migration is unknown or has another checksum.
Drifted(release) == \E i \in DOMAIN rows :
  rows[i].id \notin DOMAIN release \/ release[rows[i].id] # rows[i].sum

\* One that is missing comes before one that was applied.
Gap(release) == \E m \in DOMAIN release \ Ids(rows) : \E n \in Ids(rows) : m < n

\* applyMigrations: the lock and the checks; a refusal rolls back at once.
Lock(p) ==
  /\ server[p].pc = "opening" /\ writer = NoServer
  /\ LET r == server[p].release IN
     IF Drifted(r) \/ Gap(r)
     THEN server' = [server EXCEPT ![p] = Down] /\ UNCHANGED <<writer, draft>>
     ELSE Move(p, "migrating") /\ writer' = p /\ draft' = [rows |-> rows, made |-> made]
  /\ UNCHANGED <<rows, made, port>>

Missing(p) == DOMAIN server[p].release \ Ids(draft.rows)

\* database.exec.
ExecuteMigration(p) ==
  /\ server[p].pc = "migrating" /\ Missing(p) # {}
  /\ draft' = [draft EXCEPT !.made = @ \cup {Min(Missing(p))}]
  /\ Move(p, "recording")
  /\ UNCHANGED <<rows, made, writer, port>>

\* The insert into schema_migrations.
RecordMigration(p) ==
  /\ server[p].pc = "recording"
  /\ LET id == Min(Missing(p)) IN
     draft' = [draft EXCEPT !.rows = Append(@, [id |-> id, sum |-> server[p].release[id]])]
  /\ Move(p, "migrating")
  /\ UNCHANGED <<rows, made, writer, port>>

CommitMigrations(p) ==
  /\ server[p].pc = "migrating" /\ Missing(p) = {}
  /\ rows' = draft.rows /\ made' = draft.made
  /\ writer' = NoServer
  /\ Move(p, "ready")
  /\ UNCHANGED <<draft, port>>

\* Mutant: what was executed before the failure stays.
RollBack_Made(p) ==
  /\ server[p].pc \in {"migrating", "recording"}
  /\ made' = draft.made
  /\ writer' = NoServer
  /\ server' = [server EXCEPT ![p] = Down]
  /\ UNCHANGED <<rows, draft, port>>

\* A statement fails: ROLLBACK, and the process exits.
RollBack(p) ==
  /\ server[p].pc \in {"migrating", "recording"}
  /\ writer' = NoServer
  /\ server' = [server EXCEPT ![p] = Down]
  /\ UNCHANGED <<rows, made, draft, port>>
-----------------------------------------------------------------------------
(* The rest of main.                                                       *)

StartScheduler(p) ==
  /\ server[p].pc = "ready"
  /\ Move(p, "scheduling")
  /\ UNCHANGED <<rows, made, writer, draft, port>>

Listen(p) ==
  /\ server[p].pc = "scheduling" /\ port = NoServer
  /\ port' = p
  /\ Move(p, "serving")
  /\ UNCHANGED <<rows, made, writer, draft>>

\* Bun.serve raises.  main reports it and returns, but the scheduler runs on
\* and its timer keeps the process alive.
ListenFails(p) ==
  /\ server[p].pc = "scheduling"
  /\ Move(p, "stranded")
  /\ UNCHANGED <<rows, made, writer, draft, port>>

\* The first signal; its handler is only there once the process listens.
Shutdown(p) ==
  /\ server[p].pc = "serving"
  /\ port' = NoServer
  /\ Move(p, "stopping")
  /\ UNCHANGED <<rows, made, writer, draft>>

\* The scheduler has stopped; the database is closed.
ShutDown(p) ==
  /\ server[p].pc = "stopping"
  /\ server' = [server EXCEPT ![p] = Down]
  /\ UNCHANGED <<rows, made, writer, draft, port>>

Dies(p) ==
  /\ server[p].pc # "down"
  /\ writer' = IF writer = p THEN NoServer ELSE writer
  /\ port' = IF port = p THEN NoServer ELSE port
  /\ server' = [server EXCEPT ![p] = Down]
  /\ UNCHANGED <<rows, made, draft>>

StartupNext == \E p \in Servers :
  \/ \E release \in Releases : Boot(p, release)
  \/ BootFails(p) \/ Lock(p) \/ ExecuteMigration(p) \/ RecordMigration(p)
  \/ CommitMigrations(p) \/ RollBack(p)
  \/ StartScheduler(p) \/ Listen(p) \/ ListenFails(p) \/ Shutdown(p) \/ ShutDown(p) \/ Dies(p)

StartupSpec == StartupInit /\ [][StartupNext]_startupVars
-----------------------------------------------------------------------------
\* The ids ascend.
Ascending(records) == \A i, j \in DOMAIN records : i < j => records[i].id < records[j].id

\* The records are those of the release and, after them, later ones.
Fits(release, records) ==
  /\ DOMAIN release \subseteq Ids(records)
  /\ \A i \in DOMAIN records :
       IF records[i].id \in DOMAIN release THEN records[i].sum = release[records[i].id]
       ELSE \A m \in DOMAIN release : m < records[i].id

\* A process that got past its migrations works on the schema of its release,
\* later migrations of newer releases apart, until it ends: whoever else
\* starts, fails or dies meanwhile.  What the schema records is what was done,
\* each migration once and in the order of the ids.
SchemaSound ==
  /\ made = Ids(rows)
  /\ Ascending(rows)
  /\ \A p \in Servers :
       server[p].pc \notin {"down", "opening", "migrating", "recording"} =>
         Fits(server[p].release, rows)
=============================================================================
