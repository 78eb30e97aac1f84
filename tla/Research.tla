------------------------------ MODULE Research ------------------------------
(***************************************************************************)
(* Cited research beside the document library, in the same store:          *)
(* server/src/research/service.ts and repository.ts, run by the task       *)
(* ui.research of jobs/ui-task-definitions.ts or by routes/research.ts.    *)
(*                                                                         *)
(* A study fetches its sources one after the other and stores the text of  *)
(* each, has them analysed, stores the analysis, and then writes a record  *)
(* that refers to all of these blobs in one transaction.  A source that    *)
(* cannot be fetched or stored becomes a failed one.  The signal of a      *)
(* cancelled or timed-out job is only given to the discovery of sources,   *)
(* so a study goes on to its record whatever becomes of the job: jobs are  *)
(* left out here.  So are the addresses of the sources and the citations:  *)
(* whether save refuses them is a choice.                                  *)
(***************************************************************************)
EXTENDS Library

CONSTANTS
  Studies,    \* runs of the service
  MaxSources  \* bound: sources of a study, at most 8 in the code

ASSUME ResearchAssumption == MaxSources \in Nat \ {0}

VARIABLES
  study,  \* each study: where it waits, sources left, texts stored so far
  record  \* the rows it wrote: blobs of its sources and of its analysis

researchVars == <<libraryVars, study, record>>

NoStudy == [pc |-> "idle", left |-> 0, bodies |-> {}, content |-> {}]
NoRecord == [bodies |-> {}, analysis |-> {}]

\* What research_records and research_sources refer to.
RecordBlobs == UNION {record[s].bodies \cup record[s].analysis : s \in Studies}

ResearchInit ==
  /\ LibraryInit
  /\ study = [s \in Studies |-> NoStudy]
  /\ record = [s \in Studies |-> NoRecord]
-----------------------------------------------------------------------------
(* run and refresh.                                                        *)

\* n sources are left, or the analyzer is next.
Fetching(n, bodies) ==
  [pc |-> IF n = 0 THEN "analyzing" ELSE "fetching", left |-> n, bodies |-> bodies, content |-> {}]

\* The sources are in the request, or an agent is asked for them.
Begin(s) ==
  /\ study[s].pc = "idle" /\ record[s] = NoRecord
  /\ \/ study' = [study EXCEPT ![s] = [NoStudy EXCEPT !.pc = "discovering"]]
     \/ \E n \in 1 .. MaxSources : study' = [study EXCEPT ![s] = Fetching(n, {})]
  /\ UNCHANGED <<libraryVars, record>>

Discovered(s) ==
  /\ study[s].pc = "discovering"
  /\ \E n \in 1 .. MaxSources : study' = [study EXCEPT ![s] = Fetching(n, {})]
  /\ UNCHANGED <<libraryVars, record>>

\* What is being stored is a source, not the analysis.
Source(s) == study[s].left > 0

\* No sources, no such parent, no answer from the analyzer, one that does
\* not parse or cannot be stored: nothing is written, and the texts stay.
Rejected(s) ==
  /\ study[s].pc \in {"discovering", "analyzing", "written", "verifying"} /\ ~Source(s)
  /\ study' = [study EXCEPT ![s] = NoStudy]
  /\ UNCHANGED <<libraryVars, record>>

\* The text of a source, or the analysis, is in its temporary file.
Held(s, c) ==
  /\ study[s].pc \in {"fetching", "analyzing"}
  /\ study' = [study EXCEPT ![s].pc = "written", ![s].content = {c}]
  /\ UNCHANGED <<libraryVars, record>>

\* fetchPublicText or put raises.
SourceFails(s) ==
  /\ study[s].pc \in {"fetching", "written", "verifying"} /\ Source(s)
  /\ study' = [study EXCEPT ![s] = Fetching(@.left - 1, @.bodies)]
  /\ UNCHANGED <<libraryVars, record>>

\* save: everything or, when it refuses the citations or two sources turned
\* out to be one page, nothing.
Save(s, rows) ==
  /\ \/ /\ study[s].bodies \cup study[s].content \subseteq rows
        /\ record' = [record EXCEPT ![s] =
             [bodies |-> study[s].bodies, analysis |-> study[s].content]]
     \/ UNCHANGED record
  /\ study' = [study EXCEPT ![s] = NoStudy]

\* put returned: register the blob and go on, without an await before the next
\* source, the analyzer or save.
Stored(s) ==
  /\ blobs' = blobs \cup study[s].content
  /\ IF Source(s)
     THEN /\ study' = [study EXCEPT ![s] =
               Fetching(@.left - 1, @.bodies \cup @.content)]
          /\ UNCHANGED record
     ELSE Save(s, blobs')

StudyLink(s) ==
  /\ study[s].pc = "written" /\ ~(study[s].content \subseteq disk)
  /\ disk' = disk \cup study[s].content
  /\ Stored(s)
  /\ UNCHANGED <<document, selected, request>>

StudyExists(s) ==
  /\ study[s].pc = "written" /\ study[s].content \subseteq disk
  /\ study' = [study EXCEPT ![s].pc = "verifying"]
  /\ UNCHANGED <<libraryVars, record>>

StudyVerified(s) ==
  /\ study[s].pc = "verifying"
  /\ Stored(s)
  /\ UNCHANGED <<disk, document, selected, request>>
-----------------------------------------------------------------------------
\* A crash of the process, in an upload or in study s; see LibraryCrash.
StudyCrash(s, linked, registered) ==
  /\ study[s].pc # "idle"
  /\ linked => study[s].pc = "written" /\ ~(study[s].content \subseteq disk)
  /\ registered => linked \/ study[s].pc = "verifying"
  /\ disk' = IF linked THEN disk \cup study[s].content ELSE disk
  /\ blobs' = IF registered THEN blobs \cup study[s].content ELSE blobs
  /\ request' = [r \in Requests |-> NoRequest]
  /\ study' = [t \in Studies |-> NoStudy]
  /\ UNCHANGED <<document, selected, record>>

NoStudies == \A s \in Studies : study[s].pc = "idle"

ResearchNext ==
  \/ LibraryStep /\ UNCHANGED <<study, record>>
  \/ \E s \in Studies :
       \/ Begin(s) \/ Discovered(s) \/ Rejected(s) \/ SourceFails(s)
       \/ \E c \in Contents : Held(s, c)
       \/ StudyLink(s) \/ StudyExists(s) \/ StudyVerified(s)
       \/ \E linked, registered \in BOOLEAN : StudyCrash(s, linked, registered)
  \/ \E r \in Requests, linked, registered \in BOOLEAN :
       /\ LibraryCrash(r, linked, registered)
       /\ study' = [s \in Studies |-> NoStudy]
       /\ UNCHANGED record
  \/ \E candidates \in SUBSET Contents :
       /\ NoStudies
       /\ \/ Collect(RecordBlobs, candidates)
          \/ \E removed \in SUBSET Contents : CollectCrash(RecordBlobs, candidates, removed)
       /\ UNCHANGED <<study, record>>

ResearchSpec == ResearchInit /\ [][ResearchNext]_researchVars
-----------------------------------------------------------------------------
(* Properties.                                                             *)

\* The text of every source of a record and its analysis can be read: a study
\* keeps its texts through the others' crashes and collections until it
\* writes the record, and the record keeps them afterwards.
RecordsStored == RecordBlobs \subseteq blobs \cap disk

\* What is found in the store of the library and of the research.
StoreSound == LibrarySound /\ RecordsStored
=============================================================================
