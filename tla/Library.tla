------------------------------ MODULE Library ------------------------------
(***************************************************************************)
(* The document library and the store of its contents:                     *)
(* server/src/documents/service.ts and repository.ts, storage/blob-store.ts*)
(* and the BlobRepository of db/repositories.ts.                           *)
(*                                                                         *)
(* A content is a file named by its hash, a row that registers it and the  *)
(* versions that refer to the row.  An upload writes the three in that     *)
(* order and awaits in between; a crash may fall between any two of its    *)
(* steps.  A request uploads a version of a document it found active, or a *)
(* batch of new documents that must appear together.  Contents are model   *)
(* values; titles, kinds, texts and temporary files are left out.          *)
(***************************************************************************)
EXTENDS Naturals, Sequences, FiniteSets, SequencesExt

CONSTANTS
  Documents,    \* ids of documents
  Contents,     \* file contents, each standing for its hash
  Requests,     \* upload requests
  MaxDocumentVersions  \* bound: versions of one document

ASSUME LibraryAssumption == MaxDocumentVersions \in Nat \ {0}

VARIABLES
  disk,      \* contents linked under their hash
  blobs,     \* rows of the table blobs
  document,  \* documents: state, blob hash of each version, current version
  selected,  \* profile_document_selections
  request    \* uploads in flight

libraryVars == <<disk, blobs, document, selected, request>>

NoDocument == [state |-> "none", versions |-> <<>>, current |-> 0]
NoRequest == [pc |-> "idle"]

\* The blobs that versions of documents refer to.
Referenced == UNION {ToSet(document[d].versions) : d \in Documents}

LibraryInit ==
  /\ disk = {} /\ blobs = {}
  /\ document = [d \in Documents |-> NoDocument]
  /\ selected = {}
  /\ request = [r \in Requests |-> NoRequest]
-----------------------------------------------------------------------------
(* Uploads.  files is the sequence of <<document, content>> pairs to store; *)
(* stored counts the ones whose blob is registered.                         *)

\* The documents of a request's files, and the content of one.
Targets(files) == {files[i][1] : i \in DOMAIN files}
ContentOf(files, d) == files[CHOOSE i \in DOMAIN files : files[i][1] = d][2]

\* uploadMany, and upload of a new document: the ids are fresh.
BeginBatch(r, files) ==
  /\ request[r].pc = "idle"
  /\ \A d \in Targets(files) : document[d].state = "none"
  /\ \A q \in Requests : request[q].pc # "idle" =>
       Targets(files) \cap Targets(request[q].files) = {}
  /\ request' = [request EXCEPT ![r] =
        [pc |-> "writing", fresh |-> TRUE, files |-> files, stored |-> 0]]
  /\ UNCHANGED <<disk, blobs, document, selected>>

\* upload of a version: refused now unless the document is active.
BeginDocumentVersion(r, d, c) ==
  /\ request[r].pc = "idle"
  /\ document[d].state = "active"
  /\ request' = [request EXCEPT ![r] =
        [pc |-> "writing", fresh |-> FALSE, files |-> << <<d, c>> >>, stored |-> 0]]
  /\ UNCHANGED <<disk, blobs, document, selected>>

\* put: the temporary file is written and synced.
Write(r) ==
  /\ request[r].pc = "writing"
  /\ request' = [request EXCEPT ![r].pc = "written"]
  /\ UNCHANGED <<disk, blobs, document, selected>>

Content(r) == request[r].files[request[r].stored + 1][2]

\* The extraction of a file is refused, or put throws: it cannot write or link,
\* fails after the link, or finds another content under the hash.  What the
\* request stored before stays, and nothing refers to it.
Refused(r) ==
  /\ request[r].pc # "idle"
  /\ disk' \in {disk} \cup (IF request[r].pc = "written" THEN {disk \cup {Content(r)}} ELSE {})
  /\ request' = [request EXCEPT ![r] = NoRequest]
  /\ UNCHANGED <<blobs, document, selected>>

Grown(files, d) ==
  [state |-> IF document[d].state = "none" THEN "active" ELSE document[d].state,
   versions |-> Append(document[d].versions, ContentOf(files, d)),
   current |-> Len(document[d].versions) + 1]

\* Mutant: addVersion does not look whether its UPDATE found an active document.
Commit_Archived(files, fresh, rows) ==
  LET Denied == \E d \in Targets(files) :
        \/ ContentOf(files, d) \notin rows
        \/ Len(document[d].versions) = MaxDocumentVersions
  IN document' = [d \in Documents |->
       IF d \in Targets(files) /\ ~Denied THEN Grown(files, d) ELSE document[d]]

\* The transaction of persist over every file of the request, rows being the
\* blobs registered by then: it writes all the versions or, when a document is
\* no longer active or a row is missing, none.
Commit(files, fresh, rows) ==
  LET Denied == \E d \in Targets(files) :
        \/ ~fresh /\ document[d].state # "active"
        \/ ContentOf(files, d) \notin rows
        \/ Len(document[d].versions) = MaxDocumentVersions
  IN document' = [d \in Documents |->
       IF d \in Targets(files) /\ ~Denied THEN Grown(files, d) ELSE document[d]]

\* put returned: register the blob; after the last file, persist them all.
\* No other request runs between the two.
Registered(r) ==
  /\ blobs' = blobs \cup {Content(r)}
  /\ IF request[r].stored + 1 = Len(request[r].files)
     THEN /\ Commit(request[r].files, request[r].fresh, blobs')
          /\ request' = [request EXCEPT ![r] = NoRequest]
     ELSE /\ request' = [request EXCEPT ![r].stored = @ + 1, ![r].pc = "writing"]
          /\ UNCHANGED document

\* The link of a content that is not there yet; put returns at once.
Link(r) ==
  /\ request[r].pc = "written"
  /\ Content(r) \notin disk
  /\ disk' = disk \cup {Content(r)}
  /\ Registered(r)
  /\ UNCHANGED selected

\* The content is there: put awaits the comparison of the two.
Exists(r) ==
  /\ request[r].pc = "written"
  /\ Content(r) \in disk
  /\ request' = [request EXCEPT ![r].pc = "verifying"]
  /\ UNCHANGED <<disk, blobs, document, selected>>

Verified(r) ==
  /\ request[r].pc = "verifying"
  /\ Registered(r)
  /\ UNCHANGED <<disk, selected>>
-----------------------------------------------------------------------------
(* The library.                                                            *)

Select(d) ==
  /\ document[d].state = "active"
  /\ selected' = selected \cup {d}
  /\ UNCHANGED <<disk, blobs, document, request>>

Deselect(d) ==
  /\ document[d].state = "active"
  /\ selected' = selected \ {d}
  /\ UNCHANGED <<disk, blobs, document, request>>

\* archive, from active; delete, from active or archived.  The selection goes
\* with the document, unless the whole transaction is refused.
TransitionDocument(d, to) ==
  /\ document[d].state \in (IF to = "archived" THEN {"active"} ELSE {"active", "archived"})
  /\ document' = [document EXCEPT ![d].state = to]
  /\ selected' = selected \ {d}
  /\ UNCHANGED <<disk, blobs, request>>

NoUploads == \A r \in Requests : request[r].pc = "idle"

\* The rows collectUnreferenced deletes: of its candidates, found by a query
\* beforehand or given, those that no version refers to and no row of another
\* table (others).
Claims(others, candidates) == (candidates \cap blobs) \ (Referenced \cup others)

\* Mutant: the files of all candidates are removed.
Collect_Candidates(others, candidates) ==
  /\ NoUploads
  /\ blobs' = blobs \ Claims(others, candidates)
  /\ disk' = disk \ candidates
  /\ UNCHANGED <<document, selected, request>>

\* The rows, then their files.  Only tests call it, with no upload in flight.
Collect(others, candidates) ==
  /\ NoUploads
  /\ blobs' = blobs \ Claims(others, candidates)
  /\ disk' = disk \ Claims(others, candidates)
  /\ UNCHANGED <<document, selected, request>>

\* The collector dies after it took the rows and some of their files: the
\* others stay.
CollectCrash(others, candidates, removed) ==
  /\ NoUploads
  /\ removed \subseteq Claims(others, candidates)
  /\ blobs' = blobs \ Claims(others, candidates)
  /\ disk' = disk \ removed
  /\ UNCHANGED <<document, selected, request>>

\* Whether request r, resumed after its await, links or registers its content
\* before it awaits again.
Links(r) == request[r].pc = "written" /\ Content(r) \notin disk
Registers(r) == Links(r) \/ request[r].pc = "verifying"

\* The process dies, perhaps just after request r did so and before its
\* transaction.  What was on disk and in the database stays.
LibraryCrash(r, linked, registered) ==
  /\ request[r].pc # "idle"
  /\ linked => Links(r)
  /\ registered => Registers(r) /\ (linked \/ ~Links(r))
  /\ disk' = IF linked THEN disk \cup {Content(r)} ELSE disk
  /\ blobs' = IF registered THEN blobs \cup {Content(r)} ELSE blobs
  /\ request' = [q \in Requests |-> NoRequest]
  /\ UNCHANGED <<document, selected>>

\* One file or two; the documents of a batch differ.
Batches == {b \in UNION {[1..n -> Documents \X Contents] : n \in 1..2} :
              Cardinality(Targets(b)) = Len(b)}

\* The steps of a process that runs on, the collector apart.
LibraryStep ==
  \/ \E r \in Requests :
       \/ \E files \in Batches : BeginBatch(r, files)
       \/ \E d \in Documents, c \in Contents : BeginDocumentVersion(r, d, c)
       \/ Refused(r) \/ Write(r) \/ Link(r) \/ Exists(r) \/ Verified(r)
  \/ \E d \in Documents :
       \/ Select(d) \/ Deselect(d) \/ \E to \in {"archived", "deleted"} : TransitionDocument(d, to)

LibraryNext ==
  \/ LibraryStep
  \/ \E candidates \in SUBSET Contents :
       \/ Collect({}, candidates)
       \/ \E removed \in SUBSET Contents : CollectCrash({}, candidates, removed)
  \/ \E r \in Requests, linked, registered \in BOOLEAN : LibraryCrash(r, linked, registered)

LibrarySpec == LibraryInit /\ [][LibraryNext]_libraryVars
-----------------------------------------------------------------------------
(* Properties.                                                             *)

\* A version can be downloaded: its blob is registered and on disk, through
\* crashes between the three stores and whatever the collector took.
VersionsStored == \A d \in Documents : ToSet(document[d].versions) \subseteq blobs \cap disk

\* A document is never listed before it has a version, and shows its newest.
NewestShown == \A d \in Documents :
  document[d].state # "none" => document[d].versions # <<>> /\
                                document[d].current = Len(document[d].versions)

\* Only active documents are part of the profile that prompts are built from.
ProfileActive == \A d \in selected : document[d].state = "active"

\* What the pages and the prompts built from the library rely on.
LibrarySound == VersionsStored /\ NewestShown /\ ProfileActive

\* An archived or deleted document gains no version, even from an upload that
\* found it active; a deleted one never comes back; a version is never lost.
ShelvedIsFinal ==
  [][\A d \in Documents :
       /\ document[d].state \in {"archived", "deleted"} =>
            document'[d].versions = document[d].versions
       /\ document[d].state = "deleted" => document'[d].state = "deleted"
       /\ IsPrefix(document[d].versions, document'[d].versions)]_libraryVars
=============================================================================
