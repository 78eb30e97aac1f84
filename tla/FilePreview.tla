----------------------------- MODULE FilePreview -----------------------------
(***************************************************************************)
(* The preview of a file: server/src/ingest/file-preview.ts and            *)
(* document-extraction.ts, which routes/preview.ts calls.                  *)
(*                                                                         *)
(* A file is staged under a temporary and then a final name, its text is   *)
(* extracted and the staged file removed; every step is awaited, and the   *)
(* process may die at any of them.  A PDF is opened and read under a       *)
(* timeout each.  Of its bytes a file keeps what the limits are about: its *)
(* size, its pages, or the directory of a DOCX archive.                    *)
(***************************************************************************)
EXTENDS Naturals, Sequences, FiniteSets, SequencesExt

CONSTANTS
  Names,        \* names of archive entries, as normalised
  UnsafeNames,  \* those zipPathIsSafe refuses, and links
  MaxFile,      \* limits.fileBytes, in units
  MaxPages,     \* limits.pdfPages
  MaxEntries,   \* limits.docxEntries
  MaxUnpacked   \* limits.docxUncompressedBytes, in units

ASSUME FilePreviewAssumption ==
  /\ UnsafeNames \subseteq Names
  /\ MaxFile \in Nat /\ MaxPages \in Nat /\ MaxEntries \in Nat /\ MaxUnpacked \in Nat

VARIABLES
  file,    \* what was uploaded
  stage,   \* how far its preview is
  stored,  \* names under preview-uploads
  spilled, \* a store failed half-way or the process died: names may stay
  previewed  \* what previewFile returned or raised, or will after its cleanup

previewVars == <<file, stage, stored, spilled, previewed>>

\* The entry whose text is read; a separator in its name may be a backslash.
Body == "word/document.xml"
Entries == [name : Names, plain : BOOLEAN, size : 1 .. 2]
Archives == UNION {[1 .. n -> Entries] : n \in 0 .. MaxEntries + 1}

Files ==
  [kind : {"pdf", "text", "other"}, size : 0 .. MaxFile + 1, pages : 0 .. MaxPages + 1, entries : {<<>>}]
  \cup [kind : {"docx"}, size : {1}, pages : {0}, entries : Archives]

PreviewInit ==
  /\ file \in Files
  /\ stage = "new"
  /\ stored = {} /\ spilled = FALSE
  /\ previewed = "none"
-----------------------------------------------------------------------------
(* readZipEntries and extractDocx.                                         *)

\* Mutant: a repeated name is looked for among the names as they are spelt.
Repeated_Spelt(seen, e) == \E n \in seen : n.name = e.name /\ n.plain = e.plain

\* names holds normalised names.
Repeated(seen, e) == \E n \in seen : n.name = e.name

\* One entry of the central directory, after those already read.
ReadEntry(read, e) ==
  IF read.code # "ok" THEN read
  ELSE IF e.name \in UnsafeNames THEN [read EXCEPT !.code = "ZIP_PATH_INVALID"]
  ELSE IF Repeated(read.seen, e) THEN [read EXCEPT !.code = "DOCX_INVALID"]
  ELSE IF read.total + e.size > MaxUnpacked THEN [read EXCEPT !.code = "DOCX_UNCOMPRESSED_LIMIT"]
  ELSE [read EXCEPT !.seen = @ \cup {e}, !.total = @ + e.size]

ReadDirectory(entries) ==
  LET read[n \in 0 .. Len(entries)] ==
        IF n = 0 THEN [code |-> "ok", seen |-> {}, total |-> 0] ELSE ReadEntry(read[n - 1], entries[n])
  IN IF Len(entries) > MaxEntries THEN "DOCX_ENTRIES_LIMIT" ELSE read[Len(entries)].code

ExtractDocx(entries) ==
  IF ReadDirectory(entries) # "ok" THEN ReadDirectory(entries)
  ELSE IF \E e \in ToSet(entries) : e.name = Body /\ e.plain THEN "ok" ELSE "EXTRACTION_FAILED"
-----------------------------------------------------------------------------
\* The size is looked at before and after the bytes are read; formatFor takes
\* the name, the type and the first bytes, which either agree or not.
Identify(agree) ==
  /\ stage = "new"
  /\ LET refused == CASE file.size \notin 1 .. MaxFile -> "FILE_TOO_LARGE"
                      [] file.size \in 1 .. MaxFile /\ (file.kind = "other" \/ ~agree) -> "MIME_NOT_ALLOWED"
                      [] OTHER -> "none"
     IN /\ previewed' = refused
        /\ stage' = IF refused = "none" THEN "storing" ELSE "done"
  /\ UNCHANGED <<file, stored, spilled>>

\* createStage: writeFile, then rename.
StoreTemporary ==
  /\ stage = "storing"
  /\ stored' = stored \cup {"temporary"} /\ stage' = "renaming"
  /\ UNCHANGED <<file, spilled, previewed>>

Rename ==
  /\ stage = "renaming"
  /\ stored' = (stored \ {"temporary"}) \cup {"final"} /\ stage' = "extracting"
  /\ UNCHANGED <<file, spilled, previewed>>

\* The directory or either file operation fails: what is written stays.
StoreFails ==
  /\ stage \in {"storing", "renaming"}
  /\ \/ UNCHANGED stored
     \/ stage = "storing" /\ stored' = stored \cup {"temporary"}
  /\ spilled' = TRUE /\ previewed' = "EXTRACTION_FAILED" /\ stage' = "done"
  /\ UNCHANGED file

Extracted(code) == previewed' = code /\ stage' = "cleaning" /\ UNCHANGED <<file, stored, spilled>>

\* Text and DOCX, at once; readable: it decodes and is not empty.
Extract(readable) ==
  /\ stage = "extracting" /\ file.kind # "pdf"
  /\ Extracted(CASE file.kind = "docx" /\ ExtractDocx(file.entries) # "ok" -> ExtractDocx(file.entries)
                 [] ~(file.kind = "docx" /\ ExtractDocx(file.entries) # "ok") /\ ~readable -> "EMPTY_TEXT"
                 [] OTHER -> "ok")

\* getDocumentProxy.
OpenPdf ==
  /\ stage = "extracting" /\ file.kind = "pdf"
  /\ IF file.pages > MaxPages THEN Extracted("PDF_PAGE_LIMIT")
     ELSE stage' = "reading" /\ UNCHANGED <<file, stored, spilled, previewed>>

\* extractText.
ReadPdf(letters) ==
  /\ stage = "reading"
  /\ Extracted(IF letters THEN "ok" ELSE "OCR_UNSUPPORTED")

\* Either raises, or loses its race with the timeout.
PdfFails ==
  /\ stage = "reading" \/ (stage = "extracting" /\ file.kind = "pdf")
  /\ Extracted("EXTRACTION_FAILED")

\* cleanup: the final name, then the temporary one.
RemoveFinal ==
  /\ stage = "cleaning"
  /\ stored' = stored \ {"final"} /\ stage' = "removing"
  /\ UNCHANGED <<file, spilled, previewed>>

RemoveTemporary ==
  /\ stage = "removing"
  /\ stored' = stored \ {"temporary"} /\ stage' = "done"
  /\ UNCHANGED <<file, spilled, previewed>>

PreviewCrash ==
  /\ stage # "done"
  /\ spilled' = TRUE /\ previewed' = "crashed" /\ stage' = "done"
  /\ UNCHANGED <<file, stored>>

PreviewNext ==
  \/ \E agree \in BOOLEAN : Identify(agree)
  \/ StoreTemporary \/ Rename \/ StoreFails
  \/ \E readable \in BOOLEAN : Extract(readable)
  \/ OpenPdf \/ \E letters \in BOOLEAN : ReadPdf(letters)
  \/ PdfFails \/ RemoveFinal \/ RemoveTemporary \/ PreviewCrash

PreviewSpec == PreviewInit /\ [][PreviewNext]_previewVars
-----------------------------------------------------------------------------
\* How large the entries are together.
Unpacked(entries) ==
  LET upTo[n \in 0 .. Len(entries)] == IF n = 0 THEN 0 ELSE upTo[n - 1] + entries[n].size
  IN upTo[Len(entries)]

\* What a DOCX archive must be like, said of all of its entries at once.
Unpackable(entries) ==
  /\ Len(entries) <= MaxEntries
  /\ \A i, j \in DOMAIN entries : i # j => entries[i].name # entries[j].name
  /\ \A e \in ToSet(entries) : e.name \notin UnsafeNames
  /\ Unpacked(entries) <= MaxUnpacked
  /\ \E e \in ToSet(entries) : e.name = Body

\* Only a file within every limit gives a text, whatever order its entries
\* are in; the staged file is whole while its text is extracted, and nothing is
\* left of it afterwards unless storing it failed or the process died.
PreviewSound ==
  /\ previewed = "ok" =>
       /\ file.size \in 1 .. MaxFile
       /\ file.kind = "pdf" => file.pages <= MaxPages
       /\ file.kind = "docx" => Unpackable(file.entries)
  /\ stage \in {"extracting", "reading"} => stored = {"final"}
  /\ stage = "done" /\ ~spilled => stored = {}
=============================================================================
