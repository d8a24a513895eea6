------------------------------ MODULE Evidence ------------------------------
(***************************************************************************)
(* The bills of one draft claim: their files, their rows and the figures   *)
(* read from them, with the requests that change them in flight.           *)
(*                                                                         *)
(* Models store_upload and delete_upload (evidence/uploads.py), correction *)
(* (evidence/corrections.py), the reading loop of build_claim              *)
(* (claims/pipeline.py), the cache of ocr_image (extractors/ocr.py), the   *)
(* wipe of reset_demo (demo/service.py) and the handlers that call them    *)
(* (claims/router.py).                                                     *)
(*                                                                         *)
(* A coroutine runs to its next await: a file is named and written, or a   *)
(* bill selected and its file unlinked, in one step. A commit is another,  *)
(* and writes what changed since the row was loaded, by the row's id.      *)
(***************************************************************************)
EXTENDS Integers, FiniteSets

CONSTANTS
    Photos,         \* photographs to upload, all with the camera's one file name
    Mailed,         \* the photograph of the bill in the pack's inbox
    NoPhoto,
    Readable,       \* the photographs whose text becomes figures that add up
    Names,          \* IMG.jpg, IMG-1.jpg, ... in the order they are tried
    Requests,       \* the requests that can be in flight at once
    MaxUploads,     \* bound: uploads
    MaxCorrections, \* bound: corrections
    MaxResets,      \* bound: resets of the demo
    MaxChanges      \* bound: all of these together

ASSUME EvidenceAssumption ==
    /\ Mailed \notin Photos
    /\ NoPhoto \notin Photos \cup {Mailed}
    /\ Readable \subseteq Photos \cup {Mailed}
    /\ Names \subseteq Nat \ {0}
    /\ {MaxUploads, MaxCorrections, MaxResets, MaxChanges} \subseteq Nat

VARIABLES
    files,      \* the photograph at each path
    rows,       \* evidence_document with its extracted_line_items, by id
    cache,      \* ocr_image's: the photograph whose text is kept for a path
    open,       \* what each request in flight has read so far
    freed,      \* history: paths whose file was ever unlinked
    dangling,   \* history: paths whose file was unlinked with a row still naming them
    used        \* how often each bounded operation has run

vars == <<files, rows, cache, open, freed, dangling, used>>

\* Where the pack's bill is. A row with this path has no source_path.
Pack == 0
Paths == Names \cup {Pack}

\* A row as to_document makes it. "typed" names the corrections whose lines the row holds;
\* "photo" (what was uploaded), "fresh" (no request in flight held another row of its id) and
\* "corrected" (a correction of it was saved) are history.
Document(external, path, photo, fresh) ==
    [external |-> external, path |-> path, photo |-> photo, status |-> "pending",
     extractor |-> "none", typed |-> {}, fresh |-> fresh, corrected |-> FALSE]

\* What the seed leaves: the bill in the pack's inbox.
Seeded(fresh) == [id \in {1} |-> Document(0, Pack, Mailed, fresh)]

Idle == [at |-> "idle"]

\* warm_cache: the process starts with the pack's image read.
Warmed == [p \in Paths |-> IF p = Pack THEN Mailed ELSE NoPhoto]

Init ==
    /\ files = [p \in Paths |-> IF p = Pack THEN Mailed ELSE NoPhoto]
    /\ rows = Seeded(TRUE)
    /\ cache = Warmed
    /\ open = [r \in Requests |-> Idle]
    /\ freed = {}
    /\ dangling = {}
    /\ used = [uploads |-> 0, corrections |-> 0, resets |-> 0]

-----------------------------------------------------------------------------

Step(r, next) == open' = [open EXCEPT ![r] = next]

\* One more of a bounded operation.
Use(operation, most) ==
    /\ used[operation] < most
    /\ used.uploads + used.corrections + used.resets < MaxChanges
    /\ used' = [used EXCEPT ![operation] = @ + 1]

\* The paths that rows name, the rows there are and those a request holds or is about to make;
\* and the ids a request holds.
PathsOf(some) == {some[id].path : id \in DOMAIN some}
PathsHeld(q) ==
    IF q.at = "storing" THEN {q.path}
    ELSE IF q.at \in {"loaded", "read"} THEN PathsOf(q.was) ELSE {}
IdsHeld(q) ==
    IF q.at \in {"removing", "correcting"} THEN {q.id}
    ELSE IF q.at \in {"loaded", "read"} THEN DOMAIN q.was ELSE {}
Held == UNION {IdsHeld(open[r]) : r \in Requests}
Named == PathsOf(rows) \cup UNION {PathsHeld(open[r]) : r \in Requests}

\* The history after a step that unlinks the files at these paths.
Unlinks(paths) ==
    /\ freed' = freed \cup paths
    /\ dangling' = (dangling \cup paths) \cap Named'

Without(id) == [i \in DOMAIN rows \ {id} |-> rows[i]]
With(id, row) == [i \in DOMAIN rows \cup {id} |-> IF i = id THEN row ELSE rows[i]]

\* SQLite gives a new row the id after the highest one there is.
NewId == 1 + CHOOSE id \in DOMAIN rows : \A other \in DOMAIN rows : other <= id

-----------------------------------------------------------------------------
(* Upload and removal *)

\* Faulty: names are numbered by the trip's uploads.
UniquePathByCount == 1 + Cardinality({id \in DOMAIN rows : rows[id].path # Pack})

\* The first of the names that no file has.
UniquePath ==
    CHOOSE n \in Names :
        /\ files[n] = NoPhoto
        /\ \A m \in Names : m < n => files[m] # NoPhoto

\* upload_document as far as its first write to the database. Beyond the last name it refuses.
Upload(r, photo) ==
    /\ open[r] = Idle
    /\ Use("uploads", MaxUploads)
    /\ \E n \in Names : files[n] = NoPhoto
    /\ files' = [files EXCEPT ![UniquePath] = photo]
    /\ Step(r, [at |-> "storing", path |-> UniquePath, photo |-> photo,
                external |-> used.uploads + 1])
    /\ UNCHANGED <<rows, cache>>
    /\ Unlinks({})

SaveUpload(r) ==
    /\ open[r].at = "storing"
    /\ rows' = With(NewId, Document(open[r].external, open[r].path, open[r].photo,
                                    NewId \notin Held))
    /\ Step(r, Idle)
    /\ UNCHANGED <<files, cache, used>>
    /\ Unlinks({})

\* remove_document: the files go first. Mail from the pack is not removable.
Remove(r, id) ==
    /\ open[r] = Idle
    /\ id \in DOMAIN rows
    /\ rows[id].path # Pack
    /\ files' = [files EXCEPT ![rows[id].path] = NoPhoto]
    /\ Step(r, [at |-> "removing", id |-> id])
    /\ UNCHANGED <<rows, cache, used>>
    /\ Unlinks({rows[id].path})

\* A DELETE that finds no row, another removal having been first, is no error.
SaveRemoval(r) ==
    /\ open[r].at = "removing"
    /\ rows' = Without(open[r].id)
    /\ Step(r, Idle)
    /\ UNCHANGED <<files, cache, used>>
    /\ Unlinks({})

-----------------------------------------------------------------------------
(* Correction *)

NamesAHuman(row) == row.extractor = "manual"

\* Faulty: the status says whether somebody is still to enter the figures.
ManuallyEnteredByStatus(row) == NamesAHuman(row) /\ row.status = "extracted"

ManuallyEntered(row) == NamesAHuman(row) /\ row.typed # {}

IsCorrectable(row) == row.status \in {"needs_input", "pending"} \/ ManuallyEntered(row)

\* correct_document as far as its commit, on the row it has loaded.
Correct(r, id) ==
    /\ open[r] = Idle
    /\ Use("corrections", MaxCorrections)
    /\ id \in DOMAIN rows
    /\ IsCorrectable(rows[id])
    /\ Step(r, [at |-> "correcting", id |-> id, was |-> rows[id],
                entry |-> used.corrections + 1])
    /\ UNCHANGED <<files, rows, cache>>
    /\ Unlinks({})

\* A column is written if it was given another value than the loaded one.
Written(now, was, value) == IF value = was THEN now ELSE value

\* Faulty: all lines of the document are deleted, and last.
ReplacedInBulk(now, was, entry) == now \ (now \cup was \cup {entry})

\* The lines that were loaded go, each by its id, and the new ones are inserted.
Replaced(now, was, entry) == (now \ was) \cup {entry}

\* The commit of corrections.apply; lines of a document that has gone are refused. A read of the
\* draft follows.
SaveCorrection(r) ==
    LET q == open[r]
        row == rows[q.id]
    IN  /\ q.at = "correcting"
        /\ q.id \in DOMAIN rows
        /\ rows' = With(q.id,
                [row EXCEPT !.typed = Replaced(@, q.was.typed, q.entry),
                            !.extractor = Written(@, q.was.extractor, "manual"),
                            !.status = Written(@, q.was.status, "extracted"),
                            !.corrected = @ \/ row.external = q.was.external])
        /\ Step(r, Idle)
        /\ UNCHANGED <<files, cache, used>>
        /\ Unlinks({})

-----------------------------------------------------------------------------
(* Reading the draft *)

\* Any read of a draft evaluates it: first the documents are selected,
LoadDocuments(r) ==
    /\ open[r] = Idle
    /\ Step(r, [at |-> "loaded", was |-> rows])
    /\ UNCHANGED <<files, rows, cache, used>>
    /\ Unlinks({})

\* What ocr_image returns the text of: the cache goes by the path alone.
TextAt(path) ==
    IF files[path] = NoPhoto THEN NoPhoto
    ELSE IF cache[path] # NoPhoto THEN cache[path] ELSE files[path]

\* then each is read, unless its figures were entered; parse_eml misses a file that has gone.
ReadDocuments(r) ==
    LET was == open[r].was
        toRead == {id \in DOMAIN was : ~ ManuallyEntered(was[id])}
        found == [id \in toRead |-> TextAt(was[id].path)]
    IN  /\ open[r].at = "loaded"
        /\ cache' = [p \in Paths |->
                        IF \E id \in toRead : was[id].path = p /\ found[id] # NoPhoto
                        THEN TextAt(p) ELSE cache[p]]
        /\ Step(r, [at |-> "read", was |-> was, found |-> found])
        /\ UNCHANGED <<files, rows, used>>
        /\ Unlinks({})

\* A row as the loop leaves it: one that needs input keeps its extractor's name.
Judged(row, photo) ==
    IF photo \in Readable
    THEN [row EXCEPT !.status = "extracted", !.extractor = "rule_based"]
    ELSE [row EXCEPT !.status = "needs_input"]

\* and what has changed is written back; a row that should be and has gone fails the request.
SaveReading(r) ==
    LET q == open[r]
        judged == [id \in DOMAIN q.found |-> Judged(q.was[id], q.found[id])]
        changed == {id \in DOMAIN q.found : judged[id] # q.was[id]}
    IN  /\ q.at = "read"
        /\ changed \subseteq DOMAIN rows
        /\ rows' = [id \in DOMAIN rows |->
                IF id \in changed
                THEN [rows[id] EXCEPT
                        !.status = Written(@, q.was[id].status, judged[id].status),
                        !.extractor = Written(@, q.was[id].extractor, judged[id].extractor)]
                ELSE rows[id]]
        /\ Step(r, Idle)
        /\ UNCHANGED <<files, cache, used>>
        /\ Unlinks({})

-----------------------------------------------------------------------------
(* Reset and failure *)

\* reset_demo commits the wiped and seeded tables, and clears the upload directory after that.
ResetRows(r) ==
    /\ open[r] = Idle
    /\ Use("resets", MaxResets)
    /\ rows' = Seeded(1 \notin Held)
    /\ Step(r, [at |-> "resetting"])
    /\ UNCHANGED <<files, cache>>
    /\ Unlinks({})

ClearUploads(r) ==
    /\ open[r].at = "resetting"
    /\ files' = [p \in Paths |-> IF p = Pack THEN Mailed ELSE NoPhoto]
    /\ Step(r, Idle)
    /\ UNCHANGED <<rows, cache, used>>
    /\ Unlinks(Names)

\* A commit fails, or the client goes: the session is rolled back, and no file is.
Fail(r) ==
    /\ open[r] # Idle
    /\ Step(r, Idle)
    /\ UNCHANGED <<files, rows, cache, used>>
    /\ Unlinks({})

\* The process is restarted: its requests and its cache are lost.
Restart ==
    /\ cache' = Warmed
    /\ open' = [r \in Requests |-> Idle]
    /\ UNCHANGED <<files, rows, used>>
    /\ Unlinks({})

Next ==
    \/ \E r \in Requests :
          \/ \E photo \in Photos : Upload(r, photo)
          \/ \E id \in DOMAIN rows : Remove(r, id) \/ Correct(r, id)
          \/ SaveUpload(r) \/ SaveRemoval(r) \/ SaveCorrection(r)
          \/ LoadDocuments(r) \/ ReadDocuments(r) \/ SaveReading(r)
          \/ ResetRows(r) \/ ClearUploads(r) \/ Fail(r)
    \/ Restart

Spec == Init /\ [][Next]_vars

-----------------------------------------------------------------------------

RowType ==
    [external : 0..MaxUploads, path : Paths, photo : Photos \cup {Mailed},
     status : {"pending", "needs_input", "extracted"},
     extractor : {"none", "rule_based", "manual"}, typed : SUBSET (1..MaxCorrections),
     fresh : BOOLEAN, corrected : BOOLEAN]

\* Every row is one of an evidence_document, and a row that names a person as the source of
\* its figures holds figures a person entered, whichever requests wrote it and in what order
\* (corrections.apply, the write-back of build_claim).
EvidenceTypeOK ==
    /\ files \in [Paths -> Photos \cup {Mailed, NoPhoto}]
    /\ cache \in [Paths -> Photos \cup {Mailed, NoPhoto}]
    /\ \A id \in DOMAIN rows :
          rows[id] \in RowType /\ (NamesAHuman(rows[id]) => rows[id].typed # {})

\* Behind every row is the photograph that was uploaded for it, and no other row has it, as
\* long as nobody unlinked the file with a row still naming it (_unique_path, delete_upload).
RowsHaveTheirFile ==
    \A id \in DOMAIN rows :
        rows[id].path \notin dangling =>
            /\ files[rows[id].path] = rows[id].photo
            /\ rows[id].path # Pack =>
                  \A other \in DOMAIN rows \ {id} : rows[other].path # rows[id].path

\* Request r is about to claim figures for a row from another photograph than the row's.
Misreads(r) ==
    {id \in DOMAIN open[r].found : open[r].found[id] \notin {NoPhoto, open[r].was[id].photo}}

Reading == {r \in Requests : open[r].at = "read"}

\* The figures read for a bill are those of its own photograph, under a path that was never freed
\* (ocr_image, _locate, _unique_path).
FiguresAreOwnUnlessFreed ==
    \A r \in Reading : \A id \in Misreads(r) : open[r].was[id].path \in freed

\* The figures read for a bill are those of its own photograph, whatever was at its path before,
\* as long as no removal left a row behind. What ocr.py:68 and uploads.py:97 rely on; the cache
\* goes by the path and does not keep it.
FiguresAreOwn ==
    \A r \in Reading : \A id \in Misreads(r) : open[r].was[id].path \in dangling

\* A correction of a bill that cannot be read stands: reads of the draft that were under way,
\* and failures, leave the bill's figures the claimant's (is_manually_entered, build_claim).
\* Not so for a row whose id a request held from a bill that has gone.
CorrectionsStand ==
    \A id \in DOMAIN rows :
        /\ rows[id].corrected /\ rows[id].fresh
        /\ rows[id].photo \notin Readable
        /\ rows[id].path \notin freed
        => ManuallyEntered(rows[id])
=============================================================================
