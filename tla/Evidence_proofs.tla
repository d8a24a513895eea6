--------------------------- MODULE Evidence_proofs ---------------------------
(***************************************************************************)
(* Evidence for any number of photographs, names and requests: rows keep   *)
(* their type and their file, figures are a bill's own under paths that    *)
(* were never freed, and corrections of unreadable bills stand.            *)
(***************************************************************************)
EXTENDS Evidence, TLAPS, WellFoundedInduction

(***************************************************************************)
(* Numbers                                                                 *)
(***************************************************************************)

\* A set of naturals that is not empty has a least element.
LEMMA LeastElement ==
    ASSUME NEW S \in SUBSET Nat, S # {}
    PROVE  \E m \in S : \A n \in S : m <= n
<1>1. PICK m \in S : \A n \in S : ~ (<<n, m>> \in OpToRel(<, Nat))
  BY NatLessThanWellFounded, WFMin
<1>2. \A n \in S : ~ (n < m)
  BY <1>1 DEF OpToRel
<1> QED
  BY <1>2

\* A set of naturals that is bounded and not empty has a greatest element.
LEMMA GreatestElement ==
    ASSUME NEW n \in Nat, NEW S \in SUBSET (1..n), S # {}
    PROVE  \E m \in S : \A k \in S : k <= m
<1> DEFINE Above == {m \in Nat : \A k \in S : k <= m}
<1>1. PICK m \in Above : \A k \in Above : m <= k
  <2>1. n \in Above
    OBVIOUS
  <2> QED
    BY <2>1, LeastElement
<1>2. m \in S
  <2> SUFFICES ASSUME m \notin S PROVE FALSE
    OBVIOUS
  <2>1. PICK k \in S : TRUE
    OBVIOUS
  <2>2. m - 1 \in Above
    BY <2>1
  <2> QED
    BY <1>1, <2>2
<1> QED
  BY <1>1, <1>2

-----------------------------------------------------------------------------
(* The types *)

\* A row with its id: the bill in the pack has the first.
RowOK(id, row) ==
    /\ row \in RowType
    /\ NamesAHuman(row) => row.typed # {}
    /\ id # 1 => row.path # Pack
    /\ id = 1 => row.path = Pack /\ row.photo = Mailed

\* Rows as the table has them, or a request.
RowsOK(some) == \A id \in DOMAIN some : RowOK(id, some[id])

\* What a request in flight holds.
RequestOK(q) ==
    /\ q.at = "storing" =>
          q.path \in Names /\ q.photo \in Photos /\ q.external \in 0..MaxUploads
    /\ q.at = "removing" => q.id # 1
    /\ q.at = "correcting" => q.was \in RowType /\ q.entry \in 1..MaxCorrections
    /\ q.at \in {"loaded", "read"} => RowsOK(q.was)
    /\ q.at = "read" =>
          DOMAIN q.found = {id \in DOMAIN q.was : ~ ManuallyEntered(q.was[id])}

PhotosAt == [Paths -> Photos \cup {Mailed, NoPhoto}]

Shapes ==
    /\ files \in PhotosAt
    /\ cache \in PhotosAt
    /\ used \in [uploads : 0..MaxUploads, corrections : 0..MaxCorrections,
                 resets : 0..MaxResets]
    /\ RowsOK(rows)
    /\ 1 \in DOMAIN rows
    /\ \E n \in Nat : DOMAIN rows \subseteq 1..n
    /\ DOMAIN open = Requests
    /\ \A r \in Requests : RequestOK(open[r])

\* A step of one request leaves the others as they were.
LEMMA OneStep ==
    ASSUME NEW r \in Requests, NEW next, DOMAIN open = Requests, Step(r, next)
    PROVE  /\ DOMAIN open' = Requests
           /\ open'[r] = next
           /\ \A q \in Requests \ {r} : open'[q] = open[q]
BY DEF Step

\* A step of one request that ends well keeps what is known of all of them.
LEMMA RequestsStayOK ==
    ASSUME NEW r \in Requests, NEW next, Shapes, Step(r, next), RequestOK(next)
    PROVE  DOMAIN open' = Requests /\ \A q \in Requests : RequestOK(open'[q])
<1>1. DOMAIN open = Requests /\ \A q \in Requests : RequestOK(open[q])
  BY DEF Shapes
<1>2. DOMAIN open' = Requests /\ open'[r] = next /\ \A q \in Requests \ {r} : open'[q] = open[q]
  BY <1>1, OneStep
<1> QED
  BY <1>1, <1>2

\* A request without obligations.
LEMMA NothingHeld ==
    /\ RequestOK(Idle)
    /\ RequestOK([at |-> "resetting"])
BY DEF RequestOK, Idle

\* The name of an upload is free.
LEMMA UniquePathIsFree ==
    ASSUME \E n \in Names : files[n] = NoPhoto
    PROVE  UniquePath \in Names /\ files[UniquePath] = NoPhoto
<1> DEFINE Free == {n \in Names : files[n] = NoPhoto}
<1>1. PICK n \in Free : \A m \in Free : n <= m
  BY EvidenceAssumption, LeastElement
<1>2. \A m \in Names : m < n => files[m] # NoPhoto
  BY <1>1, EvidenceAssumption
<1> QED
  BY <1>1, <1>2 DEF UniquePath

\* A new id is above all there are.
LEMMA NewIdIsNew ==
    ASSUME Shapes
    PROVE  /\ NewId \in Nat \ {1}
           /\ \A id \in DOMAIN rows : id \in Nat /\ id < NewId
<1>1. PICK n \in Nat : DOMAIN rows \in SUBSET (1..n)
  BY DEF Shapes
<1>2. 1 \in DOMAIN rows
  BY DEF Shapes
<1>3. \E m \in DOMAIN rows : \A k \in DOMAIN rows : k <= m
  BY <1>1, <1>2, GreatestElement
<1> DEFINE top == CHOOSE m \in DOMAIN rows : \A k \in DOMAIN rows : k <= m
<1>4. top \in DOMAIN rows /\ \A k \in DOMAIN rows : k <= top
  BY <1>3
<1>5. NewId = 1 + top
  BY DEF NewId
<1> HIDE DEF top
<1>6. top \in 1..n
  BY <1>1, <1>4
<1> QED
  BY <1>1, <1>2, <1>4, <1>5, <1>6

\* One row more, or another in its place.
LEMMA RowsWith ==
    ASSUME Shapes, NEW id \in Nat \ {0}, NEW row, RowOK(id, row), rows' = With(id, row)
    PROVE  /\ RowsOK(rows')
           /\ 1 \in DOMAIN rows'
           /\ \E n \in Nat : DOMAIN rows' \subseteq 1..n
<1>1. RowsOK(rows) /\ 1 \in DOMAIN rows
  BY DEF Shapes
<1>2. /\ DOMAIN rows' = DOMAIN rows \cup {id}
      /\ rows'[id] = row
      /\ \A i \in DOMAIN rows \ {id} : rows'[i] = rows[i]
  BY DEF With
<1>3. PICK n \in Nat : DOMAIN rows \subseteq 1..n
  BY DEF Shapes
<1>4. RowsOK(rows')
  BY <1>1, <1>2 DEF RowsOK
<1>5. DOMAIN rows' \subseteq 1..(n + id)
  BY <1>2, <1>3
<1>6. n + id \in Nat
  OBVIOUS
<1> QED
  BY <1>1, <1>2, <1>4, <1>5, <1>6

\* A new document's row.
LEMMA DocumentOK ==
    ASSUME NEW external \in 0..MaxUploads, NEW path \in Paths, NEW photo \in Photos \cup {Mailed},
           NEW fresh \in BOOLEAN, NEW id,
           IF id = 1 THEN path = Pack /\ photo = Mailed ELSE path # Pack
    PROVE  RowOK(id, Document(external, path, photo, fresh))
BY DEF RowOK, Document, RowType, NamesAHuman

\* What the seed leaves.
LEMMA SeedOK ==
    ASSUME NEW fresh \in BOOLEAN
    PROVE  /\ RowsOK(Seeded(fresh))
           /\ DOMAIN Seeded(fresh) = {1}
           /\ Seeded(fresh)[1] = Document(0, Pack, Mailed, fresh)
<1>1. 0 \in 0..MaxUploads
  BY EvidenceAssumption
<1>2. Pack \in Paths
  BY DEF Paths
<1>3. RowOK(1, Document(0, Pack, Mailed, fresh))
  BY <1>1, <1>2, DocumentOK
<1> QED
  BY <1>3 DEF Seeded, RowsOK

LEMMA ShapesInit == Init => Shapes
<1> SUFFICES ASSUME Init PROVE Shapes
  OBVIOUS
<1>1. files \in PhotosAt /\ cache \in PhotosAt
  BY DEF Init, Warmed, PhotosAt
<1>2. used \in [uploads : 0..MaxUploads, corrections : 0..MaxCorrections,
                resets : 0..MaxResets]
  BY EvidenceAssumption DEF Init
<1>3. RowsOK(rows) /\ DOMAIN rows = {1}
  BY SeedOK DEF Init
<1>4. DOMAIN open = Requests /\ \A r \in Requests : RequestOK(open[r])
  BY NothingHeld DEF Init
<1> QED
  BY <1>1, <1>2, <1>3, <1>4 DEF Shapes

LEMMA ShapesUpload ==
    ASSUME Shapes, NEW r \in Requests, NEW photo \in Photos, Upload(r, photo)
    PROVE  Shapes'
<1>1. UniquePath \in Names
  BY UniquePathIsFree DEF Upload
<1>2. files' \in PhotosAt
  BY <1>1 DEF Shapes, Upload, PhotosAt, Paths
<1>3. /\ used' \in [uploads : 0..MaxUploads, corrections : 0..MaxCorrections,
                    resets : 0..MaxResets]
      /\ used.uploads + 1 \in 0..MaxUploads
  BY EvidenceAssumption DEF Shapes, Upload, Use
<1>4. RequestOK([at |-> "storing", path |-> UniquePath, photo |-> photo,
                 external |-> used.uploads + 1])
  BY <1>1, <1>3 DEF RequestOK
<1>5. DOMAIN open' = Requests /\ \A q \in Requests : RequestOK(open'[q])
  BY <1>4, RequestsStayOK DEF Upload
<1> QED
  BY <1>2, <1>3, <1>5 DEF Shapes, Upload

LEMMA ShapesSaveUpload ==
    ASSUME Shapes, NEW r \in Requests, SaveUpload(r)
    PROVE  Shapes'
<1> DEFINE q == open[r]
           row == Document(q.external, q.path, q.photo, NewId \notin Held)
<1>1. q.path \in Names /\ q.photo \in Photos /\ q.external \in 0..MaxUploads
  BY DEF Shapes, RequestOK, SaveUpload
<1>2. q.path \in Paths /\ q.path # Pack
  BY <1>1, EvidenceAssumption DEF Paths, Pack
<1>3. NewId \in Nat \ {0, 1}
  <2>1. NewId \in Nat /\ 1 < NewId
    BY NewIdIsNew DEF Shapes
  <2> QED
    BY <2>1
<1>4. RowOK(NewId, row)
  BY <1>1, <1>2, <1>3, DocumentOK
<1>5. rows' = With(NewId, row)
  BY DEF SaveUpload
<1>6. /\ RowsOK(rows')
      /\ 1 \in DOMAIN rows'
      /\ \E n \in Nat : DOMAIN rows' \subseteq 1..n
  BY <1>3, <1>4, <1>5, RowsWith
<1>7. DOMAIN open' = Requests /\ \A p \in Requests : RequestOK(open'[p])
  BY NothingHeld, RequestsStayOK DEF SaveUpload
<1> QED
  BY <1>6, <1>7 DEF Shapes, SaveUpload

LEMMA ShapesRemove ==
    ASSUME Shapes, NEW r \in Requests, NEW id \in DOMAIN rows, Remove(r, id)
    PROVE  Shapes'
<1>1. rows[id].path \in Paths /\ id # 1
  BY DEF Shapes, RowsOK, RowOK, RowType, Remove
<1>2. files' \in PhotosAt
  BY <1>1 DEF Shapes, Remove, PhotosAt
<1>3. RequestOK([at |-> "removing", id |-> id])
  BY <1>1 DEF RequestOK
<1>4. DOMAIN open' = Requests /\ \A q \in Requests : RequestOK(open'[q])
  BY <1>3, RequestsStayOK DEF Remove
<1> QED
  BY <1>2, <1>4 DEF Shapes, Remove

LEMMA ShapesSaveRemoval ==
    ASSUME Shapes, NEW r \in Requests, SaveRemoval(r)
    PROVE  Shapes'
<1>1. open[r].id # 1
  BY DEF Shapes, RequestOK, SaveRemoval
<1>2. /\ DOMAIN rows' = DOMAIN rows \ {open[r].id}
      /\ \A i \in DOMAIN rows' : rows'[i] = rows[i]
  BY DEF SaveRemoval, Without
<1>3. RowsOK(rows') /\ 1 \in DOMAIN rows'
  BY <1>1, <1>2 DEF Shapes, RowsOK
<1>4. \E n \in Nat : DOMAIN rows' \subseteq 1..n
  BY <1>2 DEF Shapes
<1>5. DOMAIN open' = Requests /\ \A q \in Requests : RequestOK(open'[q])
  BY NothingHeld, RequestsStayOK DEF SaveRemoval
<1> QED
  BY <1>3, <1>4, <1>5 DEF Shapes, SaveRemoval

LEMMA ShapesCorrect ==
    ASSUME Shapes, NEW r \in Requests, NEW id \in DOMAIN rows, Correct(r, id)
    PROVE  Shapes'
<1>1. rows[id] \in RowType
  BY DEF Shapes, RowsOK, RowOK
<1>2. /\ used' \in [uploads : 0..MaxUploads, corrections : 0..MaxCorrections,
                    resets : 0..MaxResets]
      /\ used.corrections + 1 \in 1..MaxCorrections
  BY EvidenceAssumption DEF Shapes, Correct, Use
<1>3. RequestOK([at |-> "correcting", id |-> id, was |-> rows[id],
                 entry |-> used.corrections + 1])
  BY <1>1, <1>2 DEF RequestOK
<1>4. DOMAIN open' = Requests /\ \A q \in Requests : RequestOK(open'[q])
  BY <1>3, RequestsStayOK DEF Correct
<1> QED
  BY <1>2, <1>4 DEF Shapes, Correct

LEMMA ShapesSaveCorrection ==
    ASSUME Shapes, NEW r \in Requests, SaveCorrection(r)
    PROVE  Shapes'
<1> DEFINE q == open[r]
           row == rows[q.id]
           corrected == [row EXCEPT !.typed = Replaced(@, q.was.typed, q.entry),
                                    !.extractor = Written(@, q.was.extractor, "manual"),
                                    !.status = Written(@, q.was.status, "extracted"),
                                    !.corrected = @ \/ row.external = q.was.external]
<1>1. q.was \in RowType /\ q.entry \in 1..MaxCorrections
  BY DEF Shapes, RequestOK, SaveCorrection
<1>2. RowOK(q.id, row) /\ q.id \in Nat \ {0}
  BY DEF Shapes, RowsOK, SaveCorrection
<1>3. RowOK(q.id, corrected)
  <2>1. row \in RowType
    BY <1>2 DEF RowOK
  <2>2. /\ Replaced(row.typed, q.was.typed, q.entry) \in SUBSET (1..MaxCorrections)
        /\ Replaced(row.typed, q.was.typed, q.entry) # {}
    BY <1>1, <2>1 DEF Replaced, RowType
  <2>3. Written(row.extractor, q.was.extractor, "manual") \in {"none", "rule_based", "manual"}
    BY <2>1 DEF Written, RowType
  <2>4. Written(row.status, q.was.status, "extracted") \in {"pending", "needs_input", "extracted"}
    BY <2>1 DEF Written, RowType
  <2>5. (row.corrected \/ row.external = q.was.external) \in BOOLEAN
    BY <2>1 DEF RowType
  <2>6. corrected \in RowType
    BY <2>1, <2>2, <2>3, <2>4, <2>5 DEF RowType
  <2>7. corrected.path = row.path /\ corrected.photo = row.photo /\ corrected.typed # {}
    BY <2>1, <2>2 DEF RowType
  <2> QED
    BY <1>2, <2>6, <2>7 DEF RowOK
<1>4. rows' = With(q.id, corrected)
  BY DEF SaveCorrection
<1>5. /\ RowsOK(rows')
      /\ 1 \in DOMAIN rows'
      /\ \E n \in Nat : DOMAIN rows' \subseteq 1..n
  BY <1>2, <1>3, <1>4, RowsWith
<1>6. DOMAIN open' = Requests /\ \A p \in Requests : RequestOK(open'[p])
  BY NothingHeld, RequestsStayOK DEF SaveCorrection
<1> QED
  BY <1>5, <1>6 DEF Shapes, SaveCorrection

LEMMA ShapesLoadDocuments ==
    ASSUME Shapes, NEW r \in Requests, LoadDocuments(r)
    PROVE  Shapes'
<1>1. RequestOK([at |-> "loaded", was |-> rows])
  BY DEF RequestOK, Shapes
<1>2. DOMAIN open' = Requests /\ \A q \in Requests : RequestOK(open'[q])
  BY <1>1, RequestsStayOK DEF LoadDocuments
<1> QED
  BY <1>2 DEF Shapes, LoadDocuments

LEMMA ShapesReadDocuments ==
    ASSUME Shapes, NEW r \in Requests, ReadDocuments(r)
    PROVE  Shapes'
<1> DEFINE was == open[r].was
           toRead == {id \in DOMAIN was : ~ ManuallyEntered(was[id])}
           found == [id \in toRead |-> TextAt(was[id].path)]
<1>1. RowsOK(was)
  BY DEF Shapes, RequestOK, ReadDocuments
<1>2. RequestOK([at |-> "read", was |-> was, found |-> found])
  BY <1>1 DEF RequestOK
<1>3. Step(r, [at |-> "read", was |-> was, found |-> found])
  BY DEF ReadDocuments
<1>4. DOMAIN open' = Requests /\ \A q \in Requests : RequestOK(open'[q])
  BY <1>2, <1>3, RequestsStayOK
<1>5. \A p \in Paths : TextAt(p) \in Photos \cup {Mailed, NoPhoto}
  BY DEF Shapes, TextAt, PhotosAt
<1>6. cache' \in PhotosAt
  BY <1>5 DEF Shapes, ReadDocuments, PhotosAt
<1> QED
  BY <1>4, <1>6 DEF Shapes, ReadDocuments

\* A row that a reading has written to keeps its type, and names no human it did not name.
LEMMA JudgedOK ==
    ASSUME NEW id, NEW row, RowOK(id, row), NEW was \in RowType, NEW photo
    PROVE  RowOK(id, [row EXCEPT
                        !.status = Written(@, was.status, Judged(was, photo).status),
                        !.extractor = Written(@, was.extractor, Judged(was, photo).extractor)])
<1> DEFINE status == Written(row.status, was.status, Judged(was, photo).status)
           extractor == Written(row.extractor, was.extractor, Judged(was, photo).extractor)
           written == [row EXCEPT !.status = status, !.extractor = extractor]
<1>1. row \in RowType
  BY DEF RowOK
<1>2. Judged(was, photo).status \in {"extracted", "needs_input"}
  BY DEF Judged, RowType
<1>3. Judged(was, photo).extractor \in {"rule_based", was.extractor}
  BY DEF Judged, RowType
<1>4. status \in {"pending", "needs_input", "extracted"}
  BY <1>1, <1>2 DEF Written, RowType
<1>5. extractor \in {"rule_based", row.extractor}
  BY <1>3 DEF Written
<1> HIDE DEF status, extractor
<1>6. written \in RowType
  BY <1>1, <1>4, <1>5 DEF RowType
<1>7. /\ written.extractor = extractor /\ written.typed = row.typed
      /\ written.path = row.path /\ written.photo = row.photo
  BY <1>1 DEF RowType
<1>8. RowOK(id, written)
  BY <1>5, <1>6, <1>7 DEF RowOK, NamesAHuman
<1> QED
  BY <1>8 DEF status, extractor

LEMMA ShapesSaveReading ==
    ASSUME Shapes, NEW r \in Requests, SaveReading(r)
    PROVE  Shapes'
<1> DEFINE q == open[r]
           judged == [id \in DOMAIN q.found |-> Judged(q.was[id], q.found[id])]
           changed == {id \in DOMAIN q.found : judged[id] # q.was[id]}
<1>1. /\ RowsOK(q.was)
      /\ DOMAIN q.found = {id \in DOMAIN q.was : ~ ManuallyEntered(q.was[id])}
  BY DEF Shapes, RequestOK, SaveReading
<1>2. DOMAIN rows' = DOMAIN rows
  BY DEF SaveReading
<1>3. ASSUME NEW id \in DOMAIN rows
      PROVE  RowOK(id, rows'[id])
  <2>1. RowOK(id, rows[id])
    BY DEF Shapes, RowsOK
  <2>2. CASE id \in changed
    <3> DEFINE was == q.was[id]
               photo == q.found[id]
               written == [rows[id] EXCEPT
                              !.status = Written(@, was.status, Judged(was, photo).status),
                              !.extractor =
                                 Written(@, was.extractor, Judged(was, photo).extractor)]
    <3>1. was \in RowType
      BY <1>1, <2>2 DEF RowsOK, RowOK
    <3>2. RowOK(id, written)
      BY <2>1, <3>1, JudgedOK
    <3>3. rows'[id] = written
      BY <2>2 DEF SaveReading
    <3> QED
      BY <3>2, <3>3
  <2>3. CASE id \notin changed
    <3>1. rows'[id] = rows[id]
      BY <2>3 DEF SaveReading
    <3> QED
      BY <2>1, <3>1
  <2> QED
    BY <2>2, <2>3
<1>4. RowsOK(rows')
  BY <1>2, <1>3 DEF RowsOK
<1>5. DOMAIN open' = Requests /\ \A p \in Requests : RequestOK(open'[p])
  BY NothingHeld, RequestsStayOK DEF SaveReading
<1> QED
  BY <1>2, <1>4, <1>5 DEF Shapes, SaveReading

LEMMA ShapesReset ==
    ASSUME Shapes, NEW r \in Requests, ResetRows(r) \/ ClearUploads(r) \/ Fail(r)
    PROVE  Shapes'
<1>1. CASE ResetRows(r)
  <2>1. RowsOK(rows') /\ DOMAIN rows' = {1}
    BY <1>1, SeedOK DEF ResetRows
  <2>2. 1 \in DOMAIN rows' /\ \E n \in Nat : DOMAIN rows' \subseteq 1..n
    BY <2>1
  <2>3. used' \in [uploads : 0..MaxUploads, corrections : 0..MaxCorrections,
                   resets : 0..MaxResets]
    BY <1>1, EvidenceAssumption DEF Shapes, ResetRows, Use
  <2>4. DOMAIN open' = Requests /\ \A q \in Requests : RequestOK(open'[q])
    BY <1>1, NothingHeld, RequestsStayOK DEF ResetRows
  <2> QED
    BY <1>1, <2>1, <2>2, <2>3, <2>4 DEF Shapes, ResetRows
<1>2. CASE ClearUploads(r)
  <2>1. files' \in PhotosAt
    BY <1>2 DEF ClearUploads, PhotosAt
  <2>2. DOMAIN open' = Requests /\ \A q \in Requests : RequestOK(open'[q])
    BY <1>2, NothingHeld, RequestsStayOK DEF ClearUploads
  <2> QED
    BY <1>2, <2>1, <2>2 DEF Shapes, ClearUploads
<1>3. CASE Fail(r)
  <2>1. DOMAIN open' = Requests /\ \A q \in Requests : RequestOK(open'[q])
    BY <1>3, NothingHeld, RequestsStayOK DEF Fail
  <2> QED
    BY <1>3, <2>1 DEF Shapes, Fail
<1> QED
  BY <1>1, <1>2, <1>3

LEMMA ShapesRestart ==
    ASSUME Shapes, Restart
    PROVE  Shapes'
<1>1. cache' \in PhotosAt
  BY DEF Restart, Warmed, PhotosAt
<1>2. DOMAIN open' = Requests /\ \A q \in Requests : RequestOK(open'[q])
  BY NothingHeld DEF Restart
<1> QED
  BY <1>1, <1>2 DEF Shapes, Restart

\* Every step keeps the types.
LEMMA ShapesStep ==
    ASSUME Shapes, [Next]_vars
    PROVE  Shapes'
<1>1. CASE UNCHANGED vars
  BY <1>1 DEF vars, Shapes
<1>2. CASE Restart
  BY <1>2, ShapesRestart
<1>3. ASSUME NEW r \in Requests, NEW photo \in Photos, Upload(r, photo)
      PROVE  Shapes'
  BY <1>3, ShapesUpload
<1>4. ASSUME NEW r \in Requests, NEW id \in DOMAIN rows, Remove(r, id) \/ Correct(r, id)
      PROVE  Shapes'
  BY <1>4, ShapesRemove, ShapesCorrect
<1>5. ASSUME NEW r \in Requests,
             SaveUpload(r) \/ SaveRemoval(r) \/ SaveCorrection(r)
      PROVE  Shapes'
  BY <1>5, ShapesSaveUpload, ShapesSaveRemoval, ShapesSaveCorrection
<1>6. ASSUME NEW r \in Requests,
             LoadDocuments(r) \/ ReadDocuments(r) \/ SaveReading(r)
      PROVE  Shapes'
  BY <1>6, ShapesLoadDocuments, ShapesReadDocuments, ShapesSaveReading
<1>7. ASSUME NEW r \in Requests, ResetRows(r) \/ ClearUploads(r) \/ Fail(r)
      PROVE  Shapes'
  BY <1>7, ShapesReset
<1> QED
  BY <1>1, <1>2, <1>3, <1>4, <1>5, <1>6, <1>7 DEF Next

\* For every set of photographs, names and requests, each row is one of an evidence_document,
\* and one that names a human holds figures a human entered.
THEOREM EvidenceTypeCorrect == Spec => []EvidenceTypeOK
<1>1. Shapes => EvidenceTypeOK
  BY DEF Shapes, EvidenceTypeOK, RowsOK, RowOK, PhotosAt
<1> QED
  BY <1>1, ShapesInit, ShapesStep, PTL DEF Spec

-----------------------------------------------------------------------------
(* Files *)

\* A request that has written its file and not yet its row has the path to itself.
StoredFiles ==
    \A r \in Requests :
        open[r].at = "storing" /\ open[r].path \notin dangling =>
            /\ files[open[r].path] = open[r].photo
            /\ \A id \in DOMAIN rows : rows[id].path # open[r].path
            /\ \A q \in Requests \ {r} : open[q].at = "storing" => open[q].path # open[r].path

FileInv ==
    /\ files[Pack] = Mailed
    /\ RowsHaveTheirFile
    /\ StoredFiles

\* What a step does to files, besides writing where there is none: it unlinks at these paths.
FilesKept(paths) ==
    /\ Unlinks(paths)
    /\ \A p \in Paths \ paths : files[p] # NoPhoto => files'[p] = files[p]

\* A path that is named after a step and not left dangling was neither before, nor unlinked.
LEMMA NotDangling ==
    ASSUME NEW paths, Unlinks(paths), NEW p \in Named', p \notin dangling'
    PROVE  p \notin dangling /\ p \notin paths
BY DEF Unlinks

\* No step touches the pack, or a file it does not unlink.
LEMMA EveryStepKeepsFiles ==
    ASSUME Shapes, files[Pack] = Mailed, [Next]_vars
    PROVE  \/ UNCHANGED vars
           \/ \E paths \in SUBSET Names : FilesKept(paths)
<1>1. \A r \in Requests, photo \in Photos : Upload(r, photo) => FilesKept({})
  BY UniquePathIsFree DEF Upload, FilesKept, Shapes, PhotosAt
<1>2. ASSUME NEW r \in Requests, NEW id \in DOMAIN rows, Remove(r, id)
      PROVE  \E paths \in SUBSET Names : FilesKept(paths)
  <2>1. rows[id].path \in Names
    BY <1>2 DEF Shapes, RowsOK, RowOK, RowType, Paths, Remove
  <2>2. FilesKept({rows[id].path})
    BY <1>2 DEF Remove, FilesKept, Shapes, PhotosAt
  <2> QED
    BY <2>1, <2>2
<1>3. \A r \in Requests, id \in DOMAIN rows : Correct(r, id) => FilesKept({})
  BY DEF Correct, FilesKept
<1>4. \A r \in Requests :
         SaveUpload(r) \/ SaveRemoval(r) \/ SaveCorrection(r) => FilesKept({})
  BY DEF SaveUpload, SaveRemoval, SaveCorrection, FilesKept
<1>5. \A r \in Requests :
         LoadDocuments(r) \/ ReadDocuments(r) \/ SaveReading(r) => FilesKept({})
  BY DEF LoadDocuments, ReadDocuments, SaveReading, FilesKept
<1>6. \A r \in Requests : ResetRows(r) \/ Fail(r) => FilesKept({})
  BY DEF ResetRows, Fail, FilesKept
<1>7. \A r \in Requests : ClearUploads(r) => FilesKept(Names)
  BY DEF ClearUploads, FilesKept, Paths
<1>8. Restart => FilesKept({})
  BY DEF Restart, FilesKept
<1> QED
  BY <1>1, <1>2, <1>3, <1>4, <1>5, <1>6, <1>7, <1>8 DEF Next

\* Rows that are there after a step were there before, with the same path and photograph.
RowsKept ==
    \A id \in DOMAIN rows' :
        /\ id \in DOMAIN rows
        /\ rows'[id].path = rows[id].path
        /\ rows'[id].photo = rows[id].photo

\* Files stay with their rows in a step that makes neither.
LEMMA FilesStay ==
    ASSUME Shapes, FileInv, RowsKept,
           NEW paths \in SUBSET Names, FilesKept(paths),
           \A q \in Requests : open'[q].at = "storing" => open'[q] = open[q]
    PROVE  FileInv'
<1>1. files'[Pack] = Mailed
  BY EvidenceAssumption DEF FileInv, FilesKept, Paths, Pack
<1>2. ASSUME NEW id \in DOMAIN rows', rows'[id].path \notin dangling'
      PROVE  /\ files'[rows'[id].path] = rows'[id].photo
             /\ rows'[id].path # Pack =>
                   \A other \in DOMAIN rows' \ {id} : rows'[other].path # rows'[id].path
  <2>1. rows'[id].path \in Named'
    BY DEF Named, PathsOf
  <2>2. /\ id \in DOMAIN rows /\ rows'[id].path = rows[id].path
        /\ rows'[id].photo = rows[id].photo
    BY DEF RowsKept
  <2>3. rows[id].path \notin dangling /\ rows[id].path \notin paths
    BY <1>2, <2>1, <2>2, NotDangling DEF FilesKept
  <2>4. /\ files[rows[id].path] = rows[id].photo
        /\ rows[id].path # Pack =>
              \A other \in DOMAIN rows \ {id} : rows[other].path # rows[id].path
    BY <2>2, <2>3 DEF FileInv, RowsHaveTheirFile
  <2>5. rows[id].path \in Paths /\ rows[id].photo # NoPhoto
    BY <2>2, EvidenceAssumption DEF Shapes, RowsOK, RowOK, RowType
  <2>6. files'[rows[id].path] = rows[id].photo
    BY <2>3, <2>4, <2>5 DEF FilesKept
  <2> QED
    BY <2>2, <2>4, <2>6 DEF RowsKept
<1>3. ASSUME NEW r \in Requests, open'[r].at = "storing", open'[r].path \notin dangling'
      PROVE  /\ files'[open'[r].path] = open'[r].photo
             /\ \A id \in DOMAIN rows' : rows'[id].path # open'[r].path
             /\ \A q \in Requests \ {r} :
                   open'[q].at = "storing" => open'[q].path # open'[r].path
  <2>1. open'[r].path \in Named'
    BY <1>3 DEF Named, PathsHeld
  <2>2. open'[r] = open[r]
    BY <1>3
  <2>3. open[r].path \notin dangling /\ open[r].path \notin paths
    BY <1>3, <2>1, <2>2, NotDangling DEF FilesKept
  <2>4. /\ files[open[r].path] = open[r].photo
        /\ \A id \in DOMAIN rows : rows[id].path # open[r].path
        /\ \A q \in Requests \ {r} : open[q].at = "storing" => open[q].path # open[r].path
    BY <1>3, <2>2, <2>3 DEF FileInv, StoredFiles
  <2>5. open[r].path \in Paths /\ open[r].photo # NoPhoto
    BY <1>3, <2>2, EvidenceAssumption DEF Shapes, RequestOK, Paths
  <2>6. files'[open[r].path] = open[r].photo
    BY <2>3, <2>4, <2>5 DEF FilesKept
  <2> QED
    BY <2>2, <2>4, <2>6 DEF RowsKept
<1>4. RowsHaveTheirFile' /\ StoredFiles'
  BY <1>2, <1>3 DEF RowsHaveTheirFile, StoredFiles
<1> QED
  BY <1>1, <1>4 DEF FileInv

\* An upload's file goes where no row and no other upload has one.
LEMMA FilesUpload ==
    ASSUME Shapes, FileInv, NEW r \in Requests, NEW photo \in Photos, Upload(r, photo)
    PROVE  FileInv'
<1> DEFINE path == UniquePath
<1>1. path \in Names /\ files[path] = NoPhoto /\ path # Pack
  BY UniquePathIsFree, EvidenceAssumption DEF Upload, Pack
<1> HIDE DEF path
<1>2. /\ files' = [files EXCEPT ![path] = photo]
      /\ files'[path] = photo
      /\ \A p \in Paths \ {path} : files'[p] = files[p]
      /\ rows' = rows
  BY <1>1 DEF Upload, path, Shapes, PhotosAt, Paths
<1>3. /\ open'[r].at = "storing" /\ open'[r].path = path /\ open'[r].photo = photo
      /\ \A q \in Requests \ {r} : open'[q] = open[q]
  BY OneStep DEF Upload, Shapes, path
<1>4. \A p \in Named' : p \notin dangling' => p \notin dangling
  BY NotDangling DEF Upload
<1>5. files'[Pack] = Mailed
  BY <1>1, <1>2 DEF FileInv, Paths
<1>6. ASSUME NEW id \in DOMAIN rows, rows[id].path \notin dangling'
      PROVE  /\ rows[id].path \notin dangling
             /\ rows[id].path # path
             /\ files'[rows[id].path] = rows[id].photo
  <2>1. rows[id].path \in Named'
    BY <1>2 DEF Named, PathsOf
  <2>2. rows[id].path \notin dangling
    BY <1>4, <1>6, <2>1
  <2>3. files[rows[id].path] = rows[id].photo
    BY <2>2 DEF FileInv, RowsHaveTheirFile
  <2>4. rows[id].path \in Paths /\ rows[id].photo # NoPhoto
    BY EvidenceAssumption DEF Shapes, RowsOK, RowOK, RowType
  <2> QED
    BY <1>1, <1>2, <2>2, <2>3, <2>4
<1>7. ASSUME NEW q \in Requests \ {r}, open[q].at = "storing", open[q].path \notin dangling'
      PROVE  /\ open[q].path \notin dangling
             /\ open[q].path # path
             /\ files'[open[q].path] = open[q].photo
  <2>1. open[q].path \in Named'
    BY <1>3, <1>7 DEF Named, PathsHeld
  <2>2. open[q].path \notin dangling
    BY <1>4, <1>7, <2>1
  <2>3. files[open[q].path] = open[q].photo
    BY <1>7, <2>2 DEF FileInv, StoredFiles
  <2>4. open[q].path \in Paths /\ open[q].photo # NoPhoto
    BY <1>7, EvidenceAssumption DEF Shapes, RequestOK, Paths
  <2> QED
    BY <1>1, <1>2, <2>2, <2>3, <2>4
<1>8. RowsHaveTheirFile'
  BY <1>2, <1>6 DEF FileInv, RowsHaveTheirFile
<1>9. ASSUME NEW q \in Requests, open'[q].at = "storing", open'[q].path \notin dangling'
      PROVE  /\ files'[open'[q].path] = open'[q].photo
             /\ \A id \in DOMAIN rows' : rows'[id].path # open'[q].path
             /\ \A o \in Requests \ {q} :
                   open'[o].at = "storing" => open'[o].path # open'[q].path
  <2>1. CASE q = r
    <3>1. \A id \in DOMAIN rows : rows[id].path # path
      BY <1>3, <1>6, <1>9, <2>1
    <3>2. \A o \in Requests \ {r} : open[o].at = "storing" => open[o].path # path
      BY <1>3, <1>7, <1>9, <2>1
    <3> QED
      BY <1>2, <1>3, <2>1, <3>1, <3>2
  <2>2. CASE q # r
    <3>1. open'[q] = open[q] /\ open[q].at = "storing" /\ open[q].path \notin dangling'
      BY <1>3, <1>9, <2>2
    <3>2. /\ open[q].path \notin dangling /\ open[q].path # path
          /\ files'[open[q].path] = open[q].photo
      BY <1>7, <2>2, <3>1
    <3>3. /\ \A id \in DOMAIN rows : rows[id].path # open[q].path
          /\ \A o \in Requests \ {q} : open[o].at = "storing" => open[o].path # open[q].path
      BY <3>1, <3>2 DEF FileInv, StoredFiles
    <3> QED
      BY <1>2, <1>3, <3>1, <3>2, <3>3
  <2> QED
    BY <2>1, <2>2
<1>10. StoredFiles'
  BY <1>9 DEF StoredFiles
<1> QED
  BY <1>5, <1>8, <1>10 DEF FileInv

\* The row of an upload takes over the path its request had to itself.
LEMMA FilesSaveUpload ==
    ASSUME Shapes, FileInv, NEW r \in Requests, SaveUpload(r)
    PROVE  FileInv'
<1> DEFINE path == open[r].path
           photo == open[r].photo
<1>1. open[r].at = "storing"
  BY DEF SaveUpload
<1>2. NewId \notin DOMAIN rows
  BY NewIdIsNew
<1>3. /\ DOMAIN rows' = DOMAIN rows \cup {NewId}
      /\ rows'[NewId].path = path /\ rows'[NewId].photo = photo
      /\ \A id \in DOMAIN rows : rows'[id] = rows[id]
      /\ files' = files
  BY <1>2 DEF SaveUpload, With, Document
<1>4. open'[r] = Idle /\ \A q \in Requests \ {r} : open'[q] = open[q]
  BY OneStep DEF SaveUpload, Shapes
<1>5. \A p \in Named' : p \notin dangling' => p \notin dangling
  BY NotDangling DEF SaveUpload
<1>6. ASSUME path \notin dangling'
      PROVE  /\ files[path] = photo
             /\ \A id \in DOMAIN rows : rows[id].path # path
             /\ \A q \in Requests \ {r} : open[q].at = "storing" => open[q].path # path
  <2>1. path \in Named'
    BY <1>3 DEF Named, PathsOf
  <2>2. path \notin dangling
    BY <1>5, <1>6, <2>1
  <2> QED
    BY <1>1, <2>2 DEF FileInv, StoredFiles
<1>7. ASSUME NEW id \in DOMAIN rows, rows[id].path \notin dangling'
      PROVE  /\ files[rows[id].path] = rows[id].photo
             /\ rows[id].path # Pack =>
                   \A other \in DOMAIN rows \ {id} : rows[other].path # rows[id].path
  <2>1. rows[id].path \in Named'
    BY <1>3 DEF Named, PathsOf
  <2>2. rows[id].path \notin dangling
    BY <1>5, <1>7, <2>1
  <2> QED
    BY <2>2 DEF FileInv, RowsHaveTheirFile
<1>8. RowsHaveTheirFile'
  <2> SUFFICES ASSUME NEW id \in DOMAIN rows', rows'[id].path \notin dangling'
               PROVE  /\ files[rows'[id].path] = rows'[id].photo
                      /\ rows'[id].path # Pack =>
                            \A other \in DOMAIN rows' \ {id} : rows'[other].path # rows'[id].path
    BY <1>3 DEF RowsHaveTheirFile
  <2>1. CASE id = NewId
    BY <1>2, <1>3, <1>6, <2>1
  <2>2. CASE id \in DOMAIN rows
    <3>1. rows'[id] = rows[id] /\ rows[id].path \notin dangling'
      BY <1>3, <2>2
    <3>2. rows[id].path # path
      BY <1>6, <2>2, <3>1
    <3> QED
      BY <1>3, <1>7, <2>2, <3>1, <3>2
  <2> QED
    BY <1>3, <2>1, <2>2
<1>9. StoredFiles'
  <2> SUFFICES ASSUME NEW q \in Requests,
                      open'[q].at = "storing", open'[q].path \notin dangling'
               PROVE  /\ files[open'[q].path] = open'[q].photo
                      /\ \A id \in DOMAIN rows' : rows'[id].path # open'[q].path
                      /\ \A o \in Requests \ {q} :
                            open'[o].at = "storing" => open'[o].path # open'[q].path
    BY <1>3 DEF StoredFiles
  <2>1. q # r /\ open'[q] = open[q]
    BY <1>4 DEF Idle
  <2>2. open'[q].path \in Named'
    BY DEF Named, PathsHeld
  <2>3. open[q].path \notin dangling
    BY <1>5, <2>1, <2>2
  <2>4. /\ files[open[q].path] = open[q].photo
        /\ \A id \in DOMAIN rows : rows[id].path # open[q].path
        /\ \A o \in Requests \ {q} : open[o].at = "storing" => open[o].path # open[q].path
    BY <2>1, <2>3 DEF FileInv, StoredFiles
  <2>5. \A id \in DOMAIN rows' : rows'[id].path # open[q].path
    BY <1>1, <1>3, <2>1, <2>4
  <2>6. \A o \in Requests \ {q} : open'[o].at = "storing" => open'[o].path # open[q].path
    BY <1>4, <2>4 DEF Idle
  <2> QED
    BY <2>1, <2>4, <2>5, <2>6
<1>10. files'[Pack] = Mailed
  BY <1>3 DEF FileInv
<1> QED
  BY <1>8, <1>9, <1>10 DEF FileInv

\* Every step keeps files and rows together.
LEMMA FileStep ==
    ASSUME Shapes, FileInv, [Next]_vars
    PROVE  FileInv'
<1>1. CASE UNCHANGED vars
  BY <1>1 DEF vars, FileInv, RowsHaveTheirFile, StoredFiles
<1>2. ASSUME NEW r \in Requests, NEW photo \in Photos, Upload(r, photo)
      PROVE  FileInv'
  BY <1>2, FilesUpload
<1>3. ASSUME NEW r \in Requests, SaveUpload(r)
      PROVE  FileInv'
  BY <1>3, FilesSaveUpload
<1> DEFINE StoringKept == \A q \in Requests : open'[q].at = "storing" => open'[q] = open[q]
<1>4. ASSUME NEW r \in Requests, NEW next, Step(r, next), next.at # "storing"
      PROVE  StoringKept
  BY <1>4, OneStep DEF Shapes
<1>5. ASSUME NEW r \in Requests, NEW id \in DOMAIN rows, Remove(r, id) \/ Correct(r, id)
      PROVE  RowsKept /\ StoringKept
  <2>1. RowsKept
    BY <1>5 DEF Remove, Correct, RowsKept
  <2>2. CASE Remove(r, id)
    <3>1. Step(r, [at |-> "removing", id |-> id])
      BY <2>2 DEF Remove
    <3> QED
      BY <2>1, <3>1, <1>4
  <2>3. CASE Correct(r, id)
    <3>1. Step(r, [at |-> "correcting", id |-> id, was |-> rows[id],
                   entry |-> used.corrections + 1])
      BY <2>3 DEF Correct
    <3> QED
      BY <2>1, <3>1, <1>4
  <2> QED
    BY <1>5, <2>2, <2>3
<1>6. ASSUME NEW r \in Requests, SaveRemoval(r) \/ SaveCorrection(r) \/ SaveReading(r)
      PROVE  RowsKept /\ StoringKept
  <2>1. Step(r, Idle)
    BY <1>6 DEF SaveRemoval, SaveCorrection, SaveReading
  <2>2. StoringKept
    BY <1>4, <2>1 DEF Idle
  <2>3. \A id \in DOMAIN rows : rows[id] \in RowType
    BY DEF Shapes, RowsOK, RowOK
  <2>4. CASE SaveRemoval(r)
    BY <2>2, <2>4 DEF SaveRemoval, Without, RowsKept
  <2>5. CASE SaveCorrection(r)
    BY <2>2, <2>3, <2>5 DEF SaveCorrection, With, RowsKept, RowType
  <2>6. CASE SaveReading(r)
    BY <2>2, <2>3, <2>6 DEF SaveReading, RowsKept, RowType
  <2> QED
    BY <1>6, <2>4, <2>5, <2>6
<1>7. ASSUME NEW r \in Requests, LoadDocuments(r) \/ ReadDocuments(r)
      PROVE  RowsKept /\ StoringKept
  <2>1. RowsKept
    BY <1>7 DEF LoadDocuments, ReadDocuments, RowsKept
  <2>2. CASE LoadDocuments(r)
    <3>1. Step(r, [at |-> "loaded", was |-> rows])
      BY <2>2 DEF LoadDocuments
    <3> QED
      BY <2>1, <3>1, <1>4
  <2>3. CASE ReadDocuments(r)
    <3>1. PICK found : Step(r, [at |-> "read", was |-> open[r].was, found |-> found])
      BY <2>3 DEF ReadDocuments
    <3> QED
      BY <2>1, <3>1, <1>4
  <2> QED
    BY <1>7, <2>2, <2>3
<1>8. ASSUME NEW r \in Requests, ResetRows(r) \/ ClearUploads(r) \/ Fail(r)
      PROVE  RowsKept /\ StoringKept
  <2>1. CASE ResetRows(r)
    <3>1. Step(r, [at |-> "resetting"])
      BY <2>1 DEF ResetRows
    <3>2. StoringKept
      BY <3>1, <1>4
    <3>3. 1 \in DOMAIN rows /\ rows[1].path = Pack /\ rows[1].photo = Mailed
      BY DEF Shapes, RowsOK, RowOK
    <3>4. RowsKept
      BY <2>1, <3>3 DEF ResetRows, Seeded, Document, RowsKept
    <3> QED
      BY <3>2, <3>4
  <2>2. CASE ClearUploads(r) \/ Fail(r)
    <3>1. Step(r, Idle)
      BY <2>2 DEF ClearUploads, Fail
    <3>2. StoringKept
      BY <3>1, <1>4 DEF Idle
    <3> QED
      BY <2>2, <3>2 DEF ClearUploads, Fail, RowsKept
  <2> QED
    BY <1>8, <2>1, <2>2
<1>9. ASSUME Restart
      PROVE  RowsKept /\ StoringKept
  BY <1>9 DEF Restart, RowsKept, Idle
<1> HIDE DEF StoringKept
<1>10. ASSUME Next, RowsKept, StoringKept
       PROVE  FileInv'
  <2>1. CASE UNCHANGED vars
    BY <1>1, <2>1
  <2>2. ASSUME NEW paths \in SUBSET Names, FilesKept(paths)
        PROVE  FileInv'
    BY <1>10, <2>2, FilesStay DEF StoringKept
  <2> QED
    BY <1>10, <2>1, <2>2, EveryStepKeepsFiles DEF FileInv
<1>11. ASSUME Next
       PROVE  FileInv'
  BY <1>11, <1>2, <1>3, <1>5, <1>6, <1>7, <1>8, <1>9, <1>10 DEF Next
<1> QED
  BY <1>1, <1>11

LEMMA FileInit == Init => FileInv
<1> SUFFICES ASSUME Init PROVE FileInv
  OBVIOUS
<1>1. files[Pack] = Mailed
  BY DEF Init, Paths
<1>2. DOMAIN rows = {1} /\ rows[1].path = Pack /\ rows[1].photo = Mailed
  BY DEF Init, Seeded, Document
<1>3. RowsHaveTheirFile
  BY <1>1, <1>2 DEF RowsHaveTheirFile
<1>4. StoredFiles
  BY DEF StoredFiles, Init, Idle
<1> QED
  BY <1>1, <1>3, <1>4 DEF FileInv

\* For any number of requests: unless somebody unlinked the file under a row, every row has the
\* photograph that was uploaded for it, and has it to itself.
THEOREM RowsKeepTheirFile == Spec => []RowsHaveTheirFile
<1>1. Shapes /\ FileInv /\ [Next]_vars => Shapes' /\ FileInv'
  BY ShapesStep, FileStep
<1>2. Init => Shapes /\ FileInv
  BY ShapesInit, FileInit
<1>3. FileInv => RowsHaveTheirFile
  BY DEF FileInv
<1> QED
  BY <1>1, <1>2, <1>3, PTL DEF Spec

-----------------------------------------------------------------------------
(* Figures *)

\* The cache has the text of the file that is there, under a path that was never freed.
CacheOwn ==
    \A p \in Paths \ freed : cache[p] # NoPhoto => cache[p] = files[p]

\* What a request holds of a row whose path was never freed: its file is the row's, and so is
\* what was found in it.
HeldOwn ==
    \A r \in Requests :
        /\ open[r].at \in {"loaded", "read"} =>
              \A id \in DOMAIN open[r].was :
                  open[r].was[id].path \notin freed =>
                      files[open[r].was[id].path] = open[r].was[id].photo
        /\ open[r].at = "read" =>
              \A id \in DOMAIN open[r].found :
                  open[r].was[id].path \notin freed =>
                      open[r].found[id] \in {NoPhoto, open[r].was[id].photo}

FigureInv == dangling \subseteq freed /\ CacheOwn /\ HeldOwn

\* What was freed stays so, and a file under a path that was not stays.
LEMMA UnfreedFilesStay ==
    ASSUME Shapes, FileInv, dangling \subseteq freed, [Next]_vars
    PROVE  /\ freed \subseteq freed' /\ dangling' \subseteq freed'
           /\ \A p \in Paths \ freed' : files[p] # NoPhoto => files'[p] = files[p]
<1>1. CASE UNCHANGED vars
  BY <1>1 DEF vars
<1>2. ASSUME NEW paths \in SUBSET Names, FilesKept(paths)
      PROVE  /\ freed \subseteq freed' /\ dangling' \subseteq freed'
             /\ \A p \in Paths \ freed' : files[p] # NoPhoto => files'[p] = files[p]
  BY <1>2 DEF FilesKept, Unlinks
<1> QED
  BY <1>1, <1>2, EveryStepKeepsFiles DEF FileInv

\* What an attachment is read as, under a path that was never freed.
LEMMA TextIsOwn ==
    ASSUME Shapes, CacheOwn, NEW p \in Paths \ freed
    PROVE  TextAt(p) \in {NoPhoto, files[p]}
BY DEF TextAt, CacheOwn

\* Every step keeps the cache to the files that are there.
LEMMA CacheStep ==
    ASSUME Shapes, FileInv, FigureInv, [Next]_vars
    PROVE  CacheOwn'
<1> SUFFICES ASSUME NEW p \in Paths \ freed', cache'[p] # NoPhoto
             PROVE  cache'[p] = files'[p]
  BY DEF CacheOwn
<1>1. p \notin freed /\ (files[p] # NoPhoto => files'[p] = files[p])
  BY UnfreedFilesStay DEF FigureInv
<1>2. CASE cache' = cache
  BY <1>1, <1>2 DEF FigureInv, CacheOwn
<1>3. ASSUME NEW r \in Requests, ReadDocuments(r)
      PROVE  cache'[p] = files'[p]
  <2>1. cache'[p] \in {TextAt(p), cache[p]}
    BY <1>3 DEF ReadDocuments
  <2>2. CASE cache'[p] = cache[p]
    BY <1>1, <2>2 DEF FigureInv, CacheOwn
  <2>3. CASE cache'[p] = TextAt(p)
    BY <1>1, <2>3, TextIsOwn DEF FigureInv
  <2> QED
    BY <2>1, <2>2, <2>3
<1>4. CASE Restart
  BY <1>1, <1>4 DEF Restart, Warmed, FileInv
<1>5. cache' = cache \/ Restart \/ \E r \in Requests : ReadDocuments(r)
  BY DEF Next, vars, Upload, SaveUpload, Remove, SaveRemoval, Correct, SaveCorrection,
         LoadDocuments, SaveReading, ResetRows, ClearUploads, Fail
<1> QED
  BY <1>2, <1>3, <1>4, <1>5

\* Which steps make a request hold rows.
LEMMA OnlyReadsHold ==
    ASSUME Shapes, [Next]_vars, NEW q \in Requests, open'[q].at \in {"loaded", "read"}
    PROVE  open'[q] = open[q] \/ LoadDocuments(q) \/ ReadDocuments(q)
<1>1. CASE UNCHANGED vars
  BY <1>1 DEF vars
<1>2. CASE Restart
  BY <1>2 DEF Restart, Idle
<1>3. ASSUME NEW r \in Requests, NEW next, Step(r, next), next.at \notin {"loaded", "read"}
      PROVE  open'[q] = open[q]
  BY <1>3, OneStep DEF Shapes
<1>4. ASSUME NEW r \in Requests, NEW photo \in Photos, Upload(r, photo)
      PROVE  open'[q] = open[q]
  <2>1. Step(r, [at |-> "storing", path |-> UniquePath, photo |-> photo,
                 external |-> used.uploads + 1])
    BY <1>4 DEF Upload
  <2> QED
    BY <2>1, <1>3
<1>5. ASSUME NEW r \in Requests, NEW id \in DOMAIN rows, Remove(r, id)
      PROVE  open'[q] = open[q]
  <2>1. Step(r, [at |-> "removing", id |-> id])
    BY <1>5 DEF Remove
  <2> QED
    BY <2>1, <1>3
<1>6. ASSUME NEW r \in Requests, NEW id \in DOMAIN rows, Correct(r, id)
      PROVE  open'[q] = open[q]
  <2>1. Step(r, [at |-> "correcting", id |-> id, was |-> rows[id],
                 entry |-> used.corrections + 1])
    BY <1>6 DEF Correct
  <2> QED
    BY <2>1, <1>3
<1>7. ASSUME NEW r \in Requests,
             \/ SaveUpload(r) \/ SaveRemoval(r) \/ SaveCorrection(r)
             \/ SaveReading(r) \/ ClearUploads(r) \/ Fail(r)
      PROVE  open'[q] = open[q]
  <2>1. Step(r, Idle)
    BY <1>7 DEF SaveUpload, SaveRemoval, SaveCorrection, SaveReading, ClearUploads, Fail
  <2> QED
    BY <2>1, <1>3 DEF Idle
<1>8. ASSUME NEW r \in Requests, ResetRows(r)
      PROVE  open'[q] = open[q]
  <2>1. Step(r, [at |-> "resetting"])
    BY <1>8 DEF ResetRows
  <2> QED
    BY <2>1, <1>3
<1>9. ASSUME NEW r \in Requests, LoadDocuments(r) \/ ReadDocuments(r)
      PROVE  open'[q] = open[q] \/ q = r
  BY <1>9, OneStep DEF LoadDocuments, ReadDocuments, Shapes
<1> QED
  BY <1>1, <1>2, <1>4, <1>5, <1>6, <1>7, <1>8, <1>9 DEF Next

\* Every step keeps what requests hold to the rows' own files.
LEMMA HeldStep ==
    ASSUME Shapes, FileInv, FigureInv, [Next]_vars
    PROVE  HeldOwn'
<1>1. /\ freed \subseteq freed'
      /\ \A p \in Paths \ freed' : files[p] # NoPhoto => files'[p] = files[p]
  BY UnfreedFilesStay DEF FigureInv
<1>2. ASSUME NEW some, RowsOK(some), NEW id \in DOMAIN some, some[id].path \notin freed',
             files[some[id].path] = some[id].photo
      PROVE  files'[some[id].path] = some[id].photo
  <2>1. some[id].path \in Paths /\ some[id].photo # NoPhoto
    BY <1>2, EvidenceAssumption DEF RowsOK, RowOK, RowType
  <2> QED
    BY <1>1, <1>2, <2>1
<1>3. ASSUME NEW q \in Requests, open'[q].at \in {"loaded", "read"},
             NEW id \in DOMAIN open'[q].was, open'[q].was[id].path \notin freed'
      PROVE  files'[open'[q].was[id].path] = open'[q].was[id].photo
  <2>1. CASE open'[q] = open[q]
    <3>1. RowsOK(open[q].was)
      BY <1>3, <2>1 DEF Shapes, RequestOK
    <3>2. files[open[q].was[id].path] = open[q].was[id].photo
      BY <1>1, <1>3, <2>1 DEF FigureInv, HeldOwn
    <3> QED
      BY <1>2, <1>3, <2>1, <3>1, <3>2
  <2>2. CASE LoadDocuments(q)
    <3>1. open'[q].was = rows
      BY <2>2, OneStep DEF LoadDocuments, Shapes
    <3>2. RowsOK(rows)
      BY DEF Shapes
    <3>3. files[rows[id].path] = rows[id].photo
      BY <1>1, <1>3, <3>1 DEF FileInv, RowsHaveTheirFile, FigureInv
    <3> QED
      BY <1>2, <1>3, <3>1, <3>2, <3>3
  <2>3. CASE ReadDocuments(q)
    <3>1. open[q].at = "loaded" /\ open'[q].was = open[q].was
      BY <2>3, OneStep DEF ReadDocuments, Shapes
    <3>2. RowsOK(open[q].was)
      BY <3>1 DEF Shapes, RequestOK
    <3>3. files[open[q].was[id].path] = open[q].was[id].photo
      BY <1>1, <1>3, <3>1 DEF FigureInv, HeldOwn
    <3> QED
      BY <1>2, <1>3, <3>1, <3>2, <3>3
  <2> QED
    BY <1>3, <2>1, <2>2, <2>3, OnlyReadsHold
<1>4. ASSUME NEW q \in Requests, open'[q].at = "read",
             NEW id \in DOMAIN open'[q].found, open'[q].was[id].path \notin freed'
      PROVE  open'[q].found[id] \in {NoPhoto, open'[q].was[id].photo}
  <2>1. CASE open'[q] = open[q]
    BY <1>1, <1>4, <2>1 DEF FigureInv, HeldOwn
  <2>2. CASE LoadDocuments(q)
    BY <1>4, <2>2, OneStep DEF LoadDocuments, Shapes
  <2>3. CASE ReadDocuments(q)
    <3> DEFINE was == open[q].was
               toRead == {i \in DOMAIN was : ~ ManuallyEntered(was[i])}
               found == [i \in toRead |-> TextAt(was[i].path)]
    <3>1. open'[q] = [at |-> "read", was |-> was, found |-> found]
      BY <2>3, OneStep DEF ReadDocuments, Shapes
    <3>2. /\ open'[q].was = was /\ id \in DOMAIN was
          /\ open'[q].found[id] = TextAt(was[id].path)
      BY <1>4, <3>1
    <3>3. open[q].at = "loaded" /\ was[id].path \notin freed' /\ was[id].path \notin freed
      BY <1>1, <1>4, <2>3, <3>2 DEF ReadDocuments
    <3>4. was[id].path \in Paths
      BY <3>2, <3>3 DEF Shapes, RequestOK, RowsOK, RowOK, RowType
    <3>5. TextAt(was[id].path) \in {NoPhoto, files[was[id].path]}
      BY <3>3, <3>4, TextIsOwn DEF FigureInv
    <3>6. files[was[id].path] = was[id].photo
      BY <3>2, <3>3 DEF FigureInv, HeldOwn
    <3> HIDE DEF was, found
    <3> QED
      BY <3>2, <3>5, <3>6
  <2> QED
    BY <1>4, <2>1, <2>2, <2>3, OnlyReadsHold
<1> QED
  BY <1>3, <1>4 DEF HeldOwn

LEMMA FigureInit == Init => FigureInv
<1> SUFFICES ASSUME Init PROVE FigureInv
  OBVIOUS
<1>1. CacheOwn
  BY DEF CacheOwn, Init, Warmed
<1>2. HeldOwn
  BY DEF HeldOwn, Init, Idle
<1> QED
  BY <1>1, <1>2 DEF FigureInv, Init

LEMMA FigureStep ==
    ASSUME Shapes, FileInv, FigureInv, [Next]_vars
    PROVE  FigureInv'
BY UnfreedFilesStay, CacheStep, HeldStep DEF FigureInv

\* For any number of requests: figures read for a bill whose path was never freed are those of
\* its own photograph.
THEOREM FiguresStayOwn == Spec => []FiguresAreOwnUnlessFreed
<1>1. Shapes /\ FileInv /\ FigureInv /\ [Next]_vars => Shapes' /\ FileInv' /\ FigureInv'
  BY ShapesStep, FileStep, FigureStep
<1>2. Init => Shapes /\ FileInv /\ FigureInv
  BY ShapesInit, FileInit, FigureInit
<1>3. FigureInv => FiguresAreOwnUnlessFreed
  BY DEF FigureInv, HeldOwn, FiguresAreOwnUnlessFreed, Misreads, Reading
<1> QED
  BY <1>1, <1>2, <1>3, PTL DEF Spec

-----------------------------------------------------------------------------
(* Corrections *)

\* A bill of which nothing but a correction can bring figures.
Unreadable(row) == row.fresh /\ row.photo \notin Readable /\ row.path \notin freed

\* A row that is fresh is the one a reading under way has selected.
SameRow ==
    \A r \in Requests :
        open[r].at \in {"loaded", "read"} =>
            \A id \in DOMAIN open[r].was \cap DOMAIN rows :
                rows[id].fresh => /\ open[r].was[id].path = rows[id].path
                                  /\ open[r].was[id].photo = rows[id].photo

\* A correction under way that found the row corrected already will find it so.
StillManual ==
    \A r \in Requests :
        /\ open[r].at = "correcting"
        /\ open[r].id \in DOMAIN rows
        /\ Unreadable(rows[open[r].id])
        /\ NamesAHuman(open[r].was)
        => NamesAHuman(rows[open[r].id])

CorrectionInv == SameRow /\ StillManual /\ CorrectionsStand

\* A row that a step leaves as fresh as it was, and as much the claimant's.
RowStands(id) ==
    /\ id \in DOMAIN rows
    /\ rows'[id].path = rows[id].path
    /\ rows'[id].photo = rows[id].photo
    /\ rows'[id].fresh = rows[id].fresh
    /\ Unreadable(rows[id]) =>
          /\ NamesAHuman(rows[id]) => NamesAHuman(rows'[id])
          /\ rows'[id].corrected => rows[id].corrected \/ NamesAHuman(rows'[id])

\* A row that a step has made.
RowIsNew(id) == ~ rows'[id].corrected /\ (rows'[id].fresh => id \notin Held)

\* Corrections stand if the rows do and no request takes another row into its hands.
LEMMA CorrectionsStay ==
    ASSUME Shapes, Shapes', CorrectionInv, freed \subseteq freed',
           \A id \in DOMAIN rows' : RowStands(id) \/ RowIsNew(id),
           \A q \in Requests : \/ open'[q] = open[q]
                               \/ open'[q].at \notin {"loaded", "read", "correcting"}
    PROVE  CorrectionInv'
<1>1. ASSUME NEW q \in Requests, open'[q].at \in {"loaded", "read"},
             NEW id \in DOMAIN open'[q].was \cap DOMAIN rows', rows'[id].fresh
      PROVE  /\ open'[q].was[id].path = rows'[id].path
             /\ open'[q].was[id].photo = rows'[id].photo
  <2>1. open'[q] = open[q]
    BY <1>1
  <2>2. id \in Held
    BY <1>1, <2>1 DEF Held, IdsHeld
  <2>3. RowStands(id)
    BY <1>1, <2>2 DEF RowIsNew
  <2> QED
    BY <1>1, <2>1, <2>3 DEF RowStands, CorrectionInv, SameRow
<1>2. ASSUME NEW q \in Requests, open'[q].at = "correcting", open'[q].id \in DOMAIN rows',
             Unreadable(rows[open[q].id])', NamesAHuman(open'[q].was)
      PROVE  NamesAHuman(rows'[open'[q].id])
  <2> DEFINE id == open[q].id
  <2>1. open'[q] = open[q]
    BY <1>2
  <2>2. id \in Held
    BY <1>2, <2>1 DEF Held, IdsHeld
  <2>3. RowStands(id)
    BY <1>2, <2>1, <2>2 DEF RowIsNew, Unreadable
  <2>4. id \in DOMAIN rows /\ Unreadable(rows[id])
    BY <1>2, <2>1, <2>3 DEF RowStands, Unreadable
  <2>5. NamesAHuman(rows[id])
    BY <1>2, <2>1, <2>4 DEF CorrectionInv, StillManual
  <2> QED
    BY <2>1, <2>3, <2>4, <2>5 DEF RowStands
<1>3. ASSUME NEW id \in DOMAIN rows', rows'[id].corrected, Unreadable(rows[id])'
      PROVE  ManuallyEntered(rows'[id])
  <2>1. RowStands(id)
    BY <1>3 DEF RowIsNew
  <2>2. Unreadable(rows[id])
    BY <1>3, <2>1 DEF RowStands, Unreadable
  <2>3. rows[id].corrected => NamesAHuman(rows[id])
    BY <2>1, <2>2 DEF RowStands, CorrectionInv, CorrectionsStand, ManuallyEntered, Unreadable
  <2>4. NamesAHuman(rows'[id])
    BY <1>3, <2>1, <2>2, <2>3 DEF RowStands
  <2>5. RowOK(id, rows'[id])
    BY DEF Shapes, RowsOK
  <2> QED
    BY <2>4, <2>5 DEF RowOK, ManuallyEntered
<1>4. SameRow'
  BY <1>1 DEF SameRow
<1>5. StillManual'
  BY <1>2 DEF StillManual
<1>6. CorrectionsStand'
  BY <1>3 DEF CorrectionsStand, Unreadable
<1> QED
  BY <1>4, <1>5, <1>6 DEF CorrectionInv

\* The steps that leave rows alone or take some away, and hold nothing new.
LEMMA QuietSteps ==
    ASSUME Shapes, NEW r \in Requests, NEW next, Step(r, next),
           next.at \notin {"loaded", "read", "correcting"},
           \A id \in DOMAIN rows' : id \in DOMAIN rows /\ rows'[id] = rows[id]
    PROVE  /\ \A id \in DOMAIN rows' : RowStands(id)
           /\ \A q \in Requests : \/ open'[q] = open[q]
                                  \/ open'[q].at \notin {"loaded", "read", "correcting"}
<1>1. \A q \in Requests : \/ open'[q] = open[q]
                          \/ open'[q].at \notin {"loaded", "read", "correcting"}
  BY OneStep DEF Shapes
<1>2. \A id \in DOMAIN rows' : RowStands(id)
  BY DEF RowStands
<1> QED
  BY <1>1, <1>2

\* A correction makes the row the claimant's, or leaves it so.
LEMMA SavedCorrectionStands ==
    ASSUME Shapes, CorrectionInv, NEW r \in Requests, SaveCorrection(r)
    PROVE  \A id \in DOMAIN rows' : RowStands(id)
<1> DEFINE q == open[r]
           row == rows[q.id]
<1>1. q.at = "correcting" /\ q.id \in DOMAIN rows
  BY DEF SaveCorrection
<1>2. row \in RowType
  BY <1>1 DEF Shapes, RowsOK, RowOK
<1>3. DOMAIN rows' = DOMAIN rows /\ \A id \in DOMAIN rows \ {q.id} : rows'[id] = rows[id]
  BY <1>1 DEF SaveCorrection, With
<1>4. rows'[q.id] = [row EXCEPT
         !.typed = Replaced(@, q.was.typed, q.entry),
         !.extractor = Written(@, q.was.extractor, "manual"),
         !.status = Written(@, q.was.status, "extracted"),
         !.corrected = @ \/ row.external = q.was.external]
  BY DEF SaveCorrection, With
<1> HIDE DEF row
<1>5. /\ rows'[q.id].path = row.path /\ rows'[q.id].photo = row.photo
      /\ rows'[q.id].fresh = row.fresh
      /\ rows'[q.id].extractor = Written(row.extractor, q.was.extractor, "manual")
  BY <1>2, <1>4 DEF RowType
<1>6. Unreadable(row) => NamesAHuman(rows'[q.id])
  <2>1. CASE q.was.extractor = "manual"
    BY <1>1, <1>5, <2>1
       DEF CorrectionInv, StillManual, NamesAHuman, Written, row
  <2>2. CASE q.was.extractor # "manual"
    BY <1>5, <2>2 DEF NamesAHuman, Written
  <2> QED
    BY <2>1, <2>2
<1>7. RowStands(q.id)
  BY <1>1, <1>5, <1>6 DEF RowStands, row
<1>8. \A id \in DOMAIN rows \ {q.id} : RowStands(id)
  BY <1>3 DEF RowStands
<1> QED
  BY <1>3, <1>7, <1>8

\* A reading, however old, does not take a bill that nothing was found on.
LEMMA SavedReadingStands ==
    ASSUME Shapes, FigureInv, CorrectionInv, NEW r \in Requests, SaveReading(r)
    PROVE  \A id \in DOMAIN rows' : RowStands(id)
<1> DEFINE q == open[r]
           judged == [id \in DOMAIN q.found |-> Judged(q.was[id], q.found[id])]
           changed == {id \in DOMAIN q.found : judged[id] # q.was[id]}
<1>1. /\ q.at = "read" /\ RowsOK(q.was)
      /\ DOMAIN q.found \subseteq DOMAIN q.was
  BY DEF SaveReading, Shapes, RequestOK
<1>2. DOMAIN rows' = DOMAIN rows
  BY DEF SaveReading
<1> SUFFICES ASSUME NEW id \in DOMAIN rows PROVE RowStands(id)
  BY <1>2
<1>3. rows[id] \in RowType
  BY DEF Shapes, RowsOK, RowOK
<1>4. CASE id \notin changed
  <2>1. rows'[id] = rows[id]
    BY <1>4 DEF SaveReading
  <2> QED
    BY <2>1 DEF RowStands
<1>5. CASE id \in changed
  <2> DEFINE was == q.was[id]
             photo == q.found[id]
  <2>1. was \in RowType /\ id \in DOMAIN q.was /\ id \in DOMAIN q.found
    BY <1>1, <1>5 DEF RowsOK, RowOK
  <2>2. rows'[id] = [rows[id] EXCEPT
            !.status = Written(@, was.status, Judged(was, photo).status),
            !.extractor = Written(@, was.extractor, Judged(was, photo).extractor)]
    BY <1>5 DEF SaveReading
  <2>3. /\ rows'[id].path = rows[id].path /\ rows'[id].photo = rows[id].photo
        /\ rows'[id].fresh = rows[id].fresh /\ rows'[id].corrected = rows[id].corrected
        /\ rows'[id].extractor =
              Written(rows[id].extractor, was.extractor, Judged(was, photo).extractor)
    BY <1>3, <2>2 DEF RowType
  <2>4. ASSUME Unreadable(rows[id])
        PROVE  rows'[id].extractor = rows[id].extractor
    <3>1. was.path = rows[id].path /\ was.photo = rows[id].photo
      BY <1>1, <2>1, <2>4 DEF CorrectionInv, SameRow, Unreadable
    <3>2. photo \in {NoPhoto, was.photo}
      BY <1>1, <2>1, <2>4, <3>1 DEF FigureInv, HeldOwn, Unreadable
    <3>3. photo \notin Readable
      BY <2>4, <3>1, <3>2, EvidenceAssumption DEF Unreadable
    <3>4. Judged(was, photo).extractor = was.extractor
      BY <2>1, <3>3 DEF Judged, RowType
    <3> QED
      BY <2>3, <3>4 DEF Written
  <2> HIDE DEF was, photo
  <2> QED
    BY <2>3, <2>4 DEF RowStands, NamesAHuman
<1> QED
  BY <1>4, <1>5

\* A request that takes rows or a row as they are keeps the corrections.
LEMMA TakenAsTheyAre ==
    ASSUME Shapes, Shapes', CorrectionInv, freed' = freed, rows' = rows, NEW r \in Requests,
           \A q \in Requests \ {r} : open'[q] = open[q],
           open'[r].at \in {"loaded", "read"} =>
               \/ open'[r].was = rows
               \/ open[r].at \in {"loaded", "read"} /\ open'[r].was = open[r].was,
           open'[r].at = "correcting" => open'[r].was = rows[open'[r].id]
    PROVE  CorrectionInv'
<1>1. SameRow'
  BY DEF SameRow, CorrectionInv
<1>2. StillManual'
  <2> SUFFICES ASSUME NEW q \in Requests, open'[q].at = "correcting",
                      open'[q].id \in DOMAIN rows, Unreadable(rows[open'[q].id]),
                      NamesAHuman(open'[q].was)
               PROVE  NamesAHuman(rows[open'[q].id])
    BY DEF StillManual, Unreadable
  <2>1. CASE q = r
    BY <2>1
  <2>2. CASE q # r
    BY <2>2 DEF CorrectionInv, StillManual
  <2> QED
    BY <2>1, <2>2
<1>3. CorrectionsStand'
  BY DEF CorrectionInv, CorrectionsStand
<1> QED
  BY <1>1, <1>2, <1>3 DEF CorrectionInv

\* A document's row is new if the step says of it who held its id.
LEMMA DocumentIsNew ==
    ASSUME NEW external, NEW path, NEW photo, NEW id,
           rows'[id] = Document(external, path, photo, id \notin Held)
    PROVE  RowIsNew(id)
<1> DEFINE unheld == id \notin Held
<1>1. unheld \in BOOLEAN
  OBVIOUS
<1>2. \A fresh \in BOOLEAN :
         LET row == Document(external, path, photo, fresh)
         IN  row.corrected = FALSE /\ row.fresh = fresh
  BY DEF Document
<1>3. rows'[id] = Document(external, path, photo, unheld)
  OBVIOUS
<1>4. ~ rows'[id].corrected /\ rows'[id].fresh = unheld
  <2> HIDE DEF unheld
  <2> QED
    BY <1>1, <1>2, <1>3
<1> QED
  BY <1>4 DEF RowIsNew

\* The row of an upload has an id that no row had.
LEMMA SavedUploadStands ==
    ASSUME Shapes, NEW r \in Requests, SaveUpload(r)
    PROVE  \A id \in DOMAIN rows' : RowStands(id) \/ RowIsNew(id)
<1> DEFINE row == Document(open[r].external, open[r].path, open[r].photo, NewId \notin Held)
<1>1. \A id \in DOMAIN rows : id # NewId
  <2>1. NewId \in Nat /\ \A id \in DOMAIN rows : id \in Nat /\ id < NewId
    BY NewIdIsNew
  <2> QED
    BY <2>1
<1>2. rows' = With(NewId, row)
  BY DEF SaveUpload
<1>3. /\ DOMAIN rows' = DOMAIN rows \cup {NewId}
      /\ rows'[NewId] = row
      /\ \A id \in DOMAIN rows : rows'[id] = rows[id]
  BY <1>1, <1>2 DEF With
<1>4. RowIsNew(NewId)
  BY <1>3, DocumentIsNew
<1>5. \A id \in DOMAIN rows : RowStands(id)
  BY <1>3 DEF RowStands
<1> QED
  BY <1>3, <1>4, <1>5

\* No step but a read's or a correction's first one takes rows into a request's hands.
LEMMA HandsStay ==
    ASSUME Shapes, NEW r \in Requests, NEW next, Step(r, next),
           next.at \notin {"loaded", "read", "correcting"}
    PROVE  \A q \in Requests : \/ open'[q] = open[q]
                              \/ open'[q].at \notin {"loaded", "read", "correcting"}
BY OneStep DEF Shapes

\* Every step keeps the corrections.
LEMMA CorrectionStep ==
    ASSUME Shapes, FileInv, FigureInv, CorrectionInv, [Next]_vars
    PROVE  CorrectionInv'
<1> DEFINE HandsKept == \A q \in Requests : \/ open'[q] = open[q]
                                          \/ open'[q].at \notin {"loaded", "read", "correcting"}
           RowsStand == \A id \in DOMAIN rows' : RowStands(id) \/ RowIsNew(id)
<1>1. Shapes' /\ freed \subseteq freed'
  BY ShapesStep, UnfreedFilesStay DEF FigureInv
<1>2. HandsKept /\ RowsStand => CorrectionInv'
  BY <1>1, CorrectionsStay
<1>3. ASSUME rows' = rows
      PROVE  RowsStand
  BY <1>3 DEF RowStands
<1>4. CASE UNCHANGED vars
  <2>1. HandsKept
    BY <1>4 DEF vars
  <2>2. RowsStand
    BY <1>3, <1>4 DEF vars
  <2> HIDE DEF HandsKept, RowsStand
  <2> QED
    BY <1>2, <2>1, <2>2
<1>5. CASE Restart
  <2>1. HandsKept
    BY <1>5 DEF Restart, Idle
  <2>2. RowsStand
    BY <1>3, <1>5 DEF Restart
  <2> HIDE DEF HandsKept, RowsStand
  <2> QED
    BY <1>2, <2>1, <2>2
<1>6. ASSUME NEW r \in Requests, NEW photo \in Photos, Upload(r, photo)
      PROVE  CorrectionInv'
  <2>1. HandsKept
    BY <1>6, HandsStay DEF Upload
  <2>2. RowsStand
    BY <1>3, <1>6 DEF Upload
  <2> HIDE DEF HandsKept, RowsStand
  <2> QED
    BY <1>2, <2>1, <2>2
<1>7. ASSUME NEW r \in Requests, NEW id \in DOMAIN rows, Remove(r, id)
      PROVE  CorrectionInv'
  <2>1. HandsKept
    BY <1>7, HandsStay DEF Remove
  <2>2. RowsStand
    BY <1>3, <1>7 DEF Remove
  <2> HIDE DEF HandsKept, RowsStand
  <2> QED
    BY <1>2, <2>1, <2>2
<1>8. ASSUME NEW r \in Requests,
             \/ SaveUpload(r) \/ SaveRemoval(r) \/ SaveCorrection(r) \/ SaveReading(r)
             \/ ClearUploads(r) \/ Fail(r)
      PROVE  CorrectionInv'
  <2>1. Step(r, Idle)
    BY <1>8 DEF SaveUpload, SaveRemoval, SaveCorrection, SaveReading, ClearUploads, Fail
  <2>2. HandsKept
    BY <2>1, HandsStay DEF Idle
  <2>3. RowsStand
    <3>1. CASE SaveUpload(r)
      BY <3>1, SavedUploadStands
    <3>2. CASE SaveRemoval(r)
      BY <3>2 DEF SaveRemoval, Without, RowStands
    <3>3. CASE SaveCorrection(r)
      BY <3>3, SavedCorrectionStands
    <3>4. CASE SaveReading(r)
      BY <3>4, SavedReadingStands
    <3>5. CASE ClearUploads(r) \/ Fail(r)
      BY <1>3, <3>5 DEF ClearUploads, Fail
    <3> QED
      BY <1>8, <3>1, <3>2, <3>3, <3>4, <3>5
  <2> HIDE DEF HandsKept, RowsStand
  <2> QED
    BY <1>2, <2>2, <2>3
<1>9. ASSUME NEW r \in Requests, ResetRows(r)
      PROVE  CorrectionInv'
  <2>1. HandsKept
    BY <1>9, HandsStay DEF ResetRows
  <2>2. DOMAIN rows' = {1} /\ rows'[1] = Document(0, Pack, Mailed, 1 \notin Held)
    BY <1>9 DEF ResetRows, Seeded
  <2>3. RowIsNew(1)
    BY <2>2, DocumentIsNew
  <2>4. RowsStand
    BY <2>2, <2>3
  <2> HIDE DEF HandsKept, RowsStand
  <2> QED
    BY <1>2, <2>1, <2>4
<1>10. ASSUME NEW r \in Requests, NEW next, Step(r, next), rows' = rows, freed' = freed,
              next.at \in {"loaded", "read"} =>
                  \/ next.was = rows
                  \/ open[r].at \in {"loaded", "read"} /\ next.was = open[r].was,
              next.at = "correcting" => next.was = rows[next.id]
       PROVE  CorrectionInv'
  <2>1. open'[r] = next /\ \A q \in Requests \ {r} : open'[q] = open[q]
    BY <1>10, OneStep DEF Shapes
  <2> HIDE DEF HandsKept, RowsStand
  <2> QED
    BY <1>1, <1>10, <2>1, TakenAsTheyAre
<1>11. ASSUME NEW r \in Requests, NEW id \in DOMAIN rows, Correct(r, id)
       PROVE  CorrectionInv'
  <2>1. /\ Step(r, [at |-> "correcting", id |-> id, was |-> rows[id],
                    entry |-> used.corrections + 1])
        /\ rows' = rows /\ freed' = freed
    BY <1>11 DEF Correct, Unlinks
  <2> QED
    BY <2>1, <1>10
<1>12. ASSUME NEW r \in Requests, LoadDocuments(r)
       PROVE  CorrectionInv'
  <2>1. Step(r, [at |-> "loaded", was |-> rows]) /\ rows' = rows /\ freed' = freed
    BY <1>12 DEF LoadDocuments, Unlinks
  <2> QED
    BY <2>1, <1>10
<1>13. ASSUME NEW r \in Requests, ReadDocuments(r)
       PROVE  CorrectionInv'
  <2>1. PICK found : Step(r, [at |-> "read", was |-> open[r].was, found |-> found])
    BY <1>13 DEF ReadDocuments
  <2>2. open[r].at = "loaded" /\ rows' = rows /\ freed' = freed
    BY <1>13 DEF ReadDocuments, Unlinks
  <2> QED
    BY <2>1, <2>2, <1>10
<1> QED
  BY <1>4, <1>5, <1>6, <1>7, <1>8, <1>9, <1>11, <1>12, <1>13 DEF Next

LEMMA CorrectionInit == Init => CorrectionInv
<1> SUFFICES ASSUME Init PROVE CorrectionInv
  OBVIOUS
<1>1. SameRow /\ StillManual
  BY DEF SameRow, StillManual, Init, Idle
<1>2. CorrectionsStand
  BY DEF CorrectionsStand, Init, Seeded, Document
<1> QED
  BY <1>1, <1>2 DEF CorrectionInv

\* For any number of requests and corrections: the figures entered for a bill that cannot be
\* read stay the claimant's, whatever reads of the draft, uploads, removals, failures and
\* restarts come in between.
THEOREM CorrectionsAreKept == Spec => []CorrectionsStand
<1> DEFINE Inv == Shapes /\ FileInv /\ FigureInv /\ CorrectionInv
<1>1. Inv /\ [Next]_vars => Inv'
  BY ShapesStep, FileStep, FigureStep, CorrectionStep
<1>2. Init => Inv
  BY ShapesInit, FileInit, FigureInit, CorrectionInit
<1>3. Inv => CorrectionsStand
  BY DEF CorrectionInv
<1> HIDE DEF Inv
<1> QED
  BY <1>1, <1>2, <1>3, PTL DEF Spec
=============================================================================
