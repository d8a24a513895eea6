----------------------------- MODULE MCEvidence -----------------------------
(***************************************************************************)
(* Evidence with two requests in flight: a bill in the inbox, and two      *)
(* photographs with one camera name, of which one can be read.             *)
(***************************************************************************)
EXTENDS Evidence, TLC

Bills == {"taxi", "creased folio"}
Sharp == {"taxi", "mailed"}
CameraNames == 1..2
Interchangeable == Permutations(Requests)
=============================================================================
