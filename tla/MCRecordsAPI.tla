---------------------------- MODULE MCRecordsAPI ----------------------------
(* RecordsAPI on a small instance.  Records are numbers, so that ids have an *)
(* order; the old ones share a creation time, and the id that is drawn lies  *)
(* between them.                                                             *)
EXTENDS RecordsAPI
=============================================================================
