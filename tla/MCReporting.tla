---------------------------- MODULE MCReporting -----------------------------
(* Two instances on one database, two months, one request in flight. *)
EXTENDS Reporting
=============================================================================
