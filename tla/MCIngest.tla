------------------------------ MODULE MCIngest ------------------------------
(* Ingest for TLC: two threads call stop(), which is idempotent.           *)
EXTENDS Ingest
=============================================================================
