----------------------------- MODULE MCRegister -----------------------------
(* A registration of eight seconds, whole or cut by one, with a backoff    *)
(* that doubles twice.                                                     *)
EXTENDS Register
=============================================================================
