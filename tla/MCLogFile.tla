----------------------------- MODULE MCLogFile -----------------------------
(* LogFile on small instances: an entry of length 4 is above the cap alone. *)
EXTENDS LogFile
=============================================================================
