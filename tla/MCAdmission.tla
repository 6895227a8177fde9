----------------------------- MODULE MCAdmission -----------------------------
(* Admission on small instances. *)
EXTENDS Admission
=============================================================================
