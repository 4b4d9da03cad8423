----------------------------- MODULE MCDatabase -----------------------------
(* Constants of module Database for TLC *)
EXTENDS Database

CONSTANTS p1, p2, b, ann, bob

=============================================================================
