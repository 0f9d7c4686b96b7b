---- MODULE MCLeaseClaims ----
(* LeaseClaims on a small instance. *)
EXTENDS LeaseClaims
====
