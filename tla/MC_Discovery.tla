---- MODULE MC_Discovery ----
(* Instances of Discovery for TLC; the values are in the .cfg files. *)
EXTENDS Discovery
====
