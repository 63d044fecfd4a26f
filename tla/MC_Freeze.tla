---- MODULE MC_Freeze ----
(* Instances of Freeze for TLC; the values are in the .cfg files. *)
EXTENDS Freeze
====
