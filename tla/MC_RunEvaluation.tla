---- MODULE MC_RunEvaluation ----
(* Instances of RunEvaluation for TLC; the values are in the .cfg files. *)
EXTENDS RunEvaluation
====
