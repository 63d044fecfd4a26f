---- MODULE MC_RequestReview ----
(* Instances of RequestReview for TLC; the values are in the .cfg files. *)
EXTENDS RequestReview
====
