---------------------------- MODULE MC_Replication ----------------------------
(* Instances of Replication for TLC: two cases, batches that are good, or     *)
(* wrong in one wording.                                                      *)
EXTENDS Replication, TLC

Plain(m) == [text |-> m, padded |-> FALSE]
MCSeed == "c1" :> Plain("m1") @@ "c2" :> Plain("m2")
\* Two cards that differ in outer blanks alone.
MCPadded == "c1" :> Plain("m1") @@ "c2" :> [text |-> "m1", padded |-> TRUE]
Good(ms) ==
    [key \in CaseIds \X Categories |->
        [quotes |-> ms[key[1]], times |-> 1, anchored |-> TRUE,
         operation |-> key[2] = "canonical", entity |-> key[2] # "high_lexical_distance",
         cue |-> TRUE, normalized |-> key]]
MCBatches ==
    LET good == Good([id \in CaseIds |-> MCSeed[id].text])
        key == <<"c2", "natural">>
    IN  {good, [good EXCEPT ![key].quotes = "m3"], [good EXCEPT ![key].times = 2],
         [good EXCEPT ![key].operation = TRUE], [good EXCEPT ![key].cue = FALSE],
         [good EXCEPT ![key].normalized = <<"c1", "natural">>]}
================================================================================
