------------------------------- MODULE MC_Compose -------------------------------
(* Instances of Compose for TLC: three cells in two tracks; repair runs that  *)
(* differ from a good one in one respect each; two commands that compose into *)
(* one directory.                                                             *)
EXTENDS Compose, TLC

MCTrackOf == "b1" :> "boundary" @@ "b2" :> "boundary" @@ "i1" :> "intent"

MCBases ==
    {[at |-> "executing", rows |-> [c \in Cells |-> "none"], calls |-> [c \in Cells |-> "none"],
      pinned |-> "v1", model |-> "m1", maxTokens |-> 2, eligible |-> e] : e \in BOOLEAN}

Run(cells) ==
    [matrix |-> [c \in cells |-> "as in base"], rows |-> [c \in cells |-> "ok"],
     calls |-> [c \in cells |-> "ok"], pinned |-> "v1", model |-> "m1", maxTokens |-> 2,
     eligible |-> TRUE, healthy |-> TRUE]

MCRepairs ==
    LET good == Run({"i1"})
    IN  {good, Run({"b1", "b2"}), Run({"b1"}), Run(Cells), Run({}),
         [good EXCEPT !.maxTokens = 4], [good EXCEPT !.maxTokens = 1],
         [good EXCEPT !.pinned = "v2"], [good EXCEPT !.model = "m2"],
         [good EXCEPT !.eligible = FALSE], [good EXCEPT !.matrix["i1"] = "changed"],
         [good EXCEPT !.rows["i1"] = "harness", !.calls["i1"] = "none", !.healthy = FALSE],
         [good EXCEPT !.rows["i1"] = "length", !.calls["i1"] = "length", !.healthy = FALSE]}

\* One command with any of the repairs, and another with a good one.
MCInit ==
    /\ base \in Bases
    /\ tracks \in {"p1" :> t @@ "p2" :> {"intent"} : t \in SUBSET Tracks}
    /\ repair \in {"p1" :> r @@ "p2" :> Run({"i1"}) : r \in Repairs}
    /\ Init
MCSpec == MCInit /\ [][Next]_vars
================================================================================
