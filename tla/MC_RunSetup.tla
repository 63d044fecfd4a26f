------------------------------ MODULE MC_RunSetup ------------------------------
(* Instances of RunSetup for TLC: a benchmark of three cases, run and model   *)
(* configurations that reach every branch of the expansion and the checks.    *)
EXTENDS RunSetup, TLC

R(id, n) == [case |-> id, n |-> n]
MCSplit == <<"development", "development", "test">>
MCRequests == <<{R(1, 1), R(1, 2)}, {R(2, 1)}, {R(3, 1)}>>
MCBehavior == R(1, 1) :> "EXECUTE" @@ R(1, 2) :> "CLARIFY" @@ R(2, 1) :> "EXECUTE"
              @@ R(3, 1) :> "EXECUTE"

\* One table row of a model configuration.
Role(provider, model) ==
    [provider |-> provider, model |-> model, enabled |-> TRUE, eligible |-> TRUE]
All == [r \in Roles |-> IF r = "execution_primary" THEN Role("api", "m1") ELSE Role("api", "m2")]
MCModels ==
    {[roles |-> All, overlapAllowed |-> FALSE],
     [roles |-> [All EXCEPT !["procedure_router"].enabled = FALSE], overlapAllowed |-> FALSE],
     [roles |-> [All EXCEPT !["boundary_canonicalizer"].provider = "mock"], overlapAllowed |-> FALSE],
     [roles |-> [All EXCEPT !["adequacy_assessor"].model = "unset"], overlapAllowed |-> FALSE],
     [roles |-> [All EXCEPT !["authoring_generator"].model = "m1"], overlapAllowed |-> FALSE],
     [roles |-> [All EXCEPT !["authoring_generator"].model = "m1"], overlapAllowed |-> TRUE]}

NoFormal == [enabled |-> FALSE, conditions |-> Absent, persistence |-> Absent,
             ablations |-> "absent", language |-> FALSE, modes |-> Absent]
NoAgent == [enabled |-> FALSE, conditions |-> Absent, modes |-> <<"gold">>, cases |-> {}]
Nothing == [split |-> "development", cases |-> {}, requests |-> {}, limit |-> 0,
            behaviors |-> {}, boundary |-> <<>>, post |-> <<>>, intent |-> <<>>,
            memory |-> <<>>, formal |-> NoFormal, agent |-> NoAgent]

\* Configurations of the request-driven tracks, with every kind of selection.
Selections ==
    {[Nothing EXCEPT !.boundary = <<"A0_DIRECT", "B_RUNTIME", "C_RUNTIME">>,
                     !.split = s, !.cases = cs, !.requests = rs, !.limit = l, !.behaviors = b]
       : s \in {"development", "test"}, cs \in {{}, {1}, {1, 3}},
         rs \in {{}, {R(1, 2)}, {R(2, 1)}}, l \in {0, 1}, b \in {{}, {"EXECUTE"}}}
Others ==
    {[Nothing EXCEPT !.post = <<"B_GOLD", "C_GOLD">>, !.memory = <<"M0_NO_MEMORY">>],
     [Nothing EXCEPT !.intent = <<"A0_DIRECT", "B_EXTERNAL_GATE", "B_EXTERNAL_GATE_GOLD">>],
     [Nothing EXCEPT !.memory = <<"M0_NO_MEMORY", "M3_CANONICAL_RESOLVER">>]}
Formal(a) == [enabled |-> TRUE, conditions |-> DefaultP, persistence |-> DefaultLP,
              ablations |-> a, language |-> TRUE, modes |-> Absent]
Formals ==
    {[Nothing EXCEPT !.formal = Formal(a)] : a \in {"yes", "no"}}
    \cup {[Nothing EXCEPT !.formal = [Formal("yes") EXCEPT !.modes = m]]
            : m \in {<<"gold">>, <<"gold", "no such mode">>}}
    \cup {[Nothing EXCEPT !.formal = [Formal("no") EXCEPT !.persistence = <<>>, !.conditions = cs]]
            : cs \in {<<"P0_RAW_PROPOSAL">>, <<"P3_CANONICAL_PROCEDURE_PROPOSAL">>}}
Agents ==
    {[Nothing EXCEPT !.agent = [enabled |-> TRUE, conditions |-> cs, modes |-> ms, cases |-> ids]]
       : cs \in {DefaultAL, <<"AL_RAW">>, <<"AL_RENDERED">>},
         ms \in {<<"gold">>, <<"gold", "runtime">>}, ids \in {{}, {1}}}
\* A rival command: the same matrix every time, of either split, under run id r1.
MCRivals == {[Nothing EXCEPT !.boundary = <<"A0_DIRECT">>, !.split = s]
               : s \in {"development", "test"}}
MCConfigs == Selections \cup Others \cup Formals \cup Agents \cup MCRivals

MCReal == [roles |-> All, overlapAllowed |-> FALSE]

\* One command with any of the configurations, and a rival to its directory.
MCInit ==
    /\ config \in {"p1" :> c @@ "p2" :> d : c \in MCConfigs, d \in MCRivals}
    /\ models \in {"p1" :> m @@ "p2" :> MCReal : m \in MCModels}
    /\ runId \in {"p1" :> id @@ "p2" :> "r1" : id \in RunIds}
    /\ Init
MCSpec == MCInit /\ [][Next]_vars

\* Configurations that leave lists to their defaults, name a held-out case for the
\* agent loop, and ask for a request no enabled track takes.
MCDefaults == {[Nothing EXCEPT !.formal = [NoFormal EXCEPT !.enabled = TRUE]]}
MCListed == {[Nothing EXCEPT !.agent = [enabled |-> TRUE, conditions |-> <<"AL_RAW">>,
                                         modes |-> <<"gold">>, cases |-> {3}]]}
MCDropped == {[Nothing EXCEPT !.post = <<"B_GOLD">>, !.requests = {R(1, 2)}]}
================================================================================
