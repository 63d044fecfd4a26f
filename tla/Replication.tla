------------------------------- MODULE Replication -------------------------------
(* The construction of a replication corpus: lexstab/replication.py with its  *)
(* two commands in cli.py.  scaffold-rmi commits the source artifacts of a    *)
(* new benchmark version, path by path; author-rmi-variants writes candidate  *)
(* requests for its cases and a run configuration that names them.  Commands  *)
(* may run at the same time, fail at any rename and be killed.                *)
EXTENDS Naturals, Sequences, FiniteSets

CONSTANTS CaseIds,       \* the case cards of the seed
          Seed,          \* the public message of each card
          Edits,         \* messages an operator may type instead
          Scaffolders,   \* scaffold-rmi commands
          Authors,       \* author-rmi-variants commands
          Batches        \* wordings: one for each case and category

VARIABLES
    at,         \* where each command is
    messages,   \* the reviewed messages of each scaffolder
    moved,      \* how many commits it has made
    target,     \* who made what stands at each path of the version
    batch,      \* the wordings of each author
    output,     \* who wrote the candidate file and the run configuration
    taken       \* request ids in the requests directories

scaffoldVars == <<messages, moved, target>>
authorVars == <<batch, output, taken>>
vars == <<at, scaffoldVars, authorVars>>

\* Mutation: the receipt is committed before what it is a receipt of.
CommitsReceiptFirst ==
    <<"receipt", "domain", "cases", "interfaces", "splits", "elicitation", "changelog">>

\* The commits of a scaffold, in their order; the first four are directories.
\* "frozen" stands for the manifest and the frozen files.
Commits == <<"domain", "cases", "interfaces", "splits", "elicitation", "changelog", "receipt">>
Directories == {"domain", "cases", "interfaces", "splits"}
Paths == {Commits[i] : i \in DOMAIN Commits} \cup {"frozen"}
Categories == {"canonical", "natural", "high_lexical_distance"}

Ended == {"refused", "cancelled", "failed", "killed", "done"}
AreDistinct(ms) == \A id, other \in CaseIds : ms[id] = ms[other] => id = other

\* The validator of the seed.
SeedIsValid == AreDistinct(Seed)

ASSUME ReplicationAssumption == SeedIsValid

\* A batch is a mapping of a command's input.
ASSUME BatchAssumption == \A b \in Batches : IsFiniteSet(DOMAIN b)

\* Commands are told apart from each other and from what is no command.
ASSUME CommandAssumption ==
    /\ Scaffolders \cap Authors = {}
    /\ {"nobody", "freeze"} \cap (Scaffolders \cup Authors) = {}

NoMessages == [id \in CaseIds |-> [text |-> "", padded |-> FALSE]]
-------------------------------------------------------------------------------
Init ==
    /\ at = [p \in Scaffolders \cup Authors |-> "starting"]
    /\ messages = [p \in Scaffolders |-> NoMessages]
    /\ moved = [p \in Scaffolders |-> 0]
    /\ target = [path \in Paths |-> "nobody"]
    /\ batch = [a \in Authors |-> {}]
    /\ output = [file \in {"candidates", "config"} |-> "nobody"]
    /\ taken \in {{}} \cup {{<<id, "natural">>} : id \in CaseIds}

Goto(p, there) == at' = [at EXCEPT ![p] = there]

\* A command is given up at its dialogue, or ends the process at any point.
Cancel(p) ==
    /\ at[p] \in {"starting", "reviewed"}
    /\ Goto(p, "cancelled")
    /\ UNCHANGED <<scaffoldVars, authorVars>>

Kill(p) ==
    /\ at[p] \notin Ended
    /\ Goto(p, "killed")
    /\ UNCHANGED <<scaffoldVars, authorVars>>
-------------------------------------------------------------------------------
(* scaffold-rmi                                                               *)

Occupied == \E path \in Paths : target[path] # "nobody"

\* Every card is accepted or its message typed anew, without outer blanks.
ReviewCards(p) ==
    /\ at[p] = "starting"
    /\ \E answers \in [CaseIds -> {"accept"} \cup Edits] :
          messages' = [messages EXCEPT ![p] =
             [id \in CaseIds |-> IF answers[id] = "accept" THEN Seed[id]
                                 ELSE [text |-> answers[id], padded |-> FALSE]]]
    /\ Goto(p, "reviewed")
    /\ UNCHANGED <<moved, target, authorVars>>

Check(p) ==
    /\ at[p] = "reviewed"
    /\ Goto(p, IF ~AreDistinct(messages[p]) \/ Occupied THEN "refused" ELSE "checked")
    /\ UNCHANGED <<scaffoldVars, authorVars>>

\* The copies in the stage directory; the base artifacts are missing, or a copy
\* fails, or the staged corpus does not load.
Stage(p) ==
    /\ at[p] = "checked"
    /\ \E there \in {"staged", "failed"} : Goto(p, there)
    /\ UNCHANGED <<scaffoldVars, authorVars>>

CheckAgain(p) ==
    /\ at[p] = "staged"
    /\ Goto(p, IF Occupied THEN "refused" ELSE "moving")
    /\ UNCHANGED <<scaffoldVars, authorVars>>

\* Mutation: what stands at the path is removed first.
MoveOver(p) ==
    /\ at[p] = "moving"
    /\ target' = [target EXCEPT ![Commits[moved[p] + 1]] = p]
    /\ moved' = [moved EXCEPT ![p] = @ + 1]
    /\ Goto(p, IF moved'[p] = Len(Commits) THEN "done" ELSE "moving")
    /\ UNCHANGED <<messages, authorVars>>

\* os.replace: a directory does not replace one that has files, a file does.
Move(p) ==
    /\ at[p] = "moving"
    /\ LET path == Commits[moved[p] + 1]
       IN  \/ /\ path \in Directories => target[path] = "nobody"
              /\ target' = [target EXCEPT ![path] = p]
              /\ moved' = [moved EXCEPT ![p] = @ + 1]
              /\ Goto(p, IF moved'[p] = Len(Commits) THEN "done" ELSE "moving")
           \/ Goto(p, "rolling") /\ UNCHANGED <<target, moved>>   \* OSError
    /\ UNCHANGED <<messages, authorVars>>

\* Mutation: directories stay.
RollBackFiles(p) ==
    /\ at[p] = "rolling"
    /\ IF moved[p] = 0 THEN Goto(p, "failed") /\ UNCHANGED <<target, moved>>
       ELSE /\ target' = IF Commits[moved[p]] \in Directories THEN target
                         ELSE [target EXCEPT ![Commits[moved[p]]] = "nobody"]
            /\ moved' = [moved EXCEPT ![p] = @ - 1]
            /\ at' = at
    /\ UNCHANGED <<messages, authorVars>>

\* The handler: the last commit first.  It removes what stands at the path.
RollBack(p) ==
    /\ at[p] = "rolling"
    /\ IF moved[p] = 0 THEN Goto(p, "failed") /\ UNCHANGED <<target, moved>>
       ELSE /\ target' = [target EXCEPT ![Commits[moved[p]]] = "nobody"]
            /\ moved' = [moved EXCEPT ![p] = @ - 1]
            /\ at' = at
    /\ UNCHANGED <<messages, authorVars>>

Scaffold(p) ==
    \/ ReviewCards(p) \/ Check(p) \/ Stage(p) \/ CheckAgain(p) \/ Move(p) \/ RollBack(p)

\* benchmark freeze of the version, once its source artifacts are there.
FreezeVersion ==
    /\ target["receipt"] # "nobody" /\ target["frozen"] = "nobody"
    /\ target' = [target EXCEPT !["frozen"] = "freeze"]
    /\ UNCHANGED <<at, messages, moved, authorVars>>
-------------------------------------------------------------------------------
(* author-rmi-variants                                                        *)

\* _build_rmi_case: the message of a committed case, stripped.
MessageOf(id) == messages[target["cases"]][id].text

\* validate_variant_text: the message exactly once, the incident id, and in the
\* rest the words the category asks for and bans.
Accepted(id, category, w) ==
    /\ w.quotes = MessageOf(id) /\ w.times = 1
    /\ w.anchored
    /\ category = "canonical" <=> w.operation
    /\ category = "canonical" => w.entity
    /\ category = "high_lexical_distance" => ~w.entity
    /\ category # "canonical" => w.cue

BatchRefused(b) ==
    \/ \E key \in DOMAIN b : ~Accepted(key[1], key[2], b[key])
    \/ \E key, other \in DOMAIN b : key # other /\ b[key].normalized = b[other].normalized
    \/ DOMAIN b \cap taken # {}

\* The dialogue; --accept-proposals takes the suggestions unseen, so that the
\* builder may be given any batch.
Collect(a) ==
    /\ at[a] = "starting"
    /\ IF target["receipt"] = "nobody" \/ target["cases"] = "nobody"
       THEN Goto(a, "refused") /\ batch' = batch
       ELSE Goto(a, "reviewed") /\ \E b \in Batches : batch' = [batch EXCEPT ![a] = b]
    /\ UNCHANGED <<scaffoldVars, output, taken>>

BuildRows(a) ==
    /\ at[a] = "reviewed"
    /\ LET occupied == \E file \in DOMAIN output : output[file] # "nobody"
       IN  Goto(a, IF occupied \/ BatchRefused(batch[a]) THEN "refused" ELSE "checked")
    /\ UNCHANGED <<scaffoldVars, authorVars>>

\* Staged, and looked at once more.
StageRows(a) ==
    /\ at[a] = "checked"
    /\ Goto(a, IF \E file \in DOMAIN output : output[file] # "nobody" THEN "refused" ELSE "staged")
    /\ UNCHANGED <<scaffoldVars, authorVars>>

ReplaceCandidates(a) ==
    /\ at[a] = "staged"
    /\ \/ /\ output' = [output EXCEPT !["candidates"] = a]
          /\ taken' = taken \cup DOMAIN batch[a]
          /\ Goto(a, "half")
       \/ Goto(a, "failed") /\ UNCHANGED <<output, taken>>
    /\ UNCHANGED <<scaffoldVars, batch>>

\* Mutation: the candidate file is left where it is.
ReplaceConfigOnly(a) ==
    /\ at[a] = "half"
    /\ \/ output' = [output EXCEPT !["config"] = a] /\ Goto(a, "done")
       \/ UNCHANGED output /\ Goto(a, "failed")
    /\ UNCHANGED <<scaffoldVars, batch, taken>>

\* The second rename; if it fails the candidate file is unlinked.
ReplaceConfig(a) ==
    /\ at[a] = "half"
    /\ \/ /\ output' = [output EXCEPT !["config"] = a]
          /\ Goto(a, "done")
          /\ taken' = taken
       \/ /\ output' = [output EXCEPT !["candidates"] = "nobody"]
          /\ taken' = taken \ DOMAIN batch[a]
          /\ Goto(a, "failed")
    /\ UNCHANGED <<scaffoldVars, batch>>

AuthorVariants(a) ==
    Collect(a) \/ BuildRows(a) \/ StageRows(a) \/ ReplaceCandidates(a) \/ ReplaceConfig(a)
-------------------------------------------------------------------------------
Next ==
    \/ \E p \in Scaffolders : Scaffold(p)
    \/ \E a \in Authors : AuthorVariants(a)
    \/ \E p \in Scaffolders \cup Authors : Cancel(p) \/ Kill(p)
    \/ FreezeVersion

Spec == Init /\ [][Next]_vars
-------------------------------------------------------------------------------
TypeOK ==
    /\ at \in [Scaffolders \cup Authors ->
               Ended \cup {"starting", "reviewed", "checked", "staged", "moving",
                           "rolling", "half"}]
    /\ moved \in [Scaffolders -> 0..Len(Commits)]
    /\ target \in [Paths -> Scaffolders \cup {"nobody", "freeze"}]
    /\ output \in [{"candidates", "config"} -> Authors \cup {"nobody"}]
    /\ \A p \in Scaffolders : at[p] = "done" => moved[p] = Len(Commits)
    /\ \A p \in Scaffolders : at[p] = "failed" => moved[p] = 0

\* A version that has a receipt is whole and of one command: whatever renames
\* failed, were undone or were cut short by a kill, and however two scaffolds
\* interleave, everything the receipt lists is there and from its own author.
ReceiptMeansWhole ==
    target["receipt"] # "nobody" =>
        \A i \in DOMAIN Commits : target[Commits[i]] = target["receipt"]

\* "Raised before any guarded replication artifact is committed" and the undoing
\* of commits behind a failed rename: a command that refused, failed or was
\* cancelled has left nothing, while what another one committed stands.
RefusalsLeaveNothing ==
    \A p \in Scaffolders : at[p] \in {"refused", "cancelled", "failed"} =>
        \A path \in Paths : target[path] # p

\* A scaffold that has ended well is never undone or overwritten by one that
\* started before.
ScaffoldedStays ==
    [][\A p \in Scaffolders : at[p] = "done" =>
          \A i \in DOMAIN Commits : target'[Commits[i]] = p]_vars

\* Candidates and configuration come together: a configuration has the requests
\* it names beside it, and candidates alone are what a kill between the renames
\* leaves, never a failed or refused command.
OutputsComeTogether ==
    /\ output["config"] # "nobody" => output["candidates"] = output["config"]
    /\ \A a \in Authors : output["candidates"] = a /\ output["config"] = "nobody" =>
          at[a] \in {"half", "killed"}

\* The candidates quote the messages of the committed cases, each once, and no
\* two of them are alike.  The cases were read for the dialogue and again by the
\* builder, from paths that a scaffold may be taking back at the time.
CandidatesFitTheirCases ==
    \A a \in Authors : output["candidates"] = a =>
        /\ target["cases"] # "nobody"
        /\ \A key \in DOMAIN batch[a] :
              batch[a][key].quotes = MessageOf(key[1]) /\ batch[a][key].times = 1
        /\ Cardinality({batch[a][key].normalized : key \in DOMAIN batch[a]})
              = Cardinality(DOMAIN batch[a])

\* What author-rmi-variants leaves behind is whole and fits the version.
OutputsAreSound == OutputsComeTogether /\ CandidatesFitTheirCases

\* replication.py: "every canonical case must use a distinct public message".
CasesHaveDistinctMessages ==
    target["receipt"] # "nobody" =>
        \A id, other \in CaseIds : MessageOf(id) = MessageOf(other) => id = other

\* DATASET_AUTHORING.md: "The command refuses to overwrite either output."
OutputsAreNotOverwritten ==
    [][\A file \in DOMAIN output :
          output[file] # "nobody" => output'[file] \in {output[file], "nobody"}]_vars
================================================================================
