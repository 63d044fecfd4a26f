------------------------------- MODULE Freeze --------------------------------
(* Frozen benchmarks: lexstab/freeze.py, freeze_benchmark and FrozenBenchmark.*)
(*                                                                            *)
(* A freeze validates the approved sources, writes the frozen files of its    *)
(* version one after the other, validates the prompts, and writes a manifest  *)
(* with the hashes of every file; a file's content stands for its hash.  A    *)
(* benchmark is used after a load that verifies the hashes and then reads the *)
(* files again.  A freeze, a load and edits of the sources are interleaved,   *)
(* one freeze and one load at a time; a freeze reads the approved corpus once *)
(* and a load never does, so a review runs between them.  Of the frozen       *)
(* kinds, requests and renderings stand for all four; of the files that are   *)
(* hashed where they lie, the domain stands for the cases, interfaces, memory *)
(* and elicitation scripts.                                                   *)
EXTENDS RenderingReview

CONSTANTS
    Versions,       \* benchmark versions, of 0.2.0 and later
    Versioned,      \* those with a domain directory of their own
    Mock,           \* the model whose renderings may not be frozen
    MaxEdits,       \* bound: edits of domains, requests and prompts
    MaxOverwrites   \* bound: freezes under --dev-overwrite

ASSUME FreezeAssumption ==
    /\ Versioned \subseteq Versions
    /\ {MaxEdits, MaxOverwrites} \subseteq Nat

VARIABLES
    domain,         \* domain directories: an edition, and whether it is valid
    requests,       \* the approved requests: an edition, and whether it is valid
    promptsValid,   \* PromptLibrary.validate_all has nothing to report
    frozen,         \* the frozen files of each version
    manifest,       \* the manifest of each version
    freeze,         \* the freeze under way
    load            \* the load under way, and what it has loaded
VARIABLES
    edits, overwrites,
    original        \* history: a version's first manifest not under the override

sources == <<domain, requests, promptsValid>>
bounds == <<edits, overwrites>>
freezeVars == <<sources, frozen, manifest, freeze, load,
                bounds, original>>
vars == <<reviewVars, freezeVars>>

Live == "live"
DomainOf(v) == IF v \in Versioned THEN v ELSE Live
Kinds == <<"requests", "renderings">>

NoFile == [exists |-> FALSE]
NoManifest == [exists |-> FALSE]
NoFreeze == [at |-> "idle"]
NoLoad == [at |-> "idle"]

Init ==
    /\ InitReview
    /\ domain = [d \in Versioned \cup {Live} |-> [edition |-> 0, valid |-> TRUE]]
    /\ requests = [edition |-> 0, valid |-> TRUE]
    /\ promptsValid = TRUE
    /\ frozen = [v \in Versions |-> [k \in ToSet(Kinds) |-> NoFile]]
    /\ manifest = [v \in Versions |-> NoManifest]
    /\ freeze = NoFreeze
    /\ load = NoLoad
    /\ edits = 0 /\ overwrites = 0
    /\ original = [v \in Versions |-> NoManifest]
-------------------------------------------------------------------------------
\* A freeze or a load that a write overtakes is disturbed (history).
Disturbed(command) ==
    IF command.at \in {"idle", "loaded"} THEN command ELSE [command EXCEPT !.disturbed = TRUE]

EditDomain(d) ==
    /\ edits < MaxEdits
    /\ edits' = edits + 1
    /\ \E b \in BOOLEAN : domain' = [domain EXCEPT ![d] = [edition |-> edits', valid |-> b]]
    /\ freeze' = Disturbed(freeze) /\ load' = Disturbed(load)
    /\ UNCHANGED <<reviewVars, requests, promptsValid, frozen, manifest, overwrites, original>>

EditRequests ==
    /\ edits < MaxEdits
    /\ edits' = edits + 1
    /\ \E b \in BOOLEAN : requests' = [edition |-> edits', valid |-> b]
    /\ UNCHANGED <<reviewVars, domain, promptsValid, frozen, manifest, freeze, load,
                   overwrites, original>>

EditPrompts ==
    /\ edits < MaxEdits
    /\ edits' = edits + 1
    /\ promptsValid' = ~promptsValid
    /\ UNCHANGED <<reviewVars, domain, requests, frozen, manifest, freeze, load,
                   overwrites, original>>
-------------------------------------------------------------------------------
\* An operation without a discovered rendering would pass.
ValidRenderingsIfAny(rows) ==
    \A o \in Ops : LET found == {k \in DOMAIN rows : rows[k].op = o}
                   IN  Cardinality(found) <= 1 /\ \A k \in found : rows[k].model # Mock

\* Every operation has one active discovered rendering, and it is not mock-derived.
ValidRenderings(rows) ==
    \A o \in Ops : LET found == {k \in DOMAIN rows : rows[k].op = o}
                   IN  Cardinality(found) = 1 /\ \A k \in found : rows[k].model # Mock

\* The sources are read once, and validated; a failure raises and changes nothing.
StartFreeze(v, overwrite) ==
    /\ freeze = NoFreeze /\ review = NoReview
    /\ manifest[v].exists => overwrite
    /\ overwrite => overwrites < MaxOverwrites
    /\ overwrites' = IF overwrite THEN overwrites + 1 ELSE overwrites
    /\ domain[DomainOf(v)].valid /\ requests.valid
    /\ ValidRenderings(Active(approved))
    /\ freeze' = [at |-> "write", version |-> v, overwrite |-> overwrite, todo |-> Kinds,
                  rows |-> [requests |-> requests, renderings |-> Active(approved)],
                  disturbed |-> FALSE]
    /\ UNCHANGED <<reviewVars, sources, frozen, manifest, load, edits, original>>

\* _write_frozen refuses a read-only file of an earlier freeze.
WriteFrozenRefused ==
    /\ freeze.at = "write" /\ freeze.todo # <<>>
    /\ LET file == frozen[freeze.version][Head(freeze.todo)]
       IN  file.exists /\ file.readOnly /\ ~freeze.overwrite
    /\ freeze' = NoFreeze
    /\ UNCHANGED <<reviewVars, sources, frozen, manifest, load, bounds, original>>

WriteFrozen ==
    /\ freeze.at = "write" /\ freeze.todo # <<>>
    /\ LET v    == freeze.version
           kind == Head(freeze.todo)
           file == frozen[v][kind]
       IN  /\ (file.exists /\ file.readOnly) => freeze.overwrite
           /\ frozen' = [frozen EXCEPT ![v][kind] =
                            [exists |-> TRUE, whole |-> TRUE, rows |-> freeze.rows[kind],
                             readOnly |-> TRUE]]
    /\ freeze' = [freeze EXCEPT !.todo = Tail(@)]
    /\ load' = Disturbed(load)
    /\ UNCHANGED <<reviewVars, sources, manifest, bounds, original>>

\* The prompts are validated once the frozen files are written; on an error the
\* freeze raises and leaves them.
ValidatePrompts ==
    /\ freeze.at = "write" /\ freeze.todo = <<>>
    /\ freeze' = IF promptsValid THEN [freeze EXCEPT !.at = "manifest"] ELSE NoFreeze
    /\ UNCHANGED <<reviewVars, sources, frozen, manifest, load, bounds, original>>

\* The content of every file a manifest of this version lists.
Contents(v) == [requests   |-> [whole |-> frozen[v]["requests"].whole,
                                rows |-> frozen[v]["requests"].rows],
                renderings |-> [whole |-> frozen[v]["renderings"].whole,
                                rows |-> frozen[v]["renderings"].rows],
                domain     |-> domain[DomainOf(v)]]

\* The hashes are taken of the files as they are now.
WriteManifest ==
    /\ freeze.at = "manifest"
    /\ LET v == freeze.version
           m == [exists |-> TRUE, whole |-> TRUE, contents |-> Contents(v),
                 overwrite |-> freeze.overwrite, disturbed |-> freeze.disturbed]
       IN  /\ manifest' = [manifest EXCEPT ![v] = m]
           /\ original' = IF original[v].exists \/ freeze.overwrite THEN original
                          ELSE [original EXCEPT ![v] = m]
    /\ freeze' = NoFreeze
    /\ load' = Disturbed(load)
    /\ UNCHANGED <<reviewVars, sources, frozen, bounds>>

\* A freeze is killed between two files, within the write of a frozen file, which
\* is read-only only once it is complete, or within the write of the manifest.
KillFreeze ==
    /\ freeze # NoFreeze
    /\ kills < MaxKills
    /\ kills' = kills + 1
    /\ freeze' = NoFreeze
    /\ \/ UNCHANGED <<frozen, manifest, load>>
       \/ /\ freeze.at = "write" /\ freeze.todo # <<>>
          /\ LET v    == freeze.version
                 kind == Head(freeze.todo)
             IN  /\ (frozen[v][kind].exists /\ frozen[v][kind].readOnly) => freeze.overwrite
                 /\ frozen' = [frozen EXCEPT ![v][kind] =
                                [exists |-> TRUE, whole |-> FALSE, rows |-> freeze.rows[kind],
                                 readOnly |-> FALSE]]
          /\ load' = Disturbed(load)
          /\ UNCHANGED manifest
       \/ /\ freeze.at = "manifest"
          /\ manifest' = [manifest EXCEPT ![freeze.version] = [exists |-> TRUE, whole |-> FALSE]]
          /\ load' = Disturbed(load)
          /\ UNCHANGED frozen
    /\ UNCHANGED <<corpora, review, discoveries, truncated, sources, bounds, original>>
-------------------------------------------------------------------------------
\* A load reads the manifest, once.
StartLoad(v) ==
    /\ load = NoLoad
    /\ manifest[v].exists /\ manifest[v].whole
    /\ load' = [at |-> "verify", version |-> v, manifest |-> manifest[v], disturbed |-> FALSE]
    /\ UNCHANGED <<reviewVars, sources, frozen, manifest, freeze, bounds, original>>

\* Only the frozen files would be verified.
VerifyFrozenFiles ==
    /\ load.at = "verify"
    /\ LET v == load.version
       IN  load' = IF /\ \A kind \in ToSet(Kinds) : frozen[v][kind].exists
                      /\ Contents(v).requests = load.manifest.contents.requests
                      /\ Contents(v).renderings = load.manifest.contents.renderings
                   THEN [load EXCEPT !.at = "read"] ELSE NoLoad
    /\ UNCHANGED <<reviewVars, sources, frozen, manifest, freeze, bounds, original>>

\* verify_frozen_file on every file of the manifest; a mismatch raises.
Verify ==
    /\ load.at = "verify"
    /\ LET v == load.version
       IN  load' = IF /\ \A kind \in ToSet(Kinds) : frozen[v][kind].exists
                      /\ Contents(v) = load.manifest.contents
                   THEN [load EXCEPT !.at = "read"] ELSE NoLoad
    /\ UNCHANGED <<reviewVars, sources, frozen, manifest, freeze, bounds, original>>

\* The files are read again, and the renderings validated as at the freeze.
Read ==
    /\ load.at = "read"
    /\ LET contents == Contents(load.version)
       IN  load' = IF /\ \A kind \in ToSet(Kinds) : contents[kind].whole
                      /\ ValidRenderings(contents.renderings.rows)
                   THEN [at |-> "loaded", version |-> load.version, manifest |-> load.manifest,
                         contents |-> contents, disturbed |-> load.disturbed]
                   ELSE NoLoad
    /\ UNCHANGED <<reviewVars, sources, frozen, manifest, freeze, bounds, original>>

\* The command that has loaded the benchmark, a run or an evaluation, is over.
EndOfCommand ==
    /\ load.at = "loaded"
    /\ load' = NoLoad
    /\ UNCHANGED <<reviewVars, sources, frozen, manifest, freeze, bounds, original>>

Next ==
    \/ freeze = NoFreeze /\ load = NoLoad /\ NextReview /\ UNCHANGED freezeVars
    \/ \E d \in DOMAIN domain : EditDomain(d)
    \/ EditRequests \/ EditPrompts
    \/ \E v \in Versions : StartLoad(v) \/ \E overwrite \in BOOLEAN : StartFreeze(v, overwrite)
    \/ WriteFrozenRefused \/ WriteFrozen \/ ValidatePrompts \/ WriteManifest \/ KillFreeze
    \/ Verify \/ Read \/ EndOfCommand

Spec == Init /\ [][Next]_vars
-------------------------------------------------------------------------------
TypeOK ==
    /\ ReviewTypeOK
    /\ \A d \in DOMAIN domain : domain[d] \in [edition : 0..MaxEdits, valid : BOOLEAN]
    /\ requests \in [edition : 0..MaxEdits, valid : BOOLEAN] /\ promptsValid \in BOOLEAN
    /\ freeze.at \in {"idle", "write", "manifest"}
    /\ load.at \in {"idle", "verify", "read", "loaded"}
    /\ edits \in 0..MaxEdits /\ overwrites \in 0..MaxOverwrites
    /\ \A v \in Versions : manifest[v].exists /\ manifest[v].whole =>
          manifest[v].contents.renderings.rows \in Seq(Rendering)

\* A benchmark that loads is a validated one, whatever was edited, killed or frozen
\* over: its requests are valid, every operation has one active, non-mock rendering,
\* and so is the domain, if nobody edited it while the freeze or the load ran.
LoadedBenchmarkIsValid ==
    /\ TypeOK
    /\ load.at = "loaded" =>
          /\ \A o \in Ops :
                LET found == ActiveOf(load.contents.renderings.rows, o)
                IN  Cardinality(found) = 1
                    /\ \A k \in found : load.contents.renderings.rows[k].model # Mock
          /\ load.contents.requests.rows.valid
          /\ ~load.disturbed /\ ~load.manifest.disturbed => load.contents.domain.valid

\* Loads of a version are reproducible: what is loaded from a manifest that does not
\* record an overwrite is what was first frozen, whatever was edited, reviewed,
\* overwritten or killed since, unless a write overtakes the load itself.
LoadsAreReproducible ==
    load.at = "loaded" /\ ~load.disturbed /\ ~load.manifest.overwrite =>
        load.contents = original[load.version].contents

\* Once a version has a manifest, neither it nor the frozen files change again except
\* by a freeze of that version under the override.
VersionsAreImmutable ==
    [][\A v \in Versions :
          manifest[v].exists /\ <<manifest[v], frozen[v]>>' # <<manifest[v], frozen[v]>> =>
              freeze.at # "idle" /\ freeze.version = v /\ freeze.overwrite]_<<manifest, frozen>>

\* "Freezing (a) validates, (b) computes hashes, (c) writes frozen files and the
\* manifest" (DECISIONS.md): a freeze that raises has written nothing.
RaisedFreezeWroteNothing ==
    [][freeze.at = "write" /\ freeze' = NoFreeze /\ kills' = kills =>
          freeze.todo = Kinds]_vars
===============================================================================
