--------------------------- MODULE Replication_proofs ---------------------------
(* Proofs about Replication for every set of cases, messages and batches, and   *)
(* any number of scaffold-rmi and author-rmi-variants commands.                 *)
EXTENDS Replication, FiniteSetTheorems, TLAPS

Commands == Scaffolders \cup Authors
Places == Ended \cup {"starting", "reviewed", "checked", "staged", "moving", "rolling", "half"}

\* The commits are seven different paths, the first of them a directory; what
\* the freezing writes is none of them.
LEMMA CommitsAreSeven ==
  /\ Len(Commits) = 7
  /\ \A i \in 1..7 : Commits[i] \in Paths /\ Commits[i] # "frozen"
  /\ \A i, j \in 1..7 : Commits[i] = Commits[j] => i = j
  /\ Commits[1] \in Directories /\ Commits[2] = "cases" /\ Commits[7] = "receipt"
  /\ \A path \in Paths : path = "frozen" \/ \E i \in 1..7 : path = Commits[i]
<1>1. /\ Commits[1] = "domain" /\ Commits[2] = "cases" /\ Commits[3] = "interfaces"
      /\ Commits[4] = "splits" /\ Commits[5] = "elicitation" /\ Commits[6] = "changelog"
      /\ Commits[7] = "receipt" /\ Len(Commits) = 7 /\ DOMAIN Commits = 1..7
  BY DEF Commits
<1>2. \A i \in 1..7 : i = 1 \/ i = 2 \/ i = 3 \/ i = 4 \/ i = 5 \/ i = 6 \/ i = 7
  OBVIOUS
<1>3. \A i \in 1..7 : Commits[i] \in Paths /\ Commits[i] # "frozen"
  BY <1>1, <1>2 DEF Paths
<1>4. \A i, j \in 1..7 : Commits[i] = Commits[j] => i = j
  BY <1>1, <1>2
<1>5. \A path \in Paths : path = "frozen" \/ \E i \in 1..7 : path = Commits[i]
  BY <1>1 DEF Paths
<1> QED
  BY <1>1, <1>3, <1>4, <1>5 DEF Directories

Shape ==
    /\ at \in [Commands -> Places]
    /\ moved \in [Scaffolders -> 0..7]
    /\ target \in [Paths -> Scaffolders \cup {"nobody", "freeze"}]
    /\ output \in [{"candidates", "config"} -> Authors \cup {"nobody"}]
    /\ messages = [p \in Scaffolders |-> messages[p]]
    /\ batch = [a \in Authors |-> batch[a]]

\* A scaffold stands at the paths of the commits it has made and not taken back,
\* and at no other.
Standing ==
    /\ target["frozen"] \in {"nobody", "freeze"}
    /\ \A i \in 1..7 : \A p \in Scaffolders : target[Commits[i]] = p <=> i <= moved[p]
    /\ \A i \in 1..7 : target[Commits[i]] # "freeze"

\* Which commands have made commits; only a scaffold that made them all is done.
Progress ==
    \A p \in Scaffolders :
        /\ at[p] \notin {"moving", "rolling", "killed", "done"} => moved[p] = 0
        /\ moved[p] = 7 <=> at[p] = "done"

LEMMA ShapeStep ==
  ASSUME Shape, Standing, Progress, [Next]_vars
  PROVE  Shape'
<1> USE CommandAssumption, CommitsAreSeven
<1> DEFINE vs == <<scaffoldVars, authorVars>>
<1>1. ASSUME NEW p \in Commands, NEW there \in Places, Goto(p, there), UNCHANGED vs
      PROVE  Shape'
  BY <1>1 DEF Goto, Shape, scaffoldVars, authorVars
<1>2. ASSUME NEW p \in Commands, Cancel(p) \/ Kill(p) PROVE Shape'
  BY <1>1, <1>2 DEF Cancel, Kill, Places, Ended
<1>3. ASSUME NEW p \in Scaffolders, Scaffold(p) PROVE Shape'
  <2>0. p \in Commands
    BY DEF Commands
  <2>1. CASE ReviewCards(p)
    <3>1. PICK m : messages' = [messages EXCEPT ![p] = m]
      BY <2>1 DEF ReviewCards
    <3>2. messages' = [q \in Scaffolders |-> messages'[q]]
      BY <3>1 DEF Shape
    <3> QED
      BY <2>0, <2>1, <3>2 DEF ReviewCards, Goto, Shape, Places, authorVars
  <2>2. CASE Check(p) \/ CheckAgain(p)
    BY <1>1, <2>0, <2>2 DEF Check, CheckAgain, Places, Ended
  <2>3. CASE Stage(p)
    BY <1>1, <2>0, <2>3 DEF Stage, Places, Ended
  <2>4. CASE Move(p)
    <3>1. moved[p] \in 0..6 /\ Commits[moved[p] + 1] \in Paths
      BY <2>4 DEF Move, Shape, Progress
    <3> QED
      BY <2>0, <2>4, <3>1 DEF Move, Goto, Shape, Places, Ended, authorVars
  <2>5. CASE RollBack(p)
    <3>1. CASE moved[p] = 0
      BY <2>0, <2>5, <3>1 DEF RollBack, Goto, Shape, Places, Ended, authorVars
    <3>2. CASE moved[p] # 0
      <4>1. moved[p] \in 1..7 /\ Commits[moved[p]] \in Paths
        BY <3>2 DEF Shape
      <4> QED
        BY <2>5, <3>2, <4>1 DEF RollBack, Shape, authorVars
    <3> QED
      BY <3>1, <3>2
  <2> QED
    BY <1>3, <2>1, <2>2, <2>3, <2>4, <2>5 DEF Scaffold
<1>4. ASSUME NEW a \in Authors, AuthorVariants(a) PROVE Shape'
  <2>0. a \in Commands
    BY DEF Commands
  <2>1. CASE Collect(a)
    <3>1. batch' = batch \/ \E b \in Batches : batch' = [batch EXCEPT ![a] = b]
      BY <2>1 DEF Collect
    <3>2. batch' = [b \in Authors |-> batch'[b]]
      BY <3>1 DEF Shape
    <3> QED
      BY <2>0, <2>1, <3>2 DEF Collect, Goto, Shape, Places, Ended, scaffoldVars
  <2>2. CASE BuildRows(a) \/ StageRows(a)
    BY <1>1, <2>0, <2>2 DEF BuildRows, StageRows, Places, Ended
  <2>3. CASE ReplaceCandidates(a)
    BY <2>0, <2>3 DEF ReplaceCandidates, Goto, Shape, Places, Ended, scaffoldVars
  <2>4. CASE ReplaceConfig(a)
    BY <2>0, <2>4 DEF ReplaceConfig, Goto, Shape, Places, Ended, scaffoldVars
  <2> QED
    BY <1>4, <2>1, <2>2, <2>3, <2>4 DEF AuthorVariants
<1>5. CASE FreezeVersion
  BY <1>5 DEF FreezeVersion, Shape, Paths, authorVars
<1>6. CASE UNCHANGED vars
  BY <1>6 DEF vars, Shape, scaffoldVars, authorVars
<1> QED
  BY <1>2, <1>3, <1>4, <1>5, <1>6 DEF Next, Commands

LEMMA StandingStep ==
  ASSUME Shape, Standing, Progress, [Next]_vars
  PROVE  Standing'
<1> USE CommandAssumption, CommitsAreSeven
<1>1. ASSUME UNCHANGED <<moved, target>> PROVE Standing'
  BY <1>1 DEF Standing
<1>2. ASSUME NEW p \in Scaffolders, Move(p) PROVE Standing'
  <2> DEFINE k == moved[p] + 1
  <2>1. at[p] = "moving" /\ k \in 1..7 /\ Commits[k] \in Paths
    BY <1>2 DEF Move, Shape, Progress
  <2>2. CASE UNCHANGED <<moved, target>>
    BY <1>1, <2>2
  <2>3. CASE /\ Commits[k] \in Directories => target[Commits[k]] = "nobody"
             /\ target' = [target EXCEPT ![Commits[k]] = p]
             /\ moved' = [moved EXCEPT ![p] = @ + 1]
    <3>1. \A q \in Scaffolders : target[Commits[k]] # q
      <4> SUFFICES ASSUME NEW q \in Scaffolders, target[Commits[k]] = q PROVE FALSE
        OBVIOUS
      <4>1. k <= moved[q]
        BY <2>1 DEF Standing
      <4>2. k # 1
        BY <2>3
      <4>3. 1 <= moved[q] /\ 1 <= moved[p]
        BY <2>1, <4>1, <4>2 DEF Shape
      <4>4. target[Commits[1]] = p /\ target[Commits[1]] = q
        BY <4>3 DEF Standing
      <4> QED
        BY <4>1, <4>4 DEF Shape
    <3>2. target'[Commits[k]] = p /\ moved'[p] = k
      BY <2>1, <2>3 DEF Shape
    <3>3. \A i \in 1..7 : i # k => target'[Commits[i]] = target[Commits[i]]
      BY <2>1, <2>3 DEF Shape
    <3>4. \A q \in Scaffolders : q # p => moved'[q] = moved[q]
      BY <2>3 DEF Shape
    <3>5. target'["frozen"] = target["frozen"]
      BY <2>1, <2>3 DEF Shape, Paths
    <3>6. moved[p] \in Nat /\ \A q \in Scaffolders : moved[q] \in Nat
      BY DEF Shape
    <3>7. ASSUME NEW i \in 1..7, NEW q \in Scaffolders
          PROVE  target'[Commits[i]] = q <=> i <= moved'[q]
      <4>1. CASE i = k
        <5>1. CASE q = p
          BY <3>2, <4>1, <5>1
        <5>2. CASE q # p
          BY <2>1, <3>1, <3>2, <3>4, <4>1, <5>2 DEF Standing
        <5> QED
          BY <5>1, <5>2
      <4>2. CASE i # k
        <5>1. target[Commits[i]] = q <=> i <= moved[q]
          BY DEF Standing
        <5>2. CASE q = p
          BY <3>2, <3>3, <3>6, <4>2, <5>1, <5>2
        <5>3. CASE q # p
          BY <3>3, <3>4, <4>2, <5>1, <5>3
        <5> QED
          BY <5>2, <5>3
      <4> QED
        BY <4>1, <4>2
    <3>8. \A i \in 1..7 : target'[Commits[i]] # "freeze"
      BY <3>2, <3>3 DEF Standing
    <3> QED
      BY <3>5, <3>7, <3>8 DEF Standing
  <2> QED
    BY <1>2, <2>2, <2>3 DEF Move
<1>3. ASSUME NEW p \in Scaffolders, RollBack(p) PROVE Standing'
  <2>1. CASE moved[p] = 0
    BY <1>1, <1>3, <2>1 DEF RollBack
  <2>2. CASE moved[p] # 0
    <3> DEFINE k == moved[p]
    <3>1. /\ target' = [target EXCEPT ![Commits[k]] = "nobody"]
          /\ moved' = [moved EXCEPT ![p] = @ - 1]
      BY <1>3, <2>2 DEF RollBack
    <3>2. k \in 1..7 /\ Commits[k] \in Paths
      BY <2>2 DEF Shape
    <3>3. target[Commits[k]] = p
      BY <3>2 DEF Standing
    <3>4. target'[Commits[k]] = "nobody" /\ moved'[p] = k - 1
      BY <3>1, <3>2 DEF Shape
    <3>5. \A i \in 1..7 : i # k => target'[Commits[i]] = target[Commits[i]]
      BY <3>1, <3>2 DEF Shape
    <3>6. \A q \in Scaffolders : q # p => moved'[q] = moved[q]
      BY <3>1 DEF Shape
    <3>7. target'["frozen"] = target["frozen"]
      BY <3>1, <3>2 DEF Shape, Paths
    <3>8. ASSUME NEW i \in 1..7, NEW q \in Scaffolders
          PROVE  target'[Commits[i]] = q <=> i <= moved'[q]
      <4>1. target[Commits[i]] = q <=> i <= moved[q]
        BY DEF Standing
      <4>2. moved[q] \in 0..7 /\ q # "nobody"
        BY DEF Shape
      <4>3. CASE i = k
        BY <3>2, <3>3, <3>4, <3>6, <4>1, <4>2, <4>3
      <4>4. CASE i # k
        BY <3>2, <3>4, <3>5, <3>6, <4>1, <4>2, <4>4
      <4> QED
        BY <4>3, <4>4
    <3>9. \A i \in 1..7 : target'[Commits[i]] # "freeze"
      BY <3>4, <3>5 DEF Standing
    <3> QED
      BY <3>7, <3>8, <3>9 DEF Standing
  <2> QED
    BY <2>1, <2>2
<1>4. CASE FreezeVersion
  <2>1. /\ target' = [target EXCEPT !["frozen"] = "freeze"] /\ moved' = moved
    BY <1>4 DEF FreezeVersion
  <2>2. \A i \in 1..7 : target'[Commits[i]] = target[Commits[i]]
    BY <2>1 DEF Shape
  <2>3. target'["frozen"] = "freeze"
    BY <2>1 DEF Shape, Paths
  <2> QED
    BY <2>1, <2>2, <2>3 DEF Standing
<1>5. ASSUME NEW p \in Scaffolders, ReviewCards(p) \/ Check(p) \/ Stage(p) \/ CheckAgain(p)
      PROVE  Standing'
  BY <1>1, <1>5 DEF ReviewCards, Check, Stage, CheckAgain, scaffoldVars
<1>6. ASSUME NEW a \in Authors, AuthorVariants(a) PROVE Standing'
  BY <1>1, <1>6 DEF AuthorVariants, Collect, BuildRows, StageRows, ReplaceCandidates,
                    ReplaceConfig, scaffoldVars
<1>7. ASSUME NEW p \in Commands, Cancel(p) \/ Kill(p) PROVE Standing'
  BY <1>1, <1>7 DEF Cancel, Kill, scaffoldVars
<1>8. CASE UNCHANGED vars
  BY <1>1, <1>8 DEF vars, scaffoldVars
<1> QED
  BY <1>2, <1>3, <1>4, <1>5, <1>6, <1>7, <1>8 DEF Next, Scaffold, Commands

LEMMA ProgressStep ==
  ASSUME Shape, Progress, [Next]_vars
  PROVE  Progress'
<1> USE CommandAssumption, CommitsAreSeven
<1>1. ASSUME NEW p \in Scaffolders, Scaffold(p) PROVE Progress'
  <2>0. p \in Commands /\ \A q \in Scaffolders : q \in Commands
    BY DEF Commands
  <2>1. CASE ReviewCards(p) \/ Check(p) \/ Stage(p) \/ CheckAgain(p)
    BY <2>0, <2>1 DEF ReviewCards, Check, Stage, CheckAgain, Goto, scaffoldVars, Shape, Progress
  <2>2. CASE Move(p)
    <3>1. moved[p] \in 0..6
      BY <2>2 DEF Move, Shape, Progress
    <3> QED
      BY <2>0, <2>2, <3>1 DEF Move, Goto, Shape, Progress
  <2>3. CASE RollBack(p)
    <3>1. moved[p] \in 0..6
      BY <2>3 DEF RollBack, Shape, Progress
    <3>2. CASE moved[p] = 0
      BY <2>0, <2>3, <3>2 DEF RollBack, Goto, Shape, Progress
    <3>3. CASE moved[p] # 0
      BY <2>3, <3>1, <3>3 DEF RollBack, Shape, Progress
    <3> QED
      BY <3>2, <3>3
  <2> QED
    BY <1>1, <2>1, <2>2, <2>3 DEF Scaffold
<1>2. ASSUME NEW a \in Authors, AuthorVariants(a) PROVE Progress'
  <2>1. moved' = moved /\ \A p \in Scaffolders : at'[p] = at[p]
    BY <1>2 DEF AuthorVariants, Collect, BuildRows, StageRows, ReplaceCandidates,
                ReplaceConfig, Goto, Shape, Commands, scaffoldVars
  <2> QED
    BY <2>1 DEF Progress
<1>3. ASSUME NEW p \in Commands, Cancel(p) \/ Kill(p) PROVE Progress'
  <2>1. \A q \in Scaffolders : q \in Commands
    BY DEF Commands
  <2> QED
    BY <1>3, <2>1 DEF Cancel, Kill, Goto, Ended, scaffoldVars, Shape, Progress
<1>4. CASE FreezeVersion \/ UNCHANGED vars
  BY <1>4 DEF FreezeVersion, vars, scaffoldVars, Progress
<1> QED
  BY <1>1, <1>2, <1>3, <1>4 DEF Next, Commands
--------------------------------------------------------------------------------
IInv == Shape /\ Standing /\ Progress

\* What stands, who made it and how far each command is fit together in every
\* state (replication.py, scaffold_replication).
THEOREM Invariance == Spec => []IInv
<1>1. Init => IInv
  BY CommandAssumption, CommitsAreSeven
     DEF Init, IInv, Shape, Standing, Progress, Commands, Places, Paths
<1>2. IInv /\ [Next]_vars => IInv'
  BY ShapeStep, StandingStep, ProgressStep DEF IInv
<1> QED
  BY <1>1, <1>2, PTL DEF Spec

\* The types of the variables; a scaffold that is done has made every commit, one
\* that failed has none left.
THEOREM TypeCorrect == Spec => []TypeOK
<1>1. IInv => TypeOK
  BY CommitsAreSeven DEF IInv, Shape, Progress, TypeOK, Commands, Places
<1> QED
  BY <1>1, Invariance, PTL

\* A version with a receipt is whole and of one command (replication.py,
\* scaffold_replication).
THEOREM ReceiptsAreHonest == Spec => []ReceiptMeansWhole
<1>1. IInv => ReceiptMeansWhole
  <2> SUFFICES ASSUME IInv, target["receipt"] # "nobody", NEW i \in 1..7
               PROVE  target[Commits[i]] = target["receipt"]
    BY CommitsAreSeven DEF ReceiptMeansWhole
  <2>1. PICK p \in Scaffolders : target["receipt"] = p
    BY CommitsAreSeven DEF IInv, Shape, Standing
  <2>2. 7 <= moved[p]
    BY <2>1, CommitsAreSeven DEF IInv, Standing
  <2>3. i <= moved[p]
    BY <2>2 DEF IInv, Shape
  <2> QED
    BY <2>1, <2>3 DEF IInv, Standing
<1> QED
  BY <1>1, Invariance, PTL

\* What refused, failed or was cancelled has left nothing (replication.py, the
\* handler around the commits).
THEOREM RefusalsAreClean == Spec => []RefusalsLeaveNothing
<1>1. IInv => RefusalsLeaveNothing
  <2> SUFFICES ASSUME IInv, NEW p \in Scaffolders, at[p] \in {"refused", "cancelled", "failed"},
                      NEW path \in Paths
               PROVE  target[path] # p
    BY DEF RefusalsLeaveNothing
  <2>1. moved[p] = 0
    BY DEF IInv, Progress
  <2>2. CASE path = "frozen"
    BY <2>2, CommandAssumption DEF IInv, Standing
  <2>3. CASE \E i \in 1..7 : path = Commits[i]
    BY <2>1, <2>3 DEF IInv, Standing
  <2> QED
    BY <2>2, <2>3, CommitsAreSeven
<1> QED
  BY <1>1, Invariance, PTL

\* A scaffold that is done stays whole, whatever other commands, started before
\* or after it, rename or take back (replication.py, os.replace).
THEOREM DoneStays == Spec => ScaffoldedStays
<1>1. IInv /\ IInv' /\ [Next]_vars =>
        \A p \in Scaffolders : at[p] = "done" =>
           \A i \in DOMAIN Commits : target'[Commits[i]] = p
  <2> SUFFICES ASSUME IInv, IInv', [Next]_vars, NEW p \in Scaffolders, at[p] = "done",
                      NEW i \in 1..7
               PROVE  target'[Commits[i]] = p
    BY CommitsAreSeven DEF Commits
  <2>1. moved'[p] = moved[p]
    <3>1. ASSUME NEW q \in Scaffolders, Move(q) \/ RollBack(q) PROVE moved'[p] = moved[p]
      BY <3>1 DEF Move, RollBack, IInv, Shape
    <3> QED
      BY <3>1 DEF Next, Scaffold, ReviewCards, Check, Stage, CheckAgain, AuthorVariants,
                  Collect, BuildRows, StageRows, ReplaceCandidates, ReplaceConfig, Cancel,
                  Kill, FreezeVersion, vars, scaffoldVars
  <2>2. i <= moved'[p]
    BY <2>1 DEF IInv, Progress
  <2> QED
    BY <2>2 DEF IInv, Standing
<1> QED
  BY <1>1, Invariance, PTL DEF Spec, ScaffoldedStays
--------------------------------------------------------------------------------
(* The authors.                                                                 *)

\* The wordings of an author quote the messages of a scaffold that is done.
Fits(a) ==
    /\ \E q \in Scaffolders :
          /\ at[q] = "done"
          /\ \A key \in DOMAIN batch[a] :
                /\ batch[a][key].quotes = messages[q][key[1]].text
                /\ batch[a][key].times = 1
    /\ \A key, other \in DOMAIN batch[a] :
          key # other => batch[a][key].normalized # batch[a][other].normalized

\* An author past its dialogue has a batch and was shown a whole version; past
\* the checks the batch fits, and the candidate file is of such an author.
Authored ==
    \A a \in Authors :
        /\ at[a] \in {"reviewed", "checked", "staged", "half"} =>
              batch[a] \in Batches /\ \E q \in Scaffolders : at[q] = "done"
        /\ at[a] \in {"checked", "staged", "half"} => Fits(a)
        /\ output["candidates"] = a =>
              at[a] \in {"half", "done", "killed"} /\ batch[a] \in Batches /\ Fits(a)

LEMMA DoneStandsAtCases ==
  ASSUME IInv, NEW q \in Scaffolders, at[q] = "done"
  PROVE  target["cases"] = q
<1>1. moved[q] = 7
  BY DEF IInv, Progress
<1> QED
  BY <1>1, CommitsAreSeven DEF IInv, Standing

\* Nothing an author does, and nothing that happens to it, disturbs a scaffold
\* that is done or its messages.
LEMMA DoneIsUndisturbed ==
  ASSUME IInv, [Next]_vars, NEW q \in Scaffolders, at[q] = "done"
  PROVE  at'[q] = "done" /\ messages'[q] = messages[q]
<1> USE CommandAssumption
<1>0. q \in Commands /\ q \notin Authors
  BY DEF Commands
<1>1. ASSUME NEW p \in Scaffolders, Scaffold(p)
      PROVE  at'[q] = "done" /\ messages'[q] = messages[q]
  <2>1. p # q
    BY <1>1 DEF Scaffold, ReviewCards, Check, Stage, CheckAgain, Move, RollBack
  <2>2. at'[q] = at[q]
    BY <1>0, <1>1, <2>1 DEF Scaffold, ReviewCards, Check, Stage, CheckAgain, Move, RollBack,
                            Goto, IInv, Shape
  <2>3. messages' = messages \/ \E m : messages' = [messages EXCEPT ![p] = m]
    BY <1>1 DEF Scaffold, ReviewCards, Check, Stage, CheckAgain, Move, RollBack, scaffoldVars
  <2> QED
    BY <2>1, <2>2, <2>3 DEF IInv, Shape
<1>2. ASSUME NEW a \in Authors, AuthorVariants(a)
      PROVE  at'[q] = "done" /\ messages'[q] = messages[q]
  BY <1>0, <1>2 DEF AuthorVariants, Collect, BuildRows, StageRows, ReplaceCandidates,
                    ReplaceConfig, Goto, IInv, Shape, scaffoldVars
<1>3. ASSUME NEW p \in Commands, Cancel(p) \/ Kill(p)
      PROVE  at'[q] = "done" /\ messages'[q] = messages[q]
  BY <1>0, <1>3 DEF Cancel, Kill, Ended, Goto, IInv, Shape, scaffoldVars
<1>4. CASE FreezeVersion \/ UNCHANGED vars
  BY <1>4 DEF FreezeVersion, vars, scaffoldVars
<1> QED
  BY <1>1, <1>2, <1>3, <1>4 DEF Next, Commands

\* An author that keeps its batch keeps what it was checked for.
LEMMA FitsStays ==
  ASSUME IInv, [Next]_vars, NEW a \in Authors, batch'[a] = batch[a], Fits(a)
  PROVE  Fits(a)'
<1>1. PICK q \in Scaffolders :
         /\ at[q] = "done"
         /\ \A key \in DOMAIN batch[a] :
               /\ batch[a][key].quotes = messages[q][key[1]].text
               /\ batch[a][key].times = 1
  BY DEF Fits
<1>2. at'[q] = "done" /\ messages'[q] = messages[q]
  BY <1>1, DoneIsUndisturbed
<1> QED
  BY <1>1, <1>2 DEF Fits

LEMMA AuthoredStep ==
  ASSUME IInv, Authored, [Next]_vars
  PROVE  Authored'
<1> USE CommandAssumption
<1>0. ASSUME NEW a \in Authors,
             batch'[a] = batch[a],
             at'[a] = at[a] \/ at'[a] \in Ended,
             output'["candidates"] = a =>
                output["candidates"] = a /\ at'[a] \in {"half", "done", "killed"}
      PROVE  /\ at'[a] \in {"reviewed", "checked", "staged", "half"} =>
                   batch'[a] \in Batches /\ \E q \in Scaffolders : at'[q] = "done"
             /\ at'[a] \in {"checked", "staged", "half"} => Fits(a)'
             /\ output'["candidates"] = a =>
                   at'[a] \in {"half", "done", "killed"} /\ batch'[a] \in Batches /\ Fits(a)'
  BY <1>0, FitsStays, DoneIsUndisturbed DEF Authored, Ended
<1>1. ASSUME NEW p \in Commands,
             (p \in Scaffolders /\ Scaffold(p)) \/ Cancel(p) \/ Kill(p)
      PROVE  Authored'
  <2>1. UNCHANGED <<batch, output>>
    BY <1>1 DEF Scaffold, ReviewCards, Check, Stage, CheckAgain, Move, RollBack, Cancel, Kill,
                authorVars
  <2>2. \A a \in Authors : a # p => at'[a] = at[a]
    BY <1>1 DEF Scaffold, ReviewCards, Check, Stage, CheckAgain, Move, RollBack, Cancel, Kill,
                Goto, IInv, Shape, Commands
  <2>3. p \in Authors =>
           /\ at'[p] \in Ended
           /\ output["candidates"] = p => at'[p] \in {"half", "done", "killed"}
    BY <1>1 DEF Cancel, Kill, Goto, Ended, IInv, Shape, Commands, Authored
  <2> QED
    BY <1>0, <2>1, <2>2, <2>3 DEF Authored
<1>2. ASSUME NEW a \in Authors, AuthorVariants(a) PROVE Authored'
  <2>0. a \in Commands /\ \A b \in Authors : b \in Commands
    BY DEF Commands
  <2>1. ASSUME NEW b \in Authors, b # a
        PROVE  /\ at'[b] \in {"reviewed", "checked", "staged", "half"} =>
                     batch'[b] \in Batches /\ \E q \in Scaffolders : at'[q] = "done"
               /\ at'[b] \in {"checked", "staged", "half"} => Fits(b)'
               /\ output'["candidates"] = b =>
                     at'[b] \in {"half", "done", "killed"} /\ batch'[b] \in Batches /\ Fits(b)'
    <3>1. at'[b] = at[b]
      BY <1>2, <2>0, <2>1 DEF AuthorVariants, Collect, BuildRows, StageRows, ReplaceCandidates,
                              ReplaceConfig, Goto, IInv, Shape
    <3>2. batch' = batch \/ \E x : batch' = [batch EXCEPT ![a] = x]
      BY <1>2 DEF AuthorVariants, Collect, BuildRows, StageRows, ReplaceCandidates,
                  ReplaceConfig, authorVars
    <3>3. batch'[b] = batch[b]
      BY <2>1, <3>2 DEF IInv, Shape
    <3>4. output'["candidates"] = b => output["candidates"] = b
      BY <1>2, <2>1 DEF AuthorVariants, Collect, BuildRows, StageRows, ReplaceCandidates,
                        ReplaceConfig, authorVars, IInv, Shape
    <3> QED
      BY <1>0, <3>1, <3>3, <3>4 DEF Authored
  <2>2. /\ at'[a] \in {"reviewed", "checked", "staged", "half"} =>
              batch'[a] \in Batches /\ \E q \in Scaffolders : at'[q] = "done"
        /\ at'[a] \in {"checked", "staged", "half"} => Fits(a)'
        /\ output'["candidates"] = a =>
              at'[a] \in {"half", "done", "killed"} /\ batch'[a] \in Batches /\ Fits(a)'
    <3>1. CASE Collect(a)
      <4>1. output["candidates"] # a
        BY <3>1 DEF Collect, Authored
      <4>2. output' = output /\ at'[a] \in {"refused", "reviewed"}
        BY <3>1, <2>0 DEF Collect, Goto, IInv, Shape
      <4>3. ASSUME at'[a] = "reviewed"
            PROVE  batch'[a] \in Batches /\ \E q \in Scaffolders : at'[q] = "done"
        <5>1. target["receipt"] # "nobody" /\ \E b \in Batches : batch' = [batch EXCEPT ![a] = b]
          BY <2>0, <3>1, <4>3 DEF Collect, Goto, IInv, Shape
        <5>2. PICK q \in Scaffolders : target["receipt"] = q
          BY <5>1, CommitsAreSeven DEF IInv, Shape, Standing
        <5>3. 7 <= moved[q] /\ moved[q] \in 0..7
          BY <5>2, CommitsAreSeven DEF IInv, Shape, Standing
        <5>4. at[q] = "done"
          BY <5>3 DEF IInv, Progress
        <5>5. at'[q] = "done"
          BY <5>4, DoneIsUndisturbed
        <5>6. batch'[a] \in Batches
          BY <5>1 DEF IInv, Shape
        <5> QED
          BY <5>5, <5>6
      <4> QED
        BY <4>1, <4>2, <4>3
    <3>2. CASE BuildRows(a)
      <4>1. /\ at[a] = "reviewed" /\ UNCHANGED <<batch, output>>
            /\ at'[a] \in {"refused", "checked"}
            /\ at'[a] = "checked" => ~BatchRefused(batch[a])
        BY <2>0, <3>2 DEF BuildRows, Goto, IInv, Shape, authorVars
      <4>2. output'["candidates"] # a
        BY <4>1 DEF Authored
      <4>3. PICK q \in Scaffolders : at[q] = "done"
        BY <4>1 DEF Authored
      <4>4. target["cases"] = q
        BY <4>3, DoneStandsAtCases
      <4>5. ASSUME at'[a] = "checked" PROVE Fits(a)
        BY <4>1, <4>3, <4>4, <4>5 DEF BatchRefused, Accepted, MessageOf, Fits
      <4>6. at'[q] = "done" /\ batch[a] \in Batches
        BY <4>1, <4>3, DoneIsUndisturbed DEF Authored
      <4> QED
        BY <4>1, <4>2, <4>5, <4>6, FitsStays
    <3>3. CASE StageRows(a)
      <4>1. /\ at[a] = "checked" /\ UNCHANGED <<batch, output>>
            /\ at'[a] \in {"refused", "staged"}
        BY <2>0, <3>3 DEF StageRows, Goto, IInv, Shape, authorVars
      <4> QED
        BY <4>1, FitsStays, DoneIsUndisturbed DEF Authored
    <3>4. CASE ReplaceCandidates(a)
      <4>1. /\ at[a] = "staged" /\ UNCHANGED batch
            /\ \/ at'[a] = "half"
               \/ at'[a] = "failed" /\ output' = output
        BY <2>0, <3>4 DEF ReplaceCandidates, Goto, IInv, Shape
      <4>2. output["candidates"] # a
        BY <4>1 DEF Authored
      <4> QED
        BY <4>1, <4>2, FitsStays, DoneIsUndisturbed DEF Authored
    <3>5. CASE ReplaceConfig(a)
      <4>1. /\ at[a] = "half" /\ UNCHANGED batch
            /\ \/ at'[a] = "done" /\ output'["candidates"] = output["candidates"]
               \/ at'[a] = "failed" /\ output'["candidates"] = "nobody"
        BY <2>0, <3>5 DEF ReplaceConfig, Goto, IInv, Shape
      <4> QED
        BY <4>1, FitsStays DEF Authored
    <3> QED
      BY <1>2, <3>1, <3>2, <3>3, <3>4, <3>5 DEF AuthorVariants
  <2> QED
    BY <2>1, <2>2 DEF Authored
<1>3. CASE FreezeVersion \/ UNCHANGED vars
  BY <1>0, <1>3 DEF FreezeVersion, vars, authorVars, Authored
<1> QED
  BY <1>1, <1>2, <1>3 DEF Next, Commands

\* The candidate file quotes the messages of the cases that stand, whatever
\* scaffolds, authors and kills came in between (replication.py,
\* build_variant_rows).
THEOREM CandidatesFit == Spec => []CandidatesFitTheirCases
<1>1. Init => Authored
  BY CommandAssumption DEF Init, Authored
<1>2. IInv /\ Authored /\ [Next]_vars => Authored'
  BY AuthoredStep
<1>3. IInv /\ Authored => CandidatesFitTheirCases
  <2> SUFFICES ASSUME IInv, Authored, NEW a \in Authors, output["candidates"] = a
               PROVE  /\ target["cases"] # "nobody"
                      /\ \A key \in DOMAIN batch[a] :
                            /\ batch[a][key].quotes = MessageOf(key[1])
                            /\ batch[a][key].times = 1
                      /\ Cardinality({batch[a][key].normalized : key \in DOMAIN batch[a]})
                            = Cardinality(DOMAIN batch[a])
    BY DEF CandidatesFitTheirCases
  <2>1. batch[a] \in Batches /\ Fits(a)
    BY DEF Authored
  <2>2. PICK q \in Scaffolders :
           /\ at[q] = "done"
           /\ \A key \in DOMAIN batch[a] :
                 /\ batch[a][key].quotes = messages[q][key[1]].text
                 /\ batch[a][key].times = 1
    BY <2>1 DEF Fits
  <2>3. target["cases"] = q
    BY <2>2, DoneStandsAtCases
  <2>4. Cardinality({batch[a][key].normalized : key \in DOMAIN batch[a]})
           = Cardinality(DOMAIN batch[a])
    <3> DEFINE wording == [key \in DOMAIN batch[a] |-> batch[a][key].normalized]
               wordings == {batch[a][key].normalized : key \in DOMAIN batch[a]}
    <3>1. wording \in Bijection(DOMAIN batch[a], wordings)
      BY <2>1 DEF Fits, Bijection, Injection, IsInjective, Surjection
    <3>2. IsFiniteSet(DOMAIN batch[a])
      BY <2>1, BatchAssumption
    <3> QED
      BY <3>1, <3>2, FS_Bijection DEF ExistsBijection
  <2> QED
    BY <2>2, <2>3, <2>4, CommandAssumption DEF MessageOf
<1> QED
  BY <1>1, <1>2, <1>3, Invariance, PTL DEF Spec
--------------------------------------------------------------------------------
(* An author that is alone.                                                     *)

OneAuthor == \A a, b \in Authors : a = b

\* Between its two renames an author has the candidates there, and after them both.
Together ==
    \A a \in Authors :
        /\ at[a] = "half" => output["candidates"] = a /\ output["config"] = "nobody"
        /\ output["config"] = a => at[a] = "done" /\ output["candidates"] = a
        /\ output["candidates"] = a => at[a] \in {"half", "killed"} \/ output["config"] = a

\* Only its own renames change the outputs, and each keeps them together.
LEMMA TogetherStep ==
  ASSUME OneAuthor, IInv, Together, [Next]_vars
  PROVE  Together'
<1> SUFFICES ASSUME NEW a \in Authors
             PROVE  /\ at'[a] = "half" => output'["candidates"] = a /\ output'["config"] = "nobody"
                    /\ output'["config"] = a => at'[a] = "done" /\ output'["candidates"] = a
                    /\ output'["candidates"] = a =>
                          at'[a] \in {"half", "killed"} \/ output'["config"] = a
  BY DEF Together
<1> USE CommandAssumption
<1>1. /\ a \in Commands /\ a \notin Scaffolders /\ a # "nobody"
      /\ at \in [Commands -> Places]
      /\ output \in [{"candidates", "config"} -> Authors \cup {"nobody"}]
  BY DEF Commands, IInv, Shape
<1>2. /\ at[a] = "half" => output["candidates"] = a /\ output["config"] = "nobody"
      /\ output["config"] = a => at[a] = "done" /\ output["candidates"] = a
      /\ output["candidates"] = a => at[a] \in {"half", "killed"} \/ output["config"] = a
  BY DEF Together
<1>3. \A b \in Authors : b = a
  BY DEF OneAuthor
<1>4. \A file \in {"candidates", "config"} : output[file] \in {a, "nobody"}
  BY <1>1, <1>3
<1>5. CASE output' = output /\ (at'[a] = at[a] \/ (at[a] \notin Ended /\ at'[a] = "killed")
                                \/ (at[a] \notin Ended \cup {"half"} /\ at'[a] # "half"))
  BY <1>1, <1>2, <1>5 DEF Ended
<1>6. CASE \E p \in Scaffolders : Scaffold(p) \/ Cancel(p) \/ Kill(p)
  <2>1. PICK p \in Scaffolders : Scaffold(p) \/ Cancel(p) \/ Kill(p)
    BY <1>6
  <2>2. output' = output /\ \E there : at' = [at EXCEPT ![p] = there] \/ at' = at
    BY <2>1 DEF Scaffold, ReviewCards, Check, Stage, CheckAgain, Move, RollBack, Cancel, Kill,
                authorVars, Goto
  <2>3. at'[a] = at[a]
    BY <1>1, <2>2
  <2> QED
    BY <1>5, <2>2, <2>3
<1>7. CASE Cancel(a) \/ Kill(a)
  <2>1. output' = output /\ \/ at[a] \in {"starting", "reviewed"} /\ at'[a] = "cancelled"
                            \/ at[a] \notin Ended /\ at'[a] = "killed"
    BY <1>1, <1>7 DEF Cancel, Kill, Goto, authorVars
  <2> QED
    BY <1>5, <2>1 DEF Ended
<1>8. CASE Collect(a) \/ BuildRows(a) \/ StageRows(a)
  <2>1. /\ output' = output /\ at[a] \in {"starting", "reviewed", "checked"}
        /\ at'[a] \in {"refused", "reviewed", "checked", "staged"}
    BY <1>1, <1>8 DEF Collect, BuildRows, StageRows, Goto, authorVars
  <2> QED
    BY <1>5, <2>1 DEF Ended
<1>9. CASE ReplaceCandidates(a)
  <2>1. at[a] = "staged" /\ output["config"] = "nobody"
    BY <1>2, <1>4, <1>9 DEF ReplaceCandidates
  <2>2. \/ at'[a] = "half" /\ output' = [output EXCEPT !["candidates"] = a]
        \/ at'[a] = "failed" /\ output' = output
    BY <1>1, <1>9 DEF ReplaceCandidates, Goto
  <2> QED
    BY <1>1, <1>2, <1>5, <2>1, <2>2 DEF Ended
<1>10. CASE ReplaceConfig(a)
  <2>1. at[a] = "half"
    BY <1>10 DEF ReplaceConfig
  <2>2. \/ at'[a] = "done" /\ output' = [output EXCEPT !["config"] = a]
        \/ at'[a] = "failed" /\ output' = [output EXCEPT !["candidates"] = "nobody"]
    BY <1>1, <1>10 DEF ReplaceConfig, Goto
  <2> QED
    BY <1>1, <1>2, <2>1, <2>2
<1>11. CASE FreezeVersion \/ UNCHANGED vars
  BY <1>5, <1>11 DEF FreezeVersion, vars, authorVars
<1> QED
  BY <1>3, <1>6, <1>7, <1>8, <1>9, <1>10, <1>11 DEF Next, AuthorVariants

\* What author-rmi-variants leaves behind is whole and fits the version, as long as
\* no other one is at work on the same outputs: it looks for them twice, but renames
\* over what has appeared since (cli.py).
THEOREM LoneAuthorsAreSound ==
  ASSUME OneAuthor
  PROVE  Spec => []OutputsAreSound
<1>1. Init => Together
  BY CommandAssumption DEF Init, Together
<1>2. IInv /\ Together /\ [Next]_vars => Together'
  BY TogetherStep
<1>3. IInv /\ Together => OutputsComeTogether
  <2>1. IInv => output["config"] \in Authors \cup {"nobody"}
    BY DEF IInv, Shape
  <2>2. Together /\ output["config"] # "nobody" /\ output["config"] \in Authors =>
          output["candidates"] = output["config"]
    BY DEF Together
  <2>3. Together => \A a \in Authors : output["candidates"] = a /\ output["config"] = "nobody" =>
                       at[a] \in {"half", "killed"}
    BY CommandAssumption DEF Together
  <2> QED
    BY <2>1, <2>2, <2>3 DEF OutputsComeTogether
<1> QED
  BY <1>1, <1>2, <1>3, Invariance, CandidatesFit, PTL DEF Spec, OutputsAreSound
================================================================================
