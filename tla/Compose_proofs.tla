---------------------------- MODULE Compose_proofs ----------------------------
(* Proofs about Compose for any matrix, any base run, any repair runs and any *)
(* number of commands.                                                        *)
EXTENDS Compose, FiniteSetTheorems, TLAPS

\* What a command copies.
RowsOf(p) ==
    Rows("base", base, Cells \ Replaced(p)) \cup Rows("repair", repair[p], Replaced(p))
RecordsOf(p) ==
    Calls("base", base, Cells \ Replaced(p)) \cup Calls("repair", repair[p], Replaced(p))

Typed == TypeOK /\ repair \in [Composers -> Repairs]

LEMMA RowsAreTyped ==
  ASSUME Typed, NEW p \in Composers
  PROVE  RowsOf(p) \subseteq Record /\ RecordsOf(p) \subseteq Record
<1>1. repair[p] \in Repairs /\ Replaced(p) \subseteq Cells
  BY DEF Typed, Replaced
<1>2. \A c \in Cells : /\ base.rows[c] \in Kinds \cup {"none"}
                       /\ base.calls[c] \in Kinds \cup {"none"}
  BY DEF Typed, TypeOK, Base, Files
<1>3. \A r \in Rows("base", base, Cells \ Replaced(p)) : r \in Record
  BY <1>2 DEF Rows, Record
<1>4. \A r \in Rows("repair", repair[p], Replaced(p)) : r \in Record
  BY <1>1, ComposeAssumption DEF Rows, Record
<1>5. \A r \in Calls("base", base, Cells \ Replaced(p)) : r \in Record
  BY <1>2 DEF Calls, Record
<1>6. \A r \in Calls("repair", repair[p], Replaced(p)) : r \in Record
  BY <1>1, ComposeAssumption DEF Calls, Record
<1> QED
  BY <1>3, <1>4, <1>5, <1>6 DEF RowsOf, RecordsOf

\* The variables keep their types and the commands the repairs they were given.
LEMMA TypedStep == Typed /\ [Next]_vars => Typed'
<1> SUFFICES ASSUME Typed, [Next]_vars PROVE Typed'
  OBVIOUS
<1> USE DEF Typed
<1>1. ASSUME NEW p \in Composers, Check(p) PROVE Typed'
  BY <1>1 DEF Check, Goto, TypeOK, Ended, args
<1>2. ASSUME NEW p \in Composers, MakeDirectory(p) PROVE Typed'
  BY <1>2 DEF MakeDirectory, Goto, TypeOK, Ended, args
<1>3. ASSUME NEW p \in Composers, CopyRows(p) PROVE Typed'
  <2>1. \/ out' = out
        \/ out' = [out EXCEPT !.rows = RowsOf(p)]
    BY <1>3 DEF CopyRows, RowsOf
  <2>2. out' \in [owner : Composers \cup {"nobody"}, rows : SUBSET Record,
                  calls : SUBSET Record, manifest : BOOLEAN, eligible : BOOLEAN,
                  summary : BOOLEAN]
    BY <2>1, RowsAreTyped DEF TypeOK
  <2> QED
    BY <1>3, <2>2 DEF CopyRows, Goto, TypeOK, Ended, args
<1>4. ASSUME NEW p \in Composers, CopyCalls(p) PROVE Typed'
  <2>1. out' = [out EXCEPT !.calls = RecordsOf(p)]
    BY <1>4 DEF CopyCalls, RecordsOf
  <2>2. out' \in [owner : Composers \cup {"nobody"}, rows : SUBSET Record,
                  calls : SUBSET Record, manifest : BOOLEAN, eligible : BOOLEAN,
                  summary : BOOLEAN]
    BY <2>1, RowsAreTyped DEF TypeOK
  <2> QED
    BY <1>4, <2>2 DEF CopyCalls, Goto, TypeOK, Ended, args
<1>5. ASSUME NEW p \in Composers, Judge(p) PROVE Typed'
  BY <1>5 DEF Judge, Goto, TypeOK, Ended, args
<1>6. ASSUME NEW p \in Composers, WriteManifest(p) PROVE Typed'
  <2>1. base.eligible \in BOOLEAN /\ repair[p].eligible \in BOOLEAN
    BY ComposeAssumption DEF TypeOK, Base
  <2> QED
    BY <1>6, <2>1 DEF WriteManifest, Goto, TypeOK, Ended, args
<1>7. ASSUME NEW p \in Composers, WriteSummary(p) PROVE Typed'
  BY <1>7 DEF WriteSummary, Goto, TypeOK, Ended, args
<1>8. ASSUME NEW p \in Composers, Kill(p) PROVE Typed'
  BY <1>8 DEF Kill, Goto, TypeOK, Ended, args
<1>9. ASSUME NEW c \in Cells, NEW kind \in Kinds, BaseRow(c, kind) PROVE Typed'
  <2>1. [base.rows EXCEPT ![c] = kind] \in Files
    BY DEF TypeOK, Base, Files
  <2>2. base' \in Base
    BY <1>9, <2>1 DEF BaseRow, TypeOK, Base
  <2> QED
    BY <1>9, <2>2 DEF BaseRow, TypeOK, args
<1>10. CASE BaseCalls
  <2>1. writing \in Cells
    BY <1>10 DEF BaseCalls, TypeOK
  <2>2. CallsOf(base.rows[writing]) \in Kinds \cup {"none"}
    BY <2>1 DEF CallsOf, TypeOK, Base, Files
  <2>3. [base.calls EXCEPT ![writing] = CallsOf(base.rows[writing])] \in Files
    BY <2>2 DEF TypeOK, Base, Files
  <2>4. base' \in Base
    BY <1>10, <2>3 DEF BaseCalls, TypeOK, Base
  <2> QED
    BY <1>10, <2>4 DEF BaseCalls, TypeOK, args
<1>11. CASE BaseEnds \/ BaseKilled
  <2>1. base' \in Base
    BY <1>11 DEF BaseEnds, BaseKilled, TypeOK, Base
  <2> QED
    BY <1>11, <2>1 DEF BaseEnds, BaseKilled, TypeOK, args
<1>12. CASE UNCHANGED vars
  BY <1>12 DEF vars, args, TypeOK
<1> QED
  BY <1>1, <1>2, <1>3, <1>4, <1>5, <1>6, <1>7, <1>8, <1>9, <1>10, <1>11, <1>12
     DEF Next, Compose, BaseStep
--------------------------------------------------------------------------------
(* The directory.                                                             *)

Holding == {"owning", "rows", "copied", "judged", "described", "composed"}
Copying == Holding \ {"owning"}

\* A whole file of rows: one for each cell, and no other.
OneRowEach(file) == \A c \in Cells : \E r \in file : {s \in file : s.cell = c} = {r}

\* Every record is from the run that its cell is taken from.
FromTheRightRun(file, p) ==
    \A r \in file : (r.source = "repair") <=> r.cell \in Replaced(p)

\* The commands that hold the directory are one; what they leave in it is theirs,
\* and nothing is in it before there is an owner.
Directory ==
    /\ \A p \in Composers : at[p] \in Holding => out.owner = p
    /\ \A p \in Composers : at[p] \in Copying => OneRowEach(out.rows)
    /\ \A p \in Composers : at[p] \in {"described", "composed"} => out.manifest
    /\ out.manifest => out.owner # "nobody" /\ OneRowEach(out.rows)
    /\ \A p \in Composers :
          at[p] \in {"owning", "rows", "copied", "judged"} => ~out.manifest
    /\ FromTheRightRun(out.rows \cup out.calls, out.owner)
    /\ out.owner = "nobody" => out = NoOutput
    /\ out.summary => out.owner # "nobody" /\ at[out.owner] = "composed"

LEMMA CopiesAreWhole ==
  ASSUME NEW p \in Composers, RowsOf(p) \subseteq Record,
         {r.cell : r \in RowsOf(p)} = Cells
  PROVE  OneRowEach(RowsOf(p))
<1> SUFFICES ASSUME NEW c \in Cells
             PROVE  \E r \in RowsOf(p) : {s \in RowsOf(p) : s.cell = c} = {r}
  BY DEF OneRowEach
<1>1. PICK r \in RowsOf(p) : r.cell = c
  OBVIOUS
<1>2. ASSUME NEW s \in RowsOf(p), s.cell = c PROVE s = r
  <2>1. CASE c \in Replaced(p)
    <3>1. \A t \in RowsOf(p) : t.cell = c =>
             t = [cell |-> c, source |-> "repair", kind |-> repair[p].rows[c]]
      BY <2>1 DEF RowsOf, Rows
    <3> QED
      BY <1>1, <1>2, <3>1
  <2>2. CASE c \notin Replaced(p)
    <3>1. \A t \in RowsOf(p) : t.cell = c =>
             t = [cell |-> c, source |-> "base", kind |-> base.rows[c]]
      BY <2>2 DEF RowsOf, Rows
    <3> QED
      BY <1>1, <1>2, <3>1
  <2> QED
    BY <2>1, <2>2
<1> QED
  BY <1>1, <1>2

LEMMA CopiesAreFromTheRightRun ==
  ASSUME NEW p \in Composers
  PROVE  FromTheRightRun(RowsOf(p), p) /\ FromTheRightRun(RecordsOf(p), p)
BY DEF FromTheRightRun, RowsOf, RecordsOf, Rows, Calls

LEMMA DirectoryStep ==
  ASSUME Typed, Typed', Directory, [Next]_vars
  PROVE  Directory'
<1> DEFINE Fields == [owner : Composers \cup {"nobody"}, rows : SUBSET Record,
                      calls : SUBSET Record, manifest : BOOLEAN, eligible : BOOLEAN,
                      summary : BOOLEAN]
<1>0. out \in Fields /\ at \in [Composers -> {"starting", "checked"} \cup Holding \cup Ended]
  BY DEF Typed, TypeOK, Holding, Ended
<1>a. "nobody" \notin Composers
  BY ComposeAssumption
<1> USE DEF Directory, Holding, Copying, Ended
<1>1. ASSUME NEW p \in Composers, Check(p) PROVE Directory'
  <2>1. out' = out /\ UNCHANGED tracks /\ at[p] = "starting"
        /\ (at' = [at EXCEPT ![p] = "refused"] \/ at' = [at EXCEPT ![p] = "checked"])
    BY <1>1 DEF Check, Goto, args
  <2> QED
    BY <1>0, <1>a, <2>1 DEF FromTheRightRun, Replaced
<1>2. ASSUME NEW p \in Composers, MakeDirectory(p) PROVE Directory'
  <2>1. CASE out.owner # "nobody"
    <3>1. out' = out /\ UNCHANGED tracks /\ at[p] = "checked"
          /\ at' = [at EXCEPT ![p] = "refused"]
      BY <1>2, <2>1 DEF MakeDirectory, Goto, args
    <3> QED
      BY <1>0, <1>a, <3>1 DEF FromTheRightRun, Replaced
  <2>2. CASE out.owner = "nobody"
    <3>1. out' = [NoOutput EXCEPT !.owner = p] /\ at' = [at EXCEPT ![p] = "owning"]
      BY <1>2, <2>2 DEF MakeDirectory, Goto, args
    <3>2. out'.owner = p /\ out'.rows = {} /\ out'.calls = {}
          /\ ~out'.manifest /\ ~out'.summary
      BY <3>1 DEF NoOutput
    <3>3. \A q \in Composers : at[q] \notin Holding
      BY <1>a, <2>2
    <3>4. \A q \in Composers : at'[q] \in Holding => q = p /\ at'[q] = "owning"
      BY <1>0, <3>1, <3>3
    <3> QED
      BY <1>a, <3>2, <3>4 DEF FromTheRightRun
  <2> QED
    BY <2>1, <2>2
<1>3. ASSUME NEW p \in Composers, CopyRows(p) PROVE Directory'
  <2>1. at[p] = "owning" /\ UNCHANGED <<tracks, repair, base>>
    BY <1>3 DEF CopyRows, args
  <2>2. CASE out' = out /\ at' = [at EXCEPT ![p] = "failed"]
    BY <1>0, <1>a, <2>1, <2>2 DEF FromTheRightRun, Replaced
  <2>3. CASE /\ {r.cell : r \in RowsOf(p)} = Cells
             /\ out' = [out EXCEPT !.rows = RowsOf(p)]
             /\ at' = [at EXCEPT ![p] = "rows"]
    <3>1. out'.rows = RowsOf(p) /\ out'.calls = out.calls /\ out'.owner = out.owner
          /\ out'.manifest = out.manifest /\ out'.summary = out.summary
      BY <1>0, <2>3
    <3>2. OneRowEach(out'.rows)
      BY <2>3, <3>1, RowsAreTyped, CopiesAreWhole
    <3>3. out.owner = p /\ ~out.manifest /\ ~out.summary
      BY <1>0, <2>1
    <3>4. FromTheRightRun(out'.rows \cup out'.calls, out'.owner)
      BY <3>1, <3>3, CopiesAreFromTheRightRun DEF FromTheRightRun
    <3>5. FromTheRightRun(out.rows \cup out.calls, out.owner)'
      BY <2>1, <3>4 DEF FromTheRightRun, Replaced
    <3>6. OneRowEach(out.rows)'
      BY <3>2 DEF OneRowEach
    <3> QED
      BY <1>0, <1>a, <2>3, <3>1, <3>3, <3>5, <3>6
  <2> QED
    BY <1>3, <2>2, <2>3 DEF CopyRows, Goto, RowsOf
<1>4. ASSUME NEW p \in Composers, CopyCalls(p) PROVE Directory'
  <2>1. at[p] = "rows" /\ UNCHANGED <<tracks, repair, base>>
        /\ out' = [out EXCEPT !.calls = RecordsOf(p)] /\ at' = [at EXCEPT ![p] = "copied"]
    BY <1>4 DEF CopyCalls, Goto, RecordsOf, args
  <2>2. out'.calls = RecordsOf(p) /\ out'.rows = out.rows /\ out'.owner = out.owner
        /\ out'.manifest = out.manifest /\ out'.summary = out.summary
    BY <1>0, <2>1
  <2>3. out.owner = p /\ ~out.summary
    BY <1>0, <2>1
  <2>4. FromTheRightRun(out'.rows \cup out'.calls, out'.owner)
    BY <2>2, <2>3, CopiesAreFromTheRightRun DEF FromTheRightRun
  <2>5. FromTheRightRun(out.rows \cup out.calls, out.owner)'
    BY <2>1, <2>4 DEF FromTheRightRun, Replaced
  <2>6. OneRowEach(out.rows)' <=> OneRowEach(out.rows)
    BY <2>2 DEF OneRowEach
  <2> QED
    BY <1>0, <1>a, <2>1, <2>2, <2>3, <2>5, <2>6
<1>5. ASSUME NEW p \in Composers, Judge(p) PROVE Directory'
  <2>1. out' = out /\ UNCHANGED tracks /\ at[p] = "copied"
        /\ (at' = [at EXCEPT ![p] = "judged"] \/ at' = [at EXCEPT ![p] = "failed"])
    BY <1>5 DEF Judge, Goto, args
  <2> QED
    BY <1>0, <1>a, <2>1 DEF FromTheRightRun, Replaced, OneRowEach
<1>6. ASSUME NEW p \in Composers, WriteManifest(p) PROVE Directory'
  <2>1. at[p] = "judged" /\ UNCHANGED <<tracks, repair, base>>
        /\ at' = [at EXCEPT ![p] = "described"]
    BY <1>6 DEF WriteManifest, Goto, args
  <2>2. out'.calls = out.calls /\ out'.rows = out.rows /\ out'.owner = out.owner
        /\ out'.manifest = TRUE /\ out'.summary = out.summary
    BY <1>0, <1>6 DEF WriteManifest
  <2>3. out.owner = p /\ ~out.summary
    BY <1>0, <2>1
  <2>4. FromTheRightRun(out.rows \cup out.calls, out.owner)'
    BY <2>1, <2>2 DEF FromTheRightRun, Replaced
  <2>5. OneRowEach(out.rows)' <=> OneRowEach(out.rows)
    BY <2>2 DEF OneRowEach
  <2>6. \A q \in Composers : at'[q] \in Holding => q = p
    BY <1>0, <2>1, <2>3
  <2> QED
    BY <1>0, <1>a, <2>1, <2>2, <2>3, <2>4, <2>5, <2>6
<1>7. ASSUME NEW p \in Composers, WriteSummary(p) PROVE Directory'
  <2>1. at[p] = "described" /\ UNCHANGED <<tracks, repair, base>>
        /\ at' = [at EXCEPT ![p] = "composed"]
    BY <1>7 DEF WriteSummary, Goto, args
  <2>2. out'.calls = out.calls /\ out'.rows = out.rows /\ out'.owner = out.owner
        /\ out'.manifest = out.manifest /\ out'.summary = TRUE
    BY <1>0, <1>7 DEF WriteSummary
  <2>3. out.owner = p /\ out.manifest
    BY <1>0, <2>1
  <2>4. FromTheRightRun(out.rows \cup out.calls, out.owner)'
    BY <2>1, <2>2 DEF FromTheRightRun, Replaced
  <2>5. OneRowEach(out.rows)' <=> OneRowEach(out.rows)
    BY <2>2 DEF OneRowEach
  <2>6. \A q \in Composers : at'[q] \in Holding => q = p
    BY <1>0, <2>1, <2>3
  <2> QED
    BY <1>0, <1>a, <2>1, <2>2, <2>3, <2>4, <2>5, <2>6
<1>8. ASSUME NEW p \in Composers, Kill(p) PROVE Directory'
  <2>1. out' = out /\ UNCHANGED tracks /\ at[p] \notin Ended
        /\ at' = [at EXCEPT ![p] = "killed"]
    BY <1>8 DEF Kill, Goto, args
  <2> QED
    BY <1>0, <1>a, <2>1 DEF FromTheRightRun, Replaced, OneRowEach
<1>9. CASE UNCHANGED <<at, tracks, out>>
  BY <1>9 DEF FromTheRightRun, Replaced, OneRowEach, NoOutput
<1>10. CASE BaseStep
  BY <1>9, <1>10 DEF BaseStep, BaseRow, BaseCalls, BaseEnds, BaseKilled, args
<1> QED
  BY <1>1, <1>2, <1>3, <1>4, <1>5, <1>6, <1>7, <1>8, <1>9, <1>10
     DEF Next, Compose, vars, args
--------------------------------------------------------------------------------
(* What is kept of a base run that had ended.                                 *)

\* A base run that has its summary has all rows, and of every cell the calls that
\* belong to its row.
BaseIsTraced ==
    /\ \A c \in Cells : c # writing => base.calls[c] = CallsOf(base.rows[c])
    /\ base.at = "summarised" => writing = NoCell /\ \A c \in Cells : base.rows[c] # "none"
    /\ ended # {} => base.at = "summarised"

\* What a command has copied from such a run is what the run still has, and the
\* command judges exactly that.
CopiesAreCurrent ==
    /\ \A p \in Composers : at[p] \in {"starting", "checked"} => out.owner # p
    /\ \A p \in ended :
          /\ at[p] \in Copying => out.rows = RowsOf(p)
          /\ at[p] \in Copying \ {"rows"} => out.calls = RecordsOf(p)
          /\ at[p] = "judged" => Healthy
          /\ out.manifest /\ out.owner = p =>
                /\ out.rows = RowsOf(p) /\ out.calls = RecordsOf(p)
                /\ Healthy
                /\ out.eligible => base.eligible /\ repair[p].eligible

LEMMA BaseIsTracedStep ==
  ASSUME Typed, BaseIsTraced, [Next]_vars
  PROVE  BaseIsTraced'
<1> USE DEF BaseIsTraced
<1>1. ASSUME NEW c \in Cells, NEW kind \in Kinds, BaseRow(c, kind) PROVE BaseIsTraced'
  <2>1. /\ base'.rows = [base.rows EXCEPT ![c] = kind] /\ base'.calls = base.calls
        /\ base'.at = base.at
    BY <1>1 DEF BaseRow, Typed, TypeOK, Base
  <2>2. \A d \in Cells : d # c => base'.rows[d] = base.rows[d]
    BY <2>1 DEF Typed, TypeOK, Base, Files
  <2> QED
    <3>1. writing' = c /\ base.at = "executing" /\ ended' = ended
      BY <1>1 DEF BaseRow
    <3>2. \A d \in Cells : d # c => base.calls[d] = CallsOf(base.rows[d])
      BY <1>1, ComposeAssumption DEF BaseRow
    <3> QED
      BY <2>1, <2>2, <3>1, <3>2
<1>2. CASE BaseCalls
  <2>1. /\ base'.calls = [base.calls EXCEPT ![writing] = CallsOf(base.rows[writing])]
        /\ base'.rows = base.rows /\ base'.at = base.at /\ writing' = NoCell
        /\ base.at = "executing" /\ ended' = ended
    BY <1>2 DEF BaseCalls, Typed, TypeOK, Base
  <2>2. \A c \in Cells : base'.calls[c] = CallsOf(base'.rows[c])
    BY <2>1 DEF Typed, TypeOK, Base, Files
  <2> QED
    BY <2>1, <2>2
<1>3. CASE BaseEnds \/ BaseKilled
  <2>1. /\ base'.calls = base.calls /\ base'.rows = base.rows /\ base.at = "executing"
        /\ writing' = writing /\ ended' = ended
        /\ base'.at = "summarised" =>
             writing = NoCell /\ \A c \in Cells : base.rows[c] # "none"
    BY <1>3 DEF BaseEnds, BaseKilled, Typed, TypeOK, Base
  <2> QED
    BY <2>1
<1>4. ASSUME NEW p \in Composers, Compose(p) \/ Kill(p) PROVE BaseIsTraced'
  <2>1. UNCHANGED <<base, writing>> /\ (ended' = ended \/ base.at = "summarised")
    BY <1>4 DEF Compose, Check, MakeDirectory, CopyRows, CopyCalls, Judge, WriteManifest,
          WriteSummary, Kill
  <2> QED
    BY <2>1
<1>5. CASE UNCHANGED vars
  BY <1>5 DEF vars
<1> QED
  BY <1>1, <1>2, <1>3, <1>4, <1>5 DEF Next, BaseStep

\* A base run that is summarised does not change, and neither do the arguments.
LEMMA CopiesStay ==
  ASSUME BaseIsTraced, [Next]_vars, ended # {}, NEW p \in Composers
  PROVE  /\ UNCHANGED <<base, args>>
         /\ RowsOf(p)' = RowsOf(p) /\ RecordsOf(p)' = RecordsOf(p)
<1>1. base.at = "summarised"
  BY DEF BaseIsTraced
<1>2. UNCHANGED <<base, args>>
  BY <1>1 DEF Next, BaseStep, BaseRow, BaseCalls, BaseEnds, BaseKilled, Compose, Check,
        MakeDirectory, CopyRows, CopyCalls, Judge, WriteManifest, WriteSummary, Kill, vars
<1> QED
  BY <1>2 DEF args, RowsOf, RecordsOf, Rows, Calls, Replaced

\* No two commands hold the directory.
LEMMA OneHolder ==
  ASSUME Directory, NEW p \in Composers, NEW q \in Composers, at[p] \in Holding,
         at[q] \in Holding
  PROVE  p = q
BY DEF Directory

LEMMA CopiesAreCurrentStep ==
  ASSUME Typed, Typed', Directory, BaseIsTraced, CopiesAreCurrent, [Next]_vars
  PROVE  CopiesAreCurrent'
<1> DEFINE Fields == [owner : Composers \cup {"nobody"}, rows : SUBSET Record,
                      calls : SUBSET Record, manifest : BOOLEAN, eligible : BOOLEAN,
                      summary : BOOLEAN]
<1>0. /\ out \in Fields /\ ended \subseteq Composers
      /\ at \in [Composers -> {"starting", "checked"} \cup Holding \cup Ended]
  BY DEF Typed, TypeOK, Holding, Ended
<1>a. "nobody" \notin Composers
  BY ComposeAssumption
<1>b. ASSUME NEW q \in ended
      PROVE  /\ UNCHANGED <<base, args>>
             /\ RowsOf(q)' = RowsOf(q) /\ RecordsOf(q)' = RecordsOf(q)
  BY <1>0, <1>b, CopiesStay
<1> USE DEF CopiesAreCurrent, Holding, Copying, Ended
<1>1. ASSUME NEW p \in Composers, Check(p) PROVE CopiesAreCurrent'
  <2>1. out' = out /\ at[p] = "starting" /\ UNCHANGED <<base, args>>
        /\ ended' \subseteq ended \cup {p}
        /\ (at' = [at EXCEPT ![p] = "refused"] \/ at' = [at EXCEPT ![p] = "checked"])
    BY <1>1 DEF Check, Goto
  <2>2. Healthy' = Healthy /\ repair' = repair
    BY <2>1 DEF Healthy, args
  <2> QED
    BY <1>0, <1>b, <2>1, <2>2
<1>2. ASSUME NEW p \in Composers, MakeDirectory(p) PROVE CopiesAreCurrent'
  <2>1. CASE out.owner # "nobody"
    <3>1. out' = out /\ at' = [at EXCEPT ![p] = "refused"] /\ ended' = ended
      BY <1>2, <2>1 DEF MakeDirectory, Goto
    <3>2. Healthy' = Healthy
      BY <3>1 DEF Healthy
    <3>3. \A q \in ended : repair' = repair /\ base' = base
      BY <1>b DEF args
    <3> QED
      BY <1>0, <1>b, <3>1, <3>2, <3>3
  <2>2. CASE out.owner = "nobody"
    <3>1. /\ out' = [out EXCEPT !.owner = p] /\ at' = [at EXCEPT ![p] = "owning"]
          /\ ended' = ended
      BY <1>2, <2>2 DEF MakeDirectory, Goto
    <3>2. out'.owner = p /\ ~out'.manifest
      BY <1>0, <2>2, <3>1 DEF Directory
    <3>3. \A q \in Composers : at[q] \notin Holding
      BY <1>a, <2>2 DEF Directory
    <3> QED
      BY <1>0, <3>1, <3>2, <3>3
  <2> QED
    BY <2>1, <2>2
<1>3. ASSUME NEW p \in Composers, at[p] \in Holding, at'[p] \notin {"starting", "checked"},
             \E there : at' = [at EXCEPT ![p] = there],
             ended' = ended, out' \in Fields, out'.owner = out.owner,
             p \in ended =>
               /\ at'[p] \in Copying => out'.rows = RowsOf(p)
               /\ at'[p] \in Copying \ {"rows"} => out'.calls = RecordsOf(p)
               /\ at'[p] = "judged" => Healthy'
               /\ out'.manifest =>
                     /\ out'.rows = RowsOf(p) /\ out'.calls = RecordsOf(p)
                     /\ Healthy'
                     /\ out'.eligible => base.eligible /\ repair[p].eligible
      PROVE  CopiesAreCurrent'
  <2>1. out.owner = p
    BY <1>3 DEF Directory
  <2>2. \A q \in Composers : q # p => at[q] \notin Holding /\ at'[q] = at[q]
    BY <1>0, <1>3, OneHolder
  <2>3. \A q \in ended : UNCHANGED <<base, repair>>
    BY <1>b DEF args
  <2>4. \A q \in Composers : at'[q] \in {"starting", "checked"} => out'.owner # q
    BY <1>3, <2>1, <2>2
  <2>5. ASSUME NEW q \in ended'
        PROVE  (/\ at[q] \in Copying => out.rows = RowsOf(q)
                /\ at[q] \in Copying \ {"rows"} => out.calls = RecordsOf(q)
                /\ at[q] = "judged" => Healthy
                /\ out.manifest /\ out.owner = q =>
                      /\ out.rows = RowsOf(q) /\ out.calls = RecordsOf(q)
                      /\ Healthy
                      /\ out.eligible => base.eligible /\ repair[q].eligible)'
    <3>1. CASE q = p
      BY <1>b, <1>3, <2>3, <2>5, <3>1
    <3>2. CASE q # p
      BY <1>0, <1>3, <2>1, <2>2, <2>5, <3>2
    <3> QED
      BY <3>1, <3>2
  <2> QED
    BY <2>4, <2>5
<1>4. ASSUME NEW p \in Composers, CopyRows(p) PROVE CopiesAreCurrent'
  <2>1. at[p] = "owning" /\ ended' = ended /\ ~out.manifest
    BY <1>4 DEF CopyRows, Directory
  <2>2. CASE out' = out /\ at' = [at EXCEPT ![p] = "failed"]
    BY <1>0, <1>3, <2>1, <2>2
  <2>3. CASE out' = [out EXCEPT !.rows = RowsOf(p)] /\ at' = [at EXCEPT ![p] = "rows"]
    <3>1. out'.rows = RowsOf(p) /\ out'.manifest = out.manifest /\ out'.owner = out.owner
      BY <1>0, <2>3
    <3>2. out' \in Fields
      BY DEF Typed, TypeOK
    <3> QED
      BY <1>0, <1>3, <2>1, <2>3, <3>1, <3>2
  <2> QED
    BY <1>4, <2>2, <2>3 DEF CopyRows, Goto, RowsOf
<1>5. ASSUME NEW p \in Composers, CopyCalls(p) PROVE CopiesAreCurrent'
  <2>1. /\ at[p] = "rows" /\ ended' = ended
        /\ out' = [out EXCEPT !.calls = RecordsOf(p)] /\ at' = [at EXCEPT ![p] = "copied"]
    BY <1>5 DEF CopyCalls, Goto, RecordsOf
  <2>2. /\ out'.calls = RecordsOf(p) /\ out'.rows = out.rows /\ out'.owner = out.owner
        /\ out'.manifest = out.manifest
    BY <1>0, <2>1
  <2>3. ~out.manifest
    BY <2>1 DEF Directory
  <2>4. out' \in Fields
    BY DEF Typed, TypeOK
  <2> QED
    BY <1>0, <1>3, <2>1, <2>2, <2>3, <2>4
<1>6. ASSUME NEW p \in Composers, Judge(p) PROVE CopiesAreCurrent'
  <2>1. /\ at[p] = "copied" /\ ended' = ended /\ out' = out
        /\ at' = [at EXCEPT ![p] = IF Healthy THEN "judged" ELSE "failed"]
    BY <1>6 DEF Judge, Goto
  <2>2. ~out.manifest
    BY <2>1 DEF Directory
  <2>3. Healthy' = Healthy
    BY <2>1 DEF Healthy
  <2> QED
    BY <1>0, <1>3, <2>1, <2>2, <2>3
<1>7. ASSUME NEW p \in Composers, WriteManifest(p) PROVE CopiesAreCurrent'
  <2>1. /\ at[p] = "judged" /\ ended' = ended
        /\ out' = [out EXCEPT !.manifest = TRUE,
                              !.eligible = base.eligible /\ repair[p].eligible]
        /\ at' = [at EXCEPT ![p] = "described"]
    BY <1>7 DEF WriteManifest, Goto
  <2>2. /\ out'.calls = out.calls /\ out'.rows = out.rows /\ out'.owner = out.owner
        /\ out'.eligible => base.eligible /\ repair[p].eligible
    BY <1>0, <2>1
  <2>3. Healthy' = Healthy
    BY <2>2 DEF Healthy
  <2>4. out' \in Fields
    BY DEF Typed, TypeOK
  <2> QED
    BY <1>0, <1>3, <2>1, <2>2, <2>3, <2>4
<1>8. ASSUME NEW p \in Composers, WriteSummary(p) PROVE CopiesAreCurrent'
  <2>1. /\ at[p] = "described" /\ ended' = ended
        /\ out' = [out EXCEPT !.summary = TRUE]
        /\ at' = [at EXCEPT ![p] = "composed"]
    BY <1>8 DEF WriteSummary, Goto
  <2>2. /\ out'.calls = out.calls /\ out'.rows = out.rows /\ out'.owner = out.owner
        /\ out'.eligible = out.eligible /\ out'.manifest = out.manifest
    BY <1>0, <2>1
  <2>3. Healthy' = Healthy
    BY <2>2 DEF Healthy
  <2>4. out' \in Fields /\ out.manifest /\ out.owner = p
    BY <2>1 DEF Typed, TypeOK, Directory
  <2> QED
    BY <1>0, <1>3, <2>1, <2>2, <2>3, <2>4
<1>9. ASSUME NEW p \in Composers, Kill(p) PROVE CopiesAreCurrent'
  <2>1. /\ out' = out /\ ended' = ended /\ at' = [at EXCEPT ![p] = "killed"]
    BY <1>9 DEF Kill, Goto
  <2>2. Healthy' = Healthy
    BY <2>1 DEF Healthy
  <2>3. \A q \in ended : repair' = repair /\ base' = base
    BY <1>b DEF args
  <2> QED
    BY <1>0, <1>b, <2>1, <2>2, <2>3
<1>10. CASE UNCHANGED <<at, out, ended>>
  <2>1. Healthy' = Healthy
    BY <1>10 DEF Healthy
  <2>2. \A q \in ended : repair' = repair /\ base' = base
    BY <1>b DEF args
  <2> QED
    BY <1>0, <1>b, <1>10, <2>1, <2>2
<1>11. CASE BaseStep
  BY <1>10, <1>11 DEF BaseStep, BaseRow, BaseCalls, BaseEnds, BaseKilled
<1> QED
  BY <1>1, <1>2, <1>4, <1>5, <1>6, <1>7, <1>8, <1>9, <1>10, <1>11 DEF Next, Compose, vars
--------------------------------------------------------------------------------
IInv == Typed /\ Directory /\ BaseIsTraced /\ CopiesAreCurrent

\* The types, the directory, the base run and the copies are as stated in every
\* state (compose.py, compose_track_repair).
THEOREM Invariance == Spec => []IInv
<1>1. Init => IInv
  <2> SUFFICES ASSUME Init PROVE IInv
    OBVIOUS
  <2>1. base \in Base /\ base.at = "executing"
        /\ \A c \in Cells : base.rows[c] = "none" /\ base.calls[c] = "none"
    BY ComposeAssumption DEF Init
  <2>2. Typed
    BY <2>1 DEF Init, Typed, TypeOK, NoOutput
  <2>3. Directory
    BY ComposeAssumption
       DEF Init, Directory, NoOutput, Holding, Copying, FromTheRightRun
  <2>4. BaseIsTraced
    BY <2>1 DEF Init, BaseIsTraced, CallsOf
  <2>5. CopiesAreCurrent
    BY ComposeAssumption DEF Init, CopiesAreCurrent, NoOutput
  <2> QED
    BY <2>2, <2>3, <2>4, <2>5 DEF IInv
<1>2. IInv /\ [Next]_vars => IInv'
  BY TypedStep, DirectoryStep, BaseIsTracedStep, CopiesAreCurrentStep DEF IInv
<1> QED
  BY <1>1, <1>2, PTL DEF Spec

\* The types of the variables (compose.py, compose_track_repair).
THEOREM TypeCorrect == Spec => []TypeOK
<1>1. IInv => TypeOK
  BY DEF IInv, Typed
<1> QED
  BY <1>1, Invariance, PTL

\* A directory with a manifest is a whole composite, wherever its command was
\* killed (compose.py, compose_track_repair).
THEOREM CompositesAreWhole == Spec => []CompositeIsWhole
<1>1. ASSUME NEW file, OneRowEach(file), NEW c \in Cells
      PROVE  Cardinality({r \in file : r.cell = c}) = 1
  <2>1. PICK r \in file : {s \in file : s.cell = c} = {r}
    BY <1>1 DEF OneRowEach
  <2> QED
    BY <2>1, FS_Singleton
<1>2. IInv => CompositeIsWhole
  <2> SUFFICES ASSUME IInv, out.manifest
               PROVE  /\ \A c \in Cells : Cardinality({r \in out.rows : r.cell = c}) = 1
                      /\ \A r \in out.rows \cup out.calls :
                            (r.source = "repair") <=> r.cell \in Replaced(out.owner)
                      /\ out.summary => at[out.owner] = "composed"
    BY DEF CompositeIsWhole
  <2>1. OneRowEach(out.rows)
    BY DEF IInv, Directory
  <2> QED
    BY <1>1, <2>1 DEF IInv, Directory, FromTheRightRun
<1> QED
  BY <1>2, Invariance, PTL

\* No failed source invocation is retained in the composite of a base run that
\* had ended (compose.py, the health of the copied records).
THEOREM FailuresAreRefused == Spec => []NothingFailedIsKept
<1>1. IInv => NothingFailedIsKept
  <2> SUFFICES ASSUME IInv, out.manifest, out.owner \in ended
               PROVE  /\ \A c \in Cells \ Replaced(out.owner) : base.rows[c] = "ok"
                      /\ \A c \in Replaced(out.owner) : repair[out.owner].calls[c] = "ok"
                      /\ out.eligible => base.eligible /\ repair[out.owner].eligible
    BY DEF NothingFailedIsKept
  <2> DEFINE p == out.owner
  <2>1. /\ out.rows = RowsOf(p) /\ out.calls = RecordsOf(p) /\ Healthy
        /\ out.eligible => base.eligible /\ repair[p].eligible
    BY DEF IInv, CopiesAreCurrent
  <2>2. /\ \A r \in out.rows : r.kind # "harness"
        /\ \A r \in out.calls : r.kind \notin {"provider", "length"}
    BY <2>1 DEF Healthy, HealthOf, KindsIn
  <2>3. p \in Composers /\ OneRowEach(out.rows)
    BY DEF IInv, Typed, TypeOK, Directory
  <2>4. ASSUME NEW c \in Cells \ Replaced(p) PROVE base.rows[c] = "ok"
    <3>1. /\ base.rows[c] \in Kinds /\ base.calls[c] = CallsOf(base.rows[c])
          /\ c \in DOMAIN base.rows /\ c \in DOMAIN base.calls
      <4>1. base.at = "summarised"
        BY DEF IInv, BaseIsTraced
      <4>2. base.rows[c] # "none" /\ base.calls[c] = CallsOf(base.rows[c])
        BY <4>1, ComposeAssumption DEF IInv, BaseIsTraced
      <4>3. base.rows \in Files /\ base.calls \in Files
        BY DEF IInv, Typed, TypeOK, Base
      <4> QED
        BY <4>2, <4>3 DEF Files
    <3>2. [cell |-> c, source |-> "base", kind |-> base.rows[c]] \in out.rows
      BY <2>1, <3>1 DEF RowsOf, Rows, Kinds, Outcome
    <3>3. base.rows[c] # "harness" /\ base.calls[c] = base.rows[c]
      BY <2>2, <3>1, <3>2 DEF CallsOf
    <3>4. [cell |-> c, source |-> "base", kind |-> base.calls[c]] \in out.calls
      BY <2>1, <3>1, <3>3 DEF RecordsOf, Calls, Kinds, Outcome
    <3> QED
      BY <2>2, <3>1, <3>3, <3>4 DEF Kinds, Outcome
  <2>5. ASSUME NEW c \in Replaced(p) PROVE repair[p].calls[c] = "ok"
    <3>1. c \in Cells
      BY DEF Replaced
    <3>2. PICK r \in out.rows : {s \in out.rows : s.cell = c} = {r}
      BY <2>3, <3>1 DEF OneRowEach
    <3>3. r.cell = c
      BY <3>2
    <3>4. c \in DOMAIN repair[p].rows /\ r.kind = repair[p].rows[c]
      BY <2>1, <2>5, <3>2, <3>3 DEF RowsOf, Rows
    <3>5. repair[p] \in Repairs
      BY <2>3 DEF IInv, Typed
    <3>6. /\ repair[p].rows[c] \in Kinds /\ c \in DOMAIN repair[p].calls
          /\ repair[p].calls[c] = CallsOf(repair[p].rows[c])
      BY <3>4, <3>5, ComposeAssumption
    <3>7. repair[p].rows[c] # "harness" /\ repair[p].calls[c] = repair[p].rows[c]
      BY <2>2, <3>4, <3>6 DEF CallsOf
    <3>8. [cell |-> c, source |-> "repair", kind |-> repair[p].calls[c]] \in out.calls
      BY <2>1, <2>5, <3>6, <3>7 DEF RecordsOf, Calls, Kinds, Outcome
    <3> QED
      BY <2>2, <3>6, <3>7, <3>8 DEF Kinds, Outcome
  <2> QED
    BY <2>1, <2>4, <2>5
<1> QED
  BY <1>1, Invariance, PTL

\* A directory is made once, by the command that alone writes to it (compose.py,
\* mkdir with exist_ok=False).
THEOREM OutputsAreOwned == Spec => OutputsHaveOneAuthor
<1>1. ASSUME IInv, IInv', [Next]_vars
      PROVE  [/\ out.owner # "nobody" => out'.owner = out.owner
              /\ out' # out => \E p \in Composers : out'.owner = p /\ at'[p] # at[p]
              /\ out.summary => out' = out]_vars
  <2>1. ASSUME NEW p \in Composers, at[p] \in Holding \ {"composed"}, out'.owner = out.owner,
               at'[p] # at[p]
        PROVE  /\ out'.owner = p
               /\ ~out.summary
    BY <1>1, <2>1 DEF IInv, Directory, Holding
  <2>2. ASSUME NEW p \in Composers, Compose(p) \/ Kill(p), out' # out
        PROVE  /\ out.owner # "nobody" => out'.owner = out.owner
               /\ \E q \in Composers : out'.owner = q /\ at'[q] # at[q]
               /\ out.summary => out' = out
    <3>0. /\ out \in [owner : Composers \cup {"nobody"}, rows : SUBSET Record,
                      calls : SUBSET Record, manifest : BOOLEAN, eligible : BOOLEAN,
                      summary : BOOLEAN]
          /\ DOMAIN at = Composers
      BY <1>1 DEF IInv, Typed, TypeOK
    <3>1. CASE MakeDirectory(p)
      <4>1. /\ out.owner = "nobody" /\ out'.owner = p
            /\ at' = [at EXCEPT ![p] = "owning"] /\ at[p] = "checked"
        BY <2>2, <3>0, <3>1 DEF MakeDirectory, Goto
      <4>2. ~out.summary
        BY <1>1, <4>1 DEF IInv, Directory
      <4> QED
        BY <3>0, <4>1, <4>2
    <3>2. CASE CopyRows(p) \/ CopyCalls(p) \/ WriteManifest(p) \/ WriteSummary(p)
      <4>1. /\ at[p] \in Holding \ {"composed"} /\ out'.owner = out.owner
            /\ at'[p] # at[p]
        BY <2>2, <3>0, <3>2
           DEF CopyRows, CopyCalls, WriteManifest, WriteSummary, Goto, Holding
      <4> QED
        BY <2>1, <4>1
    <3> QED
      BY <2>2, <3>1, <3>2 DEF Compose, Check, Judge, Kill
  <2>3. CASE BaseStep
    BY <2>3 DEF BaseStep, BaseRow, BaseCalls, BaseEnds, BaseKilled
  <2>4. CASE UNCHANGED vars
    BY <2>4 DEF vars
  <2> QED
    BY <1>1, <2>2, <2>3, <2>4 DEF Next
<1>2. IInv /\ IInv' /\ [Next]_vars
        => [/\ out.owner # "nobody" => out'.owner = out.owner
            /\ out' # out => \E p \in Composers : out'.owner = p /\ at'[p] # at[p]
            /\ out.summary => out' = out]_vars
  BY <1>1
<1> QED
  BY <1>2, Invariance, PTL DEF Spec, OutputsHaveOneAuthor
================================================================================
