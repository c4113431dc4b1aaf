--------------------------- MODULE LogStoreProofs ---------------------------
(***************************************************************************)
(* Theorems about LogStore, for any sizes, numbers of generations and      *)
(* processes.                                                              *)
(***************************************************************************)
EXTENDS LogStore, FiniteSetTheorems, TLAPS

\* What the files hold was logged before what is being written, and the log has
\* room when a line is appended.
Past ==
  /\ \A g \in Slots : g \notin exists => lines[g] = {}
  /\ \A g \in Slots : \A l \in lines[g] : l <= logged /\ (writer # "idle" => l < logged)
  /\ writer # "idle" => logged \in 1..MaxLines
  /\ writer = "append" => Cardinality(lines[0]) < MaxSize
  /\ \A r \in Rotators : step[r] \in {"look", "move"} => at[r] <= keep[r]

Inv == TypeOK /\ Past /\ Ordered /\ Bounded

-----------------------------------------------------------------------------
(* Numbers and sets                                                        *)

LEMMA SlotsAreNaturals == Slots \subseteq Nat /\ 0 \in Slots /\ 1..Generations \subseteq Slots
BY SlotAssumption DEF Slots

\* A file holds finitely many lines.
LEMMA FilesAreFinite ==
  ASSUME TypeOK, NEW g \in Slots
  PROVE  IsFiniteSet(lines[g]) /\ Cardinality(lines[g]) \in Nat
<1>1. IsFiniteSet(1..MaxLines)
  BY FS_Interval, SizeAssumption
<1>2. lines[g] \subseteq 1..MaxLines
  BY DEF TypeOK
<1> QED
  BY <1>1, <1>2, FS_Subset, FS_CardinalityType

-----------------------------------------------------------------------------
(* The system calls keep the history in order and the files within bounds  *)

\* Files that lose lines stay ordered.
LEMMA SmallerFiles ==
  ASSUME TypeOK, Ordered, Bounded,
         \A g \in Slots : lines'[g] \subseteq lines[g]
  PROVE  Ordered' /\ Bounded' /\ Cardinality(lines'[0]) <= Cardinality(lines[0])
<1>1. Ordered'
  BY DEF Ordered
<1>2. \A g \in Slots : Cardinality(lines'[g]) <= Cardinality(lines[g])
  BY FilesAreFinite, FS_Subset
<1>3. Bounded'
  <2> SUFFICES ASSUME NEW g \in Slots PROVE Cardinality(lines'[g]) <= MaxSize
    BY DEF Bounded
  <2>1. IsFiniteSet(lines'[g]) /\ Cardinality(lines'[g]) \in Nat
    BY FilesAreFinite, FS_Subset, FS_CardinalityType
  <2> QED
    BY <1>2, <2>1, FilesAreFinite, SizeAssumption DEF Bounded
<1>4. 0 \in Slots
  BY SlotsAreNaturals
<1> QED
  BY <1>1, <1>2, <1>3, <1>4

\* A generation moves one number up.
LEMMA RenameUp ==
  ASSUME TypeOK, Ordered, Bounded, NEW g \in Slots, g + 1 \in Slots, Rename(g, g + 1)
  PROVE  /\ exists' \in SUBSET Slots
         /\ lines' \in [Slots -> SUBSET (1..MaxLines)]
         /\ \A h \in Slots : lines'[h] = IF h = g + 1 THEN lines[g]
                                         ELSE IF h = g THEN {} ELSE lines[h]
         /\ Ordered' /\ Bounded'
<1>1. g \in Nat /\ g # g + 1 /\ Slots \subseteq Nat
  BY SlotsAreNaturals
<1>2. exists' \in SUBSET Slots /\ lines' \in [Slots -> SUBSET (1..MaxLines)]
  BY DEF Rename, TypeOK
<1>3. \A h \in Slots : lines'[h] = IF h = g + 1 THEN lines[g]
                                   ELSE IF h = g THEN {} ELSE lines[h]
  BY <1>1 DEF Rename, TypeOK
<1>4. Ordered'
  <2> SUFFICES ASSUME NEW a \in Slots, NEW b \in Slots, a < b,
                      NEW new \in lines'[a], NEW old \in lines'[b]
               PROVE  old < new
    BY DEF Ordered
  <2>1. a # g /\ b # g
    <3>1. lines'[g] = {}
      BY <1>1, <1>3
    <3> QED
      BY <3>1
  <2>2. CASE a = g + 1
    <3>1. new \in lines[g] /\ old \in lines[b] /\ g < b
      BY <1>1, <1>3, <2>1, <2>2
    <3> QED
      BY <3>1 DEF Ordered
  <2>3. CASE b = g + 1
    <3>1. new \in lines[a] /\ old \in lines[g] /\ a < g
      BY <1>1, <1>3, <2>1, <2>3
    <3> QED
      BY <3>1 DEF Ordered
  <2>4. CASE a # g + 1 /\ b # g + 1
    BY <1>3, <2>1, <2>4 DEF Ordered
  <2> QED
    BY <2>2, <2>3, <2>4
<1>5. Bounded'
  <2> SUFFICES ASSUME NEW h \in Slots PROVE Cardinality(lines'[h]) <= MaxSize
    BY DEF Bounded
  <2>1. lines'[h] = {} \/ \E k \in Slots : lines'[h] = lines[k]
    BY <1>3
  <2>2. CASE lines'[h] = {}
    BY <2>2, FS_EmptySet, SizeAssumption
  <2> QED
    BY <2>1, <2>2 DEF Bounded
<1> QED
  BY <1>2, <1>3, <1>4, <1>5

-----------------------------------------------------------------------------
(* Inv is inductive                                                        *)

LEMMA InvInit == Init => Inv
<1> SUFFICES ASSUME Init PROVE Inv
  OBVIOUS
<1>1. TypeOK
  BY SizeAssumption, SlotAssumption DEF Init, TypeOK, Slots
<1>2. Past /\ Ordered
  BY DEF Init, Past, Ordered
<1>3. Bounded
  BY FS_EmptySet, SizeAssumption DEF Init, Bounded
<1> QED
  BY <1>1, <1>2, <1>3 DEF Inv

\* senbit-init writes a line.
LEMMA InvWrite ==
  ASSUME Inv, Write
  PROVE  Inv'
<1> USE DEF Inv, fileVars, rotateVars
<1>1. CASE WriteLine
  <2>1. TypeOK' /\ UNCHANGED lines
    BY <1>1, SizeAssumption, SlotAssumption DEF WriteLine, TypeOK
  <2>2. Ordered' /\ Bounded'
    BY <2>1 DEF Ordered, Bounded
  <2>3. writer' = "append" => Cardinality(lines[0]) < MaxSize
    <3>1. 0 \in Slots /\ Cardinality(lines[0]) \in Nat
      BY SlotsAreNaturals, FilesAreFinite
    <3>2. CASE 0 \in exists
      BY <1>1, <3>1, <3>2, SizeAssumption DEF WriteLine, Full
    <3>3. CASE 0 \notin exists
      <4>1. lines[0] = {}
        BY <3>1, <3>3 DEF Past
      <4> QED
        BY <4>1, FS_EmptySet, SizeAssumption
    <3> QED
      BY <3>2, <3>3
  <2>4. Past'
    BY <1>1, <2>1, <2>3, SizeAssumption DEF WriteLine, Past, TypeOK
  <2> QED
    BY <2>1, <2>2, <2>4
<1>2. CASE WriteRuntimeFails
  <2>1. TypeOK' /\ UNCHANGED lines
    BY <1>2, SizeAssumption DEF WriteRuntimeFails, TypeOK
  <2>2. Past' /\ Ordered' /\ Bounded'
    BY <1>2, <2>1 DEF WriteRuntimeFails, Past, Ordered, Bounded, TypeOK
  <2> QED
    BY <2>1, <2>2
<1>3. CASE RemoveNext
  <2>1. lines' \in [Slots -> SUBSET (1..MaxLines)] /\ exists' \in SUBSET Slots
    BY <1>3 DEF RemoveNext, Unlink, TypeOK
  <2>2. \A g \in Slots : lines'[g] \subseteq lines[g]
    BY <1>3 DEF RemoveNext, Unlink, TypeOK
  <2>3. TypeOK'
    BY <1>3, <2>1 DEF RemoveNext, TypeOK
  <2>4. Ordered' /\ Bounded'
    BY <2>2, SmallerFiles
  <2>5. \A g \in Slots : g \notin exists' => lines'[g] = {}
    BY <1>3 DEF RemoveNext, Unlink, Past, TypeOK
  <2>6. Past'
    BY <1>3, <2>2, <2>5 DEF RemoveNext, Past
  <2> QED
    BY <2>3, <2>4, <2>6
<1>4. CASE RenameCurrent
  <2>1. index - 1 \in Slots /\ (index - 1) + 1 = index /\ index \in Slots /\ 0 \in Slots
    BY SlotAssumption DEF TypeOK, Slots
  <2>0. index' \in 1..Generations /\ writer' \in {"append", "remove"}
    <3>1. CASE index = 1
      BY <1>4, <3>1, SlotAssumption DEF RenameCurrent
    <3>2. CASE index # 1
      BY <1>4, <3>2, SlotAssumption DEF RenameCurrent, TypeOK
    <3> QED
      BY <3>1, <3>2
  <2>2. CASE index - 1 \in exists
    <3>1. Rename(index - 1, (index - 1) + 1)
      BY <1>4, <2>1, <2>2 DEF RenameCurrent
    <3>2. /\ exists' \in SUBSET Slots
          /\ lines' \in [Slots -> SUBSET (1..MaxLines)]
          /\ \A h \in Slots : lines'[h] = IF h = (index - 1) + 1 THEN lines[index - 1]
                                          ELSE IF h = index - 1 THEN {} ELSE lines[h]
          /\ Ordered' /\ Bounded'
      BY <2>1, <3>1, RenameUp
    <3>3. TypeOK'
      BY <1>4, <2>0, <3>2 DEF RenameCurrent, TypeOK
    <3>4. \A g \in Slots : g \notin exists' => lines'[g] = {}
      BY <2>1, <2>2, <3>1, <3>2 DEF Past, Rename
    <3>5. writer' = "append" => lines'[0] = {}
      BY <1>4, <2>1, <3>2 DEF RenameCurrent
    <3>6. Past'
      <4>1. writer' = "append" => Cardinality(lines'[0]) < MaxSize
        BY <3>5, FS_EmptySet, SizeAssumption
      <4> QED
        BY <1>4, <2>1, <3>2, <3>4, <4>1 DEF RenameCurrent, Past
    <3> QED
      BY <3>2, <3>3, <3>6
  <2>3. CASE index - 1 \notin exists
    <3>1. UNCHANGED <<exists, lines>>
      BY <1>4, <2>3 DEF RenameCurrent
    <3>2. TypeOK'
      BY <1>4, <2>0, <3>1 DEF RenameCurrent, TypeOK
    <3>3. Ordered' /\ Bounded'
      BY <3>1 DEF Ordered, Bounded
    <3>4. writer' = "append" => Cardinality(lines'[0]) < MaxSize
      <4>1. writer' = "append" => lines[0] = {}
        BY <1>4, <2>1, <2>3 DEF RenameCurrent, Past
      <4> QED
        BY <3>1, <4>1, FS_EmptySet, SizeAssumption
    <3>5. Past'
      BY <1>4, <3>1, <3>4 DEF RenameCurrent, Past
    <3> QED
      BY <3>2, <3>3, <3>5
  <2> QED
    BY <2>2, <2>3
<1>5. CASE AppendLine
  <2>1. 0 \in Slots /\ logged \in 1..MaxLines /\ Slots \subseteq Nat
    BY <1>5, SlotsAreNaturals DEF AppendLine, Past
  <2>2. \A g \in Slots : lines'[g] = IF g = 0 THEN lines[0] \cup {logged} ELSE lines[g]
    BY <1>5, <2>1 DEF AppendLine, TypeOK
  <2>3. TypeOK'
    BY <1>5, <2>1 DEF AppendLine, TypeOK
  <2>4. Past'
    BY <1>5, <2>1, <2>2 DEF AppendLine, Past, TypeOK
  <2>5. Ordered'
    <3> SUFFICES ASSUME NEW g \in Slots, NEW h \in Slots, g < h,
                        NEW new \in lines'[g], NEW old \in lines'[h]
                 PROVE  old < new
      BY DEF Ordered
    <3>1. old \in lines[h] /\ h # 0
      BY <2>1, <2>2
    <3>2. CASE new \in lines[g]
      BY <3>1, <3>2 DEF Ordered
    <3>3. CASE new = logged
      BY <1>5, <3>1, <3>3 DEF AppendLine, Past
    <3> QED
      BY <2>2, <3>2, <3>3
  <2>6. Bounded'
    <3>1. /\ IsFiniteSet(lines[0])
          /\ Cardinality(lines[0] \cup {logged}) =
               IF logged \in lines[0] THEN Cardinality(lines[0]) ELSE Cardinality(lines[0]) + 1
      BY <2>1, FilesAreFinite, FS_AddElement
    <3>2. Cardinality(lines[0]) \in Nat /\ Cardinality(lines[0]) < MaxSize
      BY <1>5, <2>1, FilesAreFinite DEF AppendLine, Past
    <3>3. Cardinality(lines[0] \cup {logged}) <= MaxSize
      BY <3>1, <3>2, SizeAssumption
    <3> QED
      BY <2>2, <3>3 DEF Bounded
  <2> QED
    BY <2>3, <2>4, <2>5, <2>6
<1>6. CASE WriteFails
  BY <1>6, SlotsAreNaturals DEF WriteFails, TypeOK, Past, Ordered, Bounded
<1> QED
  BY <1>1, <1>2, <1>3, <1>4, <1>5, <1>6 DEF Write

\* A step that moves the lines of one file to the next, or takes lines away, and
\* leaves the writer alone, keeps what Past says of the files.
LEMMA PastKept ==
  ASSUME Inv, UNCHANGED writerVars,
         \A g \in Slots : \A l \in lines'[g] : \E h \in Slots : l \in lines[h],
         \A g \in Slots : g \notin exists' => lines'[g] = {},
         writer = "append" => Cardinality(lines'[0]) < MaxSize,
         \A r \in Rotators : step'[r] \in {"look", "move"} => at'[r] <= keep'[r]
  PROVE  Past'
BY DEF Inv, Past, writerVars

\* "log rotate" goes to the next generation down.
LEMMA InvNextIndex ==
  ASSUME TypeOK, Past, NEW r \in Rotators, NextIndex(r), UNCHANGED keep,
         step[r] \in {"look", "move"}
  PROVE  /\ step' \in [Rotators -> {"idle", "look", "move", "first", "create"}]
         /\ at' \in [Rotators -> 1..MaxSlot]
         /\ crossed' \in SUBSET Rotators
         /\ \A q \in Rotators : step'[q] \in {"look", "move"} => at'[q] <= keep'[q]
<1>1. MaxSlot \in Nat /\ at[r] \in 1..MaxSlot /\ keep[r] \in 1..MaxSlot /\ at[r] <= keep[r]
  BY SlotAssumption DEF TypeOK, Past
<1>2. CASE at[r] = 1
  BY <1>2 DEF NextIndex, Goto, TypeOK, Past
<1>3. CASE at[r] # 1
  <2>1. at[r] - 1 \in 1..MaxSlot /\ at[r] - 1 <= keep[r]
    BY <1>1, <1>3
  <2>2. /\ step' = [step EXCEPT ![r] = "look"] /\ at' = [at EXCEPT ![r] = at[r] - 1]
        /\ crossed' = crossed
    BY <1>3 DEF NextIndex, Goto
  <2> QED
    BY <2>1, <2>2 DEF TypeOK, Past
<1> QED
  BY <1>2, <1>3

\* "log rotate" takes a step.
LEMMA InvRotate ==
  ASSUME Inv, NEW r \in Rotators, RotateFile(r)
  PROVE  Inv'
<1> USE DEF Inv
<1>0. 0 \in Slots /\ 1 \in Slots /\ Slots \subseteq Nat
  BY SlotAssumption DEF Slots
<1>1. CASE Rotate(r)
  <2>1. TypeOK'
    BY <1>1, SlotAssumption DEF Rotate, Running, TypeOK, fileVars, writerVars
  <2>2. \A q \in Rotators : step'[q] \in {"look", "move"} => at'[q] <= keep'[q]
    BY <1>1, SlotAssumption DEF Rotate, TypeOK, Past
  <2>3. Past' /\ Ordered' /\ Bounded'
    BY <1>1, <2>2 DEF Rotate, Past, Ordered, Bounded, fileVars, writerVars
  <2> QED
    BY <2>1, <2>3
<1>2. CASE Look(r)
  <2>1. /\ step' \in [Rotators -> {"idle", "look", "move", "first", "create"}]
        /\ at' \in [Rotators -> 1..MaxSlot]
        /\ crossed' \in SUBSET Rotators
        /\ \A q \in Rotators : step'[q] \in {"look", "move"} => at'[q] <= keep'[q]
    <3>1. CASE at[r] \in exists
      BY <1>2, <3>1 DEF Look, Goto, TypeOK, Past
    <3>2. CASE at[r] \notin exists
      BY <1>2, <3>2, InvNextIndex DEF Look
    <3> QED
      BY <3>1, <3>2
  <2>2. TypeOK'
    BY <1>2, <2>1 DEF Look, TypeOK, fileVars, writerVars
  <2>3. Past' /\ Ordered' /\ Bounded'
    BY <1>2, <2>1 DEF Look, Past, Ordered, Bounded, fileVars, writerVars
  <2> QED
    BY <2>2, <2>3
<1>3. CASE Move(r)
  <2>1. /\ step' \in [Rotators -> {"idle", "look", "move", "first", "create"}]
        /\ at' \in [Rotators -> 1..MaxSlot]
        /\ crossed' \in SUBSET Rotators
        /\ \A q \in Rotators : step'[q] \in {"look", "move"} => at'[q] <= keep'[q]
    BY <1>3, InvNextIndex DEF Move
  <2>2. at[r] \in Slots /\ at[r] # 0 /\ at[r] <= keep[r] /\ keep[r] \in Slots
    BY <1>3, SlotAssumption DEF Move, TypeOK, Past, Slots
  <2>3. CASE at[r] = keep[r]
    <3>1. exists' = exists \ {at[r]} /\ lines' = [lines EXCEPT ![at[r]] = {}]
      BY <1>3, <2>3 DEF Move, Unlink
    <3>2. TypeOK'
      BY <1>3, <2>1, <3>1 DEF Move, TypeOK, writerVars
    <3>3. \A g \in Slots : lines'[g] \subseteq lines[g]
      BY <3>1 DEF TypeOK
    <3>4. Ordered' /\ Bounded'
      BY <3>3, SmallerFiles
    <3>5. lines'[0] = lines[0] /\ \A g \in Slots : g \notin exists' => lines'[g] = {}
      BY <1>0, <2>2, <3>1 DEF TypeOK, Past
    <3>6. Past'
      <4>1. UNCHANGED writerVars /\ (writer = "append" => Cardinality(lines'[0]) < MaxSize)
        BY <1>3, <3>5 DEF Move, Past
      <4> QED
        BY <2>1, <3>3, <3>5, <4>1, PastKept
    <3> QED
      BY <3>2, <3>4, <3>6
  <2>4. CASE at[r] # keep[r]
    <3>1. at[r] + 1 \in Slots /\ at[r] + 1 # 0
      BY <2>2, <2>4, SlotAssumption DEF Slots
    <3>2. Rename(at[r], at[r] + 1)
      BY <1>3, <2>4 DEF Move
    <3>3. /\ exists' \in SUBSET Slots
          /\ lines' \in [Slots -> SUBSET (1..MaxLines)]
          /\ \A h \in Slots : lines'[h] = IF h = at[r] + 1 THEN lines[at[r]]
                                          ELSE IF h = at[r] THEN {} ELSE lines[h]
          /\ Ordered' /\ Bounded'
      BY <2>2, <3>1, <3>2, RenameUp
    <3>4. TypeOK'
      BY <1>3, <2>1, <3>3 DEF Move, TypeOK, writerVars
    <3>5. lines'[0] = lines[0]
      BY <1>0, <2>2, <3>1, <3>3
    <3>6. \A g \in Slots : g \notin exists' => lines'[g] = {}
      BY <3>2, <3>3 DEF Rename, Past
    <3>7. \A g \in Slots : \A l \in lines'[g] : \E h \in Slots : l \in lines[h]
      BY <2>2, <3>3
    <3>8. Past'
      <4>1. UNCHANGED writerVars /\ (writer = "append" => Cardinality(lines'[0]) < MaxSize)
        BY <1>3, <3>5 DEF Move, Past
      <4> QED
        BY <2>1, <3>6, <3>7, <4>1, PastKept
    <3> QED
      BY <3>3, <3>4, <3>8
  <2> QED
    BY <2>3, <2>4
<1>4. CASE MoveFirst(r)
  <2>1. Rename(0, 0 + 1) /\ 0 + 1 \in Slots
    BY <1>0, <1>4 DEF MoveFirst
  <2>2. /\ exists' \in SUBSET Slots
        /\ lines' \in [Slots -> SUBSET (1..MaxLines)]
        /\ \A h \in Slots : lines'[h] = IF h = 0 + 1 THEN lines[0]
                                        ELSE IF h = 0 THEN {} ELSE lines[h]
        /\ Ordered' /\ Bounded'
    BY <1>0, <2>1, RenameUp
  <2>3. TypeOK'
    BY <1>4, <2>2 DEF MoveFirst, Goto, TypeOK, writerVars
  <2>4. \A g \in Slots : g \notin exists' => lines'[g] = {}
    BY <2>1, <2>2 DEF Rename, Past
  <2>5. \A g \in Slots : \A l \in lines'[g] : \E h \in Slots : l \in lines[h]
    BY <1>0, <2>2
  <2>6. Cardinality(lines'[0]) < MaxSize
    BY <1>0, <2>2, FS_EmptySet, SizeAssumption
  <2>7. \A q \in Rotators : step'[q] \in {"look", "move"} => at'[q] <= keep'[q]
    BY <1>4 DEF MoveFirst, Goto, TypeOK, Past
  <2>8. UNCHANGED writerVars
    BY <1>4 DEF MoveFirst
  <2>9. Past'
    BY <2>4, <2>5, <2>6, <2>7, <2>8, PastKept
  <2> QED
    BY <2>2, <2>3, <2>9
<1>5. CASE Create(r)
  <2>1. TypeOK'
    BY <1>0, <1>5 DEF Create, Goto, TypeOK, writerVars
  <2>2. lines'[0] = {} /\ \A g \in Slots : lines'[g] \subseteq lines[g]
    BY <1>0, <1>5 DEF Create, TypeOK
  <2>3. Ordered' /\ Bounded'
    BY <2>2, SmallerFiles
  <2>4. \A g \in Slots : g \notin exists' => lines'[g] = {}
    BY <1>0, <1>5, <2>2 DEF Create, Past
  <2>5. Cardinality(lines'[0]) < MaxSize
    BY <2>2, FS_EmptySet, SizeAssumption
  <2>6. \A q \in Rotators : step'[q] \in {"look", "move"} => at'[q] <= keep'[q]
    BY <1>5 DEF Create, Goto, TypeOK, Past
  <2>7. UNCHANGED writerVars
    BY <1>5 DEF Create
  <2>8. Past'
    BY <2>2, <2>4, <2>5, <2>6, <2>7, PastKept
  <2> QED
    BY <2>1, <2>3, <2>8
<1>6. CASE RotateFails(r)
  <2>1. TypeOK'
    BY <1>6 DEF RotateFails, Goto, TypeOK, fileVars, writerVars
  <2>2. \A q \in Rotators : step'[q] \in {"look", "move"} => at'[q] <= keep'[q]
    BY <1>6 DEF RotateFails, Goto, TypeOK, Past
  <2>3. Past' /\ Ordered' /\ Bounded'
    BY <1>6, <2>2 DEF RotateFails, Past, Ordered, Bounded, fileVars, writerVars
  <2> QED
    BY <2>1, <2>3
<1> QED
  BY <1>1, <1>2, <1>3, <1>4, <1>5, <1>6 DEF RotateFile

\* "log clear", and a shutdown or a power cut.
LEMMA InvLost ==
  ASSUME Inv, Clear \/ Restart
  PROVE  Inv'
<1> USE DEF Inv
<1>0. 0 \in Slots
  BY SlotsAreNaturals
<1>1. CASE Clear
  <2>1. TypeOK'
    BY <1>1 DEF Clear, TypeOK, writerVars, rotateVars
  <2>2. lines'[0] = {} /\ \A g \in Slots : lines'[g] \subseteq lines[g]
    BY <1>0, <1>1 DEF Clear, TypeOK
  <2>3. Ordered' /\ Bounded'
    BY <2>2, SmallerFiles
  <2>4. Cardinality(lines'[0]) < MaxSize
    BY <2>2, FS_EmptySet, SizeAssumption
  <2>5. Past'
    BY <1>1, <2>2, <2>4 DEF Clear, Past, writerVars, rotateVars
  <2> QED
    BY <2>1, <2>3, <2>5
<1>2. CASE Restart
  <2>1. PICK n \in 0..logged : lines' = [g \in Slots |-> {l \in lines[g] : l <= n}]
    BY <1>2 DEF Restart
  <2>2. TypeOK'
    BY <1>0, <1>2, <2>1, SlotAssumption DEF Restart, TypeOK
  <2>3. \A g \in Slots : lines'[g] \subseteq lines[g]
    BY <1>0, <2>1 DEF TypeOK
  <2>4. Ordered' /\ Bounded'
    BY <2>3, SmallerFiles
  <2>5. writer' = "idle" /\ logged' = logged /\ exists' = exists
        /\ \A q \in Rotators : step'[q] = "idle"
    BY <1>2 DEF Restart
  <2>6. Past'
    BY <2>3, <2>5 DEF Past
  <2> QED
    BY <2>2, <2>4, <2>6
<1> QED
  BY <1>1, <1>2

LEMMA InvNext == Inv /\ [Next]_vars => Inv'
<1> SUFFICES ASSUME Inv, [Next]_vars PROVE Inv'
  OBVIOUS
<1>1. CASE ExecSystemd
  BY <1>1 DEF ExecSystemd, Inv, TypeOK, Past, Ordered, Bounded,
              fileVars, writerVars, rotateVars
<1>2. CASE UNCHANGED vars
  BY <1>2 DEF vars, Inv, TypeOK, Past, Ordered, Bounded, fileVars, writerVars, rotateVars
<1> QED
  BY <1>1, <1>2, InvWrite, InvRotate, InvLost DEF Next

LEMMA InvAlways == Spec => []Inv
BY InvInit, InvNext, PTL DEF Spec

-----------------------------------------------------------------------------
(* A rotation makes room from its limit down                               *)

\* A generation is renamed to a number that is free: the loops go down from the limit,
\* senbit-init and "log rotate" never meet, and a rotation that is not crossed runs
\* alone.
Room ==
  /\ stage = "session" => writer = "idle"
  /\ stage = "boot" => Running = {}
  /\ writer = "remove" /\ index # Generations => index \notin exists
  /\ writer = "rename" => index \notin exists
  /\ \A r \in Running \ crossed :
       /\ Running = {r}
       /\ step[r] \in {"look", "move"} /\ at[r] # keep[r] => at[r] + 1 \notin exists
       /\ step[r] = "first" => 1 \notin exists
       /\ step[r] = "create" => 0 \notin exists

LEMMA RoomInit == Init => Room
BY DEF Init, Room, Running

\* senbit-init writes a line: no rotation of the log command runs.
LEMMA RoomWrite ==
  ASSUME Inv, Room, Write
  PROVE  Room'
<1>0. /\ Generations \in Nat \ {0} /\ index \in 1..Generations
      /\ Running = {} /\ stage = "boot" /\ UNCHANGED <<stage, step, at, keep, crossed>>
  BY SlotAssumption DEF Inv, TypeOK, Room, Write, WriteLine, WriteRuntimeFails, RemoveNext,
     RenameCurrent, AppendLine, WriteFails, rotateVars
<1>1. Running' = {} /\ stage' = "boot"
  BY <1>0 DEF Running
<1>2. /\ writer' = "remove" /\ index' # Generations => index' \notin exists'
      /\ writer' = "rename" => index' \notin exists'
  <2>1. CASE WriteLine
    BY <2>1 DEF WriteLine, fileVars
  <2>2. CASE WriteRuntimeFails \/ AppendLine \/ WriteFails
    BY <2>2 DEF WriteRuntimeFails, AppendLine, WriteFails, fileVars, Room
  <2>3. CASE RemoveNext
    BY <2>3 DEF RemoveNext, Unlink, fileVars, Room
  <2>4. CASE RenameCurrent
    <3>1. index - 1 \notin exists'
      BY <1>0, <2>4 DEF RenameCurrent, Rename, fileVars
    <3>2. writer' = "append" \/ (writer' = "remove" /\ index' = index - 1)
      BY <2>4 DEF RenameCurrent
    <3> QED
      BY <3>1, <3>2
  <2> QED
    BY <2>1, <2>2, <2>3, <2>4 DEF Write
<1> QED
  BY <1>1, <1>2 DEF Room

\* What a step of "log rotate" leaves alone.
LEMMA OthersStay ==
  ASSUME TypeOK, Room, NEW r \in Rotators, RotateFile(r), ~Rotate(r)
  PROVE  /\ stage = "session" /\ writer = "idle" /\ UNCHANGED <<stage, writerVars, keep>>
         /\ r \in Running
         /\ \A q \in Rotators \ {r} : step'[q] = step[q] /\ at'[q] = at[q]
         /\ crossed' = IF step'[r] = "idle" THEN crossed \ {r} ELSE crossed
         /\ Running' = IF step'[r] = "idle" THEN Running \ {r} ELSE Running
<1>1. /\ step[r] # "idle" /\ UNCHANGED <<stage, writerVars, keep>>
  BY DEF RotateFile, Look, Move, MoveFirst, Create, RotateFails
<1>2. r \in Running
  BY <1>1 DEF Running
<1>3. stage = "session" /\ writer = "idle"
  BY <1>2 DEF TypeOK, Room
<1>4. PICK s \in {"idle", "look", "move", "first", "create"} : Goto(r, s)
  <2>1. NextIndex(r) => Goto(r, "first") \/ Goto(r, "look")
    BY DEF NextIndex
  <2> QED
    BY <2>1 DEF RotateFile, Look, Move, MoveFirst, Create, RotateFails
<1>5. \A q \in Rotators \ {r} : at'[q] = at[q]
  BY DEF RotateFile, Look, Move, MoveFirst, Create, RotateFails, NextIndex, TypeOK
<1>6. step' = [step EXCEPT ![r] = s] /\ crossed' = IF s = "idle" THEN crossed \ {r} ELSE crossed
  BY <1>4 DEF Goto
<1>7. step'[r] = s /\ \A q \in Rotators \ {r} : step'[q] = step[q]
  BY <1>6 DEF TypeOK
<1>8. Running' = IF s = "idle" THEN Running \ {r} ELSE Running
  BY <1>2, <1>7 DEF Running
<1> QED
  BY <1>1, <1>2, <1>3, <1>5, <1>6, <1>7, <1>8

\* A "log rotate" that runs alone leaves free what it will rename to.
LEMMA RoomRotate ==
  ASSUME Inv, Room, NEW r \in Rotators, RotateFile(r)
  PROVE  Room'
<1>0. /\ MaxSlot \in Nat /\ TypeOK
      /\ at[r] \in 1..MaxSlot /\ keep[r] \in 1..MaxSlot
      /\ step \in [Rotators -> {"idle", "look", "move", "first", "create"}]
      /\ at \in [Rotators -> 1..MaxSlot] /\ keep \in [Rotators -> 1..MaxSlot]
  BY SlotAssumption DEF Inv, TypeOK
<1>1. CASE Rotate(r)
  <2>1. /\ stage = "session" /\ UNCHANGED <<stage, fileVars, writerVars>>
        /\ step' = [step EXCEPT ![r] = "look"]
        /\ crossed' = IF Running = {} THEN {} ELSE Running \cup {r}
        /\ \E k \in Keeps : keep' = [keep EXCEPT ![r] = k] /\ at' = [at EXCEPT ![r] = k]
    BY <1>1 DEF Rotate
  <2>2. Running' = Running \cup {r}
    BY <1>0, <2>1 DEF Running
  <2>3. at'[r] = keep'[r] /\ step'[r] = "look"
    BY <1>0, <2>1
  <2> QED
    BY <2>1, <2>2, <2>3 DEF Room, fileVars, writerVars
<1>2. CASE ~Rotate(r)
  <2>1. /\ stage = "session" /\ writer = "idle" /\ UNCHANGED <<stage, writerVars, keep>>
        /\ r \in Running
        /\ \A q \in Rotators \ {r} : step'[q] = step[q] /\ at'[q] = at[q]
        /\ crossed' = IF step'[r] = "idle" THEN crossed \ {r} ELSE crossed
        /\ Running' = IF step'[r] = "idle" THEN Running \ {r} ELSE Running
    BY <1>0, <1>2, OthersStay
  <2>2. stage' = "session" /\ writer' = "idle"
    BY <2>1 DEF writerVars
  <2>3. ASSUME NEW q \in Running' \ crossed'
        PROVE  q = r /\ r \notin crossed /\ Running = {r} /\ Running' = {r}
    BY <2>1, <2>3 DEF Room
  <2>4. ASSUME r \in Running' \ crossed'
        PROVE  /\ step'[r] \in {"look", "move"} /\ at'[r] # keep'[r] => at'[r] + 1 \notin exists'
               /\ step'[r] = "first" => 1 \notin exists'
               /\ step'[r] = "create" => 0 \notin exists'
    <3>0. /\ r \in Running \ crossed /\ keep'[r] = keep[r] /\ step'[r] # "idle"
      BY <2>1, <2>4 DEF Running
    <3>1. /\ step[r] \in {"look", "move"} /\ at[r] # keep[r] => at[r] + 1 \notin exists
          /\ step[r] = "first" => 1 \notin exists
          /\ step[r] = "create" => 0 \notin exists
      BY <3>0 DEF Room
    <3>2. CASE NextIndex(r) /\ at[r] \notin exists'
      <4>1. CASE at[r] = 1
        BY <1>0, <3>2, <4>1 DEF NextIndex, Goto
      <4>2. CASE at[r] # 1
        <5>1. step'[r] = "look" /\ at'[r] = at[r] - 1
          BY <1>0, <3>2, <4>2 DEF NextIndex, Goto
        <5> QED
          BY <1>0, <3>2, <5>1
      <4> QED
        BY <4>1, <4>2
    <3>3. CASE Look(r)
      <4>1. CASE at[r] \in exists
        BY <1>0, <3>0, <3>1, <3>3, <4>1 DEF Look, Goto, fileVars
      <4> QED
        BY <3>2, <3>3, <4>1 DEF Look, fileVars
    <3>4. CASE Move(r)
      <4>1. at[r] \notin exists'
        BY <1>0, <3>4 DEF Move, Unlink, Rename
      <4> QED
        BY <3>2, <3>4, <4>1 DEF Move
    <3>5. CASE MoveFirst(r)
      BY <1>0, <3>5 DEF MoveFirst, Rename, Goto
    <3>6. CASE Create(r) \/ RotateFails(r)
      BY <1>0, <3>0, <3>6 DEF Create, RotateFails, Goto
    <3> QED
      BY <1>2, <3>3, <3>4, <3>5, <3>6 DEF RotateFile
  <2> QED
    BY <2>2, <2>3, <2>4 DEF Room
<1> QED
  BY <1>1, <1>2

LEMMA RoomNext ==
  ASSUME Inv, Room, [Next]_vars
  PROVE  Room'
<1>1. CASE ExecSystemd \/ Clear
  BY <1>1 DEF ExecSystemd, Clear, Room, Running, fileVars, writerVars, rotateVars
<1>2. CASE Restart
  <2>1. Running' = {} /\ stage' = "boot" /\ writer' = "idle"
    BY <1>2 DEF Restart, Running
  <2> QED
    BY <2>1 DEF Room
<1>3. CASE UNCHANGED vars
  BY <1>3 DEF vars, Room, Running, fileVars, writerVars, rotateVars
<1> QED
  BY <1>1, <1>2, <1>3, RoomWrite, RoomRotate DEF Next

LEMMA RoomAlways == Spec => [](Inv /\ Room)
<1>1. Inv /\ Room /\ [Next]_vars => Room'
  BY RoomNext
<1> QED
  BY <1>1, RoomInit, InvAlways, PTL DEF Spec

\* A rename to a number that is free loses no line.
LEMMA RenameKeepsLines ==
  ASSUME Inv, NEW g \in Slots, g + 1 \in Slots, g + 1 \notin exists, Rename(g, g + 1)
  PROVE  AllLines \subseteq AllLines'
<1>1. \A h \in Slots : lines'[h] = IF h = g + 1 THEN lines[g]
                                   ELSE IF h = g THEN {} ELSE lines[h]
  BY RenameUp DEF Inv
<1>2. lines[g + 1] = {}
  BY DEF Inv, Past
<1> SUFFICES ASSUME NEW h \in Slots, NEW l \in lines[h]
             PROVE  \E k \in Slots : l \in lines'[k]
  BY DEF AllLines
<1>3. CASE h = g
  BY <1>1, <1>3
<1>4. CASE h # g
  <2>1. h # g + 1
    BY <1>2
  <2> QED
    BY <1>1, <1>4, <2>1
<1> QED
  BY <1>3, <1>4

\* Who unlinks a file, loses its lines only.
LEMMA UnlinkLoses ==
  ASSUME TypeOK, NEW g \in Slots, Unlink(g)
  PROVE  AllLines \ AllLines' \subseteq lines[g]
<1>1. \A h \in Slots \ {g} : lines'[h] = lines[h]
  BY DEF Unlink, TypeOK
<1> QED
  BY <1>1 DEF AllLines

LEMMA WriteLosesItsLimit ==
  ASSUME Inv, Room, Write
  PROVE  AllLines \ AllLines' \subseteq lines[Generations]
<1>0. /\ Generations \in Slots /\ index - 1 \in Slots /\ (index - 1) + 1 = index
      /\ index \in Slots
  BY SlotAssumption DEF Slots, Inv, TypeOK
<1>1. CASE WriteLine \/ WriteRuntimeFails \/ WriteFails
  BY <1>1 DEF WriteLine, WriteRuntimeFails, WriteFails, fileVars, AllLines
<1>2. CASE RemoveNext
  <2>1. CASE index \in exists
    BY <1>0, <1>2, <2>1, UnlinkLoses DEF RemoveNext, Room, Inv
  <2> QED
    BY <1>2, <2>1 DEF RemoveNext, fileVars, AllLines
<1>3. CASE RenameCurrent
  <2>1. CASE index - 1 \in exists
    BY <1>0, <1>3, <2>1, RenameKeepsLines DEF RenameCurrent, Room
  <2> QED
    BY <1>3, <2>1 DEF RenameCurrent, fileVars, AllLines
<1>4. CASE AppendLine
  <2>1. \A g \in Slots : lines[g] \subseteq lines'[g]
    BY <1>4 DEF AppendLine, Inv, TypeOK
  <2> QED
    BY <2>1 DEF AllLines
<1> QED
  BY <1>1, <1>2, <1>3, <1>4 DEF Write

LEMMA RotationLosesItsLimit ==
  ASSUME Inv, Room, NEW r \in Rotators \ crossed, RotateFile(r)
  PROVE  AllLines \ AllLines' \subseteq lines[keep[r]]
<1>0. /\ 0 \in Slots /\ 0 + 1 \in Slots /\ keep[r] \in Slots /\ at[r] \in Slots
  BY SlotAssumption DEF Slots, Inv, TypeOK
<1>1. CASE Rotate(r) \/ Look(r) \/ RotateFails(r)
  BY <1>1 DEF Rotate, Look, RotateFails, fileVars, AllLines
<1>2. CASE Move(r)
  <2>1. CASE at[r] = keep[r]
    BY <1>0, <1>2, <2>1, UnlinkLoses DEF Move, Inv
  <2>2. CASE at[r] # keep[r]
    <3>1. at[r] + 1 \in Slots
      BY <1>2, <2>2, SlotAssumption DEF Move, Inv, Past, TypeOK, Slots
    <3>2. at[r] + 1 \notin exists
      BY <1>2, <2>2 DEF Move, Room, Running
    <3> QED
      BY <1>0, <1>2, <2>2, <3>1, <3>2, RenameKeepsLines DEF Move
  <2> QED
    BY <2>1, <2>2
<1>3. CASE MoveFirst(r)
  <2>1. 0 + 1 \notin exists /\ Rename(0, 0 + 1)
    BY <1>3 DEF MoveFirst, Room, Running
  <2> QED
    BY <1>0, <2>1, RenameKeepsLines
<1>4. CASE Create(r)
  <2>1. lines[0] = {}
    BY <1>0, <1>4 DEF Create, Room, Running, Inv, Past
  <2>2. \A g \in Slots : lines[g] \subseteq lines'[g]
    BY <1>4, <2>1 DEF Create, Inv, TypeOK
  <2> QED
    BY <2>2 DEF AllLines
<1> QED
  BY <1>1, <1>2, <1>3, <1>4 DEF RotateFile

-----------------------------------------------------------------------------
(* The files are chapters of one history                                   *)

\* Two files that hold a line in common are one.
LEMMA ChaptersDiffer ==
  ASSUME Inv, NEW g \in Slots, NEW h \in Slots, lines[g] = lines[h], lines[g] # {}
  PROVE  g = h
<1>1. PICK l \in lines[g] : TRUE
  OBVIOUS
<1>2. g \in Nat /\ h \in Nat /\ l \in Nat
  BY SlotsAreNaturals, SizeAssumption DEF Inv, TypeOK
<1>3. ~(g < h) /\ ~(h < g)
  BY <1>1, <1>2 DEF Inv, Ordered
<1> QED
  BY <1>2, <1>3

\* The same chapters, or one less.
LEMMA EmptiedFile ==
  ASSUME Inv, NEW g \in Slots, UNCHANGED logged,
         \A h \in Slots : lines'[h] = IF h = g THEN {} ELSE lines[h]
  PROVE  [History!Next]_(History!vars)
<1>1. CASE lines[g] = {}
  <2>1. \A h \in Slots : lines'[h] = lines[h]
    BY <1>1
  <2>2. Chapters' = Chapters
    BY <2>1 DEF Chapters
  <2> QED
    BY <2>2 DEF History!vars
<1>2. CASE lines[g] # {}
  <2>1. Chapters' = Chapters \ {lines[g]}
    <3>1. ASSUME NEW h \in Slots, lines[h] # {}, h # g PROVE lines[h] # lines[g]
      BY <1>2, <3>1, ChaptersDiffer
    <3> QED
      BY <3>1 DEF Chapters
  <2>2. lines[g] \in Chapters
    BY <1>2 DEF Chapters
  <2>3. History!Forget
    BY <2>1, <2>2 DEF History!Forget
  <2> QED
    BY <2>3 DEF History!Next
<1> QED
  BY <1>1, <1>2

\* A file that is renamed over another one costs the chapter of that one.
LEMMA RenamedFile ==
  ASSUME Inv, NEW g \in Slots, g + 1 \in Slots, UNCHANGED logged, Rename(g, g + 1)
  PROVE  [History!Next]_(History!vars)
<1>0. g # g + 1
  BY SlotsAreNaturals
<1>1. \A h \in Slots : lines'[h] = IF h = g + 1 THEN lines[g]
                                   ELSE IF h = g THEN {} ELSE lines[h]
  BY RenameUp DEF Inv
<1>2. Chapters' = {lines[h] : h \in Slots \ {g + 1}} \ {{}}
  <2>1. ASSUME NEW c \in Chapters' PROVE c \in {lines[h] : h \in Slots \ {g + 1}} \ {{}}
    BY <1>0, <1>1, <2>1 DEF Chapters
  <2>2. ASSUME NEW h \in Slots \ {g + 1}, lines[h] # {} PROVE lines[h] \in Chapters'
    <3>1. CASE h = g
      BY <1>0, <1>1, <2>2, <3>1 DEF Chapters
    <3>2. CASE h # g
      BY <1>1, <2>2, <3>2 DEF Chapters
    <3> QED
      BY <3>1, <3>2
  <2> QED
    BY <2>1, <2>2
<1>3. CASE lines[g + 1] = {}
  <2>1. Chapters' = Chapters
    BY <1>2, <1>3 DEF Chapters
  <2> QED
    BY <2>1 DEF History!vars
<1>4. CASE lines[g + 1] # {}
  <2>1. Chapters' = Chapters \ {lines[g + 1]}
    <3>1. ASSUME NEW h \in Slots \ {g + 1}, lines[h] # {} PROVE lines[h] # lines[g + 1]
      BY <1>4, <3>1, ChaptersDiffer
    <3> QED
      BY <1>2, <3>1 DEF Chapters
  <2>2. lines[g + 1] \in Chapters
    BY <1>4 DEF Chapters
  <2>3. History!Forget
    BY <2>1, <2>2 DEF History!Forget
  <2> QED
    BY <2>3 DEF History!Next
<1> QED
  BY <1>3, <1>4

\* Steps that leave the files alone.
LEMMA SameFiles ==
  ASSUME UNCHANGED <<lines, logged>>
  PROVE  [History!Next]_(History!vars)
BY DEF Chapters, History!vars

\* A line is appended to the newest chapter, or opens one.
LEMMA AppendKeeps ==
  ASSUME Inv, AppendLine
  PROVE  History!Keep
<1>1. /\ 0 \in Slots /\ Slots \subseteq Nat
      /\ \A g \in Slots : lines'[g] = IF g = 0 THEN lines[0] \cup {logged} ELSE lines[g]
  BY SlotsAreNaturals DEF AppendLine, Inv, TypeOK
<1>2. \A c \in Chapters : History!Before(c, {logged})
  BY DEF Chapters, AppendLine, Inv, Past, History!Before
<1>3. Chapters' = ({lines[g] : g \in Slots \ {0}} \ {{}}) \cup {lines[0] \cup {logged}}
  BY <1>1 DEF Chapters
<1>4. CASE lines[0] = {}
  <2>1. Chapters' = Chapters \cup {{logged}}
    BY <1>1, <1>3, <1>4 DEF Chapters
  <2> QED
    BY <1>2, <2>1 DEF History!Keep, AppendLine
<1>5. CASE lines[0] # {}
  <2>1. ASSUME NEW g \in Slots \ {0}, lines[g] # {} PROVE lines[g] # lines[0]
    BY <1>1, <1>5, <2>1, ChaptersDiffer
  <2>2. Chapters \ {lines[0]} = {lines[g] : g \in Slots \ {0}} \ {{}}
    BY <1>1, <2>1 DEF Chapters
  <2>3. lines[0] \in Chapters
    BY <1>1, <1>5 DEF Chapters
  <2>4. \A d \in Chapters \ {lines[0]} : History!Before(d, lines[0])
    <3>1. ASSUME NEW g \in Slots \ {0} PROVE History!Before(lines[g], lines[0])
      BY <1>1 DEF Inv, Ordered, History!Before
    <3> QED
      BY <2>2, <3>1
  <2>5. Chapters' = (Chapters \ {lines[0]}) \cup {lines[0] \cup {logged}}
    BY <1>3, <2>2
  <2> QED
    BY <1>2, <2>3, <2>4, <2>5 DEF History!Keep, AppendLine
<1> QED
  BY <1>4, <1>5

\* A power cut takes the newest lines of every chapter.
LEMMA CutLoses ==
  ASSUME Inv, Restart
  PROVE  History!Lose
<1>1. PICK n \in 0..logged : lines' = [g \in Slots |-> {l \in lines[g] : l <= n}]
  BY DEF Restart
<1>2. \A g \in Slots : lines'[g] = {l \in lines[g] : l <= n}
  BY <1>1
<1>3. Chapters' = {lines'[g] : g \in Slots} \ {{}}
  BY DEF Chapters
<1>4. ASSUME NEW x \in Chapters' PROVE x \in {{l \in c : l <= n} : c \in Chapters} \ {{}}
  <2>1. PICK g \in Slots : x = {l \in lines[g] : l <= n} /\ x # {}
    BY <1>2, <1>3
  <2>2. lines[g] \in Chapters
    BY <2>1 DEF Chapters
  <2> QED
    BY <2>1, <2>2
<1>5. ASSUME NEW c \in Chapters, {l \in c : l <= n} # {} PROVE {l \in c : l <= n} \in Chapters'
  <2>1. PICK g \in Slots : c = lines[g]
    BY DEF Chapters
  <2> QED
    BY <1>2, <1>3, <1>5, <2>1
<1>6. Chapters' = {{l \in c : l <= n} : c \in Chapters} \ {{}}
  BY <1>4, <1>5
<1> QED
  BY <1>6 DEF History!Lose, Restart

LEMMA StepKeepsHistory ==
  ASSUME Inv, [Next]_vars
  PROVE  [History!Next]_(History!vars)
<1>0. /\ 0 \in Slots /\ 0 + 1 \in Slots
      /\ index - 1 \in Slots /\ (index - 1) + 1 = index /\ index \in Slots
  BY SlotAssumption DEF Slots, Inv, TypeOK
<1>1. ASSUME NEW g \in Slots, Unlink(g), UNCHANGED logged
      PROVE  [History!Next]_(History!vars)
  BY <1>1, EmptiedFile DEF Unlink, Inv, TypeOK
<1>2. CASE UNCHANGED vars \/ WriteRuntimeFails \/ WriteLine \/ WriteFails \/ ExecSystemd
  <2>1. CASE WriteLine \/ WriteRuntimeFails
    BY <2>1 DEF WriteLine, WriteRuntimeFails, fileVars, Chapters, History!Log, History!Next
  <2> QED
    BY <1>2, <2>1, SameFiles DEF vars, WriteFails, ExecSystemd, fileVars, writerVars
<1>3. CASE AppendLine
  BY <1>3, AppendKeeps DEF History!Next
<1>4. CASE RemoveNext
  <2>1. CASE index \in exists
    BY <1>0, <1>1, <1>4, <2>1 DEF RemoveNext
  <2> QED
    BY <1>4, <2>1, SameFiles DEF RemoveNext, fileVars
<1>5. CASE RenameCurrent
  <2>1. CASE index - 1 \in exists
    BY <1>0, <1>5, <2>1, RenamedFile DEF RenameCurrent
  <2> QED
    BY <1>5, <2>1, SameFiles DEF RenameCurrent, fileVars
<1>6. ASSUME NEW r \in Rotators, RotateFile(r) PROVE [History!Next]_(History!vars)
  <2>0. UNCHANGED logged
    BY <1>6 DEF RotateFile, Rotate, Look, Move, MoveFirst, Create, RotateFails, writerVars
  <2>1. CASE Rotate(r) \/ Look(r) \/ RotateFails(r)
    BY <2>0, <2>1, SameFiles DEF Rotate, Look, RotateFails, fileVars
  <2>2. CASE Move(r)
    <3>0. at[r] \in Slots
      BY SlotAssumption DEF Slots, Inv, TypeOK
    <3>1. CASE at[r] = keep[r]
      BY <1>1, <2>0, <2>2, <3>0, <3>1 DEF Move
    <3>2. CASE at[r] # keep[r]
      <4>1. at[r] + 1 \in Slots
        BY <2>2, <3>2, SlotAssumption DEF Move, Inv, Past, TypeOK, Slots
      <4> QED
        BY <2>0, <2>2, <3>0, <3>2, <4>1, RenamedFile DEF Move
    <3> QED
      BY <3>1, <3>2
  <2>3. CASE MoveFirst(r)
    <3>1. Rename(0, 0 + 1)
      BY <2>3 DEF MoveFirst
    <3> QED
      BY <1>0, <2>0, <3>1, RenamedFile
  <2>4. CASE Create(r)
    <3>1. \A h \in Slots : lines'[h] = IF h = 0 THEN {} ELSE lines[h]
      BY <1>0, <2>4 DEF Create, Inv, TypeOK
    <3> QED
      BY <1>0, <2>0, <3>1, EmptiedFile
  <2> QED
    BY <1>6, <2>1, <2>2, <2>3, <2>4 DEF RotateFile
<1>7. CASE Clear
  <2>1. \A h \in Slots : lines'[h] = IF h = 0 THEN {} ELSE lines[h]
    BY <1>0, <1>7 DEF Clear, Inv, TypeOK
  <2>2. UNCHANGED logged
    BY <1>7 DEF Clear, writerVars
  <2> QED
    BY <1>0, <2>1, <2>2, EmptiedFile
<1>8. CASE Restart
  BY <1>8, CutLoses DEF History!Next
<1> QED
  BY <1>2, <1>3, <1>4, <1>5, <1>6, <1>7, <1>8 DEF Next, Write

-----------------------------------------------------------------------------
(* The theorems                                                            *)

\* The variables keep their types: no rotation leaves the range of the numbers the
\* generations can get, for senbit-init's rotate_if_needed() as for rotate_file().
THEOREM LogTypeCorrect == Spec => []TypeOK
<1>1. Inv => TypeOK
  BY DEF Inv
<1> QED
  BY <1>1, InvAlways, PTL

\* Read from the highest number down, the generations always tell the history in
\* order, for any --keep and however many rotations overlap, fail or are cut short.
THEOREM GenerationsOrdered == Spec => []Ordered
<1>1. Inv => Ordered
  BY DEF Inv
<1> QED
  BY <1>1, InvAlways, PTL

\* No file ever holds more than MAX_LOG_SIZE: LogWriter::write() checks the size
\* of the log before every line, and no rotation joins two files.
THEOREM LogBounded == Spec => []Bounded
<1>1. Inv => Bounded
  BY DEF Inv
<1> QED
  BY <1>1, InvAlways, PTL

\* A rotation costs no line of the newest generations, wherever it or an earlier one
\* fails or is cut short: senbit-init's rotate_if_needed() only those of generation
\* ROTATED_LOGS, rotate_file() only those of generation --keep, for any --keep, unless
\* another "log rotate" runs beside it.
THEOREM NewestAreKept == Spec => KeepsTheNewest
<1>1. Inv /\ Room /\ [Next]_vars
        => [ LET lost == AllLines \ AllLines' IN
             /\ Write => lost \subseteq lines[Generations]
             /\ \A r \in Rotators \ crossed : RotateFile(r) => lost \subseteq lines[keep[r]] ]_vars
  BY WriteLosesItsLimit, RotationLosesItsLimit
<1> QED
  BY <1>1, RoomAlways, PTL DEF Spec, KeepsTheNewest

\* The log implements LogHistory, for any sizes, any --keep and any number of rotations
\* at once: whatever fails or is cut short in LogWriter, rotate_file() and clear_file(),
\* the files are chapters of one history that grows at its new end only, and each
\* of them is lost as a whole or not at all, but for the newest lines a cut takes.
THEOREM LogImplementsHistory == Spec => ImplementsHistory
<1>1. Init => History!Init
  <2> SUFFICES ASSUME Init PROVE History!Init
    OBVIOUS
  <2>1. \A g \in Slots : lines[g] = {}
    BY DEF Init
  <2> QED
    BY <2>1 DEF Init, Chapters, History!Init
<1>2. Inv /\ [Next]_vars => [History!Next]_(History!vars)
  BY StepKeepsHistory
<1> QED
  BY <1>1, <1>2, InvAlways, PTL DEF Spec, ImplementsHistory, History!Spec
=============================================================================
