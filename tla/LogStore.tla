------------------------------- MODULE LogStore -------------------------------
(***************************************************************************)
(* /var/log/senbit/system.log and its older generations system.log.1, ...  *)
(* senbit-init appends to the log while it boots and rotates it when it is *)
(* full; in the session that follows, the log command clears and rotates   *)
(* it.  A power cut may come between any two system calls.                 *)
(*                                                                         *)
(* A line is its number; a file is the set of the lines it holds.          *)
(***************************************************************************)
EXTENDS Naturals, FiniteSets

CONSTANTS
  Generations,  \* ROTATED_LOGS: 5 in the code
  MaxSize,      \* MAX_LOG_SIZE, in lines
  Keeps,        \* values given to "log rotate --keep"
  MaxSlot,      \* the highest number a generation can get
  Rotators,     \* "log rotate" processes
  MaxLines      \* bound: how many lines are logged

ASSUME SizeAssumption == MaxSize \in Nat \ {0} /\ MaxLines \in Nat

ASSUME SlotAssumption ==
  /\ MaxSlot \in Nat
  /\ Generations \in 1..MaxSlot
  /\ Keeps \subseteq 1..MaxSlot    \* "--keep must be greater than zero"

\* Number 0 is system.log itself.
Slots == 0..MaxSlot

VARIABLES
  exists,   \* numbers of the files there are
  lines,    \* lines[g]: what system.log.g holds
  logged,   \* number of the last line that was logged
  stage,    \* "boot" until senbit-init execs systemd, then "session"
  writer,   \* where LogWriter::write() is
  index,    \* the generation rotate_if_needed() is at
  step,     \* step[r]: where rotate_file() is
  at,       \* at[r]: the generation it is at
  keep,     \* keep[r]: its --keep
  crossed   \* rotations that ran beside another one; for the properties only

fileVars   == <<exists, lines>>
writerVars == <<logged, writer, index>>
rotateVars == <<step, at, keep, crossed>>
vars == <<fileVars, writerVars, rotateVars, stage>>

TypeOK ==
  /\ exists \in SUBSET Slots
  /\ lines \in [Slots -> SUBSET (1..MaxLines)]
  /\ logged \in 0..MaxLines
  /\ stage \in {"boot", "session"}
  /\ writer \in {"idle", "remove", "rename", "append"}
  /\ index \in 1..Generations
  /\ step \in [Rotators -> {"idle", "look", "move", "first", "create"}]
  /\ at \in [Rotators -> 1..MaxSlot]
  /\ keep \in [Rotators -> 1..MaxSlot]
  /\ crossed \in SUBSET Rotators

Init ==
  /\ exists = {} /\ lines = [g \in Slots |-> {}]
  /\ logged = 0 /\ stage = "boot" /\ writer = "idle" /\ index = Generations
  /\ step = [r \in Rotators |-> "idle"]
  /\ at = [r \in Rotators |-> 1] /\ keep = [r \in Rotators |-> 1] /\ crossed = {}

-----------------------------------------------------------------------------
(* System calls                                                            *)

\* fs::remove_file() and fs::rename(), which replaces its target.
Unlink(g) ==
  /\ exists' = exists \ {g}
  /\ lines' = [lines EXCEPT ![g] = {}]

Rename(g, h) ==
  /\ exists' = (exists \ {g}) \cup {h}
  /\ lines' = [lines EXCEPT ![h] = lines[g], ![g] = {}]

-----------------------------------------------------------------------------
(* senbit-init: LogWriter::write() and rotate_if_needed()                  *)

\* Mutant: a log that has just reached its size is not yet rotated.
FullLate == 0 \in exists /\ Cardinality(lines[0]) > MaxSize

Full == 0 \in exists /\ Cardinality(lines[0]) >= MaxSize

\* A line has reached the runtime log and is to be appended here.
WriteLine ==
  /\ stage = "boot" /\ writer = "idle" /\ logged < MaxLines
  /\ logged' = logged + 1
  /\ IF Full THEN writer' = "remove" /\ index' = Generations
             ELSE writer' = "append" /\ UNCHANGED index
  /\ UNCHANGED <<fileVars, rotateVars, stage>>

\* The runtime log comes first: without it the line is not written here either.
WriteRuntimeFails ==
  /\ stage = "boot" /\ writer = "idle" /\ logged < MaxLines
  /\ logged' = logged + 1
  /\ UNCHANGED <<fileVars, writer, index, rotateVars, stage>>

\* Mutant: the file that is to be renamed goes, instead of the one it replaces.
RemoveCurrent ==
  /\ writer = "remove"
  /\ IF index - 1 \in exists THEN Unlink(index - 1) ELSE UNCHANGED fileVars
  /\ writer' = "rename"
  /\ UNCHANGED <<logged, index, rotateVars, stage>>

RemoveNext ==
  /\ writer = "remove"
  /\ IF index \in exists THEN Unlink(index) ELSE UNCHANGED fileVars
  /\ writer' = "rename"
  /\ UNCHANGED <<logged, index, rotateVars, stage>>

\* Mutant: the loop runs over 0..ROTATED_LOGS.
RenameCurrentDownToZero ==
  /\ writer = "rename"
  /\ IF index > 0 /\ index - 1 \in exists
       THEN Rename(index - 1, index) ELSE UNCHANGED fileVars
  /\ IF index = 0
       THEN writer' = "append" /\ UNCHANGED index
       ELSE writer' = "remove" /\ index' = index - 1
  /\ UNCHANGED <<logged, rotateVars, stage>>

RenameCurrent ==
  /\ writer = "rename"
  /\ IF index - 1 \in exists THEN Rename(index - 1, index) ELSE UNCHANGED fileVars
  /\ IF index = 1
       THEN writer' = "append" /\ UNCHANGED index
       ELSE writer' = "remove" /\ index' = index - 1
  /\ UNCHANGED <<logged, rotateVars, stage>>

AppendLine ==
  /\ writer = "append"
  /\ exists' = exists \cup {0}
  /\ lines' = [lines EXCEPT ![0] = @ \cup {logged}]
  /\ writer' = "idle"
  /\ UNCHANGED <<logged, index, rotateVars, stage>>

\* A system call fails: the error is printed and the line is dropped.  The log may
\* have been created by then.
WriteFails ==
  /\ writer # "idle"
  /\ writer' = "idle"
  /\ \/ UNCHANGED exists
     \/ writer = "append" /\ exists' = exists \cup {0}
  /\ UNCHANGED <<lines, logged, index, rotateVars, stage>>

ExecSystemd ==
  /\ stage = "boot" /\ writer = "idle"
  /\ stage' = "session"
  /\ UNCHANGED <<fileVars, writerVars, rotateVars>>

-----------------------------------------------------------------------------
(* The log command                                                         *)

Goto(r, s) ==
  /\ step' = [step EXCEPT ![r] = s]
  /\ crossed' = IF s = "idle" THEN crossed \ {r} ELSE crossed

Running == {r \in Rotators : step[r] # "idle"}

\* rotate() takes the sources that exist.
Rotate(r) ==
  /\ stage = "session" /\ step[r] = "idle" /\ 0 \in exists
  /\ \E k \in Keeps :
       keep' = [keep EXCEPT ![r] = k] /\ at' = [at EXCEPT ![r] = k]
  /\ step' = [step EXCEPT ![r] = "look"]
  /\ crossed' = IF Running = {} THEN {} ELSE Running \cup {r}
  /\ UNCHANGED <<fileVars, writerVars, stage>>

\* The loop of rotate_file() goes down to 1.
NextIndex(r) ==
  IF at[r] = 1 THEN Goto(r, "first") /\ UNCHANGED at
               ELSE Goto(r, "look") /\ at' = [at EXCEPT ![r] = @ - 1]

Look(r) ==
  /\ step[r] = "look"
  /\ IF at[r] \in exists THEN Goto(r, "move") /\ UNCHANGED at ELSE NextIndex(r)
  /\ UNCHANGED <<fileVars, writerVars, keep, stage>>

\* The oldest generation goes, the others get the next number.
Move(r) ==
  /\ step[r] = "move" /\ at[r] \in exists
  /\ IF at[r] = keep[r] THEN Unlink(at[r]) ELSE Rename(at[r], at[r] + 1)
  /\ NextIndex(r)
  /\ UNCHANGED <<writerVars, keep, stage>>

\* Mutant: the log is copied, and emptied only when it is created anew.
MoveFirstCopies(r) ==
  /\ step[r] = "first" /\ 0 \in exists
  /\ exists' = exists \cup {1} /\ lines' = [lines EXCEPT ![1] = lines[0]]
  /\ Goto(r, "create")
  /\ UNCHANGED <<writerVars, at, keep, stage>>

\* Mutant: the log takes the place of the generation that was dropped.
MoveFirstIntoFreedSlot(r) ==
  /\ step[r] = "first" /\ 0 \in exists
  /\ Rename(0, keep[r])
  /\ Goto(r, "create")
  /\ UNCHANGED <<writerVars, at, keep, stage>>

MoveFirst(r) ==
  /\ step[r] = "first" /\ 0 \in exists
  /\ Rename(0, 1)
  /\ Goto(r, "create")
  /\ UNCHANGED <<writerVars, at, keep, stage>>

\* File::create() truncates.
Create(r) ==
  /\ step[r] = "create"
  /\ exists' = exists \cup {0}
  /\ lines' = [lines EXCEPT ![0] = {}]
  /\ Goto(r, "idle")
  /\ UNCHANGED <<writerVars, at, keep, stage>>

\* A system call fails, or the file is gone: the command ends.
RotateFails(r) ==
  /\ step[r] # "idle"
  /\ Goto(r, "idle")
  /\ UNCHANGED <<fileVars, writerVars, at, keep, stage>>

\* clear_file() truncates a log that exists.
Clear ==
  /\ stage = "session" /\ 0 \in exists
  /\ lines' = [lines EXCEPT ![0] = {}]
  /\ UNCHANGED <<exists, writerVars, rotateVars, stage>>

-----------------------------------------------------------------------------

\* A shutdown or a power cut, wherever the processes are; the last lines may not
\* have reached the medium.
Restart ==
  /\ stage' = "boot" /\ writer' = "idle"
  /\ step' = [r \in Rotators |-> "idle"] /\ crossed' = {}
  /\ \E n \in 0..logged : lines' = [g \in Slots |-> {l \in lines[g] : l <= n}]
  /\ UNCHANGED <<exists, logged, index, at, keep>>

Write == WriteLine \/ WriteRuntimeFails \/ RemoveNext \/ RenameCurrent \/ AppendLine
         \/ WriteFails

RotateFile(r) == Rotate(r) \/ Look(r) \/ Move(r) \/ MoveFirst(r) \/ Create(r) \/ RotateFails(r)

Next ==
  \/ Write \/ ExecSystemd
  \/ \E r \in Rotators : RotateFile(r)
  \/ Clear \/ Restart

Spec == Init /\ [][Next]_vars

-----------------------------------------------------------------------------
(* Properties                                                              *)

\* Read from the highest number down, the generations tell the history in order,
\* however many rotations were cut short, failed or overlapped.
Ordered ==
  \A g, h \in Slots : g < h => \A new \in lines[g], old \in lines[h] : old < new

\* No file outgrows MAX_LOG_SIZE, wherever rotations were cut short.  (In bytes, the
\* line that reaches it may cross it.)
Bounded == \A g \in Slots : Cardinality(lines[g]) <= MaxSize

AllLines == UNION {lines[g] : g \in Slots}

\* A rotation costs no line of the newest generations: senbit-init's only those of
\* generation ROTATED_LOGS, and "log rotate --keep N" only those of generation N,
\* with the older ones of a larger limit left behind it, and wherever earlier
\* rotations, of any limit, were cut short.  Nothing serialises "log rotate": of those
\* that ran beside another one, this is not said.
KeepsTheNewest ==
  [][ LET lost == AllLines \ AllLines' IN
      /\ Write => lost \subseteq lines[Generations]
      /\ \A r \in Rotators \ crossed : RotateFile(r) => lost \subseteq lines[keep[r]] ]_vars

Chapters == {lines[g] : g \in Slots} \ {{}}

History == INSTANCE LogHistory WITH chapters <- Chapters, last <- logged

\* Behind the numbers, the files are chapters of one history, whatever the limits of
\* the rotations are and however many run at once, fail or are cut short: a line
\* enters it once, as the newest; a chapter goes as a whole or not at all, is never
\* split, joined or doubled, and only a power cut takes lines away, the newest ones.
ImplementsHistory == History!Spec
=============================================================================
