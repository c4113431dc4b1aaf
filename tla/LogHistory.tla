------------------------------ MODULE LogHistory ------------------------------
(***************************************************************************)
(* What the log promises whoever reads it, without its files: one history, *)
(* in chapters that grow only at its end and go as a whole.  LogStore      *)
(* implements it.                                                          *)
(***************************************************************************)
EXTENDS Naturals

VARIABLES
  chapters,  \* the chapters that can be read; each is a set of lines, by number
  last       \* the last line that was logged

vars == <<chapters, last>>

Before(old, new) == \A l \in old, k \in new : l < k

Init == chapters = {} /\ last = 0

\* A line is logged ...
Log == last' = last + 1 /\ UNCHANGED chapters

\* ... and kept, as the newest of all: it opens a chapter or ends the newest one.
Keep ==
  /\ \A c \in chapters : Before(c, {last})
  /\ \/ chapters' = chapters \cup {{last}}
     \/ \E c \in chapters :
          /\ \A d \in chapters \ {c} : Before(d, c)
          /\ chapters' = (chapters \ {c}) \cup {c \cup {last}}
  /\ UNCHANGED last

\* A rotation, or "log clear", costs a chapter ...
Forget ==
  /\ \E c \in chapters : chapters' = chapters \ {c}
  /\ UNCHANGED last

\* ... and a power cut the newest lines.
Lose ==
  /\ \E n \in 0..last : chapters' = {{l \in c : l <= n} : c \in chapters} \ {{}}
  /\ UNCHANGED last

Next == Log \/ Keep \/ Forget \/ Lose

Spec == Init /\ [][Next]_vars
=============================================================================
