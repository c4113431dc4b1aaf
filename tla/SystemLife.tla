------------------------------ MODULE SystemLife ------------------------------
(***************************************************************************)
(* What a machine with Senbit promises over all its boots: at most one     *)
(* installation ever appears, it is never lost nor changed in kind, and    *)
(* only an installation that exists is ever started.                       *)
(***************************************************************************)
CONSTANTS
  Roots,    \* where an installation can be
  NoRoot    \* nothing is running: not one of Roots

VARIABLES
  image,    \* image[r]: no installation, one cut short, or a whole one
  running   \* the installation being started or running

lifeVars == <<image, running>>

LifeInit ==
  /\ image = [r \in Roots |-> "none"]
  /\ running = NoRoot

\* The installer leaves a marker on a machine that has none.  A marker left by
\* an installation that was cut short is final: nothing resumes or repairs it.
Appear(r) ==
  /\ running = NoRoot
  /\ \A q \in Roots : image[q] = "none"
  /\ \E kind \in {"partial", "whole"} : image' = [image EXCEPT ![r] = kind]
  /\ UNCHANGED running

Start(r) ==
  /\ running = NoRoot
  /\ image[r] # "none"
  /\ running' = r
  /\ UNCHANGED image

Stop ==
  /\ running # NoRoot
  /\ running' = NoRoot
  /\ UNCHANGED image

LifeNext == Stop \/ \E r \in Roots : Appear(r) \/ Start(r)

LifeSpec == LifeInit /\ [][LifeNext]_lifeVars
=============================================================================
