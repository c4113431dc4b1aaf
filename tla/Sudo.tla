--------------------------------- MODULE Sudo ---------------------------------
(***************************************************************************)
(* sudo: the timestamp of five minutes, root's password, and the command.  *)
(* One action per system call on which another sudo of the same user, sudo *)
(* -k, a kill or the clock can come in between.                            *)
(***************************************************************************)
EXTENDS ConsoleState

Uid(s) == sudo[s].uid

Step(s, at) == sudo' = [sudo EXCEPT ![s].at = at]
Exit(s) == sudo' = [sudo EXCEPT ![s] = Idle]

Untouched == UNCHANGED <<stage, fileVars, loginVars, clock, boundVars>>

\* Steps of a process that may still write the timestamp.
Writing == {"open", "write", "restrict"}

\* Typed in a shell of the session.  Without its SUID bit sudo can read neither
\* the timestamp nor the shadow file, and ends with an error.
SudoStarts(s) ==
  /\ phase = "session" /\ picked.uid \in SudoUsers
  /\ sudo[s].at = "idle"
  /\ owner[SudoFile] = 0 /\ mode[SudoFile] = "4755"
  /\ \E kind \in {"run", "validate"} :
       sudo' = [sudo EXCEPT ![s] = [Idle EXCEPT !.at = "check", !.kind = kind, !.uid = picked.uid]]
  /\ UNCHANGED <<termVars, stamp, earned, revoked>> /\ Untouched

\* timestamp_valid() up to the permissions.
CheckFile(s) ==
  /\ sudo[s].at = "check"
  /\ LET t == stamp[Uid(s)] IN
     Step(s, IF t.there /\ t.private THEN "read" ELSE "prompt")
  /\ UNCHANGED <<termVars, stamp, earned, revoked>> /\ Untouched

\* Mutant: five minutes and one second.
FreshOrJustExpired(t) == t.full /\ clock >= t.now /\ clock - t.now <= Timeout

\* What the contents say, by the clock of now.
Fresh(t) == t.full /\ clock >= t.now /\ clock - t.now < Timeout

\* The rest of timestamp_valid().  A file that went away is an error.
CheckTime(s) ==
  /\ sudo[s].at = "read"
  /\ LET t == stamp[Uid(s)] IN
     \/ ~t.there /\ Exit(s)
     \/ t.there /\ ~Fresh(t) /\ Step(s, "prompt")
     \/ t.there /\ Fresh(t) /\ Step(s, IF sudo[s].kind = "run" THEN "running" ELSE "open")
  /\ UNCHANGED <<termVars, stamp, earned, revoked>> /\ Untouched

\* authenticate_root(): root's hash, then read_password() up to its prompt.  The
\* hash is the one of before the prompt.
Prompt(s) ==
  /\ sudo[s].at = "prompt"
  /\ shadow[Root] # "none"
  /\ sudo' = [sudo EXCEPT ![s] = [@ EXCEPT !.at = "asking", !.hash = shadow[Root], !.saved = echo]]
  /\ echo' = FALSE
  /\ spoilt' = (spoilt \/ \E r \in Sudos : Asking(r))
  /\ UNCHANGED <<stamp, earned, revoked>> /\ Untouched

\* No usable password.
NoPrompt(s) ==
  /\ sudo[s].at = "prompt"
  /\ shadow[Root] \in {"none", "locked"}
  /\ Exit(s)
  /\ UNCHANGED <<termVars, stamp, earned, revoked>> /\ Untouched

\* The prompt goes to standard output; when that cannot be flushed, sudo returns
\* with the echo off.
PromptFails(s) ==
  /\ sudo[s].at = "prompt"
  /\ shadow[Root] # "none"
  /\ Exit(s)
  /\ echo' = FALSE
  /\ spoilt' = TRUE
  /\ UNCHANGED <<stamp, earned, revoked>> /\ Untouched

\* Mutant: the answer to a wrong password is looked at after the timestamp.
GivePasswordUnchecked(s) ==
  /\ Asking(s)
  /\ \E password \in Typed :
       /\ sudo' = [sudo EXCEPT ![s] = [@ EXCEPT !.at = "open", !.hash = "none", !.saved = FALSE]]
       /\ IF password = sudo[s].hash
          THEN earned' = earned \cup {Uid(s)} /\ revoked' = revoked \ {Uid(s)}
          ELSE UNCHANGED <<earned, revoked>>
  /\ echo' = sudo[s].saved
  /\ UNCHANGED <<spoilt, stamp>> /\ Untouched

\* The rest of read_password(), and the verification.
GivePassword(s) ==
  /\ Asking(s)
  /\ \E password \in Typed :
       IF password = sudo[s].hash
       THEN /\ sudo' = [sudo EXCEPT ![s] = [@ EXCEPT !.at = "open", !.hash = "none", !.saved = FALSE]]
            /\ earned' = earned \cup {Uid(s)}
            /\ revoked' = revoked \ {Uid(s)}
       ELSE Exit(s) /\ UNCHANGED <<earned, revoked>>
  /\ echo' = sudo[s].saved
  /\ UNCHANGED <<spoilt, stamp>> /\ Untouched

-----------------------------------------------------------------------------
(* update_timestamp()                                                      *)

\* The directory is root's alone from here on; the time is read, and fs::write()
\* creates or truncates.  A new file has the caller's group, which for root is the
\* right one, and what the caller's umask leaves.
OpenStamp(s) ==
  /\ sudo[s].at = "open"
  /\ LET t == stamp[Uid(s)] IN
     \E private \in IF t.there THEN {t.private} ELSE {FALSE, Uid(s) = 0} :
       stamp' = [stamp EXCEPT ![Uid(s)] = [NoStamp EXCEPT !.there = TRUE, !.private = private]]
  /\ sudo' = [sudo EXCEPT ![s] = [@ EXCEPT !.at = "write", !.now = clock, !.age = 0,
                                               !.linked = TRUE]]
  /\ UNCHANGED <<termVars, earned, revoked>> /\ Untouched

\* The contents go to the file that was opened, removed or not.
WriteStamp(s) ==
  /\ sudo[s].at = "write"
  /\ stamp' = IF sudo[s].linked
              THEN [stamp EXCEPT ![Uid(s)] = [@ EXCEPT !.full = TRUE, !.now = sudo[s].now,
                                                            !.age = sudo[s].age]]
              ELSE stamp
  /\ sudo' = [sudo EXCEPT ![s] = [@ EXCEPT !.at = "restrict", !.now = 0, !.age = 0,
                                               !.linked = FALSE]]
  /\ UNCHANGED <<termVars, earned, revoked>> /\ Untouched

\* chown and chmod, by path: an error if the file has gone.  Then the command runs.
RestrictStamp(s) ==
  /\ sudo[s].at = "restrict"
  /\ IF stamp[Uid(s)].there
     THEN /\ stamp' = [stamp EXCEPT ![Uid(s)].private = TRUE]
          /\ IF sudo[s].kind = "run" THEN Step(s, "running") ELSE Exit(s)
     ELSE UNCHANGED stamp /\ Exit(s)
  /\ UNCHANGED <<termVars, earned, revoked>> /\ Untouched

\* The command ends, or sudo stops on an error or a signal: whatever it has done
\* to the timestamp stays, and a prompt it had leaves the echo off.
SudoStops(s) ==
  /\ sudo[s].at # "idle"
  /\ Exit(s)
  /\ spoilt' = (spoilt \/ Asking(s))
  /\ UNCHANGED <<echo, stamp, earned, revoked>> /\ Untouched

\* Mutant: sudo -k removes a timestamp only if it would be honoured now.
InvalidateIfFresh ==
  /\ phase = "session" /\ picked.uid \in SudoUsers
  /\ owner[SudoFile] = 0 /\ mode[SudoFile] = "4755"
  /\ LET u == picked.uid
         gone == stamp[u].private /\ Fresh(stamp[u]) IN
     /\ stamp' = IF gone THEN [stamp EXCEPT ![u] = NoStamp] ELSE stamp
     /\ sudo' = [s \in Sudos |-> IF gone /\ Uid(s) = u THEN [sudo[s] EXCEPT !.linked = FALSE]
                                 ELSE sudo[s]]
     /\ revoked' = IF \E s \in Sudos : Uid(s) = u /\ sudo[s].at \in Writing
                   THEN revoked ELSE revoked \cup {u}
  /\ UNCHANGED <<termVars, earned>> /\ Untouched

\* sudo -k.
InvalidateTimestamp ==
  /\ phase = "session" /\ picked.uid \in SudoUsers
  /\ owner[SudoFile] = 0 /\ mode[SudoFile] = "4755"
  /\ LET u == picked.uid IN
     /\ stamp' = [stamp EXCEPT ![u] = NoStamp]
     /\ sudo' = [s \in Sudos |-> IF Uid(s) = u THEN [sudo[s] EXCEPT !.linked = FALSE]
                                 ELSE sudo[s]]
     /\ revoked' = IF \E s \in Sudos : Uid(s) = u /\ sudo[s].at \in Writing
                   THEN revoked ELSE revoked \cup {u}
  /\ UNCHANGED <<termVars, earned>> /\ Untouched

SudoNext ==
  \/ \E s \in Sudos : \/ SudoStarts(s) \/ CheckFile(s) \/ CheckTime(s) \/ Prompt(s)
                      \/ NoPrompt(s) \/ PromptFails(s) \/ GivePassword(s) \/ OpenStamp(s)
                      \/ WriteStamp(s) \/ RestrictStamp(s) \/ SudoStops(s)
  \/ InvalidateTimestamp
===============================================================================
