-------------------------------- MODULE Login --------------------------------
(***************************************************************************)
(* The console login of senbit-login: login::run() and the restarts of its *)
(* unit.  The menu is read once and may stand for hours; the password is   *)
(* checked against the shadow file of that moment, and the shell is started *)
(* with what the menu had read.                                            *)
(***************************************************************************)
EXTENDS ConsoleState

has_login_shell(shell) == shell \notin {"", "/sbin/nologin", "/bin/false"}

\* Mutant: the first normal number is not counted.
InteractiveAbove(e) ==
  /\ e.uid = 0 \/ (e.uid > FIRST_NORMAL_UID /\ e.uid # NOBODY_UID)
  /\ has_login_shell(e.shell)

Interactive(e) ==
  /\ e.uid = 0 \/ (e.uid >= FIRST_NORMAL_UID /\ e.uid # NOBODY_UID)
  /\ has_login_shell(e.shell)

\* login_accounts().
login_accounts ==
  {[name |-> n, uid |-> passwd[n].uid, home |-> passwd[n].home, shell |-> passwd[n].shell] :
     n \in {m \in Names : /\ passwd[m] # NoAccount
                          /\ Interactive(passwd[m])
                          /\ is_usable_hash(shadow[m])}}

\* Mutant: a hash that was usable when the menu was read is good enough.
authenticate_loosely(account, password) == password \in Passwords

\* authenticate(): the shadow file is read again, by name.
authenticate(account, password) ==
  is_usable_hash(shadow[account.name]) /\ password = shadow[account.name]

-----------------------------------------------------------------------------
\* Mutant: the unit gives up once it has been restarted too often.
StartServiceLimited ==
  /\ phase = "down" /\ Up /\ crashes < MaxCrashes
  /\ phase' = "start"
  /\ echo' = TRUE /\ spoilt' = FALSE
  /\ UNCHANGED <<stage, fileVars, menu, picked, saved, sudoVars, clock, boundVars>>

\* systemd starts the service: TTYReset.
StartService ==
  /\ phase = "down" /\ Up
  /\ phase' = "start"
  /\ echo' = TRUE /\ spoilt' = FALSE
  /\ UNCHANGED <<stage, fileVars, menu, picked, saved, sudoVars, clock, boundVars>>

ShowMenu ==
  /\ phase = "start"
  /\ login_accounts # {}
  /\ menu' = login_accounts
  /\ phase' = "menu"
  /\ UNCHANGED <<stage, fileVars, picked, saved, termVars, sudoVars, clock, boundVars>>

\* "no account is allowed to log in": fatal, and tried again after RestartSec.
NoAccountAllowed ==
  /\ phase = "start"
  /\ login_accounts = {}
  /\ phase' = "dying"
  /\ UNCHANGED <<stage, fileVars, menu, picked, saved, termVars, sudoVars, clock, boundVars>>

\* pick_account(), then read_password() up to its prompt.
PickAccount ==
  /\ phase = "menu"
  /\ picked' \in menu
  /\ saved' = echo
  /\ echo' = FALSE
  /\ menu' = {}
  /\ phase' = "asking"
  /\ UNCHANGED <<stage, fileVars, spoilt, sudoVars, clock, boundVars>>

\* Esc or Ctrl-C in the menu.
CancelMenu ==
  /\ phase = "menu"
  /\ menu' = {}
  /\ phase' = "start"
  /\ UNCHANGED <<stage, fileVars, picked, saved, termVars, sudoVars, clock, boundVars>>

\* Mutant: the echo comes back after the checks only when they are passed.
EnterPasswordKeepsHidden ==
  /\ phase = "asking"
  /\ \E password \in Typed :
       IF authenticate(picked, password)
       THEN phase' = "starting" /\ echo' = saved /\ UNCHANGED picked
       ELSE phase' = "delay" /\ picked' = NoAccount /\ UNCHANGED echo
  /\ saved' = FALSE
  /\ UNCHANGED <<stage, fileVars, menu, spoilt, sudoVars, clock, boundVars>>

\* The rest of read_password(), and authenticate().
EnterPassword ==
  /\ phase = "asking"
  /\ \E password \in Typed :
       IF authenticate(picked, password)
       THEN phase' = "starting" /\ UNCHANGED picked
       ELSE phase' = "delay" /\ picked' = NoAccount
  /\ echo' = saved
  /\ saved' = FALSE
  /\ UNCHANGED <<stage, fileVars, menu, spoilt, sudoVars, clock, boundVars>>

\* The exec comes after setuid(): it needs a root directory the user may enter.
MayEnterRoot(uid) == uid \in {0, owner[Slash]} \/ mode[Slash] # "0700"

StartShell ==
  /\ phase = "starting"
  /\ MayEnterRoot(picked.uid)
  /\ phase' = "session"
  /\ UNCHANGED <<stage, fileVars, menu, picked, saved, termVars, sudoVars, clock, boundVars>>

\* "Failed to start the shell".
ShellFails ==
  /\ phase = "starting"
  /\ phase' = "delay"
  /\ picked' = NoAccount
  /\ UNCHANGED <<stage, fileVars, menu, saved, termVars, sudoVars, clock, boundVars>>

\* FAILURE_DELAY is over.
DelayEnds ==
  /\ phase = "delay"
  /\ phase' = "start"
  /\ UNCHANGED <<stage, fileVars, menu, picked, saved, termVars, sudoVars, clock, boundVars>>

\* The shell exits.  Its terminal is hung up: a sudo that is asking ends there, a
\* command that is running may live on (one between two steps is through them by
\* then).  The driver of a VT resets the terminal on that occasion, a serial line
\* does not.
SessionEnds ==
  /\ phase = "session"
  /\ \A s \in Sudos : sudo[s].at \in {"idle", "asking", "running"}
  /\ phase' = "start"
  /\ picked' = NoAccount
  /\ sudo' = [s \in Sudos |-> IF Asking(s) THEN Idle ELSE sudo[s]]
  /\ \/ echo' = TRUE /\ spoilt' = FALSE
     \/ /\ spoilt' = (spoilt \/ \E s \in Sudos : Asking(s))
        /\ UNCHANGED echo
  /\ UNCHANGED <<stage, fileVars, menu, saved, stamp, earned, revoked, clock, boundVars>>

\* The process ends: an error of the menu or the terminal, Ctrl-C at the password
\* prompt, or anything that kills it.
LoginDies ==
  /\ phase \in {"start", "menu", "asking", "starting", "session", "delay"}
  /\ crashes < MaxCrashes
  /\ crashes' = crashes + 1
  /\ phase' = "dying"
  /\ menu' = {} /\ picked' = NoAccount /\ saved' = FALSE
  /\ spoilt' = (spoilt \/ phase = "asking")
  /\ UNCHANGED <<stage, fileVars, echo, sudoVars, clock, edits>>

\* KillMode=control-group: whatever a session has left is stopped before the
\* service is started again.
StopGroup ==
  /\ phase = "dying"
  /\ phase' = "down"
  /\ sudo' = [s \in Sudos |-> Idle]
  /\ spoilt' = (spoilt \/ \E s \in Sudos : Asking(s))
  /\ UNCHANGED <<stage, fileVars, menu, picked, saved, echo, stamp, earned, revoked,
                 clock, boundVars>>

LoginNext == StartService \/ ShowMenu \/ NoAccountAllowed \/ PickAccount \/ CancelMenu
             \/ EnterPassword \/ StartShell \/ ShellFails \/ DelayEnds
             \/ SessionEnds \/ LoginDies \/ StopGroup
=============================================================================
