----------------------------- MODULE ConsoleState -----------------------------
(***************************************************************************)
(* What the installer's accounts, the console login and sudo share: the    *)
(* account files, the permissions of a few files, the terminal, sudo's     *)
(* timestamps and the clock.                                               *)
(***************************************************************************)
EXTENDS Integers, FiniteSets, Sequences

CONSTANTS
  Root,        \* the name "root"
  Normal,      \* names the installer's user may choose
  Passwords,
  Answers,     \* the home and the shell typed in the installer
  SudoUsers,   \* uids of the users who type sudo
  Sudos,       \* sudo processes
  Timeout,     \* TIMESTAMP_TIMEOUT, 300 s in the code
  NoAccount,   \* sentinel: no entry in /etc/passwd
  MaxClock, MaxEdits, MaxCrashes     \* bounds of the exploration

VARIABLES
  stage,       \* the installer, then "running" or (not all passes done) "unfinished"
  passwd,      \* /etc/passwd: name -> entry or NoAccount
  shadow,      \* /etc/shadow: name -> password, "locked" or "none"
  owner, mode, \* of Paths
  phase,       \* where senbit-login is
  menu,        \* the accounts it read for the menu
  picked,      \* the account picked, whose shell runs in phase "session"
  saved,       \* the echo setting it saved before it asked
  echo,        \* the ECHO flag of the console
  spoilt,      \* history: a prompt was cut short, or two overlapped, since a reset
  sudo,        \* each sudo process
  stamp,       \* /run/sudo/<uid>
  earned,      \* history: uids that gave root's password since boot
  revoked,     \* history: uids that ran sudo -k and gave no password since
  clock,       \* the wall clock
  edits, crashes

fileVars    == <<passwd, shadow, owner, mode>>
loginVars   == <<phase, menu, picked, saved>>
termVars    == <<echo, spoilt>>
sudoVars    == <<sudo, stamp, earned, revoked>>
boundVars   == <<edits, crashes>>
consoleVars == <<stage, fileVars, loginVars, termVars, sudoVars, clock, boundVars>>

FIRST_NORMAL_UID == 1000
NOBODY_UID       == 65534

Names == {Root} \cup Normal
Uids  == {0, FIRST_NORMAL_UID}

Homes       == {a.home : a \in Answers}
Shells      == {a.shell : a \in Answers}

\* A path is the sequence of its names.
Slash    == <<>>
HomeRoot == <<"home">>
PASSWD   == <<"etc", "passwd">>
SHADOW   == <<"etc", "shadow">>
BusyBox  == <<"bin", "busybox">>
SudoFile == <<"bin", "sudo">>
SysPaths == {PASSWD, SHADOW, BusyBox, SudoFile}
Paths    == {Slash, HomeRoot} \cup SysPaths \cup Homes
Modes == {"0600", "0644", "0700", "0755", "4755"}

HomeDirs    == Homes \cup {<<"root">>}
LoginShells == Shells \cup {"/bin/sh"}

\* Whoever built the image: the initramfs keeps the owners of the build tree.
Builder == -1

ASSUME AnswerAssumption == SudoUsers \subseteq Uids /\ \A a \in Answers : a.home \in Seq(STRING) /\ a.shell \in STRING
ASSUME HomeAssumption == Homes \cap SysPaths = {}
ASSUME PasswordAssumption == Passwords \cap {"locked", "none", "wrong"} = {}
ASSUME TimeAssumption == /\ Timeout \in Nat \ {0}
                         /\ MaxClock \in Nat
                         /\ MaxEdits \in Nat /\ MaxCrashes \in Nat

Entry   == [uid : Uids, home : HomeDirs, shell : LoginShells]
Account == [name : Names, uid : Uids, home : HomeDirs, shell : LoginShells]
ASSUME NameAssumption == Root \notin Normal /\ NoAccount \notin Entry \cup Account
Typed   == Passwords \cup {"wrong"}
Hash    == Passwords \cup {"locked", "none"}

\* is_usable_hash() of senbit-login.
is_usable_hash(hash) == hash \in Passwords

\* A system that has been installed, or cut short where the next boot from the
\* live medium starts it all the same.
Up == stage \in {"running", "unfinished"}

\* A reading of the clock is kept with its age: the time since, up to Timeout, or -1
\* once the clock has been set back.
Ages == 0..Timeout \cup {-1}

NoStamp == [there |-> FALSE, private |-> FALSE, full |-> FALSE, now |-> 0, age |-> 0]

Idle == [at |-> "idle", kind |-> "run", uid |-> 0, hash |-> "none", saved |-> FALSE,
         now |-> 0, age |-> 0, linked |-> FALSE]

\* A sudo that waits for a password, with the echo off.
Asking(s) == sudo[s].at = "asking"

\* The processes of one boot are gone, and /run with them.
NothingRuns ==
  /\ phase' = "down" /\ menu' = {} /\ picked' = NoAccount /\ saved' = FALSE
  /\ echo' = TRUE /\ spoilt' = FALSE
  /\ sudo' = [s \in Sudos |-> Idle]
  /\ stamp' = [u \in Uids |-> NoStamp]
  /\ earned' = {} /\ revoked' = {}
===============================================================================
