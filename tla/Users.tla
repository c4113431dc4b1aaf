-------------------------------- MODULE Users --------------------------------
(***************************************************************************)
(* The installer's accounts and permissions: setup_users(), which creates   *)
(* root and one user, and set_sys_perms(), three passes over the new root.  *)
(* Machine has both as one step each.                                       *)
(***************************************************************************)
EXTENDS ConsoleState

\* Mutant: counted from root's number on.
next_id_after_any(ids) ==
  IF ids = {} THEN FIRST_NORMAL_UID ELSE 1 + (CHOOSE i \in ids : \A j \in ids : j <= i)

\* find_next_uid() and find_next_gid(): one more than the largest from 1000 on.
find_next_id(ids) ==
  LET normal == {i \in ids : i >= FIRST_NORMAL_UID} IN
  IF normal = {} THEN FIRST_NORMAL_UID
  ELSE 1 + (CHOOSE i \in normal : \A j \in normal : j <= i)

Created == {n \in Names : passwd[n] # NoAccount}

\* The root as it is copied: no accounts, and the builder's files.
FreshRoot(p, s, o, m) ==
  /\ p = [n \in Names |-> NoAccount]
  /\ s = [n \in Names |-> "none"]
  /\ o = [path \in Paths |-> Builder]
  /\ m = [path \in Paths |-> "0755"]

\* User::create(): the home directory, then a line in each file.  root's home is
\* not among Paths: nobody else's path, and the passes give it to root.
CreateUser(name, uid, home, shell, password) ==
  /\ owner' = [p \in Paths |-> IF p = home THEN uid
                               ELSE IF p \in {PASSWD, SHADOW} THEN 0 ELSE owner[p]]
  /\ mode' = [p \in Paths |-> CASE p = home   -> "0700"
                               [] p = PASSWD -> "0644"
                               [] p = SHADOW -> "0600"
                               [] OTHER      -> mode[p]]
  /\ passwd' = [passwd EXCEPT ![name] = [uid |-> uid, home |-> home, shell |-> shell]]
  /\ shadow' = [shadow EXCEPT ![name] = password]

\* setup_users(): root first.
CreateRoot ==
  /\ stage = "root"
  /\ \E password \in Passwords : CreateUser(Root, 0, <<"root">>, "/bin/sh", password)
  /\ stage' = "user"
  /\ UNCHANGED <<loginVars, termVars, sudoVars, clock, boundVars>>

\* ask_user(): a name that is not taken, a password that is not empty, any home
\* and any shell; the numbers follow from the files.
AskUser ==
  /\ stage = "user"
  /\ \E name \in Names \ Created, password \in Passwords, a \in Answers :
       CreateUser(name, find_next_id({passwd[n].uid : n \in Created}), a.home, a.shell, password)
  /\ stage' = "owners"
  /\ UNCHANGED <<loginVars, termVars, sudoVars, clock, boundVars>>

-----------------------------------------------------------------------------
(* set_sys_perms()                                                         *)

\* Mutant: the pass goes into the homes.
chown_all(path) == TRUE

\* chown_recursive() stops at every directory called home, at any depth.
chown_recursive(path) == \A i \in DOMAIN path : path[i] # "home"

\* set_proprietary_permissions(); /home itself is given to root afterwards.
OwnerPass ==
  /\ stage = "owners"
  /\ owner' = [p \in Paths |->
                 IF chown_recursive(p) \/ p = HomeRoot THEN 0 ELSE owner[p]]
  /\ stage' = "modes"
  /\ UNCHANGED <<passwd, shadow, mode, loginVars, termVars, sudoVars, clock, boundVars>>

\* set_basic_user_permissions(): executables 0755 whatever they were.
SetBasic ==
  /\ mode' = [p \in Paths |-> CASE p \in {BusyBox, SudoFile, HomeRoot} -> "0755"
                               [] p = PASSWD -> "0644"
                               [] p = SHADOW -> "0600"
                               [] OTHER      -> mode[p]]
  /\ owner' = [p \in Paths |-> IF p \in {HomeRoot, PASSWD, SHADOW} THEN 0 ELSE owner[p]]

\* set_privileged_permissions(): bin/su and bin/ping are links to BusyBox, and
\* is_file(), chown and chmod all follow them.
SetPrivileged ==
  /\ mode' = [p \in Paths |-> IF p \in {BusyBox, SudoFile} THEN "4755" ELSE mode[p]]
  /\ owner' = [p \in Paths |-> IF p \in {BusyBox, SudoFile} THEN 0 ELSE owner[p]]

PermsPass(step, Set, next) ==
  /\ stage = step
  /\ Set
  /\ stage' = next
  /\ UNCHANGED <<passwd, shadow, loginVars, termVars, sudoVars, clock, boundVars>>

BasicPass == PermsPass("modes", SetBasic, "suid")

\* Mutant: the SUID bits first, then the ordinary modes.
SuidThenBasic == PermsPass("suid", SetBasic, "running")

\* The end of the installation; what follows is the first start of the system.
PrivilegedPass == PermsPass("suid", SetPrivileged, "running")

\* A prompt is cancelled or a step fails: PID 1 panics, and the next attempt
\* formats the root again.
InstallFails ==
  /\ stage \in {"root", "user", "owners", "modes", "suid"}
  /\ stage' = "root"
  /\ FreshRoot(passwd', shadow', owner', mode')
  /\ UNCHANGED <<loginVars, termVars, sudoVars, clock, boundVars>>

\* A power cut during the passes, after the network step: the live medium finds
\* the marker and starts the root as it is.
StartUnfinished ==
  /\ stage \in {"owners", "modes", "suid"}
  /\ stage' = "unfinished"
  /\ UNCHANGED <<fileVars, loginVars, termVars, sudoVars, clock, boundVars>>

UsersNext == CreateRoot \/ AskUser \/ OwnerPass \/ BasicPass \/ PrivilegedPass
             \/ InstallFails \/ StartUnfinished
=============================================================================
