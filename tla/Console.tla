------------------------------- MODULE Console -------------------------------
(***************************************************************************)
(* From the installer's accounts to a session: Users, Login and Sudo       *)
(* together, with root changing accounts meanwhile, a clock that is set and *)
(* power cycles.                                                           *)
(***************************************************************************)
EXTENDS Users, Login, Sudo

Init ==
  /\ stage = "root"
  /\ FreshRoot(passwd, shadow, owner, mode)
  /\ phase = "down" /\ menu = {} /\ picked = NoAccount /\ saved = FALSE
  /\ echo = TRUE /\ spoilt = FALSE
  /\ sudo = [s \in Sudos |-> Idle]
  /\ stamp = [u \in Uids |-> NoStamp]
  /\ earned = {} /\ revoked = {}
  /\ clock = 0
  /\ edits = 0 /\ crashes = 0

\* Somebody is root: a shell, or a command of sudo.
RootActs ==
  \/ phase = "session" /\ picked.uid = 0
  \/ \E s \in Sudos : sudo[s].at = "running"

\* root edits an account: another password, a lock, or the entry is removed, which
\* to the login is the same as a shell like nologin.  (BusyBox: passwd, deluser, vi.)
RootEditsShadow ==
  /\ RootActs /\ edits < MaxEdits
  /\ \E n \in Created, hash \in Passwords \cup {"locked"} : shadow' = [shadow EXCEPT ![n] = hash]
  /\ edits' = edits + 1
  /\ UNCHANGED <<stage, passwd, owner, mode, loginVars, termVars, sudoVars, clock, crashes>>

RootEditsPasswd ==
  /\ RootActs /\ edits < MaxEdits
  /\ \E n \in Created : passwd' = [passwd EXCEPT ![n] = NoAccount]
  /\ edits' = edits + 1
  /\ UNCHANGED <<stage, shadow, owner, mode, loginVars, termVars, sudoVars, clock, crashes>>

\* Every reading of the clock that is kept, with the age f makes of its age.
Aged(f) ==
  /\ stamp' = [u \in Uids |-> IF stamp[u].full THEN [stamp[u] EXCEPT !.age = f[@]] ELSE stamp[u]]
  /\ sudo' = [s \in Sudos |-> IF sudo[s].at = "write" THEN [sudo[s] EXCEPT !.age = f[@]]
                              ELSE sudo[s]]

OneOlder == [age \in Ages |-> IF age \in {-1, Timeout} THEN age ELSE age + 1]
SetBack  == [age \in Ages |-> -1]

Tick ==
  /\ Up
  /\ clock < MaxClock
  /\ clock' = clock + 1
  /\ Aged(OneOlder)
  /\ UNCHANGED <<stage, fileVars, loginVars, termVars, earned, revoked, boundVars>>

\* The clock is set, in either direction.
SetClock ==
  /\ Up
  /\ clock' \in 0..MaxClock
  /\ IF clock' < clock THEN Aged(SetBack) ELSE UNCHANGED <<sudo, stamp>>
  /\ UNCHANGED <<stage, fileVars, loginVars, termVars, earned, revoked, boundVars>>

\* The machine restarts; /run is a tmpfs.
PowerCycle ==
  /\ Up
  /\ crashes < MaxCrashes
  /\ crashes' = crashes + 1
  /\ NothingRuns
  /\ UNCHANGED <<stage, fileVars, clock, edits>>

Next == \/ UsersNext \/ LoginNext \/ SudoNext
        \/ RootEditsShadow \/ RootEditsPasswd \/ Tick \/ SetClock \/ PowerCycle

Spec == Init /\ [][Next]_consoleVars

\* senbit-login and systemd do their part; the user need not.
Fairness ==
  /\ WF_consoleVars(StopGroup) /\ WF_consoleVars(StartService)
  /\ WF_consoleVars(ShowMenu) /\ WF_consoleVars(NoAccountAllowed)
  /\ WF_consoleVars(StartShell \/ ShellFails) /\ WF_consoleVars(DelayEnds)

FairSpec == Spec /\ Fairness

-----------------------------------------------------------------------------
SudoStateType ==
  [at : {"idle", "check", "read", "prompt", "asking", "open", "write", "restrict",
         "running"},
   kind : {"run", "validate"}, uid : Uids, hash : Hash, saved : BOOLEAN,
   now : Nat, age : Ages, linked : BOOLEAN]

StampType == [there : BOOLEAN, private : BOOLEAN, full : BOOLEAN, now : Nat, age : Ages]

\* Every variable keeps to the values the code gives it.
TypeOK ==
  /\ stage \in {"root", "user", "owners", "modes", "suid", "running", "unfinished"}
  /\ passwd \in [Names -> Entry \cup {NoAccount}]
  /\ shadow \in [Names -> Hash]
  /\ owner \in [Paths -> Uids \cup {Builder}]
  /\ mode \in [Paths -> Modes]
  /\ phase \in {"down", "start", "menu", "asking", "starting", "session", "delay", "dying"}
  /\ menu \subseteq Account
  /\ picked \in Account \cup {NoAccount}
  /\ saved \in BOOLEAN /\ echo \in BOOLEAN /\ spoilt \in BOOLEAN
  /\ sudo \in [Sudos -> SudoStateType]
  /\ stamp \in [Uids -> StampType]
  /\ earned \subseteq Uids /\ revoked \subseteq Uids
  /\ clock \in Nat
  /\ edits \in 0..MaxEdits /\ crashes \in 0..MaxCrashes

\* When the installation is complete, sudo is root's and SUID and the passwords
\* are root's alone: "Must be LAST because set_basic_user_permissions()
\* intentionally sets executables to 0755" (perms.rs:516).
InstalledPermissions ==
  stage = "running" =>
    /\ mode[SudoFile] = "4755" /\ owner[SudoFile] = 0
    /\ mode[SHADOW] = "0600" /\ owner[SHADOW] = 0
    /\ mode[PASSWD] = "0644" /\ owner[PASSWD] = 0

\* A home below a directory called home is still its user's when the ownership
\* pass is over (perms.rs:156: "Its contents belong to individual users").
\* Elsewhere it is not.
HomesKeepTheirOwner ==
  stage \in {"modes", "suid", "running"} =>
    \A n \in Created \ {Root} :
      LET home == passwd[n].home IN
      (\E i \in 1..Len(home) - 1 : home[i] = "home")
         => owner[home] = passwd[n].uid /\ mode[home] = "0700"

\* Whom the installer created may log in, until root edits the accounts: the
\* numbers, hashes and modes that setup_users() and the three passes leave are what
\* login_accounts() and the exec after setuid() ask for (accounts.rs:78).  A user
\* whose home is / is the exception: that directory becomes 0700 and then root's,
\* and only root's shell can start.
CreatedMayLogIn ==
  Up /\ edits = 0 =>
    /\ Root \in Created
    /\ \A n \in Created :
         has_login_shell(passwd[n].shell) =>
           \E account \in login_accounts :
             /\ account.name = n
             /\ MayEnterRoot(account.uid) \/ \E m \in Created \ {Root} : passwd[m].home = Slash

\* No command of sudo runs before its user has given root's password in this
\* boot, whatever timestamps were left half made (main.rs:545).
RootOnlyAfterPassword ==
  \A s \in Sudos : sudo[s].at = "running" => Uid(s) \in earned

\* s goes on without asking for a password.
Accepted(s) == sudo[s].at = "read" /\ sudo'[s].at \in {"running", "open"}

\* A timestamp serves for less than five minutes of real time, however its
\* writers and readers interleave and however far ahead the clock is set.  Set
\* back, the clock can make an old timestamp serve again (main.rs:126).
FiveMinutes ==
  [][\A s \in Sudos : Accepted(s) =>
       stamp[Uid(s)].age < Timeout]_consoleVars

\* After sudo -k the password is asked for again, unless another sudo of the
\* user was already past its check (main.rs:513).
RevokedStaysRevoked ==
  [][\A s \in Sudos : Accepted(s) => Uid(s) \notin revoked]_consoleVars

\* With no prompt open, the terminal echoes: each prompt restores what it found,
\* and a restart of the service resets it
\* (login.rs:48, sudo main.rs:363).  Not so after a prompt that was killed or
\* could not be written, or after two that overlapped (sudo a | sudo b).
EchoReturns ==
  (Up /\ phase # "asking" /\ ~spoilt /\ \A s \in Sudos : ~Asking(s)) => echo

\* A lock takes effect on a menu drawn before it: authenticate() reads the shadow
\* file again (login.rs:105).
LockTakesEffect ==
  [][phase = "asking" /\ phase' = "starting" => is_usable_hash(shadow[picked.name])]_consoleVars

\* The console never stays dead: however senbit-login ends, there is a menu again,
\* or no account that may log in (senbit-login.service: "Never give up restarting").
ConsoleComesBack ==
  (Up /\ phase \in {"dying", "down", "start", "starting", "delay"})
     ~> (phase \in {"menu", "session"} \/ login_accounts = {})
=============================================================================
