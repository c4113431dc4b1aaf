---------------------------- MODULE ConsoleProofs ----------------------------
(***************************************************************************)
(* Theorems of Console, for any names, passwords, homes and shells, any    *)
(* number of sudo processes, and whatever the bounds.                      *)
(***************************************************************************)
EXTENDS Console, TLAPS

\* Nobody logs in before the system is up, and an account has been picked from
\* the password prompt to the end of the session.
Before ==
  /\ ~Up => phase = "down" /\ \A s \in Sudos : sudo[s] = Idle
  /\ phase \in {"asking", "starting", "session"} => picked \in Account

\* The accounts as far as the installer has come.
Accounts ==
  /\ stage = "root" => passwd = [n \in Names |-> NoAccount]
  /\ stage = "user" => /\ \A n \in Normal : passwd[n] = NoAccount
                       /\ passwd[Root] # NoAccount /\ passwd[Root].uid = 0

\* What each pass over the root finds.
Prepared ==
  stage = "suid" => /\ mode[SHADOW] = "0600" /\ owner[SHADOW] = 0
                    /\ mode[PASSWD] = "0644" /\ owner[PASSWD] = 0

Nested(home) == \E i \in 1..Len(home) - 1 : home[i] = "home"

HomesKept ==
  stage \in {"owners", "modes", "suid", "running"} =>
    \A n \in Created \ {Root} :
      Nested(passwd[n].home) => /\ owner[passwd[n].home] = passwd[n].uid
                                /\ mode[passwd[n].home] = "0700"

\* Who has switched the echo off, and that it is he who brings it back.
EchoKept ==
  /\ \A s \in Sudos : sudo[s].at \notin {"idle", "running"} => phase \in {"session", "dying"}
  /\ ~spoilt =>
       /\ phase = "asking" => saved
       /\ \A s \in Sudos : Asking(s) => sudo[s].saved
       /\ \A r, s \in Sudos : Asking(r) /\ Asking(s) => r = s
       /\ (phase # "asking" /\ \A s \in Sudos : ~Asking(s)) => echo

\* A timestamp with contents, and a process past its check, stand for a password.
Earned ==
  /\ \A u \in Uids : stamp[u].full => u \in earned
  /\ \A s \in Sudos : sudo[s].at \in Writing \cup {"running"} => Uid(s) \in earned

\* While the clock has not been set back it has gone on by at least the age.
AgesKept ==
  /\ \A u \in Uids : stamp[u].full /\ stamp[u].age >= 0 => clock >= stamp[u].now + stamp[u].age
  /\ \A s \in Sudos : sudo[s].at = "write" /\ sudo[s].age >= 0
                         => clock >= sudo[s].now + sudo[s].age

\* A user who has revoked has no timestamp, and no process that would write one.
RevokedKept ==
  \A u \in revoked : /\ ~stamp[u].there
                     /\ \A s \in Sudos : Uid(s) = u => sudo[s].at \notin Writing

LoginInv == TypeOK /\ Before /\ Accounts

\* The defaults have their types.
LEMMA DefaultTypes == Idle \in SudoStateType /\ NoStamp \in StampType
BY TimeAssumption DEF Idle, NoStamp, SudoStateType, StampType, Uids, Hash, Ages, FIRST_NORMAL_UID

\* The files of a root that has just been copied.
LEMMA FreshRootType ==
  ASSUME NEW p, NEW s, NEW o, NEW m, FreshRoot(p, s, o, m)
  PROVE  /\ p \in [Names -> Entry \cup {NoAccount}] /\ s \in [Names -> Hash]
         /\ o \in [Paths -> Uids \cup {Builder}] /\ m \in [Paths -> Modes]
BY DEF FreshRoot, Hash, Modes

\* One user's number is 1000; root's is not counted.
LEMMA FirstNumber == find_next_id({0}) = FIRST_NORMAL_UID /\ find_next_id({}) = FIRST_NORMAL_UID
BY DEF find_next_id, FIRST_NORMAL_UID

\* Only these steps touch these variables.
LEMMA UsersFrame ==
  UsersNext => ~Up /\ UNCHANGED <<loginVars, termVars, sudoVars, clock, boundVars>>
BY DEF UsersNext, CreateRoot, AskUser, OwnerPass, PermsPass, BasicPass, PrivilegedPass,
       InstallFails, StartUnfinished, Up

\* A step of the login leaves a sudo as it is or ends it.
LEMMA LoginFrame ==
  ASSUME TypeOK, LoginNext
  PROVE  /\ UNCHANGED <<stage, fileVars, stamp, earned, revoked, clock, edits>>
         /\ \A s \in Sudos : sudo'[s] \in {sudo[s], Idle}
<1>1. CASE SessionEnds
  BY <1>1 DEF SessionEnds, boundVars
<1>2. CASE StopGroup
  BY <1>2 DEF StopGroup, boundVars
<1>3. CASE LoginNext /\ ~SessionEnds /\ ~StopGroup
  BY <1>3 DEF LoginNext, StartService, ShowMenu, NoAccountAllowed, PickAccount, CancelMenu,
     EnterPassword, StartShell, ShellFails, DelayEnds, LoginDies, sudoVars, boundVars
<1> QED
  BY <1>1, <1>2, <1>3

LEMMA SudoFrame == SudoNext => Untouched
BY DEF SudoNext, SudoStarts, CheckFile, CheckTime, Prompt, NoPrompt, PromptFails, GivePassword,
       OpenStamp, WriteStamp, RestrictStamp, SudoStops, InvalidateTimestamp

-----------------------------------------------------------------------------
LEMMA LoginInit == Init => LoginInv
<1> SUFFICES ASSUME Init PROVE LoginInv
    OBVIOUS
<1>1. TypeOK
  <2>1. /\ passwd \in [Names -> Entry \cup {NoAccount}] /\ shadow \in [Names -> Hash]
        /\ owner \in [Paths -> Uids \cup {Builder}] /\ mode \in [Paths -> Modes]
    BY FreshRootType DEF Init
  <2>2. sudo \in [Sudos -> SudoStateType] /\ stamp \in [Uids -> StampType]
    BY DefaultTypes DEF Init
  <2>3. edits \in 0..MaxEdits /\ crashes \in 0..MaxCrashes /\ clock \in Nat
    BY TimeAssumption DEF Init
  <2>4. /\ stage \in {"root", "user", "owners", "modes", "suid", "running", "unfinished"}
        /\ phase \in {"down", "start", "menu", "asking", "starting", "session", "delay", "dying"}
        /\ menu \subseteq Account /\ picked \in Account \cup {NoAccount}
        /\ saved \in BOOLEAN /\ echo \in BOOLEAN /\ spoilt \in BOOLEAN
        /\ earned \subseteq Uids /\ revoked \subseteq Uids
    BY DEF Init
  <2> QED
    BY <2>1, <2>2, <2>3, <2>4 DEF TypeOK
<1>2. Before /\ Accounts
  BY DEF Init, Before, Accounts, FreshRoot
<1> QED
  BY <1>1, <1>2 DEF LoginInv

\* The account a step of setup_users() creates.
LEMMA CreateUserType ==
  ASSUME TypeOK, NEW name \in Names, NEW uid \in Uids, NEW home \in HomeDirs,
         NEW shell \in LoginShells, NEW password \in Passwords,
         CreateUser(name, uid, home, shell, password)
  PROVE  /\ passwd' \in [Names -> Entry \cup {NoAccount}] /\ shadow' \in [Names -> Hash]
         /\ owner' \in [Paths -> Uids \cup {Builder}] /\ mode' \in [Paths -> Modes]
<1>1. [uid |-> uid, home |-> home, shell |-> shell] \in Entry
  BY DEF Entry
<1>2. passwd' \in [Names -> Entry \cup {NoAccount}] /\ shadow' \in [Names -> Hash]
  BY <1>1 DEF CreateUser, TypeOK, Hash
<1>3. owner' \in [Paths -> Uids \cup {Builder}]
  BY DEF CreateUser, TypeOK, Uids
<1>4. mode' \in [Paths -> Modes]
  BY DEF CreateUser, TypeOK, Modes
<1> QED
  BY <1>2, <1>3, <1>4

LEMMA LoginInvUsers == ASSUME LoginInv, UsersNext PROVE LoginInv'
<1> USE DEF LoginInv
<1>1. Before'
  <2>1. UNCHANGED <<phase, sudo, picked>>
    BY UsersFrame DEF loginVars, sudoVars
  <2>2. phase = "down" /\ \A s \in Sudos : sudo[s] = Idle
    BY UsersFrame DEF Before
  <2> QED
    BY <2>1, <2>2 DEF Before
<1>2. /\ (phase \in {"down", "start", "menu", "asking", "starting", "session", "delay", "dying"})'
      /\ (menu \subseteq Account)' /\ (picked \in Account \cup {NoAccount})'
      /\ (saved \in BOOLEAN /\ echo \in BOOLEAN /\ spoilt \in BOOLEAN)'
      /\ (sudo \in [Sudos -> SudoStateType])' /\ (stamp \in [Uids -> StampType])'
      /\ (earned \subseteq Uids /\ revoked \subseteq Uids /\ clock \in Nat)'
      /\ (edits \in 0..MaxEdits /\ crashes \in 0..MaxCrashes)'
  BY UsersFrame DEF TypeOK, loginVars, termVars, sudoVars, boundVars
<1>3. CASE CreateRoot
  <2>1. PICK password \in Passwords : CreateUser(Root, 0, <<"root">>, "/bin/sh", password)
    BY <1>3 DEF CreateRoot
  <2>2. Root \in Names /\ 0 \in Uids /\ <<"root">> \in HomeDirs /\ "/bin/sh" \in LoginShells
    BY DEF Names, Uids, HomeDirs, LoginShells
  <2>3. TypeOK'
    BY <1>2, <1>3, <2>1, <2>2, CreateUserType DEF CreateRoot, TypeOK
  <2>4. Accounts'
    <3> DEFINE entry == [uid |-> 0, home |-> <<"root">>, shell |-> "/bin/sh"]
    <3>1. entry \in Entry /\ entry # NoAccount /\ entry.uid = 0
      BY <2>2, NameAssumption DEF Entry
    <3>2. passwd' = [passwd EXCEPT ![Root] = entry] /\ stage' = "user"
      BY <1>3, <2>1 DEF CreateRoot, CreateUser
    <3>3. passwd'[Root] = entry
      BY <2>2, <3>2 DEF TypeOK
    <3>4. \A n \in Normal : passwd'[n] = NoAccount
      BY <1>3, <3>2, NameAssumption DEF CreateRoot, Accounts, Names
    <3> QED
      BY <3>1, <3>2, <3>3, <3>4 DEF Accounts
  <2> QED
    BY <1>1, <2>3, <2>4
<1>4. CASE AskUser
  <2>1. PICK name \in Names \ Created, password \in Passwords, a \in Answers :
          CreateUser(name, find_next_id({passwd[n].uid : n \in Created}), a.home, a.shell, password)
    BY <1>4 DEF AskUser
  <2>2. Created \subseteq {Root}
    BY <1>4 DEF AskUser, Accounts, Created, Names
  <2>3. find_next_id({passwd[n].uid : n \in Created}) \in Uids
    <3>1. \A n \in Created : passwd[n].uid \in {0, FIRST_NORMAL_UID}
      BY DEF Created, TypeOK, Entry, Uids
    <3>2. CASE Created = {}
      BY <3>2, FirstNumber DEF Uids
    <3>3. CASE Created = {Root} /\ passwd[Root].uid = 0
      <4>1. {passwd[n].uid : n \in Created} = {0}
        BY <3>3
      <4> QED
        BY <4>1, FirstNumber DEF Uids
    <3> QED
      BY <2>2, <3>2, <3>3, <1>4 DEF AskUser, Accounts, Created
  <2>4. a.home \in HomeDirs /\ a.shell \in LoginShells
    BY DEF HomeDirs, LoginShells, Homes, Shells
  <2>5. TypeOK'
    BY <1>2, <1>4, <2>1, <2>3, <2>4, CreateUserType DEF AskUser, TypeOK
  <2>6. Accounts'
    BY <1>4 DEF AskUser, Accounts
  <2> QED
    BY <1>1, <2>5, <2>6
<1>5. CASE OwnerPass
  BY <1>1, <1>2, <1>5 DEF OwnerPass, TypeOK, Accounts, Uids
<1>6. CASE BasicPass
  BY <1>1, <1>2, <1>6 DEF BasicPass, PermsPass, SetBasic, TypeOK, Accounts, Uids, Modes
<1>7. CASE PrivilegedPass
  BY <1>1, <1>2, <1>7 DEF PrivilegedPass, PermsPass, SetPrivileged, TypeOK, Accounts, Uids, Modes
<1>8. CASE InstallFails
  <2>1. TypeOK'
    BY <1>2, <1>8, FreshRootType DEF InstallFails, TypeOK
  <2>2. Accounts'
    BY <1>8 DEF InstallFails, FreshRoot, Accounts
  <2> QED
    BY <1>1, <2>1, <2>2
<1>9. CASE StartUnfinished
  BY <1>1, <1>2, <1>9 DEF StartUnfinished, fileVars, TypeOK, Accounts
<1> QED
  BY <1>3, <1>4, <1>5, <1>6, <1>7, <1>8, <1>9 DEF UsersNext

\* The menu is made of accounts.
LEMMA MenuType == TypeOK => login_accounts \subseteq Account
<1> SUFFICES ASSUME TypeOK, NEW n \in Names, passwd[n] # NoAccount
             PROVE  [name |-> n, uid |-> passwd[n].uid, home |-> passwd[n].home,
                     shell |-> passwd[n].shell] \in Account
    BY DEF login_accounts
<1>1. passwd[n] \in Entry
  BY DEF TypeOK
<1> QED
  BY <1>1 DEF Entry, Account

LEMMA LoginInvLogin == ASSUME LoginInv, LoginNext PROVE LoginInv'
<1> USE DEF LoginInv
<1>1. UNCHANGED <<stage, passwd, shadow, owner, mode, stamp, earned, revoked, clock, edits>>
      /\ \A s \in Sudos : sudo'[s] \in {sudo[s], Idle}
  BY LoginFrame DEF fileVars
<1>2. sudo' \in [Sudos -> SudoStateType]
  <2>1. sudo' = [s \in Sudos |-> sudo'[s]]
    <3>1. CASE SessionEnds
      BY <3>1 DEF SessionEnds
    <3>2. CASE StopGroup
      BY <3>2 DEF StopGroup
    <3>3. CASE LoginNext /\ ~SessionEnds /\ ~StopGroup
      BY <3>3 DEF LoginNext, StartService, ShowMenu, NoAccountAllowed, PickAccount, CancelMenu,
         EnterPassword, StartShell, ShellFails, DelayEnds, LoginDies, sudoVars, TypeOK
    <3> QED
      BY <3>1, <3>2, <3>3
  <2> QED
    BY <1>1, <2>1, DefaultTypes DEF TypeOK
<1>3. /\ crashes' \in 0..MaxCrashes
      /\ saved' \in BOOLEAN /\ echo' \in BOOLEAN /\ spoilt' \in BOOLEAN
      /\ phase' \in {"down", "start", "menu", "asking", "starting", "session", "delay", "dying"}
      /\ menu' \subseteq Account /\ picked' \in Account \cup {NoAccount}
      /\ phase' \in {"asking", "starting", "session"} => picked' \in Account
      /\ phase' # "down" => Up
  <2> USE DEF TypeOK, Before, fileVars, loginVars, termVars, boundVars
  <2>1. CASE StartService
    BY <2>1 DEF StartService
  <2>2. CASE ShowMenu
    BY <2>2, MenuType DEF ShowMenu
  <2>3. CASE NoAccountAllowed
    BY <2>3 DEF NoAccountAllowed
  <2>4. CASE PickAccount
    BY <2>4 DEF PickAccount
  <2>5. CASE CancelMenu
    BY <2>5 DEF CancelMenu
  <2>6. CASE EnterPassword
    BY <2>6 DEF EnterPassword
  <2>7. CASE StartShell
    BY <2>7 DEF StartShell
  <2>8. CASE ShellFails
    BY <2>8 DEF ShellFails
  <2>9. CASE DelayEnds
    BY <2>9 DEF DelayEnds
  <2>10. CASE SessionEnds
    BY <2>10 DEF SessionEnds
  <2>11. CASE LoginDies
    <3>1. spoilt' \in BOOLEAN
      BY <2>11 DEF LoginDies
    <3>2. crashes' \in 0..MaxCrashes
      BY <2>11, TimeAssumption DEF LoginDies
    <3> QED
      BY <2>11, <3>1, <3>2 DEF LoginDies
  <2>12. CASE StopGroup
    BY <2>12 DEF StopGroup
  <2> QED
    BY <2>1, <2>2, <2>3, <2>4, <2>5, <2>6, <2>7, <2>8, <2>9, <2>10, <2>11, <2>12 DEF LoginNext
<1>4. TypeOK'
  BY <1>1, <1>2, <1>3 DEF TypeOK
<1>5. Before'
  BY <1>1, <1>3 DEF Before, Up
<1>6. Accounts'
  BY <1>1 DEF Accounts
<1> QED
  BY <1>4, <1>5, <1>6

\* Steps of sudo: the processes and the timestamps keep their types.
LEMMA SudoTypes ==
  ASSUME TypeOK, Before, SudoNext
  PROVE  /\ sudo' \in [Sudos -> SudoStateType] /\ stamp' \in [Uids -> StampType]
         /\ earned' \subseteq Uids /\ revoked' \subseteq Uids
         /\ echo' \in BOOLEAN /\ spoilt' \in BOOLEAN
<1> USE DefaultTypes DEF TypeOK, termVars, Step, Exit, Uid, Asking
<1>0. 0 \in Ages
  BY TimeAssumption DEF Ages
<1>1. ASSUME NEW s \in Sudos, SudoStarts(s) PROVE sudo' \in [Sudos -> SudoStateType]
  <2>1. picked.uid \in Uids
    BY <1>1 DEF SudoStarts, Before, Account
  <2>2. \A kind \in {"run", "validate"} :
          [Idle EXCEPT !.at = "check", !.kind = kind, !.uid = picked.uid] \in SudoStateType
    BY <2>1 DEF SudoStateType
  <2> QED
    BY <1>1, <2>2 DEF SudoStarts
<1>2. ASSUME NEW s \in Sudos,
             CheckFile(s) \/ CheckTime(s) \/ NoPrompt(s) \/ PromptFails(s) \/ SudoStops(s)
      PROVE  sudo' \in [Sudos -> SudoStateType]
  BY <1>2 DEF CheckFile, CheckTime, NoPrompt, PromptFails, SudoStops, SudoStateType
<1>3. ASSUME NEW s \in Sudos, Prompt(s) PROVE sudo' \in [Sudos -> SudoStateType]
  <2>1. [sudo[s] EXCEPT !.at = "asking", !.hash = shadow[Root], !.saved = echo] \in SudoStateType
    BY DEF SudoStateType, Names
  <2> QED
    BY <1>3, <2>1 DEF Prompt
<1>4. ASSUME NEW s \in Sudos, GivePassword(s)
      PROVE  sudo' \in [Sudos -> SudoStateType] /\ earned' \subseteq Uids /\ revoked' \subseteq Uids
  <2>1. [sudo[s] EXCEPT !.at = "open", !.hash = "none", !.saved = FALSE] \in SudoStateType
    BY DEF SudoStateType, Hash
  <2>2. sudo[s].uid \in Uids
    BY DEF SudoStateType
  <2> QED
    BY <1>4, <2>1, <2>2 DEF GivePassword
<1>5. ASSUME NEW s \in Sudos, OpenStamp(s)
      PROVE  sudo' \in [Sudos -> SudoStateType] /\ stamp' \in [Uids -> StampType]
  <2>1. sudo' \in [Sudos -> SudoStateType]
    <3>1. [sudo[s] EXCEPT !.at = "write", !.now = clock, !.age = 0, !.linked = TRUE] \in SudoStateType
      BY <1>0 DEF SudoStateType
    <3> QED
      BY <1>5, <3>1 DEF OpenStamp
  <2>2. PICK private \in BOOLEAN :
          stamp' = [stamp EXCEPT ![Uid(s)] = [NoStamp EXCEPT !.there = TRUE, !.private = private]]
    BY <1>5 DEF OpenStamp, SudoStateType, StampType
  <2> QED
    BY <2>1, <2>2 DEF StampType
<1>6. ASSUME NEW s \in Sudos, WriteStamp(s)
      PROVE  sudo' \in [Sudos -> SudoStateType] /\ stamp' \in [Uids -> StampType]
  <2>1. [sudo[s] EXCEPT !.at = "restrict", !.now = 0, !.age = 0, !.linked = FALSE] \in SudoStateType
    BY <1>0 DEF SudoStateType
  <2>2. [stamp[Uid(s)] EXCEPT !.full = TRUE, !.now = sudo[s].now, !.age = sudo[s].age] \in StampType
    BY DEF SudoStateType, StampType
  <2> QED
    BY <1>6, <2>1, <2>2 DEF WriteStamp
<1>7. ASSUME NEW s \in Sudos, RestrictStamp(s)
      PROVE  sudo' \in [Sudos -> SudoStateType] /\ stamp' \in [Uids -> StampType]
  <2>1. [sudo[s] EXCEPT !.at = "running"] \in SudoStateType
    BY DEF SudoStateType
  <2>2. [stamp[Uid(s)] EXCEPT !.private = TRUE] \in StampType
    BY DEF SudoStateType, StampType
  <2>3. sudo' = [sudo EXCEPT ![s] = [@ EXCEPT !.at = "running"]] \/ sudo' = [sudo EXCEPT ![s] = Idle]
    BY <1>7 DEF RestrictStamp
  <2>4. stamp' = stamp \/ stamp' = [stamp EXCEPT ![Uid(s)] = [@ EXCEPT !.private = TRUE]]
    BY <1>7 DEF RestrictStamp
  <2> QED
    BY <2>1, <2>2, <2>3, <2>4
<1>8. ASSUME InvalidateTimestamp
      PROVE  /\ sudo' \in [Sudos -> SudoStateType] /\ stamp' \in [Uids -> StampType]
             /\ revoked' \subseteq Uids
  <2>1. picked.uid \in Uids
    BY <1>8 DEF InvalidateTimestamp, Before, Account
  <2> QED
    BY <1>8, <2>1 DEF InvalidateTimestamp, SudoStateType
<1>9. /\ \A s \in Sudos : SudoStarts(s) \/ CheckFile(s) \/ CheckTime(s) \/ Prompt(s)
           \/ NoPrompt(s) \/ PromptFails(s) \/ GivePassword(s) \/ SudoStops(s) => UNCHANGED stamp
      /\ \A s \in Sudos : SudoStarts(s) \/ CheckFile(s) \/ CheckTime(s) \/ Prompt(s)
           \/ NoPrompt(s) \/ PromptFails(s) \/ OpenStamp(s) \/ WriteStamp(s) \/ RestrictStamp(s)
           \/ SudoStops(s) => UNCHANGED <<earned, revoked>>
      /\ InvalidateTimestamp => UNCHANGED earned
  BY DEF SudoStarts, CheckFile, CheckTime, Prompt, NoPrompt, PromptFails, GivePassword,
         OpenStamp, WriteStamp, RestrictStamp, SudoStops, InvalidateTimestamp
<1>10. echo' \in BOOLEAN /\ spoilt' \in BOOLEAN
  BY DEF SudoNext, SudoStarts, CheckFile, CheckTime, Prompt, NoPrompt, PromptFails, GivePassword,
         OpenStamp, WriteStamp, RestrictStamp, SudoStops, InvalidateTimestamp, SudoStateType
<1> QED
  BY <1>1, <1>2, <1>3, <1>4, <1>5, <1>6, <1>7, <1>8, <1>9, <1>10 DEF SudoNext

LEMMA LoginInvSudo == ASSUME LoginInv, SudoNext PROVE LoginInv'
<1> USE DEF LoginInv
<1>1. UNCHANGED <<stage, passwd, shadow, owner, mode, phase, menu, picked, saved, clock, edits, crashes>>
  BY SudoFrame DEF Untouched, fileVars, loginVars, boundVars
<1>2. TypeOK'
  BY <1>1, SudoTypes DEF TypeOK
<1>3. Accounts'
  BY <1>1 DEF Accounts
<1>4. Before'
  <2>1. ASSUME ~Up PROVE FALSE
    <3>1. phase = "down" /\ \A s \in Sudos : sudo[s].at = "idle"
      BY <2>1 DEF Before, Idle
    <3> QED
      BY <3>1 DEF SudoNext, SudoStarts, CheckFile, CheckTime, Prompt, NoPrompt, PromptFails,
         GivePassword, OpenStamp, WriteStamp, RestrictStamp, SudoStops, InvalidateTimestamp, Asking
  <2> QED
    BY <1>1, <2>1 DEF Before, Up
<1> QED
  BY <1>2, <1>3, <1>4

\* root at work, the clock, and the power.
Surroundings == RootEditsShadow \/ RootEditsPasswd \/ Tick \/ SetClock \/ PowerCycle

\* Somebody is root only on a system that is up.
LEMMA RootActsUp == ASSUME Before, RootActs PROVE Up
BY DEF Before, RootActs, Idle

\* A change of the ages changes nothing else.
LEMMA AgedTypes ==
  ASSUME TypeOK, NEW f \in [Ages -> Ages], Aged(f)
  PROVE  sudo' \in [Sudos -> SudoStateType] /\ stamp' \in [Uids -> StampType]
<1>1. \A u \in Uids : [stamp[u] EXCEPT !.age = f[@]] \in StampType
  BY DEF TypeOK, StampType
<1>2. \A s \in Sudos : [sudo[s] EXCEPT !.age = f[@]] \in SudoStateType
  BY DEF TypeOK, SudoStateType
<1> QED
  BY <1>1, <1>2 DEF Aged, TypeOK

LEMMA LoginInvRest == ASSUME LoginInv, Surroundings PROVE LoginInv'
<1> USE DEF LoginInv, loginVars, termVars, sudoVars, boundVars, fileVars
<1>1. CASE RootEditsShadow
  <2>1. Up
    BY <1>1, RootActsUp DEF RootEditsShadow
  <2>2. shadow' \in [Names -> Hash] /\ edits' \in 0..MaxEdits
    <3>1. shadow' \in [Names -> Hash]
      BY <1>1 DEF RootEditsShadow, TypeOK, Hash
    <3>2. edits' \in 0..MaxEdits
      BY <1>1, TimeAssumption DEF RootEditsShadow, TypeOK
    <3> QED
      BY <3>1, <3>2
  <2> QED
    BY <1>1, <2>1, <2>2 DEF RootEditsShadow, TypeOK, Before, Accounts, Up
<1>2. CASE RootEditsPasswd
  <2>1. Up
    BY <1>2, RootActsUp DEF RootEditsPasswd
  <2>2. passwd' \in [Names -> Entry \cup {NoAccount}] /\ edits' \in 0..MaxEdits
    <3>1. passwd' \in [Names -> Entry \cup {NoAccount}]
      BY <1>2 DEF RootEditsPasswd, TypeOK
    <3>2. edits' \in 0..MaxEdits
      BY <1>2, TimeAssumption DEF RootEditsPasswd, TypeOK
    <3> QED
      BY <3>1, <3>2
  <2> QED
    BY <1>2, <2>1, <2>2 DEF RootEditsPasswd, TypeOK, Before, Accounts, Up
<1>3. CASE Tick
  <2>1. OneOlder \in [Ages -> Ages]
    BY TimeAssumption DEF Ages, OneOlder
  <2>2. sudo' \in [Sudos -> SudoStateType] /\ stamp' \in [Uids -> StampType]
    BY <1>3, <2>1, AgedTypes DEF Tick
  <2> QED
    BY <1>3, <2>2 DEF Tick, TypeOK, Before, Accounts, Up
<1>4. CASE SetClock
  <2>1. SetBack \in [Ages -> Ages]
    BY DEF Ages, SetBack
  <2>2. sudo' \in [Sudos -> SudoStateType] /\ stamp' \in [Uids -> StampType]
    BY <1>4, <2>1, AgedTypes DEF SetClock, TypeOK
  <2>3. clock' \in Nat
    BY <1>4, TimeAssumption DEF SetClock
  <2> QED
    BY <1>4, <2>2, <2>3 DEF SetClock, TypeOK, Before, Accounts, Up
<1>5. CASE PowerCycle
  <2>1. crashes' \in 0..MaxCrashes
    BY <1>5, TimeAssumption DEF PowerCycle, TypeOK
  <2>2. sudo' \in [Sudos -> SudoStateType] /\ stamp' \in [Uids -> StampType]
    BY <1>5, DefaultTypes DEF PowerCycle, NothingRuns
  <2>3. TypeOK'
    BY <1>5, <2>1, <2>2 DEF PowerCycle, NothingRuns, TypeOK
  <2> QED
    BY <1>5, <2>3 DEF PowerCycle, NothingRuns, Before, Accounts, Up
<1> QED
  BY <1>1, <1>2, <1>3, <1>4, <1>5 DEF Surroundings

LEMMA LoginInvNext == LoginInv /\ [Next]_consoleVars => LoginInv'
<1>1. ASSUME LoginInv, UNCHANGED consoleVars PROVE LoginInv'
  BY <1>1 DEF LoginInv, TypeOK, Before, Accounts, Up, consoleVars, fileVars, loginVars, termVars,
              sudoVars, boundVars
<1> QED
  BY <1>1, LoginInvUsers, LoginInvLogin, LoginInvSudo, LoginInvRest DEF Next, Surroundings

LEMMA LoginInvAlways == Spec => []LoginInv
BY LoginInit, LoginInvNext, PTL DEF Spec

\* Whatever happens on the console, every variable keeps its type: no account gets
\* a number but root's and the first normal one (user.rs:271).
THEOREM ConsoleTypes == Spec => []TypeOK
<1>1. LoginInv => TypeOK
  BY DEF LoginInv
<1> QED
  BY <1>1, LoginInvAlways, PTL

-----------------------------------------------------------------------------
(* The permissions                                                         *)

PermsInv == Prepared /\ InstalledPermissions /\ HomesKept

\* The fixed paths are five, and neither a home nor /home is one of the files.
LEMMA PathsDiffer ==
  /\ {PASSWD, SHADOW, BusyBox, SudoFile, HomeRoot} \subseteq Paths
  /\ PASSWD # SHADOW /\ PASSWD \notin {BusyBox, SudoFile, HomeRoot}
  /\ SHADOW \notin {BusyBox, SudoFile, HomeRoot}
BY DEF PASSWD, SHADOW, BusyBox, SudoFile, HomeRoot, Paths, SysPaths

\* A home below a directory called home is one of the paths, and none that a pass
\* over the root sets by name.
LEMMA NestedHome ==
  ASSUME NEW home \in HomeDirs, Nested(home)
  PROVE  /\ home \in Homes /\ home \in Paths
         /\ home \notin {PASSWD, SHADOW, BusyBox, SudoFile, HomeRoot}
         /\ ~chown_recursive(home)
<1>1. home # <<"root">> /\ home # HomeRoot
  <2>1. Len(<<"root">>) = 1 /\ Len(<<"home">>) = 1
    OBVIOUS
  <2>2. ~Nested(<<"root">>) /\ ~Nested(<<"home">>)
    BY <2>1 DEF Nested
  <2> QED
    BY <2>2 DEF HomeRoot
<1>2. home \in Homes
  BY <1>1 DEF HomeDirs
<1>3. home \in Seq(STRING)
  BY <1>2, AnswerAssumption DEF Homes
<1>4. ~chown_recursive(home)
  BY <1>3 DEF Nested, chown_recursive
<1> QED
  BY <1>1, <1>2, <1>4, HomeAssumption DEF SysPaths, Paths

\* Outside the installer nothing of this changes, except that accounts go.
LEMMA PermsFrame ==
  ASSUME LoginInv, LoginNext \/ SudoNext \/ Surroundings
  PROVE  /\ UNCHANGED <<stage, owner, mode>>
         /\ \A n \in Names : passwd'[n] \in {passwd[n], NoAccount}
<1>1. CASE LoginNext
  BY <1>1, LoginFrame DEF LoginInv, fileVars
<1>2. CASE SudoNext
  BY <1>2, SudoFrame DEF Untouched, fileVars
<1>3. CASE RootEditsPasswd
  BY <1>3 DEF RootEditsPasswd, LoginInv, TypeOK
<1>4. CASE RootEditsShadow \/ Tick \/ SetClock \/ PowerCycle
  BY <1>4 DEF RootEditsShadow, Tick, SetClock, PowerCycle, fileVars
<1> QED
  BY <1>1, <1>2, <1>3, <1>4 DEF Surroundings

LEMMA PermsUsers == ASSUME LoginInv, PermsInv, UsersNext PROVE PermsInv'
<1> USE PathsDiffer DEF PermsInv
<1>1. TypeOK /\ TypeOK'
  BY LoginInvUsers DEF LoginInv
<1>2. CASE CreateRoot \/ InstallFails \/ StartUnfinished
  BY <1>2 DEF CreateRoot, InstallFails, StartUnfinished, Prepared, InstalledPermissions, HomesKept
<1>3. CASE AskUser
  <2>1. Prepared' /\ InstalledPermissions'
    BY <1>3 DEF AskUser, Prepared, InstalledPermissions
  <2>2. PICK name \in Names \ Created, password \in Passwords, a \in Answers :
          CreateUser(name, find_next_id({passwd[n].uid : n \in Created}), a.home, a.shell, password)
    BY <1>3 DEF AskUser
  <2> DEFINE uid == find_next_id({passwd[n].uid : n \in Created})
  <2>3. passwd' = [passwd EXCEPT ![name] = [uid |-> uid, home |-> a.home, shell |-> a.shell]]
    BY <2>2 DEF CreateUser
  <2>4. \A n \in Created' \ {Root} : n = name
    BY <1>1, <1>3, <2>3 DEF LoginInv, Accounts, AskUser, Created, Names, TypeOK
  <2>5. passwd'[name].home = a.home /\ passwd'[name].uid = uid
    BY <1>1, <2>3 DEF TypeOK
  <2>6. Nested(a.home) => owner'[a.home] = uid /\ mode'[a.home] = "0700"
    <3> SUFFICES ASSUME Nested(a.home) PROVE owner'[a.home] = uid /\ mode'[a.home] = "0700"
      OBVIOUS
    <3>1. a.home \in HomeDirs
      BY DEF HomeDirs, Homes
    <3>2. a.home \in Paths /\ a.home \notin {PASSWD, SHADOW}
      BY <3>1, NestedHome
    <3>3. owner'[a.home] = uid
      BY <2>2, <3>2 DEF CreateUser
    <3>4. mode'[a.home] = "0700"
      BY <2>2, <3>2 DEF CreateUser
    <3> QED
      BY <3>3, <3>4
  <2>7. HomesKept'
    BY <2>4, <2>5, <2>6 DEF HomesKept
  <2> QED
    BY <2>1, <2>7
<1>4. ASSUME OwnerPass \/ BasicPass \/ PrivilegedPass
      PROVE  HomesKept'
  <2>1. UNCHANGED passwd /\ stage \in {"owners", "modes", "suid"}
    BY <1>4 DEF OwnerPass, BasicPass, PrivilegedPass, PermsPass
  <2>2. SUFFICES ASSUME NEW n \in Created \ {Root}, Nested(passwd[n].home)
                 PROVE  /\ owner'[passwd[n].home] = passwd[n].uid
                        /\ mode'[passwd[n].home] = "0700"
    BY <2>1 DEF HomesKept, Created
  <2>3. passwd[n].home \in HomeDirs
    BY <1>1 DEF TypeOK, Created, Entry
  <2>4. owner[passwd[n].home] = passwd[n].uid /\ mode[passwd[n].home] = "0700"
    BY <2>1, <2>2 DEF HomesKept
  <2>5. /\ passwd[n].home \in Paths /\ ~chown_recursive(passwd[n].home)
        /\ passwd[n].home \notin {PASSWD, SHADOW, BusyBox, SudoFile, HomeRoot}
    BY <2>2, <2>3, NestedHome
  <2>6. CASE OwnerPass
    BY <2>4, <2>5, <2>6 DEF OwnerPass
  <2>7. CASE BasicPass
    BY <2>4, <2>5, <2>7 DEF BasicPass, PermsPass, SetBasic
  <2>8. CASE PrivilegedPass
    BY <2>4, <2>5, <2>8 DEF PrivilegedPass, PermsPass, SetPrivileged
  <2> QED
    BY <1>4, <2>6, <2>7, <2>8
<1>5. CASE OwnerPass
  BY <1>4, <1>5 DEF OwnerPass, Prepared, InstalledPermissions
<1>6. CASE BasicPass
  <2>1. Prepared'
    BY <1>6 DEF BasicPass, PermsPass, SetBasic, Prepared
  <2> QED
    BY <1>4, <1>6, <2>1 DEF BasicPass, PermsPass, InstalledPermissions
<1>7. CASE PrivilegedPass
  <2>1. InstalledPermissions'
    BY <1>7 DEF PrivilegedPass, PermsPass, SetPrivileged, Prepared, InstalledPermissions
  <2> QED
    BY <1>4, <1>7, <2>1 DEF PrivilegedPass, PermsPass, Prepared
<1> QED
  BY <1>2, <1>3, <1>5, <1>6, <1>7 DEF UsersNext

LEMMA PermsNext == LoginInv /\ PermsInv /\ [Next]_consoleVars => PermsInv'
<1>1. ASSUME LoginInv, PermsInv, LoginNext \/ SudoNext \/ Surroundings \/ UNCHANGED consoleVars
      PROVE  PermsInv'
  <2>1. /\ UNCHANGED <<stage, owner, mode>>
        /\ \A n \in Names : passwd'[n] \in {passwd[n], NoAccount}
    BY <1>1, PermsFrame DEF consoleVars, fileVars
  <2> QED
    BY <1>1, <2>1 DEF PermsInv, Prepared, InstalledPermissions, HomesKept, Created
<1> QED
  BY <1>1, PermsUsers DEF Next, Surroundings

LEMMA PermsAlways == Spec => []PermsInv
<1>1. Init => PermsInv
  BY DEF Init, PermsInv, Prepared, InstalledPermissions, HomesKept
<1> QED
  BY <1>1, PermsNext, LoginInvAlways, PTL DEF Spec

\* For any accounts and homes: at the end of the installation sudo is SUID root
\* and the password file is root's alone (perms.rs:516).
THEOREM PermissionsAreInstalled == Spec => []InstalledPermissions
<1>1. PermsInv => InstalledPermissions
  BY DEF PermsInv
<1> QED
  BY <1>1, PermsAlways, PTL

\* For any name and any home below a directory called home: the passes over the
\* root leave it to its user (perms.rs:156).
THEOREM HomesStayTheirUsers == Spec => []HomesKeepTheirOwner
<1>1. PermsInv => HomesKeepTheirOwner
  BY DEF PermsInv, HomesKept, HomesKeepTheirOwner, Nested
<1> QED
  BY <1>1, PermsAlways, PTL

-----------------------------------------------------------------------------
(* Whom the installer created                                              *)

\* As long as nobody has edited the accounts: everyone has a usable hash, root is
\* there once it has been created, and only a user whose home is / takes the mode
\* of that directory from the others.
Enrolled ==
  edits = 0 =>
    /\ \A n \in Created : shadow[n] \in Passwords
    /\ stage # "root" => passwd[Root] # NoAccount
    /\ (\A n \in Created \ {Root} : passwd[n].home # Slash) => mode[Slash] # "0700"

\* The root directory is a path of its own.
LEMMA SlashDiffers ==
  /\ Slash \in Paths
  /\ Slash \notin {PASSWD, SHADOW, BusyBox, SudoFile, HomeRoot, <<"root">>}
BY DEF Slash, PASSWD, SHADOW, BusyBox, SudoFile, HomeRoot, Paths

LEMMA EnrolledUsers == ASSUME LoginInv, Enrolled, UsersNext PROVE Enrolled'
<1> USE SlashDiffers
<1>1. TypeOK /\ edits' = edits
  BY UsersFrame DEF LoginInv, boundVars
<1>2. SUFFICES ASSUME edits = 0
               PROVE  /\ \A n \in Created' : shadow'[n] \in Passwords
                      /\ stage' # "root" => passwd'[Root] # NoAccount
                      /\ (\A n \in Created' \ {Root} : passwd'[n].home # Slash) => mode'[Slash] # "0700"
  BY <1>1 DEF Enrolled
<1>3. /\ \A n \in Created : shadow[n] \in Passwords
      /\ stage # "root" => passwd[Root] # NoAccount
      /\ (\A n \in Created \ {Root} : passwd[n].home # Slash) => mode[Slash] # "0700"
  BY <1>2 DEF Enrolled
<1>4. ASSUME NEW name \in Names, NEW uid \in Uids, NEW home \in HomeDirs, NEW shell \in LoginShells,
             NEW password \in Passwords, CreateUser(name, uid, home, shell, password),
             name \notin Created
      PROVE  /\ \A n \in Created' : shadow'[n] \in Passwords
             /\ Created' = Created \cup {name} /\ passwd'[name] # NoAccount
             /\ passwd'[name].home = home
             /\ \A n \in Created : passwd'[n] = passwd[n]
             /\ mode'[Slash] = IF home = Slash THEN "0700" ELSE mode[Slash]
  <2> DEFINE entry == [uid |-> uid, home |-> home, shell |-> shell]
  <2>1. entry \in Entry /\ entry # NoAccount
    BY NameAssumption DEF Entry
  <2>2. passwd' = [passwd EXCEPT ![name] = entry] /\ shadow' = [shadow EXCEPT ![name] = password]
    BY <1>4 DEF CreateUser
  <2>3. Created' = Created \cup {name} /\ passwd'[name] = entry
    BY <1>1, <2>1, <2>2 DEF Created, TypeOK
  <2>4. \A n \in Created : passwd'[n] = passwd[n] /\ shadow'[n] = shadow[n]
    BY <1>1, <1>4, <2>2 DEF Created, TypeOK
  <2>5. shadow'[name] = password
    BY <1>1, <2>2 DEF TypeOK
  <2>6. mode'[Slash] = IF home = Slash THEN "0700" ELSE mode[Slash]
    BY <1>4 DEF CreateUser
  <2> QED
    BY <1>3, <2>1, <2>3, <2>4, <2>5, <2>6
<1>5. CASE CreateRoot
  <2>1. PICK password \in Passwords : CreateUser(Root, 0, <<"root">>, "/bin/sh", password)
    BY <1>5 DEF CreateRoot
  <2>2. /\ Root \in Names /\ 0 \in Uids /\ <<"root">> \in HomeDirs /\ "/bin/sh" \in LoginShells
        /\ Created = {}
    BY <1>5 DEF Names, Uids, HomeDirs, LoginShells, LoginInv, Accounts, CreateRoot, Created
  <2> QED
    BY <1>3, <1>4, <1>5, <2>1, <2>2
<1>6. CASE AskUser
  <2>1. PICK name \in Names \ Created, password \in Passwords, a \in Answers :
          CreateUser(name, find_next_id({passwd[n].uid : n \in Created}), a.home, a.shell, password)
    BY <1>6 DEF AskUser
  <2> DEFINE uid == find_next_id({passwd[n].uid : n \in Created})
  <2>2. Root \in Created /\ name # Root /\ stage = "user"
    BY <1>3, <1>6, <2>1 DEF AskUser, Created, Names
  <2>3. uid \in Uids
    <3>1. Created = {Root} /\ passwd[Root].uid = 0
      BY <1>6, <2>2 DEF AskUser, LoginInv, Accounts, Created, Names
    <3>2. {passwd[n].uid : n \in Created} = {0}
      BY <3>1
    <3> QED
      BY <3>2, FirstNumber DEF Uids
  <2>4. a.home \in HomeDirs /\ a.shell \in LoginShells
    BY DEF HomeDirs, LoginShells, Homes, Shells
  <2>5. /\ \A n \in Created' : shadow'[n] \in Passwords
        /\ Created' = Created \cup {name} /\ passwd'[name] # NoAccount
        /\ passwd'[name].home = a.home
        /\ \A n \in Created : passwd'[n] = passwd[n]
        /\ mode'[Slash] = IF a.home = Slash THEN "0700" ELSE mode[Slash]
    BY <1>4, <2>1, <2>3, <2>4
  <2> QED
    BY <1>3, <2>2, <2>5
<1>7. CASE InstallFails
  BY <1>7 DEF InstallFails, FreshRoot, Created
<1>8. CASE OwnerPass \/ BasicPass \/ PrivilegedPass \/ StartUnfinished
  <2>1. UNCHANGED <<passwd, shadow>> /\ Created' = Created /\ stage # "root"
    BY <1>8 DEF OwnerPass, BasicPass, PrivilegedPass, PermsPass, StartUnfinished, fileVars, Created
  <2>2. mode'[Slash] = mode[Slash]
    BY <1>8 DEF OwnerPass, BasicPass, PrivilegedPass, PermsPass, SetBasic, SetPrivileged,
                StartUnfinished, fileVars
  <2> QED
    BY <1>3, <2>1, <2>2
<1> QED
  BY <1>5, <1>6, <1>7, <1>8 DEF UsersNext

\* Root's edits are counted, and nothing else touches the accounts.
LEMMA EnrolledNext == LoginInv /\ Enrolled /\ [Next]_consoleVars => Enrolled'
<1>1. ASSUME LoginInv, Enrolled, LoginNext \/ SudoNext \/ Tick \/ SetClock \/ PowerCycle \/ UNCHANGED consoleVars
      PROVE  Enrolled'
  <2>1. UNCHANGED <<stage, passwd, shadow, mode, edits>>
    <3>1. CASE LoginNext
      BY <1>1, <3>1, LoginFrame DEF LoginInv, fileVars
    <3>2. CASE SudoNext
      BY <3>2, SudoFrame DEF Untouched, fileVars, boundVars
    <3>3. CASE Tick \/ SetClock \/ PowerCycle
      BY <3>3 DEF Tick, SetClock, PowerCycle, fileVars, boundVars
    <3>4. CASE UNCHANGED consoleVars
      BY <3>4 DEF consoleVars, fileVars, boundVars
    <3> QED
      BY <1>1, <3>1, <3>2, <3>3, <3>4
  <2> QED
    BY <1>1, <2>1 DEF Enrolled, Created
<1>2. ASSUME LoginInv, RootEditsShadow \/ RootEditsPasswd PROVE Enrolled'
  <2>1. edits' # 0
    BY <1>2, TimeAssumption DEF RootEditsShadow, RootEditsPasswd, LoginInv, TypeOK
  <2> QED
    BY <2>1 DEF Enrolled
<1> QED
  BY <1>1, <1>2, EnrolledUsers DEF Next

LEMMA EnrolledAlways == Spec => []Enrolled
<1>1. Init => Enrolled
  BY SlashDiffers DEF Init, Enrolled, FreshRoot, Created
<1> QED
  BY <1>1, EnrolledNext, LoginInvAlways, PTL DEF Spec

\* For any names, passwords, homes and shells: root and the user the installer
\* created are on the menu if their shell is one, and may start it, until root
\* edits the accounts; a user at home in / is the only exception (accounts.rs:78).
THEOREM CreatedUsersMayLogIn == Spec => []CreatedMayLogIn
<1>1. LoginInv /\ Enrolled => CreatedMayLogIn
  <2> SUFFICES ASSUME LoginInv, Enrolled, Up, edits = 0
               PROVE  /\ Root \in Created
                      /\ \A n \in Created :
                           has_login_shell(passwd[n].shell) =>
                             \E account \in login_accounts :
                               /\ account.name = n
                               /\ \/ MayEnterRoot(account.uid)
                                  \/ \E m \in Created \ {Root} : passwd[m].home = Slash
      BY DEF CreatedMayLogIn
  <2>1. Root \in Created
    BY DEF Enrolled, Up, Created, Names
  <2>2. SUFFICES ASSUME NEW n \in Created, has_login_shell(passwd[n].shell)
                 PROVE  \E account \in login_accounts :
                          /\ account.name = n
                          /\ \/ MayEnterRoot(account.uid)
                             \/ \E m \in Created \ {Root} : passwd[m].home = Slash
    BY <2>1
  <2> DEFINE account == [name |-> n, uid |-> passwd[n].uid, home |-> passwd[n].home,
                         shell |-> passwd[n].shell]
  <2>3. n \in Names /\ passwd[n] # NoAccount /\ passwd[n].uid \in {0, FIRST_NORMAL_UID}
    BY DEF LoginInv, TypeOK, Created, Entry, Uids
  <2>4. Interactive(passwd[n]) /\ is_usable_hash(shadow[n])
    BY <2>2, <2>3 DEF Interactive, Enrolled, is_usable_hash, FIRST_NORMAL_UID, NOBODY_UID
  <2>5. account \in login_accounts
    BY <2>3, <2>4 DEF login_accounts
  <2>6. MayEnterRoot(account.uid) \/ \E m \in Created \ {Root} : passwd[m].home = Slash
    BY DEF Enrolled, MayEnterRoot
  <2> QED
    BY <2>5, <2>6
<1> QED
  BY <1>1, LoginInvAlways, EnrolledAlways, PTL

-----------------------------------------------------------------------------
(* The timestamps                                                          *)

StampInv == Earned /\ AgesKept /\ RevokedKept

\* What a step of one sudo does to the others and to the other timestamps: nothing.
LEMMA OthersKept ==
  ASSUME TypeOK, NEW s \in Sudos,
         SudoStarts(s) \/ CheckFile(s) \/ CheckTime(s) \/ Prompt(s) \/ NoPrompt(s)
           \/ PromptFails(s) \/ GivePassword(s) \/ OpenStamp(s) \/ WriteStamp(s)
           \/ RestrictStamp(s) \/ SudoStops(s)
  PROVE  /\ \A r \in Sudos \ {s} : sudo'[r] = sudo[r]
         /\ UNCHANGED clock
BY DEF TypeOK, Untouched, Step, Exit, SudoStarts, CheckFile, CheckTime, Prompt, NoPrompt, PromptFails,
       GivePassword, OpenStamp, WriteStamp, RestrictStamp, SudoStops

\* The short steps of a sudo: it goes on, or it is gone.
LEMMA StepAt ==
  ASSUME TypeOK, NEW s \in Sudos, NEW at, Step(s, at)
  PROVE  sudo'[s].at = at /\ sudo'[s].uid = sudo[s].uid
BY DEF TypeOK, SudoStateType, Step

LEMMA ExitAt ==
  ASSUME TypeOK, NEW s \in Sudos, Exit(s)
  PROVE  sudo'[s].at = "idle"
BY DEF TypeOK, Exit, Idle

LEMMA StampSudo ==
  ASSUME LoginInv, StampInv, SudoNext
  PROVE  StampInv'
<1> USE DEF StampInv, LoginInv
<1>1. TypeOK /\ TypeOK'
  BY LoginInvSudo
<1>2. ASSUME NEW s \in Sudos,
             SudoStarts(s) \/ CheckFile(s) \/ Prompt(s) \/ NoPrompt(s) \/ PromptFails(s) \/ SudoStops(s)
      PROVE  StampInv'
  <2>1. UNCHANGED <<stamp, earned, revoked, clock>> /\ \A r \in Sudos \ {s} : sudo'[r] = sudo[r]
    BY <1>1, <1>2, OthersKept DEF SudoStarts, CheckFile, Prompt, NoPrompt, PromptFails, SudoStops
  <2>2. sudo'[s].at \notin Writing \cup {"running"}
    <3>1. CASE SudoStarts(s)
      BY <1>1, <3>1 DEF SudoStarts, Writing, Idle, TypeOK
    <3>2. CASE CheckFile(s)
      BY <1>1, <3>2, StepAt DEF CheckFile, Writing
    <3>3. CASE Prompt(s)
      BY <1>1, <3>3 DEF Prompt, Writing, TypeOK, SudoStateType
    <3>4. CASE NoPrompt(s) \/ PromptFails(s) \/ SudoStops(s)
      BY <1>1, <3>4, ExitAt DEF NoPrompt, PromptFails, SudoStops, Writing
    <3> QED
      BY <1>2, <3>1, <3>2, <3>3, <3>4
  <2> QED
    BY <2>1, <2>2 DEF Earned, AgesKept, RevokedKept, Uid, Writing
<1>3. ASSUME NEW s \in Sudos, CheckTime(s) PROVE StampInv'
  <2>1. UNCHANGED <<stamp, earned, revoked, clock>> /\ \A r \in Sudos \ {s} : sudo'[r] = sudo[r]
    BY <1>1, <1>3, OthersKept DEF CheckTime
  <2>2. /\ sudo'[s].at \in {"idle", "prompt", "running", "open"}
        /\ sudo'[s].at \in {"running", "open"} =>
             /\ Uid(s)' = Uid(s) /\ stamp[Uid(s)].there /\ stamp[Uid(s)].full
    <3>1. CASE ~stamp[Uid(s)].there
      BY <1>1, <1>3, <3>1, ExitAt DEF CheckTime
    <3>2. CASE stamp[Uid(s)].there /\ ~Fresh(stamp[Uid(s)])
      <4>1. Step(s, "prompt")
        BY <1>3, <3>2 DEF CheckTime
      <4> QED
        BY <1>1, <4>1, StepAt
    <3>3. CASE stamp[Uid(s)].there /\ Fresh(stamp[Uid(s)])
      <4>1. Step(s, "running") \/ Step(s, "open")
        BY <1>3, <3>3 DEF CheckTime
      <4> QED
        BY <1>1, <3>3, <4>1, StepAt DEF Uid, Fresh
    <3> QED
      BY <3>1, <3>2, <3>3
  <2>3. Uid(s) \in Uids
    BY <1>1 DEF TypeOK, SudoStateType, Uid
  <2> QED
    BY <2>1, <2>2, <2>3 DEF Earned, AgesKept, RevokedKept, Uid, Writing
<1>4. ASSUME NEW s \in Sudos, GivePassword(s) PROVE StampInv'
  <2>1. UNCHANGED <<stamp, clock>> /\ \A r \in Sudos \ {s} : sudo'[r] = sudo[r]
    BY <1>1, <1>4, OthersKept DEF GivePassword
  <2>2. \/ /\ sudo'[s].at = "open" /\ Uid(s)' = Uid(s)
           /\ earned' = earned \cup {Uid(s)} /\ revoked' = revoked \ {Uid(s)}
        \/ sudo'[s].at = "idle" /\ UNCHANGED <<earned, revoked>>
    <3>1. \/ /\ sudo' = [sudo EXCEPT ![s] = [@ EXCEPT !.at = "open", !.hash = "none", !.saved = FALSE]]
             /\ earned' = earned \cup {Uid(s)} /\ revoked' = revoked \ {Uid(s)}
          \/ Exit(s) /\ UNCHANGED <<earned, revoked>>
      BY <1>4 DEF GivePassword
    <3>2. sudo' = [sudo EXCEPT ![s] = [@ EXCEPT !.at = "open", !.hash = "none", !.saved = FALSE]]
            => sudo'[s].at = "open" /\ sudo'[s].uid = sudo[s].uid
      BY <1>1 DEF TypeOK, SudoStateType
    <3> QED
      BY <1>1, <3>1, <3>2, ExitAt DEF Uid
  <2> QED
    BY <2>1, <2>2 DEF Earned, AgesKept, RevokedKept, Uid, Writing
<1>5. ASSUME NEW s \in Sudos, OpenStamp(s) PROVE StampInv'
  <2>1. /\ UNCHANGED <<earned, revoked, clock>> /\ \A r \in Sudos \ {s} : sudo'[r] = sudo[r]
        /\ Uid(s) \in Uids /\ clock \in Nat
    BY <1>1, <1>5, OthersKept DEF OpenStamp, TypeOK, SudoStateType, Uid
  <2>2. /\ sudo[s].at \in Writing /\ sudo'[s].at = "write" /\ Uid(s)' = Uid(s)
        /\ sudo'[s].now = clock /\ sudo'[s].age = 0
    BY <1>1, <1>5 DEF OpenStamp, TypeOK, SudoStateType, Uid, Writing
  <2>3. ~stamp'[Uid(s)].full /\ \A u \in Uids \ {Uid(s)} : stamp'[u] = stamp[u]
    BY <1>1, <1>5, <2>1 DEF OpenStamp, NoStamp, TypeOK
  <2>4. revoked \subseteq Uids /\ Uid(s) \notin revoked
    BY <1>1, <2>2 DEF RevokedKept, TypeOK
  <2>5. Earned' /\ AgesKept'
    BY <2>1, <2>2, <2>3 DEF Earned, AgesKept, Uid, Writing
  <2>6. RevokedKept'
    BY <2>1, <2>2, <2>3, <2>4 DEF RevokedKept, Uid
  <2> QED
    BY <2>5, <2>6
<1>6. ASSUME NEW s \in Sudos, WriteStamp(s) PROVE StampInv'
  <2>1. /\ UNCHANGED <<earned, revoked, clock>> /\ \A r \in Sudos \ {s} : sudo'[r] = sudo[r]
        /\ Uid(s) \in Uids
    BY <1>1, <1>6, OthersKept DEF WriteStamp, TypeOK, SudoStateType, Uid
  <2>2. sudo[s].at = "write" /\ sudo'[s].at = "restrict" /\ Uid(s)' = Uid(s)
    BY <1>1, <1>6 DEF WriteStamp, TypeOK, SudoStateType, Uid
  <2>3. /\ \A u \in Uids \ {Uid(s)} : stamp'[u] = stamp[u]
        /\ \/ stamp' = stamp
           \/ /\ stamp'[Uid(s)].now = sudo[s].now /\ stamp'[Uid(s)].age = sudo[s].age
              /\ stamp'[Uid(s)].there = stamp[Uid(s)].there
    BY <1>1, <1>6, <2>1 DEF WriteStamp, TypeOK, StampType
  <2>4. Uid(s) \in earned /\ (sudo[s].age >= 0 => clock >= sudo[s].now + sudo[s].age)
    BY <2>2 DEF Earned, AgesKept, Writing
  <2>5. Earned' /\ AgesKept'
    BY <2>1, <2>2, <2>3, <2>4 DEF Earned, AgesKept, Uid, Writing
  <2>6. revoked \subseteq Uids
    BY <1>1 DEF TypeOK
  <2>7. RevokedKept'
    BY <2>1, <2>2, <2>3, <2>6 DEF RevokedKept, Uid, Writing
  <2> QED
    BY <2>5, <2>7
<1>7. ASSUME NEW s \in Sudos, RestrictStamp(s) PROVE StampInv'
  <2>1. /\ UNCHANGED <<earned, revoked, clock>> /\ \A r \in Sudos \ {s} : sudo'[r] = sudo[r]
        /\ Uid(s) \in Uids
    BY <1>1, <1>7, OthersKept DEF RestrictStamp, TypeOK, SudoStateType, Uid
  <2>2. /\ sudo[s].at = "restrict" /\ sudo'[s].at \in {"idle", "running"}
        /\ sudo'[s].at = "running" => Uid(s)' = Uid(s)
    BY <1>1, <1>7 DEF RestrictStamp, TypeOK, SudoStateType, Uid, Step, Exit, Idle
  <2>3. \A u \in Uids : /\ stamp'[u].there = stamp[u].there /\ stamp'[u].full = stamp[u].full
                        /\ stamp'[u].now = stamp[u].now /\ stamp'[u].age = stamp[u].age
    BY <1>1, <1>7, <2>1 DEF RestrictStamp, TypeOK, StampType
  <2>4. revoked \subseteq Uids
    BY <1>1 DEF TypeOK
  <2> QED
    BY <2>1, <2>2, <2>3, <2>4 DEF Earned, AgesKept, RevokedKept, Uid, Writing
<1>8. ASSUME InvalidateTimestamp PROVE StampInv'
  <2>1. /\ UNCHANGED <<earned, clock>> /\ picked.uid \in Uids
        /\ \A s \in Sudos : /\ sudo'[s].at = sudo[s].at /\ sudo'[s].uid = sudo[s].uid
                            /\ sudo'[s].now = sudo[s].now /\ sudo'[s].age = sudo[s].age
    BY <1>1, <1>8 DEF InvalidateTimestamp, Untouched, Before, Account, TypeOK, SudoStateType
  <2>2. /\ ~stamp'[picked.uid].there /\ ~stamp'[picked.uid].full
        /\ \A u \in Uids \ {picked.uid} : stamp'[u] = stamp[u]
    BY <1>1, <1>8, <2>1 DEF InvalidateTimestamp, NoStamp, TypeOK
  <2>3. \/ revoked' = revoked
        \/ /\ revoked' = revoked \cup {picked.uid}
           /\ \A s \in Sudos : Uid(s) = picked.uid => sudo[s].at \notin Writing
    BY <1>8 DEF InvalidateTimestamp
  <2>4. revoked \subseteq Uids
    BY <1>1 DEF TypeOK
  <2>5. Earned' /\ AgesKept'
    BY <2>1, <2>2 DEF Earned, AgesKept, Uid
  <2>6. RevokedKept'
    BY <2>1, <2>2, <2>3, <2>4 DEF RevokedKept, Uid
  <2> QED
    BY <2>5, <2>6
<1> QED
  BY <1>2, <1>3, <1>4, <1>5, <1>6, <1>7, <1>8 DEF SudoNext

LEMMA StampLogin ==
  ASSUME StampInv, LoginInv, UsersNext \/ LoginNext
  PROVE  StampInv'
<1>1. /\ UNCHANGED <<stamp, earned, revoked, clock>>
      /\ \A s \in Sudos : sudo'[s] \in {sudo[s], Idle}
  BY UsersFrame, LoginFrame DEF sudoVars, LoginInv
<1>2. Idle.at = "idle"
  BY DEF Idle
<1> QED
  BY <1>1, <1>2 DEF StampInv, Earned, AgesKept, RevokedKept, Uid, Writing

LEMMA AgeFunctions == OneOlder \in [Ages -> Ages] /\ SetBack \in [Ages -> Ages]
BY TimeAssumption DEF Ages, OneOlder, SetBack

LEMMA AgedStamp ==
  ASSUME TypeOK, NEW f \in [Ages -> Ages], Aged(f), NEW u \in Uids
  PROVE  /\ stamp'[u].there = stamp[u].there /\ stamp'[u].full = stamp[u].full
         /\ stamp'[u].now = stamp[u].now
         /\ stamp[u].full => stamp'[u].age = f[stamp[u].age]
BY DEF Aged, TypeOK, StampType

LEMMA AgedSudo ==
  ASSUME TypeOK, NEW f \in [Ages -> Ages], Aged(f), NEW s \in Sudos
  PROVE  /\ sudo'[s].at = sudo[s].at /\ sudo'[s].uid = sudo[s].uid
         /\ sudo'[s].now = sudo[s].now
         /\ sudo[s].at = "write" => sudo'[s].age = f[sudo[s].age]
BY DEF Aged, TypeOK, SudoStateType

\* While time goes on the ages do not overtake it; set back, it makes them -1.
LEMMA StampClock ==
  ASSUME TypeOK, StampInv, Tick \/ SetClock
  PROVE  StampInv'
<1>1. /\ UNCHANGED <<earned, revoked>>
      /\ \A u \in Uids : /\ stamp'[u].there = stamp[u].there /\ stamp'[u].full = stamp[u].full
                         /\ stamp'[u].now = stamp[u].now
      /\ \A s \in Sudos : /\ sudo'[s].at = sudo[s].at /\ sudo'[s].uid = sudo[s].uid
                          /\ sudo'[s].now = sudo[s].now
  <2>1. CASE Tick
    <3>1. Aged(OneOlder) /\ UNCHANGED <<earned, revoked>>
      BY <2>1 DEF Tick
    <3> QED
      BY <3>1, AgedStamp, AgedSudo, AgeFunctions
  <2>2. CASE SetClock /\ clock' < clock
    <3>1. Aged(SetBack) /\ UNCHANGED <<earned, revoked>>
      BY <2>2 DEF SetClock
    <3> QED
      BY <3>1, AgedStamp, AgedSudo, AgeFunctions
  <2>3. CASE SetClock /\ ~(clock' < clock)
    BY <2>3 DEF SetClock
  <2> QED
    BY <2>1, <2>2, <2>3
<1>2. /\ clock \in Nat /\ clock' \in Int
      /\ \A u \in Uids : stamp[u].now \in Nat /\ stamp[u].age \in Ages
      /\ \A s \in Sudos : sudo[s].now \in Nat /\ sudo[s].age \in Ages
  BY TimeAssumption DEF Tick, SetClock, TypeOK, SudoStateType, StampType
<1>0. AgesKept' => StampInv'
  <2>1. revoked \subseteq Uids
    BY DEF TypeOK
  <2> QED
    BY <1>1, <2>1 DEF StampInv, Earned, RevokedKept, Uid
<1>3. CASE Tick
  <2>1. /\ clock' = clock + 1
        /\ \A u \in Uids : stamp[u].full => stamp'[u].age = OneOlder[stamp[u].age]
        /\ \A s \in Sudos : sudo[s].at = "write" => sudo'[s].age = OneOlder[sudo[s].age]
    <3>1. Aged(OneOlder) /\ clock' = clock + 1
      BY <1>3 DEF Tick
    <3> QED
      BY <3>1, AgedStamp, AgedSudo, AgeFunctions
  <2>2. \A a \in Ages : OneOlder[a] <= a + 1 /\ (OneOlder[a] >= 0 => a >= 0)
    BY TimeAssumption DEF OneOlder, Ages
  <2>3. \A a \in Ages : a \in Int /\ OneOlder[a] \in Int
    BY TimeAssumption DEF OneOlder, Ages
  <2>4. ASSUME NEW n \in Nat, NEW a \in Ages, a >= 0 => clock >= n + a
        PROVE  OneOlder[a] >= 0 => clock' >= n + OneOlder[a]
    BY <1>2, <2>1, <2>2, <2>3, <2>4
  <2>5. ASSUME NEW u \in Uids, stamp'[u].full, stamp'[u].age >= 0
        PROVE  clock' >= stamp'[u].now + stamp'[u].age
    <3>1. /\ stamp[u].full /\ stamp'[u].now = stamp[u].now
          /\ stamp'[u].age = OneOlder[stamp[u].age]
          /\ stamp[u].now \in Nat /\ stamp[u].age \in Ages
      BY <1>1, <1>2, <2>1, <2>5
    <3>2. stamp[u].age >= 0 => clock >= stamp[u].now + stamp[u].age
      BY <3>1 DEF StampInv, AgesKept
    <3> QED
      BY <2>4, <2>5, <3>1, <3>2
  <2>6. ASSUME NEW s \in Sudos, sudo'[s].at = "write", sudo'[s].age >= 0
        PROVE  clock' >= sudo'[s].now + sudo'[s].age
    <3>1. /\ sudo[s].at = "write" /\ sudo'[s].now = sudo[s].now
          /\ sudo[s].now \in Nat /\ sudo[s].age \in Ages
          /\ sudo'[s].age = OneOlder[sudo[s].age]
      <4>1. sudo[s].at = "write" /\ sudo'[s].now = sudo[s].now
        BY <1>1, <2>6
      <4>2. sudo[s].now \in Nat /\ sudo[s].age \in Ages
        BY <1>2
      <4> QED
        BY <2>1, <4>1, <4>2
    <3>2. sudo[s].age >= 0 => clock >= sudo[s].now + sudo[s].age
      BY <3>1 DEF StampInv, AgesKept
    <3> QED
      BY <2>4, <2>6, <3>1, <3>2
  <2>7. AgesKept'
    BY <2>5, <2>6 DEF AgesKept
  <2> QED
    BY <1>0, <2>7
<1>4. CASE SetClock /\ clock' < clock
  <2>1. /\ \A u \in Uids : stamp[u].full => stamp'[u].age = -1
        /\ \A s \in Sudos : sudo[s].at = "write" => sudo'[s].age = -1
    <3>1. Aged(SetBack)
      BY <1>4 DEF SetClock
    <3>2. \A a \in Ages : SetBack[a] = -1
      BY DEF SetBack
    <3> QED
      BY <1>2, <3>1, <3>2, AgedStamp, AgedSudo, AgeFunctions
  <2>2. AgesKept'
    BY <1>1, <2>1 DEF AgesKept
  <2> QED
    BY <1>0, <2>2
<1>5. CASE SetClock /\ ~(clock' < clock)
  <2>1. UNCHANGED <<sudo, stamp>> /\ clock' >= clock
    BY <1>2, <1>5 DEF SetClock
  <2>2. \A a \in Ages : a \in Int
    BY TimeAssumption DEF Ages
  <2>3. ASSUME NEW n \in Nat, NEW a \in Ages, clock >= n + a
        PROVE  clock' >= n + a
    BY <1>2, <2>1, <2>2, <2>3
  <2>4. AgesKept'
    <3>1. \A u \in Uids : stamp[u].full /\ stamp[u].age >= 0
                             => clock' >= stamp[u].now + stamp[u].age
      BY <1>2, <2>3 DEF StampInv, AgesKept
    <3>2. \A s \in Sudos : sudo[s].at = "write" /\ sudo[s].age >= 0
                              => clock' >= sudo[s].now + sudo[s].age
      BY <1>2, <2>3 DEF StampInv, AgesKept
    <3> QED
      BY <2>1, <3>1, <3>2 DEF AgesKept
  <2> QED
    BY <1>0, <2>4
<1> QED
  BY <1>3, <1>4, <1>5

LEMMA StampNext == LoginInv /\ StampInv /\ [Next]_consoleVars => StampInv'
<1> SUFFICES ASSUME LoginInv, StampInv, [Next]_consoleVars PROVE StampInv'
    OBVIOUS
<1>1. CASE RootEditsShadow \/ RootEditsPasswd \/ UNCHANGED consoleVars
  BY <1>1 DEF RootEditsShadow, RootEditsPasswd, StampInv, Earned, AgesKept, RevokedKept, Uid, consoleVars,
              sudoVars
<1>2. CASE PowerCycle
  <2>1. /\ \A u \in Uids : stamp'[u] = NoStamp
        /\ \A s \in Sudos : sudo'[s] = Idle
        /\ revoked' = {}
    BY <1>2 DEF PowerCycle, NothingRuns
  <2>2. ~NoStamp.full /\ Idle.at = "idle"
    BY DEF NoStamp, Idle
  <2> QED
    BY <2>1, <2>2 DEF StampInv, Earned, AgesKept, RevokedKept, Writing
<1> QED
  BY <1>1, <1>2, StampLogin, StampSudo, StampClock DEF Next, LoginInv

LEMMA StampAlways == Spec => []StampInv
<1>1. Init => StampInv
  BY DEF Init, StampInv, Earned, AgesKept, RevokedKept, NoStamp, Idle, Writing
<1> QED
  BY <1>1, StampNext, LoginInvAlways, PTL DEF Spec

\* For any number of sudo processes and users: no command of sudo runs without
\* root's password having been given in this boot (main.rs:545).
THEOREM PasswordComesFirst == Spec => []RootOnlyAfterPassword
<1>1. StampInv => RootOnlyAfterPassword
  BY DEF StampInv, Earned, RootOnlyAfterPassword
<1> QED
  BY <1>1, StampAlways, PTL

\* Only the check of the time goes on without the password.
LEMMA OnlyTheCheckAccepts ==
  ASSUME TypeOK, [Next]_consoleVars, NEW s \in Sudos, Accepted(s)
  PROVE  /\ stamp[Uid(s)].there /\ Fresh(stamp[Uid(s)])
<1>1. sudo[s].at = "read" /\ sudo'[s].at \in {"running", "open"} /\ sudo'[s].at # sudo[s].at
  BY DEF Accepted
<1>2. Idle.at = "idle"
  BY DEF Idle
<1>3. CASE UsersNext \/ LoginNext
  BY <1>1, <1>2, <1>3, UsersFrame, LoginFrame DEF sudoVars
<1>4. CASE RootEditsShadow \/ RootEditsPasswd \/ UNCHANGED consoleVars
  BY <1>1, <1>4 DEF RootEditsShadow, RootEditsPasswd, sudoVars, consoleVars
<1>5. CASE Tick \/ SetClock
  BY <1>1, <1>5 DEF Tick, SetClock, Aged, TypeOK, SudoStateType
<1>6. CASE PowerCycle
  BY <1>1, <1>2, <1>6 DEF PowerCycle, NothingRuns
<1>7. CASE InvalidateTimestamp
  BY <1>1, <1>7 DEF InvalidateTimestamp, TypeOK, SudoStateType
<1>8. ASSUME NEW r \in Sudos,
             SudoStarts(r) \/ CheckFile(r) \/ CheckTime(r) \/ Prompt(r) \/ NoPrompt(r)
               \/ PromptFails(r) \/ GivePassword(r) \/ OpenStamp(r) \/ WriteStamp(r)
               \/ RestrictStamp(r) \/ SudoStops(r)
      PROVE  stamp[Uid(s)].there /\ Fresh(stamp[Uid(s)])
  <2>1. r = s
    BY <1>1, <1>8, OthersKept
  <2>2. ~(SudoStarts(s) \/ CheckFile(s) \/ Prompt(s) \/ NoPrompt(s) \/ PromptFails(s)
            \/ GivePassword(s) \/ OpenStamp(s) \/ WriteStamp(s) \/ RestrictStamp(s))
    BY <1>1 DEF SudoStarts, CheckFile, Prompt, NoPrompt, PromptFails, GivePassword, Asking,
                OpenStamp, WriteStamp, RestrictStamp
  <2>3. ~SudoStops(s)
    BY <1>1, ExitAt DEF SudoStops
  <2>4. CheckTime(s)
    BY <1>8, <2>1, <2>2, <2>3
  <2>5. stamp[Uid(s)].there
    BY <1>1, <2>4, ExitAt DEF CheckTime
  <2>6. ASSUME ~Fresh(stamp[Uid(s)]) PROVE FALSE
    <3>1. Step(s, "prompt")
      BY <2>4, <2>5, <2>6 DEF CheckTime
    <3> QED
      BY <1>1, <3>1, StepAt
  <2> QED
    BY <2>5, <2>6
<1> QED
  BY <1>3, <1>4, <1>5, <1>6, <1>7, <1>8 DEF Next, SudoNext

\* For any timeout: a timestamp is not accepted once it is that old, unless the
\* clock has been set back (main.rs:126).
THEOREM TimestampsExpire == Spec => FiveMinutes
<1>1. TypeOK /\ StampInv /\ [Next]_consoleVars
        => [\A s \in Sudos : Accepted(s) => stamp[Uid(s)].age < Timeout]_consoleVars
  <2> SUFFICES ASSUME TypeOK, StampInv, [Next]_consoleVars, NEW s \in Sudos, Accepted(s)
               PROVE  stamp[Uid(s)].age < Timeout
    OBVIOUS
  <2>1. Fresh(stamp[Uid(s)])
    BY OnlyTheCheckAccepts
  <2>2. Uid(s) \in Uids
    BY DEF TypeOK, SudoStateType, Uid
  <2>3. stamp[Uid(s)] \in StampType
    BY <2>2 DEF TypeOK
  <2>4. stamp[Uid(s)].age >= 0 => clock >= stamp[Uid(s)].now + stamp[Uid(s)].age
    BY <2>1, <2>2 DEF StampInv, AgesKept, Fresh
  <2>5. stamp[Uid(s)].age \in Int /\ stamp[Uid(s)].now \in Nat /\ clock \in Nat
    BY <2>3, TimeAssumption DEF StampType, Ages, TypeOK
  <2> QED
    BY <2>1, <2>4, <2>5, TimeAssumption DEF Fresh
<1> QED
  BY <1>1, ConsoleTypes, StampAlways, PTL DEF Spec, FiveMinutes

\* For any number of sudo processes: after sudo -k the next sudo asks, unless one
\* was already past its check (main.rs:513).
THEOREM RevocationHolds == Spec => RevokedStaysRevoked
<1>1. TypeOK /\ StampInv /\ [Next]_consoleVars
        => [\A s \in Sudos : Accepted(s) => Uid(s) \notin revoked]_consoleVars
  BY OnlyTheCheckAccepts DEF StampInv, RevokedKept
<1> QED
  BY <1>1, ConsoleTypes, StampAlways, PTL DEF Spec, RevokedStaysRevoked

-----------------------------------------------------------------------------
(* The terminal                                                            *)

\* A step that neither opens nor closes a prompt.
LEMMA EchoFrame ==
  ASSUME EchoKept, UNCHANGED <<phase, saved, echo, spoilt>>,
         \A s \in Sudos : sudo'[s].at = sudo[s].at,
         \A s \in Sudos : sudo'[s].saved = sudo[s].saved
  PROVE  EchoKept'
BY DEF EchoKept, Asking

\* The same for a step of one sudo.
LEMMA EchoFrameSudo ==
  ASSUME TypeOK, EchoKept, NEW s \in Sudos, UNCHANGED <<phase, saved, echo, spoilt>>,
         \A r \in Sudos \ {s} : sudo'[r] = sudo[r], ~Asking(s), ~Asking(s)',
         sudo'[s].at \in {"idle", "running"} \/ sudo[s].at \notin {"idle", "running"}
           \/ phase = "session"
  PROVE  EchoKept'
BY DEF EchoKept, Asking

LEMMA EchoSudo == ASSUME LoginInv, EchoKept, SudoNext PROVE EchoKept'
<1>1. TypeOK /\ UNCHANGED <<phase, saved>>
  BY SudoFrame DEF LoginInv, Untouched, loginVars
<1>2. ASSUME NEW s \in Sudos,
             SudoStarts(s) \/ CheckFile(s) \/ CheckTime(s) \/ NoPrompt(s)
               \/ OpenStamp(s) \/ WriteStamp(s) \/ RestrictStamp(s)
      PROVE  EchoKept'
  <2>1. UNCHANGED <<echo, spoilt>> /\ \A r \in Sudos \ {s} : sudo'[r] = sudo[r]
    BY <1>1, <1>2, OthersKept DEF SudoStarts, CheckFile, CheckTime, NoPrompt, OpenStamp, WriteStamp,
       RestrictStamp, termVars
  <2>2. /\ sudo[s].at # "asking" /\ (sudo[s].at = "idle" => phase = "session")
        /\ sudo[s].at # "running"
    BY <1>2 DEF SudoStarts, CheckFile, CheckTime, NoPrompt, OpenStamp, WriteStamp, RestrictStamp
  <2>3. sudo'[s].at # "asking"
    <3>1. CASE SudoStarts(s)
      BY <1>1, <3>1 DEF SudoStarts, Idle, TypeOK
    <3>2. CASE CheckFile(s)
      BY <1>1, <3>2, StepAt DEF CheckFile
    <3>3. CASE CheckTime(s)
      BY <1>1, <3>3, StepAt, ExitAt DEF CheckTime
    <3>4. CASE NoPrompt(s)
      BY <1>1, <3>4, ExitAt DEF NoPrompt
    <3>5. CASE OpenStamp(s)
      BY <1>1, <3>5 DEF OpenStamp, TypeOK, SudoStateType
    <3>6. CASE WriteStamp(s)
      BY <1>1, <3>6 DEF WriteStamp, TypeOK, SudoStateType
    <3>7. CASE RestrictStamp(s)
      BY <1>1, <3>7, StepAt, ExitAt DEF RestrictStamp
    <3> QED
      BY <1>2, <3>1, <3>2, <3>3, <3>4, <3>5, <3>6, <3>7
  <2> QED
    BY <1>1, <2>1, <2>2, <2>3, EchoFrameSudo DEF Asking
<1>3. ASSUME NEW s \in Sudos, Prompt(s) PROVE EchoKept'
  <2>1. /\ sudo[s].at = "prompt" /\ sudo'[s].at = "asking" /\ sudo'[s].saved = echo /\ ~echo'
        /\ \A r \in Sudos \ {s} : sudo'[r] = sudo[r]
    BY <1>1, <1>3, OthersKept DEF Prompt, TypeOK, SudoStateType
  <2>2. ~spoilt' => ~spoilt /\ \A r \in Sudos : ~Asking(r)
    BY <1>3 DEF Prompt
  <2>3. phase \in {"session", "dying"}
    BY <2>1 DEF EchoKept
  <2>4. ~spoilt' => echo
    BY <2>2, <2>3 DEF EchoKept
  <2> QED
    BY <1>1, <2>1, <2>2, <2>3, <2>4 DEF EchoKept, Asking
<1>4. ASSUME NEW s \in Sudos, PromptFails(s) PROVE EchoKept'
  <2>1. spoilt' /\ sudo'[s].at = "idle" /\ \A r \in Sudos \ {s} : sudo'[r] = sudo[r]
    BY <1>1, <1>4, OthersKept, ExitAt DEF PromptFails
  <2> QED
    BY <1>1, <2>1 DEF EchoKept
<1>5. ASSUME NEW s \in Sudos, GivePassword(s) PROVE EchoKept'
  <2>1. /\ sudo[s].at = "asking" /\ sudo'[s].at \in {"idle", "open"} /\ echo' = sudo[s].saved
        /\ UNCHANGED spoilt /\ \A r \in Sudos \ {s} : sudo'[r] = sudo[r]
    <3>1. \/ sudo' = [sudo EXCEPT ![s] = [@ EXCEPT !.at = "open", !.hash = "none", !.saved = FALSE]]
          \/ Exit(s)
      BY <1>5 DEF GivePassword
    <3>2. sudo' = [sudo EXCEPT ![s] = [@ EXCEPT !.at = "open", !.hash = "none", !.saved = FALSE]]
            => sudo'[s].at = "open"
      BY <1>1 DEF TypeOK, SudoStateType
    <3> QED
      BY <1>1, <1>5, <3>1, <3>2, OthersKept, ExitAt DEF GivePassword, Asking
  <2>2. phase \in {"session", "dying"}
    BY <2>1 DEF EchoKept
  <2>3. ~spoilt => echo' = TRUE /\ \A r \in Sudos \ {s} : ~Asking(r)
    BY <1>1, <2>1 DEF EchoKept, Asking, TypeOK, SudoStateType
  <2> QED
    BY <1>1, <2>1, <2>2, <2>3 DEF EchoKept, Asking
<1>6. ASSUME NEW s \in Sudos, SudoStops(s) PROVE EchoKept'
  <2>1. sudo'[s].at = "idle" /\ UNCHANGED echo /\ \A r \in Sudos \ {s} : sudo'[r] = sudo[r]
    BY <1>1, <1>6, OthersKept, ExitAt DEF SudoStops
  <2>2. ~spoilt' => ~spoilt /\ ~Asking(s)
    BY <1>6 DEF SudoStops
  <2> QED
    BY <1>1, <2>1, <2>2 DEF EchoKept, Asking
<1>7. CASE InvalidateTimestamp
  <2>1. \A s \in Sudos : sudo'[s].at = sudo[s].at /\ sudo'[s].saved = sudo[s].saved
    BY <1>1, <1>7 DEF InvalidateTimestamp, TypeOK, SudoStateType
  <2>2. UNCHANGED <<echo, spoilt>>
    BY <1>7 DEF InvalidateTimestamp, termVars
  <2> QED
    BY <1>1, <2>1, <2>2, EchoFrame DEF Asking
<1> QED
  BY <1>2, <1>3, <1>4, <1>5, <1>6, <1>7 DEF SudoNext

LEMMA EchoLogin == ASSUME LoginInv, EchoKept, LoginNext PROVE EchoKept'
<1> USE DEF loginVars, termVars, sudoVars
<1>1. TypeOK /\ Idle.at = "idle"
  BY DEF LoginInv, Idle
<1>2. ASSUME phase \notin {"session", "dying"} PROVE \A s \in Sudos : sudo[s].at \in {"idle", "running"}
  BY <1>2 DEF EchoKept
<1>3. CASE StartService
  BY <1>2, <1>3 DEF StartService, EchoKept, Asking
<1>4. CASE ShowMenu \/ NoAccountAllowed \/ CancelMenu \/ StartShell \/ ShellFails \/ DelayEnds
  BY <1>2, <1>4 DEF ShowMenu, NoAccountAllowed, CancelMenu, StartShell, ShellFails, DelayEnds, EchoKept,
                    Asking
<1>5. CASE PickAccount
  <2>1. /\ phase = "menu" /\ phase' = "asking" /\ saved' = echo /\ UNCHANGED <<spoilt, sudo>>
    BY <1>5 DEF PickAccount
  <2>2. \A s \in Sudos : ~Asking(s) /\ sudo[s].at \in {"idle", "running"}
    BY <1>2, <2>1 DEF Asking
  <2>3. ~spoilt => echo
    BY <2>1, <2>2 DEF EchoKept
  <2> QED
    BY <2>1, <2>2, <2>3 DEF EchoKept, Asking
<1>6. CASE EnterPassword
  <2>1. /\ phase = "asking" /\ phase' \in {"starting", "delay"} /\ echo' = saved
        /\ UNCHANGED <<spoilt, sudo>>
    BY <1>6 DEF EnterPassword
  <2>2. \A s \in Sudos : sudo[s].at \in {"idle", "running"}
    BY <1>2, <2>1
  <2>3. ~spoilt => echo'
    BY <2>1 DEF EchoKept
  <2> QED
    BY <2>1, <2>2, <2>3 DEF EchoKept, Asking
<1>7. CASE SessionEnds
  <2>1. /\ phase = "session" /\ phase' = "start"
        /\ \A s \in Sudos : sudo'[s].at \in {"idle", "running"}
    BY <1>1, <1>7 DEF SessionEnds, Asking
  <2>2. ~spoilt' => echo'
    <3>1. CASE echo' = TRUE
      BY <3>1
    <3>2. CASE UNCHANGED echo /\ (~spoilt' => ~spoilt /\ \A s \in Sudos : ~Asking(s))
      BY <2>1, <3>2 DEF EchoKept
    <3> QED
      BY <1>7, <3>1, <3>2 DEF SessionEnds
  <2> QED
    BY <2>1, <2>2 DEF EchoKept, Asking
<1>8. CASE LoginDies
  <2>1. UNCHANGED <<echo, sudo>> /\ phase' = "dying"
    BY <1>8 DEF LoginDies
  <2>2. ~spoilt' => ~spoilt /\ phase # "asking"
    BY <1>8 DEF LoginDies
  <2> QED
    BY <2>1, <2>2 DEF EchoKept, Asking
<1>9. CASE StopGroup
  <2>1. /\ phase = "dying" /\ phase' = "down" /\ UNCHANGED echo
        /\ \A s \in Sudos : sudo'[s] = Idle
    BY <1>9 DEF StopGroup
  <2>2. ~spoilt' => ~spoilt /\ \A s \in Sudos : ~Asking(s)
    BY <1>9 DEF StopGroup
  <2> QED
    BY <1>1, <2>1, <2>2 DEF EchoKept, Asking
<1> QED
  BY <1>3, <1>4, <1>5, <1>6, <1>7, <1>8, <1>9 DEF LoginNext

LEMMA EchoNext == LoginInv /\ EchoKept /\ [Next]_consoleVars => EchoKept'
<1> SUFFICES ASSUME LoginInv, EchoKept, [Next]_consoleVars PROVE EchoKept'
    OBVIOUS
<1> USE DEF loginVars, termVars, sudoVars
<1>1. CASE UsersNext \/ RootEditsShadow \/ RootEditsPasswd \/ UNCHANGED consoleVars
  <2>1. UNCHANGED <<phase, saved, echo, spoilt, sudo>>
    BY <1>1, UsersFrame DEF RootEditsShadow, RootEditsPasswd, consoleVars
  <2> QED
    BY <2>1, EchoFrame DEF Asking
<1>2. CASE Tick \/ SetClock
  <2>1. UNCHANGED <<phase, saved, echo, spoilt>>
    BY <1>2 DEF Tick, SetClock
  <2>2. \A s \in Sudos : sudo'[s].at = sudo[s].at /\ sudo'[s].saved = sudo[s].saved
    BY <1>2 DEF Tick, SetClock, Aged, LoginInv, TypeOK, SudoStateType
  <2> QED
    BY <2>1, <2>2, EchoFrame DEF Asking
<1>3. CASE PowerCycle
  <2>1. echo' = TRUE /\ phase' = "down" /\ \A s \in Sudos : sudo'[s] = Idle
    BY <1>3 DEF PowerCycle, NothingRuns
  <2>2. Idle.at = "idle"
    BY DEF Idle
  <2> QED
    BY <2>1, <2>2 DEF EchoKept, Asking
<1> QED
  BY <1>1, <1>2, <1>3, EchoLogin, EchoSudo DEF Next

\* For any number of sudo processes: with no prompt open the terminal echoes, but
\* after a prompt cut short or two at once (login.rs:48, sudo main.rs:363).
THEOREM TerminalEchoes == Spec => []EchoReturns
<1>1. Init => EchoKept
  BY DEF Init, EchoKept, Asking, Idle
<1>2. EchoKept => EchoReturns
  BY DEF EchoKept, EchoReturns
<1> QED
  BY <1>1, <1>2, EchoNext, LoginInvAlways, PTL DEF Spec

\* Whatever the menu showed: a locked account gets no shell (login.rs:105).
THEOREM LocksTakeEffect == Spec => LockTakesEffect
<1>1. TypeOK /\ [Next]_consoleVars
        => [phase = "asking" /\ phase' = "starting" => is_usable_hash(shadow[picked.name])]_consoleVars
  <2> SUFFICES ASSUME Next, phase = "asking", phase' = "starting"
               PROVE  is_usable_hash(shadow[picked.name])
    OBVIOUS
  <2>1. CASE EnterPassword
    BY <2>1 DEF EnterPassword, authenticate
  <2>2. CASE LoginNext /\ ~EnterPassword
    BY <2>2 DEF LoginNext, StartService, ShowMenu, NoAccountAllowed, PickAccount, CancelMenu,
       StartShell, ShellFails, DelayEnds, SessionEnds, LoginDies, StopGroup
  <2>3. CASE ~LoginNext
    <3>1. UNCHANGED phase \/ phase' = "down"
      BY <2>3, UsersFrame, SudoFrame DEF Next, Untouched, loginVars, RootEditsShadow, RootEditsPasswd,
         Tick, SetClock, PowerCycle, NothingRuns
    <3> QED
      BY <3>1
  <2> QED
    BY <2>1, <2>2, <2>3
<1> QED
  BY <1>1, ConsoleTypes, PTL DEF Spec, LockTakesEffect
=============================================================================
