-------------------------- MODULE MachineLifeProofs --------------------------
(***************************************************************************)
(* Theorems about what a machine with Senbit is over all its boots: what   *)
(* the installer may erase, that one installation appears and is kept, and *)
(* that Machine implements SystemLife.                                     *)
(***************************************************************************)
EXTENDS MachineProofs

-----------------------------------------------------------------------------
(* Nothing is erased without the user's consent                            *)

LEMMA NextConsented == TypeOK /\ Chosen /\ Consented /\ [Next]_vars => Consented'
<1> SUFFICES ASSUME TypeOK, Chosen, Consented, [Next]_vars PROVE Consented'
  OBVIOUS
<1> USE DEF diskVars, choiceVars, historyVars, envVars, Goto, Panic
<1>1. CASE ConfirmEntireDisk \/ SelectRoot \/ ConfirmPartition
  BY <1>1 DEF ConfirmEntireDisk, SelectRoot, ConfirmPartition, Consented
<1>2. CASE CreateUefiPartitions \/ CreateLegacyPartitions
  <2>1. /\ partition_path(device, 1) \in consent
        /\ partition_path(device, 2) \in consent
    BY <1>2, PartitionPath DEF CreateUefiPartitions, CreateLegacyPartitions, Consented,
       Chosen, Slots
  <2> QED
    BY <1>2, <2>1 DEF CreateUefiPartitions, CreateLegacyPartitions, CreatePartitions,
       Consented
<1>3. CASE FormatEfi
  BY <1>3 DEF FormatEfi, Consented
<1>4. CASE SetupLang \/ SelectDisk \/ ManualPartitioning \/ NothingToSelect \/ FormatRoot
           \/ MountRoot \/ Unmount \/ Refused \/ UserCancels \/ InstallStepFails
           \/ PartitioningFails \/ FormatFails \/ GrubInstallFails
  BY <1>4 DEF SetupLang, SelectDisk, ManualPartitioning, NothingToSelect, FormatRoot,
     MountRoot, Unmount, Refused, UserCancels, InstallStepFails, PartitioningFails,
     FormatFails, GrubInstallFails, Consented
<1>5. CASE CopyRootfs \/ MakeSysconfig \/ SetupUsers \/ SetupHostname \/ SetupLocale
           \/ SetupNetwork \/ InstallBootFiles \/ InstallGrub \/ WriteGrubConfig
           \/ SetSysPerms
  BY <1>5 DEF CopyRootfs, MakeSysconfig, SetupUsers, SetupHostname, SetupLocale,
     SetupNetwork, InstallBootFiles, InstallGrub, WriteGrubConfig, SetSysPerms, Fill,
     Consented
<1>6. CASE StartNext
  BY <1>6 DEF StartNext, StartProgress, MountSystem, FstabIsOk, FstabIsMissing,
     InitHostname, GetVersion, VersionIsMissing, InitNetwork, NetworkFails, SwitchRoot,
     InitLogs, InitKeymaps, ExecSystemd, SystemdIsMissing, StartStepFails, StartStep,
     Needs, Lacks, Consented
<1>7. CASE PowerOn \/ BootKernel \/ MountFilesystems \/ StartInstalled \/ StartInstaller
           \/ PanicTick \/ UNCHANGED vars
  BY <1>7 DEF PowerOn, BootKernel, MountFilesystems, StartInstalled, StartInstaller,
     PanicTick, vars, Consented
<1>8. CASE PanicPowerOff \/ RebootAfterInstall \/ PanicReboot \/ PowerLoss
           \/ SystemdShutdown
  BY <1>8 DEF PanicPowerOff, RebootAfterInstall, PanicReboot, PowerLoss, SystemdShutdown,
     Reset, Consented
<1> QED
  BY <1>1, <1>2, <1>3, <1>4, <1>5, <1>6, <1>7, <1>8 DEF Next, MainNext, InstallerNext

\* The steps that take something away have the consent for it.
LEMMA LosersConsented ==
  ASSUME TypeOK, Chosen, Consented, [Next]_vars
  PROVE  \A p \in Parts : (fs[p] # fs'[p] \/ ~(files[p] \subseteq files'[p])) => p \in consent'
<1> USE DEF diskVars, choiceVars, historyVars, envVars, Goto, Panic
<1>1. CASE ErasingStep
  <2>1. PICK S \in SUBSET Parts : Takes(S) /\ S \subseteq consent'
    BY <1>1, ErasingShape
  <2> QED
    BY <2>1 DEF Takes, Erased
<1>2. CASE SetupLang \/ SelectDisk \/ ConfirmEntireDisk \/ SelectRoot
           \/ NothingToSelect \/ ConfirmPartition \/ MountRoot \/ Refused
           \/ UserCancels \/ InstallStepFails \/ GrubInstallFails
  BY <1>2 DEF SetupLang, SelectDisk, ConfirmEntireDisk, SelectRoot, NothingToSelect,
     ConfirmPartition, MountRoot, Refused, UserCancels, InstallStepFails, GrubInstallFails
<1>3. CASE CopyRootfs \/ MakeSysconfig \/ SetupUsers \/ SetupHostname \/ SetupLocale
           \/ SetupNetwork \/ InstallBootFiles \/ InstallGrub \/ WriteGrubConfig
           \/ SetSysPerms
  BY <1>3 DEF CopyRootfs, MakeSysconfig, SetupUsers, SetupHostname, SetupLocale,
     SetupNetwork, InstallBootFiles, InstallGrub, WriteGrubConfig, SetSysPerms, Fill
<1>4. CASE Unmount
  BY <1>4 DEF Unmount, TypeOK, DiskTypeOK
<1>5. CASE StartNext
  BY <1>5 DEF StartNext, StartProgress, MountSystem, FstabIsOk, FstabIsMissing,
     InitHostname, GetVersion, VersionIsMissing, InitNetwork, NetworkFails, SwitchRoot,
     InitLogs, InitKeymaps, ExecSystemd, SystemdIsMissing, StartStepFails, StartStep,
     Needs, Lacks
<1>6. CASE PowerOn \/ BootKernel \/ MountFilesystems \/ StartInstalled \/ StartInstaller
           \/ PanicTick \/ UNCHANGED vars
  BY <1>6 DEF PowerOn, BootKernel, MountFilesystems, StartInstalled, StartInstaller,
     PanicTick, vars
<1>7. CASE PanicPowerOff \/ RebootAfterInstall \/ PanicReboot \/ PowerLoss
            \/ SystemdShutdown
  BY <1>7 DEF PanicPowerOff, RebootAfterInstall, PanicReboot, PowerLoss, SystemdShutdown,
     Reset, TypeOK, DiskTypeOK
<1> QED
  BY <1>1, <1>2, <1>3, <1>4, <1>5, <1>6, <1>7
     DEF Next, MainNext, InstallerNext, ErasingStep

\* Consent: whatever path the user takes through the prompts, what a partition
\* holds is only taken away after the user agreed to lose that partition.
THEOREM EraseNeedsConsent == Spec => NoUnconsentedErase
<1>1. Init => Consented
  BY DEF Init, Consented
<1>2. Spec => [](TypeOK /\ Chosen)
  BY InitTypeOK, NextTypeOK, PTL DEF Spec
<1>3. Spec => []Consented
  BY <1>1, <1>2, NextConsented, PTL DEF Spec
<1> QED
  BY <1>2, <1>3, LosersConsented, PTL DEF Spec, NoUnconsentedErase

-----------------------------------------------------------------------------
(* One installation, as long as no partition escapes the probe             *)

InstallingSteps == InstallSteps \ {"installed"}

NoneMarked == \A p \in Parts : ~Marked(p)

\* The installer only runs on a machine without an installation, and what it
\* has not flushed yet is lost before anything else runs.
Fresh == pc \in InstallingSteps => NoneMarked

Volatile == dirty # {} => NoneMarked /\ pc \in InstallingSteps \cup {"panic"}

Started == pc \in StartSteps \cup {"systemd"} => Marked(root)

LifeInv == Fresh /\ Volatile /\ Started /\ OneInstallation

\* While it installs, nothing is marked and so nothing is completed.
LEMMA NothingCompleted ==
  ASSUME TypeOK, CompletedIsWhole, Fresh, pc \in InstallingSteps
  PROVE  NoneMarked /\ completed = {}
BY DEF Fresh, NoneMarked, CompletedIsWhole, TypeOK

\* The steps of the installer before the last leave the medium unmarked.
LEMMA InstallerStaysUnmarked ==
  ASSUME TypeOK, Chosen, NoneMarked, InstallerNext, ~Unmount
  PROVE  NoneMarked'
<1> USE DEF diskVars, choiceVars, historyVars, envVars, NoneMarked, Marked
<1>1. CASE ErasingStep
  <2>1. PICK S \in SUBSET Parts : Takes(S)
    BY <1>1, ErasingShape
  <2> QED
    BY <2>1 DEF Takes, Erased
<1>2. CASE SetupLang \/ SelectDisk \/ ConfirmEntireDisk \/ SelectRoot
           \/ NothingToSelect \/ ConfirmPartition \/ MountRoot \/ Refused
           \/ UserCancels \/ InstallStepFails \/ GrubInstallFails
  BY <1>2 DEF SetupLang, SelectDisk, ConfirmEntireDisk, SelectRoot, NothingToSelect,
     ConfirmPartition, MountRoot, Refused, UserCancels, InstallStepFails, GrubInstallFails
<1>3. CASE CopyRootfs \/ MakeSysconfig \/ SetupUsers \/ SetupHostname \/ SetupLocale
           \/ SetupNetwork \/ InstallBootFiles \/ InstallGrub \/ WriteGrubConfig
           \/ SetSysPerms
  BY <1>3 DEF CopyRootfs, MakeSysconfig, SetupUsers, SetupHostname, SetupLocale,
     SetupNetwork, InstallBootFiles, InstallGrub, WriteGrubConfig, SetSysPerms, Fill
<1> QED
  BY <1>1, <1>2, <1>3 DEF InstallerNext, ErasingStep

\* The steps of the installer start among the installing ones.
LEMMA InstallerPc ==
  ASSUME InstallerNext
  PROVE  /\ pc \in InstallingSteps
         /\ ~Unmount => pc' \in InstallingSteps \cup {"panic"}
BY DEF InstallerNext, SetupLang, SelectDisk, ConfirmEntireDisk, CreateUefiPartitions,
   CreateLegacyPartitions, ManualPartitioning, SelectRoot, NothingToSelect,
   ConfirmPartition, FormatEfi, FormatRoot, MountRoot, CopyRootfs, MakeSysconfig,
   SetupUsers, SetupHostname, SetupLocale, SetupNetwork, InstallBootFiles, InstallGrub,
   WriteGrubConfig, SetSysPerms, Refused, UserCancels, InstallStepFails,
   PartitioningFails, FormatFails, GrubInstallFails, Unmount, Fill, Goto, Panic,
   PromptSteps, FallibleSteps, InstallingSteps, InstallSteps

\* The last step marks the root, and only the root.
LEMMA UnmountMarksRoot ==
  ASSUME TypeOK, Chosen, NoneMarked, Unmount
  PROVE  /\ \A p \in Parts : p # root => ~Marked(p)'
         /\ root \in Parts
BY DEF Unmount, NoneMarked, Marked, Chosen, RootSteps, TypeOK, DiskTypeOK

\* Every step of start_system() leaves the disks, the cache and the root alone.
LEMMA StartIsQuiet ==
  ASSUME StartNext
  PROVE  /\ UNCHANGED <<diskVars, historyVars, root, dirty>>
         /\ pc \in StartSteps
         /\ pc' \in StartSteps \cup {"systemd", "panic"}
BY DEF StartNext, StartProgress, MountSystem, FstabIsOk, FstabIsMissing,
   InitHostname, GetVersion, VersionIsMissing, InitNetwork, NetworkFails, SwitchRoot,
   InitLogs, InitKeymaps, ExecSystemd, SystemdIsMissing, StartStepFails, StartStep,
   Needs, Lacks, Goto, Panic, choiceVars, diskVars, historyVars, StartSteps

\* A reset with nothing in the cache leaves the medium as it is; with something
\* in it, at most the root gets the marker.
LEMMA ResetMarks ==
  ASSUME TypeOK, Chosen, LifeInv, NEW next \in {"off", "post"}, Reset(next), UNCHANGED fs
  PROVE  /\ dirty = {} => UNCHANGED files
         /\ \A p \in Parts : p # root => UNCHANGED files[p]
         /\ \A p \in Parts : Marked(p) => Marked(p)'
<1>1. CASE root = NoPart
  BY <1>1 DEF Reset, Marked
<1>2. CASE root # NoPart
  <2>1. PICK S \in SUBSET dirty : files' = [files EXCEPT ![root] = @ \cup S]
    BY <1>2 DEF Reset, Survivors, FewApart
  <2> QED
    BY <2>1 DEF Marked, TypeOK, DiskTypeOK, RunTypeOK
<1> QED
  BY <1>1, <1>2

LEMMA ResetLifeInv ==
  ASSUME TypeOK, Chosen, LifeInv, NEW next \in {"off", "post"}, Reset(next), UNCHANGED fs
  PROVE  LifeInv'
<1>1. OneInstallation'
  <2>1. CASE dirty = {}
    BY <2>1, ResetMarks DEF LifeInv, OneInstallation, Marked
  <2>2. CASE dirty # {}
    BY <2>2, ResetMarks DEF LifeInv, Volatile, NoneMarked, OneInstallation, Marked
  <2> QED
    BY <2>1, <2>2
<1> QED
  BY <1>1 DEF Reset, LifeInv, Fresh, Volatile, Started, InstallingSteps, InstallSteps,
     StartSteps

LEMMA NextLifeInv ==
  ASSUME ~ProbeMayMiss, TypeOK, Chosen, CompletedIsWhole, LifeInv, [Next]_vars
  PROVE  LifeInv'
<1>1. CASE InstallerNext /\ ~Unmount
  <2>1. pc \in InstallingSteps /\ pc' \in InstallingSteps \cup {"panic"} /\ NoneMarked'
    BY <1>1, InstallerPc, InstallerStaysUnmarked DEF LifeInv, Fresh
  <2> QED
    BY <2>1 DEF LifeInv, Fresh, Volatile, Started, OneInstallation, NoneMarked,
       InstallingSteps, InstallSteps, StartSteps
<1>2. CASE Unmount
  <2>1. NoneMarked
    BY <1>2 DEF Unmount, LifeInv, Fresh, InstallingSteps, InstallSteps
  <2>2. OneInstallation'
    BY <1>2, <2>1, UnmountMarksRoot DEF OneInstallation
  <2> QED
    BY <1>2, <2>2 DEF Unmount, Goto, LifeInv, Fresh, Volatile, Started, InstallingSteps,
       InstallSteps, StartSteps
<1>3. CASE StartNext
  BY <1>3, StartIsQuiet DEF LifeInv, Fresh, Volatile, Started, OneInstallation, NoneMarked,
     Marked, diskVars, InstallingSteps, InstallSteps, StartSteps
<1>4. CASE StartInstaller
  BY <1>4 DEF StartInstaller, Detected, LifeInv, Fresh, Volatile, Started,
     OneInstallation, NoneMarked, Marked, diskVars, choiceVars, Goto, InstallingSteps,
     InstallSteps, StartSteps
<1>5. CASE StartInstalled
  BY <1>5 DEF StartInstalled, Detected, LifeInv, Fresh, Volatile, Started,
     OneInstallation, NoneMarked, Marked, diskVars, Goto, InstallingSteps, InstallSteps,
     StartSteps
<1>6. CASE PowerOn \/ BootKernel \/ MountFilesystems \/ PanicTick \/ UNCHANGED vars
  BY <1>6 DEF PowerOn, BootKernel, MountFilesystems, PanicTick, vars, LifeInv, Fresh,
     Volatile, Started, OneInstallation, NoneMarked, Marked, diskVars, choiceVars, Goto,
     Panic, InstallingSteps, InstallSteps, StartSteps
<1>7. CASE PanicPowerOff \/ RebootAfterInstall \/ PanicReboot \/ PowerLoss
  BY <1>7, ResetLifeInv DEF PanicPowerOff, RebootAfterInstall, PanicReboot, PowerLoss
<1>8. CASE SystemdShutdown
  <2>1. dirty = {} /\ UNCHANGED <<fs, files>>
    BY <1>8 DEF SystemdShutdown, LifeInv, Volatile, InstallingSteps, InstallSteps, TypeOK,
       DiskTypeOK
  <2> QED
    BY <1>8, <2>1 DEF SystemdShutdown, LifeInv, Fresh, Volatile, Started, OneInstallation,
       Marked, InstallingSteps, InstallSteps, StartSteps
<1> QED
  BY <1>1, <1>2, <1>3, <1>4, <1>5, <1>6, <1>7, <1>8 DEF Next, MainNext

\* The four invariants together, for a machine whose probe finds what is there.
LEMMA AllInvariants ==
  ASSUME ~ProbeMayMiss
  PROVE  Spec => [](TypeOK /\ Chosen /\ CompletedIsWhole /\ LifeInv)
<1>1. Init => LifeInv
  BY DEF Init, LifeInv, Fresh, Volatile, Started, OneInstallation, NoneMarked, Marked,
     InstallingSteps, InstallSteps, StartSteps
<1>2. Spec => [](TypeOK /\ Chosen)
  BY InitTypeOK, NextTypeOK, PTL DEF Spec
<1>3. TypeOK /\ Chosen /\ CompletedIsWhole /\ LifeInv /\ [Next]_vars => LifeInv'
  BY NextLifeInv
<1> QED
  BY <1>1, <1>2, <1>3, CompletedWhole, PTL DEF Spec

\* At most one partition is ever an installation, so the order in which the
\* partitions are probed cannot matter.
THEOREM OnlyOneInstallation ==
  ASSUME ~ProbeMayMiss
  PROVE  Spec => []OneInstallation
BY AllInvariants, PTL DEF LifeInv

\* No later boot takes anything from an installation.
THEOREM InstallationIsKept ==
  ASSUME ~ProbeMayMiss
  PROVE  Spec => InstallationKept
<1>1. ASSUME TypeOK, Chosen, CompletedIsWhole, LifeInv, [Next]_vars
      PROVE  \A p \in Parts : Marked(p) => Marked(p)' /\ files[p] \subseteq files'[p]
  <2>1. CASE InstallerNext
    BY <1>1, <2>1, InstallerPc DEF LifeInv, Fresh, NoneMarked
  <2>2. CASE StartNext
    BY <1>1, <2>2, StartIsQuiet DEF Marked, diskVars
  <2>3. CASE PowerOn \/ BootKernel \/ MountFilesystems \/ StartInstalled
             \/ StartInstaller \/ PanicTick \/ UNCHANGED vars
    BY <2>3 DEF PowerOn, BootKernel, MountFilesystems, StartInstalled, StartInstaller,
       PanicTick, vars, diskVars, Marked
  <2>4. CASE PanicPowerOff \/ RebootAfterInstall \/ PanicReboot \/ PowerLoss
             \/ SystemdShutdown
    BY <1>1, <2>4 DEF PanicPowerOff, RebootAfterInstall, PanicReboot, PowerLoss,
       SystemdShutdown, Reset, Marked, TypeOK, DiskTypeOK
  <2> QED
    BY <1>1, <2>1, <2>2, <2>3, <2>4 DEF Next, MainNext
<1> QED
  BY <1>1, AllInvariants, PTL DEF Spec, InstallationKept

-----------------------------------------------------------------------------
(* Machine implements SystemLife                                           *)

LEMMA RootIsNoSentinel == NoPart \notin Parts
BY SentinelAssumption

\* A step that moves no file and marks nothing leaves every image as it is.
LEMMA SameImages ==
  ASSUME UNCHANGED <<fs, files, completed>>
  PROVE  UNCHANGED Image
BY DEF Image, Marked

\* So does every step of the installer but the last: there is no image yet.
LEMMA InstallerSameImages ==
  ASSUME TypeOK, Chosen, CompletedIsWhole, LifeInv, InstallerNext, ~Unmount
  PROVE  UNCHANGED Image
<1>1. NoneMarked /\ completed = {}
  BY InstallerPc, NothingCompleted DEF LifeInv
<1>2. NoneMarked' /\ completed' = {}
  BY <1>1, InstallerStaysUnmarked, InstallerIsGentle DEF Gentle
<1> QED
  BY <1>1, <1>2 DEF Image, NoneMarked

\* The last step makes the root a whole image, where there was none.
LEMMA UnmountAppears ==
  ASSUME TypeOK, Chosen, CompletedIsWhole, LifeInv, Unmount
  PROVE  \E r \in Parts : Life!Appear(r)
<1>1. NoneMarked /\ completed = {} /\ pc = "umount"
  BY NothingCompleted DEF Unmount, LifeInv, InstallingSteps, InstallSteps
<1>2. root \in Parts /\ \A p \in Parts : p # root => ~Marked(p)'
  BY <1>1, UnmountMarksRoot
<1>3. Image = [p \in Parts |-> "none"]
  BY <1>1 DEF Image, NoneMarked
<1>4. Image' = [Image EXCEPT ![root] = "whole"]
  BY <1>1, <1>2, <1>3 DEF Image, Unmount
<1>5. Running = NoPart /\ UNCHANGED Running
  BY <1>1 DEF Running, Unmount, Goto, StartSteps
<1> QED
  BY <1>2, <1>3, <1>4, <1>5 DEF Life!Appear

\* A reset stops what runs; or it makes a partial image of an installation that
\* was under way; or it is not visible.
LEMMA ResetLives ==
  ASSUME TypeOK, Chosen, CompletedIsWhole, LifeInv, NEW next \in {"off", "post"},
         Reset(next), UNCHANGED <<fs, completed>>
  PROVE  Life!LifeNext \/ UNCHANGED <<Image, Running>>
<1>1. Running' = NoPart
  BY DEF Reset, Running, StartSteps
<1>2. CASE dirty = {}
  <2>1. UNCHANGED Image
    BY <1>2, ResetMarks, SameImages
  <2> QED
    BY <1>1, <2>1 DEF Life!LifeNext, Life!Stop
<1>3. CASE dirty # {}
  <2>1. NoneMarked /\ completed = {} /\ root \in Parts
    BY <1>3 DEF LifeInv, Volatile, NoneMarked, CompletedIsWhole, Chosen, TypeOK
  <2>2. Running = NoPart
    BY <1>3 DEF LifeInv, Volatile, Running, InstallingSteps, InstallSteps, StartSteps
  <2>3. Image = [p \in Parts |-> "none"]
    BY <2>1 DEF Image, NoneMarked
  <2> PICK r \in Parts : r = root
    BY <2>1
  <2>4. \A p \in Parts : p # r => ~Marked(p)'
    BY <2>1, ResetMarks DEF NoneMarked, Marked
  <2>5. CASE Marked(r)'
    <3>1. Image' = [Image EXCEPT ![r] = "partial"]
      BY <2>1, <2>3, <2>4, <2>5 DEF Image, Marked
    <3> QED
      BY <1>1, <2>1, <2>2, <2>3, <3>1 DEF Life!LifeNext, Life!Appear
  <2>6. CASE ~Marked(r)'
    <3>1. Image' = Image
      BY <2>1, <2>3, <2>4, <2>6 DEF Image, Marked
    <3> QED
      BY <1>1, <2>2, <3>1
  <2> QED
    BY <2>5, <2>6
<1> QED
  BY <1>2, <1>3

LEMMA NextLives ==
  ASSUME TypeOK, Chosen, CompletedIsWhole, LifeInv, [Next]_vars
  PROVE  Life!LifeNext \/ UNCHANGED <<Image, Running>>
<1>1. CASE InstallerNext /\ ~Unmount
  <2>1. UNCHANGED Running
    BY <1>1, InstallerPc DEF Running, InstallingSteps, InstallSteps, StartSteps
  <2> QED
    BY <1>1, <2>1, InstallerSameImages
<1>2. CASE Unmount
  BY <1>2, UnmountAppears DEF Life!LifeNext
<1>3. CASE StartNext
  <2>1. UNCHANGED Image
    BY <1>3, StartIsQuiet, SameImages DEF diskVars, historyVars
  <2>2. Running = root /\ Running' \in {root, NoPart}
    BY <1>3, StartIsQuiet DEF Running, StartSteps
  <2>3. root # NoPart
    BY <1>3, StartIsQuiet, RootIsNoSentinel DEF Chosen
  <2> QED
    BY <2>1, <2>2, <2>3 DEF Life!LifeNext, Life!Stop
<1>4. CASE StartInstalled
  <2>1. UNCHANGED Image
    BY <1>4, SameImages DEF StartInstalled, diskVars, historyVars
  <2>2. root' \in Parts /\ Marked(root')
    BY <1>4 DEF StartInstalled, Detected
  <2>3. Running = NoPart /\ Running' = root'
    BY <1>4 DEF StartInstalled, Goto, Running, StartSteps
  <2>4. Image[root'] # "none"
    BY <2>2 DEF Image
  <2> QED
    BY <2>1, <2>2, <2>3, <2>4 DEF Life!LifeNext, Life!Start
<1>5. CASE PowerOn \/ BootKernel \/ MountFilesystems \/ StartInstaller \/ PanicTick
           \/ UNCHANGED vars
  <2>1. UNCHANGED Image
    BY <1>5, SameImages DEF PowerOn, BootKernel, MountFilesystems, StartInstaller,
       PanicTick, vars, diskVars, historyVars
  <2>2. UNCHANGED Running
    BY <1>5 DEF PowerOn, BootKernel, MountFilesystems, StartInstaller, PanicTick, vars,
       choiceVars, Goto, Panic, Running, StartSteps
  <2> QED
    BY <2>1, <2>2
<1>6. CASE PanicPowerOff \/ RebootAfterInstall \/ PanicReboot \/ PowerLoss
  BY <1>6, ResetLives DEF PanicPowerOff, RebootAfterInstall, PanicReboot, PowerLoss
<1>7. CASE SystemdShutdown
  <2>1. UNCHANGED <<fs, files, completed>>
    BY <1>7 DEF SystemdShutdown, LifeInv, Volatile, InstallingSteps, InstallSteps, TypeOK,
       DiskTypeOK
  <2>2. Running = root /\ root # NoPart /\ Running' = NoPart
    BY <1>7, RootIsNoSentinel DEF SystemdShutdown, Running, Chosen, StartSteps
  <2> QED
    BY <2>1, <2>2, SameImages DEF Life!LifeNext, Life!Stop
<1> QED
  BY <1>1, <1>2, <1>3, <1>4, <1>5, <1>6, <1>7 DEF Next, MainNext

\* Refinement: over all its boots, a machine whose probe finds what is there
\* behaves as SystemLife promises.
THEOREM MachineImplementsLife ==
  ASSUME ~ProbeMayMiss
  PROVE  Spec => ImplementsLife
<1>1. Init => Life!LifeInit
  BY DEF Init, Life!LifeInit, Image, Running, Marked, StartSteps
<1>2. TypeOK /\ Chosen /\ CompletedIsWhole /\ LifeInv /\ [Next]_vars
        => [Life!LifeNext]_(Life!lifeVars)
  BY NextLives DEF Life!lifeVars
<1> QED
  BY <1>1, <1>2, AllInvariants, PTL DEF Spec, ImplementsLife, Life!LifeSpec

-----------------------------------------------------------------------------
(* A completed installation keeps its GRUB and has what the boot needs     *)

LoaderInv ==
  /\ pc \in {"grubcfg", "perms", "umount"} => \E d \in Disks : loader[d] = root
  /\ \A p \in completed : \E d \in Disks : loader[d] = p

\* The network step leaves a stanza for one of the machine's interfaces, which stays.
StanzaInv ==
  /\ pc \in {"bootfiles", "grub", "grubcfg", "perms", "umount"} => netconf[root] # NoConf
  /\ \A p \in completed : netconf[p] # NoConf

LEMMA NextLoaderInv ==
  ASSUME TypeOK, Chosen, CompletedIsWhole, LifeInv, LoaderInv, [Next]_vars
  PROVE  LoaderInv'
<1> USE DEF diskVars, choiceVars, historyVars, Goto, Panic
<1>1. CASE InstallGrub
  <2>1. completed = {} /\ UNCHANGED completed
    BY <1>1, NothingCompleted DEF InstallGrub, Fill, LifeInv, InstallingSteps, InstallSteps
  <2>2. parent_disk(device) \in Disks
    BY <1>1, ParentDisk DEF InstallGrub, Fill, TypeOK, RunTypeOK, Chosen, RootSteps
  <2> QED
    BY <1>1, <2>1, <2>2 DEF InstallGrub, Fill, TypeOK, DiskTypeOK, LoaderInv
<1>2. CASE WriteGrubConfig \/ SetSysPerms \/ Unmount
  BY <1>2 DEF WriteGrubConfig, SetSysPerms, Unmount, Fill, LoaderInv
<1>3. CASE InstallerNext /\ ~InstallGrub /\ ~WriteGrubConfig /\ ~SetSysPerms /\ ~Unmount
  <2>1. completed = {} /\ completed' = {}
    BY <1>3, InstallerPc, NothingCompleted, InstallerIsGentle DEF LifeInv, Gentle
  <2>2. pc' \notin {"grubcfg", "perms", "umount"}
    BY <1>3 DEF InstallerNext, SetupLang, SelectDisk, ConfirmEntireDisk,
       CreateUefiPartitions, CreateLegacyPartitions, ManualPartitioning, SelectRoot,
       NothingToSelect, ConfirmPartition, FormatEfi, FormatRoot, MountRoot, CopyRootfs,
       MakeSysconfig, SetupUsers, SetupHostname, SetupLocale, SetupNetwork,
       InstallBootFiles, Refused, UserCancels, InstallStepFails, PartitioningFails,
       FormatFails, GrubInstallFails, Fill
  <2> QED
    BY <2>1, <2>2 DEF LoaderInv
<1>4. CASE StartNext
  BY <1>4, StartIsQuiet DEF LoaderInv, StartSteps
<1>5. CASE PowerOn \/ BootKernel \/ MountFilesystems \/ StartInstalled
           \/ StartInstaller \/ PanicTick \/ UNCHANGED vars
  BY <1>5 DEF PowerOn, BootKernel, MountFilesystems, StartInstalled, StartInstaller,
     PanicTick, vars, LoaderInv
<1>6. CASE PanicPowerOff \/ RebootAfterInstall \/ PanicReboot \/ PowerLoss
           \/ SystemdShutdown
  BY <1>6 DEF PanicPowerOff, RebootAfterInstall, PanicReboot, PowerLoss, SystemdShutdown,
     Reset, LoaderInv
<1> QED
  BY <1>1, <1>2, <1>3, <1>4, <1>5, <1>6 DEF Next, MainNext

\* A completed installation can be booted for good: a GRUB that reads it is
\* installed, and its kernel, initramfs and grub.cfg are on the medium.
THEOREM CompletedBootable ==
  ASSUME ~ProbeMayMiss
  PROVE  Spec => []CompletedStaysBootable
<1>1. Init => LoaderInv
  BY DEF Init, LoaderInv
<1>2. TypeOK /\ Chosen /\ CompletedIsWhole /\ LifeInv /\ LoaderInv /\ [Next]_vars
        => LoaderInv'
  BY NextLoaderInv
<1>3. TypeOK /\ CompletedIsWhole /\ LoaderInv => CompletedStaysBootable
  BY RootIsNoSentinel DEF TypeOK, CompletedIsWhole, LoaderInv, CompletedStaysBootable,
     Bootable, Complete, File
<1> QED
  BY <1>1, <1>2, <1>3, AllInvariants, PTL DEF Spec

\* No step of the installer but two touches the stanza of a completed installation.
LEMMA StanzaStays ==
  ASSUME TypeOK, Chosen, InstallerNext, ~Unmount, ~SetupNetwork
  PROVE  \A p \in completed' : p \in completed /\ netconf'[p] = netconf[p]
<1> USE DEF diskVars, choiceVars, historyVars, envVars
<1>1. CASE SetupLang \/ SelectDisk \/ ConfirmEntireDisk \/ SelectRoot
           \/ NothingToSelect \/ ConfirmPartition \/ MountRoot \/ Refused
           \/ UserCancels \/ InstallStepFails \/ GrubInstallFails
  BY <1>1 DEF SetupLang, SelectDisk, ConfirmEntireDisk, SelectRoot, NothingToSelect,
     ConfirmPartition, MountRoot, Refused, UserCancels, InstallStepFails, GrubInstallFails
<1>2. CASE CopyRootfs \/ MakeSysconfig \/ SetupUsers \/ SetupHostname \/ SetupLocale
           \/ InstallBootFiles \/ InstallGrub \/ WriteGrubConfig \/ SetSysPerms
  BY <1>2 DEF CopyRootfs, MakeSysconfig, SetupUsers, SetupHostname, SetupLocale,
     InstallBootFiles, InstallGrub, WriteGrubConfig, SetSysPerms, Fill
<1>3. CASE ErasingStep
  <2>1. PICK S \in SUBSET Parts : Takes(S)
    BY <1>3, ErasingShape
  <2> QED
    BY <2>1 DEF Takes, Erased, TypeOK
<1> QED
  BY <1>1, <1>2, <1>3 DEF InstallerNext, ErasingStep

LEMMA NextStanzaInv ==
  ASSUME TypeOK, Chosen, StanzaInv, [Next]_vars
  PROVE  StanzaInv'
<1> USE DEF diskVars, choiceVars, historyVars, Goto, Panic
<1>1. CASE SetupNetwork
  <2>1. root \in Parts /\ UNCHANGED <<root, completed>>
    BY <1>1 DEF SetupNetwork, Fill, Chosen, RootSteps
  <2>2. \A p \in Parts : netconf'[p] = netconf[p] \/ netconf'[p] \in Nics \X Modes
    BY <1>1 DEF SetupNetwork, TypeOK, DiskTypeOK
  <2>3. netconf'[root] \in Nics \X Modes
    BY <1>1, <2>1 DEF SetupNetwork, TypeOK, DiskTypeOK
  <2> QED
    BY <2>1, <2>2, <2>3, SentinelAssumption DEF StanzaInv, TypeOK
<1>2. CASE Unmount
  BY <1>2 DEF Unmount, StanzaInv
<1>3. CASE InstallBootFiles \/ InstallGrub \/ WriteGrubConfig \/ SetSysPerms
  BY <1>3 DEF InstallBootFiles, InstallGrub, WriteGrubConfig, SetSysPerms, Fill, StanzaInv
<1>4. CASE InstallerNext /\ ~SetupNetwork /\ ~Unmount /\ ~InstallBootFiles /\ ~InstallGrub
           /\ ~WriteGrubConfig /\ ~SetSysPerms
  <2>1. \A p \in completed' : p \in completed /\ netconf'[p] = netconf[p]
    BY <1>4, StanzaStays
  <2>2. pc' \notin {"bootfiles", "grub", "grubcfg", "perms", "umount"}
    BY <1>4 DEF InstallerNext, SetupLang, SelectDisk, ConfirmEntireDisk,
       CreateUefiPartitions, CreateLegacyPartitions, ManualPartitioning, SelectRoot,
       NothingToSelect, ConfirmPartition, FormatEfi, FormatRoot, MountRoot, CopyRootfs,
       MakeSysconfig, SetupUsers, SetupHostname, SetupLocale, Refused, UserCancels,
       InstallStepFails, PartitioningFails, FormatFails, GrubInstallFails, Fill
  <2> QED
    BY <2>1, <2>2 DEF StanzaInv
<1>5. CASE StartNext
  BY <1>5, StartIsQuiet DEF StanzaInv, StartSteps
<1>6. CASE PowerOn \/ BootKernel \/ MountFilesystems \/ StartInstalled
           \/ StartInstaller \/ PanicTick \/ UNCHANGED vars
  BY <1>6 DEF PowerOn, BootKernel, MountFilesystems, StartInstalled, StartInstaller,
     PanicTick, vars, StanzaInv
<1>7. CASE PanicPowerOff \/ RebootAfterInstall \/ PanicReboot \/ PowerLoss
           \/ SystemdShutdown
  BY <1>7 DEF PanicPowerOff, RebootAfterInstall, PanicReboot, PowerLoss, SystemdShutdown,
     Reset, StanzaInv
<1> QED
  BY <1>1, <1>2, <1>3, <1>4, <1>5, <1>6, <1>7 DEF Next, MainNext

\* The boot of a completed installation cannot fail for lack of a file.
LEMMA NextNetworkOnly ==
  ASSUME TypeOK, Chosen, CompletedIsWhole, StanzaInv, CompletedFailsOnNetworkOnly, [Next]_vars
  PROVE  CompletedFailsOnNetworkOnly'
<1> USE DEF diskVars, choiceVars, historyVars, Goto, Panic, Lacks
<1>1. CASE FstabIsMissing \/ VersionIsMissing \/ SystemdIsMissing
  <2>1. root \notin completed
    BY <1>1 DEF FstabIsMissing, VersionIsMissing, SystemdIsMissing, HasFstab, HasVersion,
       HasSystemd, CompletedIsWhole, Visible, Complete, File
  <2> QED
    BY <1>1, <2>1 DEF FstabIsMissing, VersionIsMissing, SystemdIsMissing,
       CompletedFailsOnNetworkOnly
<1>2. CASE NetworkFails
  <2>1. UNCHANGED <<root, netconf, completed>>
    BY <1>2 DEF NetworkFails
  <2>2. ASSUME root \in completed
        PROVE  netconf[root][2] # "dhcp" \/ \E nic \in Nics : nic # netconf[root][1]
    <3>1. "applets" \in Visible(root) /\ "interfaces" \in Visible(root)
      BY <2>2 DEF CompletedIsWhole, Visible, Complete, File
    <3>2. netconf[root] # NoConf /\ root \in Parts
      BY <2>2 DEF StanzaInv, TypeOK
    <3>3. Nics # {}
      BY <3>2 DEF TypeOK, DiskTypeOK, NetConf
    <3>4. PICK nic \in Nics : ~IfupCanSucceed(nic)
      BY <1>2, <3>1, <3>3 DEF NetworkFails, NetworkReady
    <3> QED
      BY <3>1, <3>2, <3>4 DEF IfupCanSucceed, HasStanza
  <2> QED
    BY <2>1, <2>2 DEF CompletedFailsOnNetworkOnly
<1>3. CASE StartProgress /\ ~FstabIsMissing /\ ~VersionIsMissing /\ ~SystemdIsMissing
           /\ ~NetworkFails
  BY <1>3 DEF StartProgress, MountSystem, FstabIsOk, InitHostname, GetVersion,
     InitNetwork, SwitchRoot, InitLogs, InitKeymaps, ExecSystemd, StartStep, Needs,
     CompletedFailsOnNetworkOnly
<1>4. CASE StartStepFails \/ MountFilesystems
  BY <1>4 DEF StartStepFails, MountFilesystems, CompletedFailsOnNetworkOnly
<1>5. CASE InstallerNext
  <2>1. pc' = "panic" => cause' # "content"
    BY <1>5 DEF InstallerNext, SetupLang, SelectDisk, ConfirmEntireDisk,
       CreateUefiPartitions, CreateLegacyPartitions, ManualPartitioning, SelectRoot,
       NothingToSelect, ConfirmPartition, FormatEfi, FormatRoot, MountRoot, CopyRootfs,
       MakeSysconfig, SetupUsers, SetupHostname, SetupLocale, SetupNetwork,
       InstallBootFiles, InstallGrub, WriteGrubConfig, SetSysPerms, Unmount, Refused,
       UserCancels, InstallStepFails, PartitioningFails, FormatFails, GrubInstallFails,
       Fill
  <2> QED
    BY <2>1 DEF CompletedFailsOnNetworkOnly
<1>6. CASE PanicTick \/ UNCHANGED vars
  BY <1>6 DEF PanicTick, vars, CompletedFailsOnNetworkOnly
<1>7. CASE PowerOn \/ BootKernel \/ StartInstalled \/ StartInstaller \/ PanicPowerOff
           \/ RebootAfterInstall \/ PanicReboot \/ PowerLoss \/ SystemdShutdown
  BY <1>7 DEF PowerOn, BootKernel, StartInstalled, StartInstaller, PanicPowerOff,
     RebootAfterInstall, PanicReboot, PowerLoss, SystemdShutdown, Reset,
     CompletedFailsOnNetworkOnly
<1> QED
  BY <1>1, <1>2, <1>3, <1>4, <1>5, <1>6, <1>7 DEF Next, MainNext, StartNext

\* Whatever start_system() misses in a completed installation, it is that its stanza
\* is static or that the machine has a second interface.
THEOREM NetworkIsTheOnlyGap == Spec => []CompletedFailsOnNetworkOnly
<1>1. Init => StanzaInv /\ CompletedFailsOnNetworkOnly
  BY DEF Init, StanzaInv, CompletedFailsOnNetworkOnly
<1>2. Spec => [](TypeOK /\ Chosen)
  BY InitTypeOK, NextTypeOK, PTL DEF Spec
<1>3. Init => WholeInv
  BY DEF Init, WholeInv, Progress, FillSteps, CompletedIsWhole
<1>4. Spec => []WholeInv
  BY <1>2, <1>3, NextWhole, PTL DEF Spec
<1>5. WholeInv => CompletedIsWhole
  BY DEF WholeInv
<1>6. Spec => [](TypeOK /\ StanzaInv)
  BY <1>1, <1>2, NextStanzaInv, PTL DEF Spec
<1> QED
  BY <1>1, <1>2, <1>4, <1>5, <1>6, NextNetworkOnly, PTL DEF Spec

LEMMA StanzaAlways == Spec => [](TypeOK /\ Chosen /\ StanzaInv /\ CompletedFailsOnNetworkOnly)
<1>1. Init => StanzaInv
  BY DEF Init, StanzaInv
<1>2. Spec => [](TypeOK /\ Chosen)
  BY InitTypeOK, NextTypeOK, PTL DEF Spec
<1> QED
  BY <1>1, <1>2, NextStanzaInv, NetworkIsTheOnlyGap, PTL DEF Spec

\* With one interface and DHCP a completed installation always gets to systemd, unless
\* a system call or an external command fails.  Without the two assumptions it does
\* not, as the run of MCMachineNoBoot.cfg finds.
THEOREM OneInterfaceBoots ==
  ASSUME NEW nic, Nics = {nic}, Modes = {"dhcp"}
  PROVE  Spec => []CompletedBoots
<1>1. TypeOK /\ Chosen /\ StanzaInv /\ CompletedFailsOnNetworkOnly => CompletedBoots
  <2> SUFFICES ASSUME TypeOK, StanzaInv, CompletedFailsOnNetworkOnly,
                      pc = "panic", cause = "content", root \in completed
               PROVE  FALSE
    BY DEF CompletedBoots
  <2>1. netconf[root] \in {nic} \X {"dhcp"}
    BY DEF TypeOK, DiskTypeOK, NetConf, StanzaInv
  <2> QED
    BY <2>1 DEF CompletedFailsOnNetworkOnly
<1> QED
  BY <1>1, StanzaAlways, PTL

-----------------------------------------------------------------------------
(* What systemd is started on                                              *)

FromFstab   == {"init_hostname", "version", "init_network", "switch_root", "init_logs",
                "keymaps", "exec", "systemd"}
FromVersion == FromFstab \ {"init_hostname", "version"}
FromNetwork == FromVersion \ {"init_network"}

\* What start_system() has seen by each step.  Nothing is in the page cache alone, as
\* only the installer leaves something there.
Checked ==
  /\ pc \in StartSteps \cup (MachineSteps \ {"panic"}) => dirty = {}
  /\ pc \in StartSteps \cup {"systemd"} => root \in Parts /\ Marked(root)
  /\ pc \in FromFstab => "fstab" \in files[root]
  /\ pc \in FromVersion => "version" \in files[root]
  /\ pc \in FromNetwork => /\ {"applets", "interfaces"} \subseteq files[root]
                           /\ Nics # {} /\ \A nic \in Nics : netconf[root] = <<nic, "dhcp">>
  /\ pc = "systemd" => "systemd" \in files[root]

LEMMA CheckedStart == ASSUME TypeOK, Checked, StartNext PROVE Checked'
<1> USE DEF Goto, Panic, diskVars, choiceVars, StartStep, Needs, Lacks, FromFstab, FromVersion,
            FromNetwork
<1>1. UNCHANGED <<fs, files, netconf, root, dirty>>
  BY DEF StartNext, StartProgress, MountSystem, FstabIsOk, FstabIsMissing, InitHostname,
         GetVersion, VersionIsMissing, InitNetwork, NetworkFails, SwitchRoot, InitLogs,
         InitKeymaps, ExecSystemd, SystemdIsMissing, StartStepFails
<1>2. dirty = {} /\ root \in Parts /\ Marked(root) /\ Visible(root) = files[root]
  BY DEF Checked, StartNext, StartProgress, MountSystem, FstabIsOk, FstabIsMissing, InitHostname,
         GetVersion, VersionIsMissing, InitNetwork, NetworkFails, SwitchRoot, InitLogs,
         InitKeymaps, ExecSystemd, SystemdIsMissing, StartStepFails, StartSteps, Visible
<1>3. Marked(root)'
  BY <1>1, <1>2 DEF Marked
<1>4. CASE MountSystem \/ InitHostname \/ SwitchRoot \/ InitLogs \/ InitKeymaps
  BY <1>1, <1>2, <1>3, <1>4 DEF Checked, MountSystem, InitHostname, SwitchRoot, InitLogs,
     InitKeymaps
<1>5. CASE FstabIsOk \/ GetVersion \/ ExecSystemd
  BY <1>1, <1>2, <1>3, <1>5 DEF Checked, FstabIsOk, GetVersion, ExecSystemd, HasFstab,
     HasVersion, HasSystemd
<1>6. CASE InitNetwork
  <2>1. {"applets", "interfaces"} \subseteq files[root] /\ Nics # {}
    BY <1>2, <1>6 DEF InitNetwork, NetworkReady, IfupCanSucceed, HasStanza
  <2>2. ASSUME NEW nic \in Nics PROVE netconf[root] = <<nic, "dhcp">>
    <3>1. netconf[root] # NoConf /\ netconf[root][1] = nic /\ netconf[root][2] = "dhcp"
      BY <1>6 DEF InitNetwork, NetworkReady, IfupCanSucceed, HasStanza
    <3>2. netconf[root] \in Nics \X Modes
      BY <1>2, <3>1 DEF TypeOK, DiskTypeOK, NetConf
    <3> QED
      BY <3>1, <3>2
  <2>3. pc = "init_network" /\ pc' = "switch_root"
    BY <1>6 DEF InitNetwork
  <2> QED
    BY <1>1, <1>2, <1>3, <2>1, <2>2, <2>3 DEF Checked
<1>7. CASE FstabIsMissing \/ VersionIsMissing \/ NetworkFails \/ SystemdIsMissing
           \/ StartStepFails
  <2>1. pc' = "panic"
    BY <1>7 DEF FstabIsMissing, VersionIsMissing, NetworkFails, SystemdIsMissing, StartStepFails
  <2> QED
    BY <2>1 DEF Checked, StartSteps
<1> QED
  BY <1>4, <1>5, <1>6, <1>7 DEF StartNext, StartProgress

LEMMA CheckedNext == ASSUME TypeOK, Checked, [Next]_vars PROVE Checked'
<1> USE DEF Goto, Panic, diskVars, choiceVars, envVars, FromFstab, FromVersion, FromNetwork,
            StartSteps, MachineSteps
<1>1. CASE InstallerNext
  <2>1. pc' \in InstallSteps \cup {"panic"}
    BY <1>1 DEF InstallerNext, SetupLang, SelectDisk, ConfirmEntireDisk,
       CreateUefiPartitions, CreateLegacyPartitions, ManualPartitioning, SelectRoot,
       NothingToSelect, ConfirmPartition, FormatEfi, FormatRoot, MountRoot, CopyRootfs,
       MakeSysconfig, SetupUsers, SetupHostname, SetupLocale, SetupNetwork,
       InstallBootFiles, InstallGrub, WriteGrubConfig, SetSysPerms, Unmount, Refused,
       UserCancels, InstallStepFails, PartitioningFails, FormatFails, GrubInstallFails,
       Fill, InstallSteps
  <2> QED
    BY <2>1 DEF Checked, InstallSteps
<1>2. CASE StartInstalled
  BY <1>2 DEF StartInstalled, Detected, Checked, Marked
<1>3. CASE PowerOn \/ BootKernel \/ MountFilesystems \/ StartInstaller \/ PanicTick
  BY <1>3 DEF PowerOn, BootKernel, MountFilesystems, StartInstaller, PanicTick, Checked
<1>4. CASE PanicPowerOff \/ RebootAfterInstall \/ PanicReboot \/ PowerLoss \/ SystemdShutdown
  <2>1. pc' \in {"off", "post"} /\ dirty' = {}
    BY <1>4 DEF PanicPowerOff, RebootAfterInstall, PanicReboot, PowerLoss, SystemdShutdown, Reset
  <2> QED
    BY <2>1 DEF Checked
<1>5. CASE UNCHANGED vars
  BY <1>5 DEF vars, Checked, Marked
<1> QED
  BY <1>1, <1>2, <1>3, <1>4, <1>5, CheckedStart DEF Next, MainNext

\* For any disks, interfaces and interruptions: systemd never runs on a root that lacks
\* a path start_system() looked at, or whose stanza leaves an interface out.
THEOREM SystemdHasItsRoot == Spec => []StartedIsUsable
<1>1. Init => Checked
  BY DEF Init, Checked, StartSteps, FromFstab, FromVersion, FromNetwork
<1>2. Checked => StartedIsUsable
  BY DEF Checked, StartedIsUsable, Marked, Complete, File, FromFstab, FromVersion, FromNetwork
<1> QED
  BY <1>1, <1>2, TypeCorrect, CheckedNext, PTL DEF Spec

-----------------------------------------------------------------------------
(* Every boot ends                                                         *)

\* What the steps that are still possible look like from each step.
LEMMA InstallerMovesOn ==
  ASSUME TypeOK, InstallerNext
  PROVE  Remaining' < Remaining
<1> USE BoundAssumption
    DEF diskVars, choiceVars, historyVars, envVars, Goto, Panic, Remaining, StepsAhead
<1>0. countdown \in Nat /\ Countdown \in Nat
  BY DEF TypeOK, RunTypeOK
<1>1. CASE SetupLang \/ SelectDisk \/ ConfirmEntireDisk \/ CreateUefiPartitions
           \/ CreateLegacyPartitions \/ ManualPartitioning \/ SelectRoot
  BY <1>0, <1>1 DEF SetupLang, SelectDisk, ConfirmEntireDisk, CreateUefiPartitions,
     CreateLegacyPartitions, ManualPartitioning, SelectRoot
<1>2. CASE NothingToSelect \/ ConfirmPartition \/ FormatEfi \/ FormatRoot \/ MountRoot
           \/ Unmount
  BY <1>0, <1>2 DEF NothingToSelect, ConfirmPartition, FormatEfi, FormatRoot, MountRoot,
     Unmount
<1>3. CASE CopyRootfs \/ MakeSysconfig \/ SetupUsers \/ SetupHostname \/ SetupLocale
           \/ SetupNetwork \/ InstallBootFiles \/ InstallGrub \/ WriteGrubConfig
           \/ SetSysPerms
  BY <1>0, <1>3 DEF CopyRootfs, MakeSysconfig, SetupUsers, SetupHostname, SetupLocale,
     SetupNetwork, InstallBootFiles, InstallGrub, WriteGrubConfig, SetSysPerms, Fill
<1>4. CASE Refused \/ UserCancels \/ InstallStepFails \/ PartitioningFails
           \/ FormatFails \/ GrubInstallFails
  BY <1>0, <1>4 DEF Refused, UserCancels, PromptSteps, InstallStepFails, FallibleSteps,
     PartitioningFails, FormatFails, GrubInstallFails
<1> QED
  BY <1>1, <1>2, <1>3, <1>4 DEF InstallerNext

LEMMA StartMovesOn ==
  ASSUME TypeOK, StartNext
  PROVE  Remaining' < Remaining
<1> USE BoundAssumption
    DEF Goto, Panic, StartStep, Needs, Lacks, Remaining, StepsAhead
<1>0. countdown \in Nat /\ Countdown \in Nat
  BY DEF TypeOK, RunTypeOK
<1>1. CASE MountSystem \/ FstabIsOk \/ FstabIsMissing \/ InitHostname \/ GetVersion
           \/ VersionIsMissing \/ InitNetwork \/ NetworkFails
  BY <1>0, <1>1 DEF MountSystem, FstabIsOk, FstabIsMissing, InitHostname, GetVersion,
     VersionIsMissing, InitNetwork, NetworkFails
<1>2. CASE SwitchRoot \/ InitLogs \/ InitKeymaps \/ ExecSystemd \/ SystemdIsMissing
           \/ StartStepFails
  BY <1>0, <1>2 DEF SwitchRoot, InitLogs, InitKeymaps, ExecSystemd, SystemdIsMissing,
     StartStepFails, StartSteps
<1> QED
  BY <1>1, <1>2 DEF StartNext, StartProgress

LEMMA StepMovesOn ==
  ASSUME TypeOK, Next, Remaining > 0
  PROVE  Remaining' < Remaining
<1> USE BoundAssumption DEF Goto, Panic, Remaining, StepsAhead
<1>0. countdown \in Nat /\ Countdown \in Nat
  BY DEF TypeOK, RunTypeOK
<1>1. CASE PowerOn \/ BootKernel
  BY <1>1 DEF PowerOn, BootKernel
<1>2. CASE MountFilesystems \/ StartInstalled \/ StartInstaller \/ PanicTick
  BY <1>0, <1>2 DEF MountFilesystems, StartInstalled, StartInstaller, PanicTick
<1>3. CASE PanicPowerOff \/ RebootAfterInstall \/ PanicReboot \/ PowerLoss
           \/ SystemdShutdown
  <2>1. Remaining' = 0
    BY <1>3 DEF PanicPowerOff, RebootAfterInstall, PanicReboot, PowerLoss,
       SystemdShutdown, Reset
  <2> QED
    BY <2>1
<1> QED
  BY <1>1, <1>2, <1>3, InstallerMovesOn, StartMovesOn DEF Next, MainNext

\* senbit-init never goes round in circles: from the start of the kernel on, it takes
\* at most Countdown + 22 steps.  With its fairness this is why PanicEnds and
\* BootSettles hold, for any Countdown.
THEOREM BootsAreFinite == Spec => EveryBootEnds
<1>1. TypeOK /\ [Next]_vars => [Remaining > 0 => Remaining' < Remaining]_vars
  BY StepMovesOn
<1> QED
  BY <1>1, TypeCorrect, PTL DEF Spec, EveryBootEnds
=============================================================================
