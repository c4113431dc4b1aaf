---------------------------- MODULE MachineProofs ----------------------------
(***************************************************************************)
(* Theorems about Machine, for any disks, interfaces, layouts and bounds.  *)
(***************************************************************************)
EXTENDS Machine, TLAPS

-----------------------------------------------------------------------------
(* Partitions                                                              *)

\* partition_path() names a partition of the disk it is given.
LEMMA PartitionPath ==
  ASSUME NEW d \in Disks, NEW n \in Slots
  PROVE  partition_path(d, n) \in PartsOf(d)
BY DEF partition_path, PartsOf

LEMMA PartsOfInParts ==
  ASSUME NEW d \in Disks
  PROVE  PartsOf(d) \subseteq Parts
BY DEF PartsOf, Parts

LEMMA ParentDisk ==
  ASSUME NEW dev \in Disks \cup Parts
  PROVE  parent_disk(dev) \in Disks
BY DEF parent_disk, Parts

-----------------------------------------------------------------------------
(* Type correctness                                                        *)

\* The steps of the installer that have a root to work on.
RootSteps == { "format_efi", "format_root", "mount", "copy", "sysconfig", "users",
               "hostname", "locale", "network", "bootfiles", "grub", "grubcfg",
               "perms", "umount", "installed" }

\* What the choices made so far say about device, root and esp.
Chosen ==
  /\ pc \in {"confirm_disk", "partition", "fdisk"} => device \in Disks
  /\ pc = "confirm_part" => device \in Parts
  /\ pc = "select_root" \/ pc \in RootSteps => device # NoDisk
  /\ pc \in RootSteps => root \in Parts
  /\ pc = "format_efi" => esp \in Parts
  /\ pc \in StartSteps \cup {"systemd"} => root \in Parts
  /\ dirty # {} => root \in Parts

LEMMA InitTypeOK == Init => TypeOK /\ Chosen
<1> SUFFICES ASSUME Init PROVE TypeOK /\ Chosen
  OBVIOUS
<1>1. PICK lay \in [Disks -> Layouts] :
       /\ table = [d \in Disks |-> lay[d].table]
       /\ fs = [p \in Parts |-> lay[p[1]].fs[p[2]]]
       /\ flag = [p \in Parts |-> lay[p[1]].flag[p[2]]]
       /\ files = [p \in Parts |-> IF lay[p[1]].fs[p[2]] = "ext4" THEN {"data"} ELSE {}]
  BY DEF Init
<1>2. \A p \in Parts : p[1] \in Disks /\ p[2] \in Slots
  BY DEF Parts
<1>3. \A d \in Disks : LayoutOK(lay[d])
  BY LayoutAssumption
<1>4. table \in [Disks -> {"none", "gpt", "msdos"}]
  BY <1>1, <1>3 DEF LayoutOK
<1>5. fs \in [Parts -> {"absent", "raw", "ext4", "vfat"}]
  BY <1>1, <1>2, <1>3 DEF LayoutOK
<1>6. flag \in [Parts -> {"none", "esp", "bios_grub"}]
  BY <1>1, <1>2, <1>3 DEF LayoutOK
<1>7. files \in [Parts -> SUBSET File]
  BY <1>1 DEF File
<1>8. TypeOK
  <2>1. /\ netconf \in [Parts -> NetConf]
        /\ loader \in [Disks -> Parts \cup {NoPart}]
    BY DEF Init, NetConf
  <2>2. pc \in Steps
    BY DEF Init, Steps, MachineSteps
  <2>3. countdown \in 0..Countdown /\ boots \in 0..MaxBoots
    BY BoundAssumption DEF Init
  <2>4. /\ firmware \in {"efi", "legacy"} /\ iso \in BOOLEAN
        /\ device \in Disks \cup Parts \cup {NoDisk}
        /\ root \in Parts \cup {NoPart} /\ esp \in Parts \cup {NoPart}
        /\ dirty \in SUBSET File
        /\ cause \in {"none", "fault", "cancel", "refused", "content"}
        /\ consent \in SUBSET Parts /\ completed \in SUBSET Parts
    BY DEF Init
  <2> QED
    BY <1>4, <1>5, <1>6, <1>7, <2>1, <2>2, <2>3, <2>4 DEF TypeOK, DiskTypeOK, RunTypeOK
<1>9. Chosen
  BY DEF Init, Chosen, RootSteps, StartSteps
<1> QED
  BY <1>8, <1>9

LEMMA ErasedTypeOK ==
  ASSUME TypeOK, NEW S, Erased(S)
  PROVE  /\ files' \in [Parts -> SUBSET File]
         /\ netconf' \in [Parts -> NetConf]
         /\ completed' \in SUBSET Parts
BY DEF Erased, TypeOK, DiskTypeOK, NetConf

\* Repartitioning a disk keeps the types.
LEMMA CreatePartitionsTypeOK ==
  ASSUME TypeOK, device \in Disks, NEW first \in {"esp", "bios_grub"},
         CreatePartitions(first)
  PROVE  DiskTypeOK' /\ completed' \in SUBSET Parts
<1>1. partition_path(device, 1) \in Parts /\ partition_path(device, 2) \in Parts
  BY PartitionPath, PartsOfInParts DEF Slots
<1>2. table' \in [Disks -> {"none", "gpt", "msdos"}]
  BY DEF CreatePartitions, TypeOK, DiskTypeOK
<1>3. flag' \in [Parts -> {"none", "esp", "bios_grub"}]
  BY <1>1 DEF CreatePartitions, TypeOK, DiskTypeOK
<1>4. /\ fs' \in [Parts -> {"absent", "raw", "ext4", "vfat"}]
      /\ files' \in [Parts -> SUBSET File]
      /\ netconf' \in [Parts -> NetConf]
      /\ completed' \in SUBSET Parts
  <2>1. PICK keep \in SUBSET {p \in PartsOf(device) : fs[p] # "absent"} :
          /\ fs' = [p \in Parts |-> IF p \in PartsOf(device) \ keep THEN "raw" ELSE fs[p]]
          /\ Erased(PartsOf(device) \ keep)
    BY DEF CreatePartitions
  <2> QED
    BY <2>1, ErasedTypeOK DEF TypeOK, DiskTypeOK
<1>5. loader' \in [Disks -> Parts \cup {NoPart}]
  BY DEF CreatePartitions, TypeOK, DiskTypeOK
<1> QED
  BY <1>1, <1>2, <1>3, <1>4, <1>5 DEF DiskTypeOK

\* A step of the installer keeps the types and what the choices say.
LEMMA InstallerTypeOK == TypeOK /\ Chosen /\ InstallerNext => TypeOK' /\ Chosen'
<1> SUFFICES ASSUME TypeOK, Chosen, InstallerNext PROVE TypeOK' /\ Chosen'
  OBVIOUS
<1> USE BoundAssumption, SentinelAssumption
    DEF diskVars, choiceVars, historyVars, envVars, Goto, Panic
<1>1. CASE SetupLang \/ SelectDisk \/ NothingToSelect \/ ConfirmPartition
  BY <1>1 DEF SetupLang, SelectDisk, NothingToSelect, ConfirmPartition,
     TypeOK, DiskTypeOK, RunTypeOK, Chosen, Steps, InstallSteps, StartSteps, MachineSteps, RootSteps
<1>2. CASE ConfirmEntireDisk
  <2>1. PartsOf(device) \subseteq Parts
    BY <1>2, PartsOfInParts DEF ConfirmEntireDisk, Chosen
  <2> QED
    BY <1>2, <2>1 DEF ConfirmEntireDisk, TypeOK, DiskTypeOK, RunTypeOK, Chosen,
       Steps, InstallSteps, StartSteps, RootSteps
<1>3. CASE CreateUefiPartitions
  <2>1. DiskTypeOK' /\ completed' \in SUBSET Parts
    BY <1>3, CreatePartitionsTypeOK DEF CreateUefiPartitions, Chosen
  <2>2. esp' \in Parts /\ root' \in Parts
    BY <1>3, PartitionPath, PartsOfInParts DEF CreateUefiPartitions, Chosen, Slots
  <2> QED
    BY <1>3, <2>1, <2>2 DEF CreateUefiPartitions, TypeOK, RunTypeOK, Chosen,
       Steps, InstallSteps, StartSteps, RootSteps
<1>4. CASE CreateLegacyPartitions
  <2>1. DiskTypeOK' /\ completed' \in SUBSET Parts
    BY <1>4, CreatePartitionsTypeOK DEF CreateLegacyPartitions, Chosen
  <2>2. root' \in Parts
    BY <1>4, PartitionPath, PartsOfInParts DEF CreateLegacyPartitions, Chosen, Slots
  <2> QED
    BY <1>4, <2>1, <2>2 DEF CreateLegacyPartitions, TypeOK, RunTypeOK, Chosen,
       Steps, InstallSteps, StartSteps, RootSteps
<1>5. CASE ManualPartitioning
  <2>1. PICK gone \in SUBSET PartsOf(device), fresh \in SUBSET PartsOf(device),
             f \in {"none", "esp", "bios_grub"}, t \in {"gpt", "msdos", table[device]} :
          Fdisk(gone, fresh, f, t)
    BY <1>5 DEF ManualPartitioning
  <2>2. device \in Disks /\ gone \subseteq Parts
    BY <1>5, PartsOfInParts DEF ManualPartitioning, Chosen
  <2>3. DiskTypeOK' /\ completed' \in SUBSET Parts
    BY <2>1, <2>2, ErasedTypeOK DEF Fdisk, TypeOK, DiskTypeOK
  <2>4. RunTypeOK' /\ Chosen'
    BY <1>5, <2>2 DEF ManualPartitioning, TypeOK, RunTypeOK, Chosen,
       Steps, InstallSteps, StartSteps, MachineSteps, RootSteps
  <2> QED
    BY <2>1, <2>2, <2>3, <2>4 DEF Fdisk, TypeOK
<1>6. CASE SelectRoot
  BY <1>6 DEF SelectRoot,
     TypeOK, DiskTypeOK, RunTypeOK, Chosen, Steps, InstallSteps, StartSteps, MachineSteps, RootSteps
<1>7. CASE FormatEfi \/ FormatRoot \/ FormatFails
  <2>1. ASSUME NEW p \in Parts, NEW t \in {"ext4", "vfat", "raw"},
               fs' = [fs EXCEPT ![p] = t], Erased({p})
        PROVE  DiskTypeOK' /\ completed' \in SUBSET Parts
    BY <1>7, <2>1, ErasedTypeOK DEF FormatEfi, FormatRoot, FormatFails, TypeOK, DiskTypeOK
  <2>2. ASSUME UNCHANGED <<fs, files, netconf, completed>>
        PROVE  DiskTypeOK' /\ completed' \in SUBSET Parts
    BY <1>7, <2>2 DEF FormatEfi, FormatRoot, FormatFails, TypeOK, DiskTypeOK
  <2>3. DiskTypeOK' /\ completed' \in SUBSET Parts
    BY <1>7, <2>1, <2>2 DEF FormatEfi, FormatRoot, FormatFails, Chosen, RootSteps
  <2> QED
    BY <1>7, <2>3 DEF FormatEfi, FormatRoot, FormatFails, TypeOK, RunTypeOK, Chosen,
       Steps, InstallSteps, StartSteps, MachineSteps, RootSteps
<1>8. CASE MountRoot \/ CopyRootfs \/ MakeSysconfig \/ SetupUsers \/ SetupHostname \/ SetupLocale \/ InstallBootFiles \/ WriteGrubConfig \/ SetSysPerms
  BY <1>8 DEF MountRoot, CopyRootfs, MakeSysconfig, SetupUsers, SetupHostname, SetupLocale, InstallBootFiles, WriteGrubConfig, SetSysPerms,
     Fill, Writes, TypeOK, DiskTypeOK, RunTypeOK, Chosen, File, Steps, InstallSteps, StartSteps, MachineSteps, RootSteps
<1>9. CASE SetupNetwork
  BY <1>9 DEF SetupNetwork,
     Fill, Writes, TypeOK, DiskTypeOK, RunTypeOK, Chosen, NetConf, File, Steps, InstallSteps, StartSteps, MachineSteps, RootSteps
<1>10. CASE InstallGrub \/ GrubInstallFails
  <2>1. parent_disk(device) \in Disks
    BY <1>10, ParentDisk DEF InstallGrub, GrubInstallFails, Fill, TypeOK, RunTypeOK, Chosen, RootSteps
  <2> QED
    BY <1>10, <2>1 DEF InstallGrub, GrubInstallFails, Fill, Writes, TypeOK, DiskTypeOK,
       RunTypeOK, Chosen, File, Steps, InstallSteps, StartSteps, MachineSteps, RootSteps
<1>11. CASE Unmount
  BY <1>11 DEF Unmount,
     TypeOK, DiskTypeOK, RunTypeOK, Chosen, Steps, InstallSteps, StartSteps, MachineSteps, RootSteps
<1>12. CASE Refused \/ UserCancels
  BY <1>12 DEF Refused, UserCancels,
     PromptSteps, TypeOK, DiskTypeOK, RunTypeOK, Chosen, Steps, InstallSteps, StartSteps, MachineSteps, RootSteps
<1>13. CASE InstallStepFails
  <2>1. PICK S \in PartlyWritten(pc) : dirty' = dirty \cup S
    BY <1>13 DEF InstallStepFails
  <2>2. S \in SUBSET File /\ (S # {} => root \in Parts)
    BY <2>1 DEF PartlyWritten, FewApart, Writes, File, Chosen, RootSteps
  <2> QED
    BY <1>13, <2>1, <2>2 DEF InstallStepFails, TypeOK, DiskTypeOK, RunTypeOK, Chosen,
       Steps, StartSteps, MachineSteps, RootSteps
<1>14. CASE PartitioningFails
  <2>1. DiskTypeOK' /\ completed' \in SUBSET Parts
    <3>1. CASE \E first \in {"esp", "bios_grub"} : CreatePartitions(first)
      BY <1>14, <3>1, CreatePartitionsTypeOK DEF PartitioningFails, Chosen
    <3>2. CASE ~\E first \in {"esp", "bios_grub"} : CreatePartitions(first)
      BY <1>14, <3>2, ErasedTypeOK DEF PartitioningFails, Wiped, TypeOK, DiskTypeOK
    <3> QED
      BY <3>1, <3>2
  <2> QED
    BY <1>14, <2>1 DEF PartitioningFails, TypeOK, RunTypeOK, Chosen,
       Steps, StartSteps, MachineSteps, RootSteps
<1> QED
  BY <1>1, <1>2, <1>3, <1>4, <1>5, <1>6, <1>7, <1>8, <1>9, <1>10, <1>11, <1>12, <1>13, <1>14 DEF InstallerNext

\* start_system() changes nothing but the step it is at.
LEMMA StartTypeOK == TypeOK /\ Chosen /\ StartNext => TypeOK' /\ Chosen'
<1> SUFFICES ASSUME TypeOK, Chosen, StartNext PROVE TypeOK' /\ Chosen'
  OBVIOUS
<1> USE BoundAssumption
    DEF diskVars, choiceVars, historyVars, envVars, Goto, Panic, StartStep, Needs, Lacks
<1>1. CASE MountSystem \/ FstabIsOk \/ InitHostname \/ GetVersion \/ InitNetwork
           \/ SwitchRoot \/ InitLogs \/ InitKeymaps \/ ExecSystemd
  BY <1>1 DEF MountSystem, FstabIsOk, InitHostname, GetVersion, InitNetwork, SwitchRoot,
     InitLogs, InitKeymaps, ExecSystemd, TypeOK, DiskTypeOK, RunTypeOK, Chosen,
     Steps, InstallSteps, StartSteps, MachineSteps, RootSteps
<1>2. CASE FstabIsMissing \/ VersionIsMissing \/ NetworkFails \/ SystemdIsMissing
           \/ StartStepFails
  BY <1>2 DEF FstabIsMissing, VersionIsMissing, NetworkFails, SystemdIsMissing,
     StartStepFails, TypeOK, DiskTypeOK, RunTypeOK, Chosen,
     Steps, StartSteps, MachineSteps, RootSteps
<1> QED
  BY <1>1, <1>2 DEF StartNext, StartProgress

\* A reset only adds to the medium, and only to the root.
LEMMA ResetTypeOK ==
  ASSUME TypeOK, NEW next \in {"off", "post"}, Reset(next),
         UNCHANGED <<table, fs, flag, netconf, loader, envVars, completed>>
  PROVE  TypeOK' /\ Chosen'
<1>1. files' \in [Parts -> SUBSET File]
  BY DEF Reset, Survivors, FewApart, TypeOK, DiskTypeOK, RunTypeOK
<1> QED
  BY <1>1, BoundAssumption DEF Reset, TypeOK, DiskTypeOK, RunTypeOK, Chosen, envVars,
     Steps, StartSteps, MachineSteps, RootSteps

LEMMA NextTypeOK == TypeOK /\ Chosen /\ [Next]_vars => TypeOK' /\ Chosen'
<1> SUFFICES ASSUME TypeOK, Chosen, [Next]_vars PROVE TypeOK' /\ Chosen'
  OBVIOUS
<1> USE BoundAssumption DEF diskVars, choiceVars, historyVars, envVars, Goto, Panic
<1>1. CASE PowerOn \/ BootKernel \/ MountFilesystems \/ StartInstaller \/ PanicTick
  BY <1>1 DEF PowerOn, BootKernel, MountFilesystems, StartInstaller, PanicTick,
     TypeOK, DiskTypeOK, RunTypeOK, Chosen, Steps, InstallSteps, StartSteps, MachineSteps,
     RootSteps
<1>2. CASE StartInstalled
  BY <1>2 DEF StartInstalled, Detected, TypeOK, DiskTypeOK, RunTypeOK, Chosen,
     Steps, StartSteps, RootSteps
<1>3. CASE PanicPowerOff \/ RebootAfterInstall \/ PanicReboot \/ PowerLoss
  BY <1>3, ResetTypeOK DEF PanicPowerOff, RebootAfterInstall, PanicReboot, PowerLoss
<1>4. CASE SystemdShutdown
  BY <1>4 DEF SystemdShutdown, TypeOK, DiskTypeOK, RunTypeOK, Chosen,
     Steps, StartSteps, MachineSteps, RootSteps
<1>5. CASE InstallerNext
  BY <1>5, InstallerTypeOK
<1>6. CASE StartNext
  BY <1>6, StartTypeOK
<1>7. CASE UNCHANGED vars
  BY <1>7 DEF vars, TypeOK, DiskTypeOK, RunTypeOK, Chosen
<1> QED
  BY <1>1, <1>2, <1>3, <1>4, <1>5, <1>6, <1>7 DEF Next, MainNext

\* Type correctness: every variable keeps its type, whatever the user answers,
\* whichever step fails and wherever the power is cut.
THEOREM TypeCorrect == Spec => []TypeOK
<1>1. Spec => [](TypeOK /\ Chosen)
  BY InitTypeOK, NextTypeOK, PTL DEF Spec
<1> QED
  BY <1>1, PTL

-----------------------------------------------------------------------------
(* The steps that erase                                                    *)

ErasingStep ==
  \/ CreateUefiPartitions \/ CreateLegacyPartitions \/ ManualPartitioning
  \/ FormatEfi \/ FormatRoot \/ FormatFails \/ PartitioningFails

\* What the user agreed to before a step that erases.
Consented ==
  /\ pc = "partition" => PartsOf(device) \subseteq consent
  /\ pc = "format_efi" => esp \in consent
  /\ pc \in {"format_efi", "format_root"} => root \in consent

\* Everything the partitions in S held is gone, the others are untouched.
Takes(S) == Erased(S) /\ \A p \in Parts \ S : fs'[p] = fs[p]

\* All of them have one shape, and take only what the user agreed to lose.
LEMMA ErasingShape ==
  ASSUME TypeOK, Chosen, ErasingStep
  PROVE  \E S \in SUBSET Parts : Takes(S) /\ (Consented => S \subseteq consent')
<1> USE DEF Takes, diskVars, choiceVars, historyVars, Goto, Panic
<1>1. ASSUME NEW first \in {"esp", "bios_grub"}, CreatePartitions(first), pc = "partition",
             UNCHANGED consent
      PROVE  \E S \in SUBSET Parts : Takes(S) /\ (Consented => S \subseteq consent')
  <2>1. PICK keep \in SUBSET {p \in PartsOf(device) : fs[p] # "absent"} :
          /\ fs' = [p \in Parts |-> IF p \in PartsOf(device) \ keep THEN "raw" ELSE fs[p]]
          /\ Erased(PartsOf(device) \ keep)
    BY <1>1 DEF CreatePartitions
  <2>2. PartsOf(device) \ keep \in SUBSET Parts
    BY <1>1, PartsOfInParts DEF Chosen
  <2>3. Takes(PartsOf(device) \ keep)
    BY <2>1
  <2>4. Consented => PartsOf(device) \ keep \subseteq consent'
    BY <1>1 DEF Consented
  <2> QED
    BY <2>2, <2>3, <2>4
<1>2. CASE CreateUefiPartitions \/ CreateLegacyPartitions
  BY <1>1, <1>2 DEF CreateUefiPartitions, CreateLegacyPartitions
<1>3. CASE ManualPartitioning
  <2>1. PICK gone \in SUBSET PartsOf(device) :
          \E fresh \in SUBSET gone, f \in {"none", "esp", "bios_grub"},
             t \in {"gpt", "msdos", table[device]} : Fdisk(gone, fresh, f, t)
    BY <1>3 DEF ManualPartitioning
  <2>2. PICK fresh \in SUBSET gone, f \in {"none", "esp", "bios_grub"},
             t \in {"gpt", "msdos", table[device]} : Fdisk(gone, fresh, f, t)
    BY <2>1
  <2>3. gone \in SUBSET Parts
    BY <1>3, PartsOfInParts DEF ManualPartitioning, Chosen
  <2> QED
    BY <2>2, <2>3 DEF Fdisk
<1>4. CASE FormatEfi \/ FormatRoot \/ FormatFails
  <2>1. CASE \E p \in Parts, t \in {"ext4", "vfat", "raw"} :
               /\ fs' = [fs EXCEPT ![p] = t] /\ Erased({p})
               /\ Consented => p \in consent'
    BY <2>1 DEF TypeOK, DiskTypeOK
  <2>2. CASE UNCHANGED <<fs, files, netconf, completed>>
    <3>1. Takes({})
      BY <2>2 DEF Erased, TypeOK, DiskTypeOK
    <3> QED
      BY <3>1
  <2> QED
    BY <1>4, <2>1, <2>2 DEF FormatEfi, FormatRoot, FormatFails, Chosen, RootSteps, Consented
<1>5. CASE PartitioningFails
  <2>1. CASE UNCHANGED <<diskVars, completed>>
    <3>1. Takes({})
      BY <2>1 DEF Erased, TypeOK, DiskTypeOK
    <3> QED
      BY <3>1
  <2>2. CASE \E label \in {"none", "gpt"} : Wiped(device, label)
    <3>1. PartsOf(device) \in SUBSET Parts
      BY <1>5, PartsOfInParts DEF PartitioningFails, Chosen
    <3> QED
      BY <1>5, <2>2, <3>1 DEF PartitioningFails, Wiped, Consented
  <2>3. CASE \E first \in {"esp", "bios_grub"} : CreatePartitions(first)
    BY <1>1, <1>5, <2>3 DEF PartitioningFails
  <2> QED
    BY <1>5, <2>1, <2>2, <2>3 DEF PartitioningFails
<1> QED
  BY <1>2, <1>3, <1>4, <1>5 DEF ErasingStep

-----------------------------------------------------------------------------
(* A completed installation is whole and stays so                          *)

FillSteps == { "mount", "copy", "sysconfig", "users", "hostname", "locale", "network",
               "bootfiles", "grub", "grubcfg", "perms", "umount" }

\* What the root holds when a step of the installer begins.
Copied     == {"applets", "system", "systemd"}
Configured == Copied \cup {"fstab", "mounts", "release", "version"}

Before(step) ==
  CASE step = "sysconfig" -> Copied
    [] step = "users"     -> Configured
    [] step \in {"hostname", "locale"} -> Configured \cup {"users"}
    [] step = "network"   -> Configured \cup {"users", "settings"}
    [] step \in {"bootfiles", "grub", "grubcfg"} ->
         Configured \cup {"users", "settings", "interfaces"}
    [] step = "perms"     -> Complete \ {"perms"}
    [] step = "umount"    -> Complete
    [] OTHER              -> {}

Progress == pc \in FillSteps => fs[root] = "ext4" /\ Before(pc) \subseteq Visible(root)

WholeInv == Progress /\ CompletedIsWhole

\* A step that leaves the contents of completed installations alone.
Gentle ==
  /\ completed' \subseteq completed
  /\ \A p \in completed' : fs'[p] = fs[p] /\ files[p] \subseteq files'[p]

LEMMA GentleStep ==
  ASSUME TypeOK, CompletedIsWhole, Gentle
  PROVE  CompletedIsWhole'
BY DEF CompletedIsWhole, Gentle, Marked, TypeOK

\* Every step of the installer but the last is gentle.
LEMMA InstallerIsGentle ==
  ASSUME TypeOK, Chosen, InstallerNext, ~Unmount
  PROVE  Gentle
<1> USE DEF diskVars, choiceVars, historyVars, envVars, Gentle
<1>1. CASE SetupLang \/ SelectDisk \/ ConfirmEntireDisk \/ SelectRoot
           \/ NothingToSelect \/ ConfirmPartition \/ MountRoot \/ Refused
           \/ UserCancels \/ InstallStepFails \/ GrubInstallFails
  BY <1>1 DEF SetupLang, SelectDisk, ConfirmEntireDisk, SelectRoot, NothingToSelect,
     ConfirmPartition, MountRoot, Refused, UserCancels, InstallStepFails, GrubInstallFails
<1>2. CASE CopyRootfs \/ MakeSysconfig \/ SetupUsers \/ SetupHostname \/ SetupLocale
           \/ SetupNetwork \/ InstallBootFiles \/ InstallGrub \/ WriteGrubConfig
           \/ SetSysPerms
  BY <1>2 DEF CopyRootfs, MakeSysconfig, SetupUsers, SetupHostname, SetupLocale,
     SetupNetwork, InstallBootFiles, InstallGrub, WriteGrubConfig, SetSysPerms, Fill
<1>3. CASE ErasingStep
  <2>1. PICK S \in SUBSET Parts : Takes(S)
    BY <1>3, ErasingShape
  <2> QED
    BY <2>1 DEF Takes, Erased, TypeOK
<1> QED
  BY <1>1, <1>2, <1>3 DEF InstallerNext, ErasingStep

\* A step that fills the root makes the progress the next step relies on.
LEMMA FillProgress ==
  ASSUME Progress, NEW step \in FillSteps, NEW next \in FillSteps, Fill(step, next),
         Before(next) \subseteq Before(step) \cup Writes(step)
  PROVE  Progress'
BY DEF Progress, Fill, Goto, Visible, choiceVars

\* The installer's last step finds everything written, and flushes it.
LEMMA UnmountIsWhole ==
  ASSUME TypeOK, Chosen, WholeInv, Unmount
  PROVE  WholeInv'
<1>1. root \in Parts /\ files'[root] = files[root] \cup dirty /\ fs[root] = "ext4"
  BY DEF Unmount, Chosen, RootSteps, WholeInv, Progress, FillSteps, TypeOK, DiskTypeOK
<1>2. Complete \subseteq files'[root]
  BY <1>1 DEF Unmount, WholeInv, Progress, FillSteps, Before, Visible
<1>3. Marked(root)'
  BY <1>1, <1>2 DEF Unmount, choiceVars, Marked, Complete, File
<1>4. \A p \in completed : Marked(p)' /\ Complete \subseteq files'[p]
  BY <1>1 DEF Unmount, WholeInv, CompletedIsWhole, Marked, TypeOK, DiskTypeOK
<1> QED
  BY <1>2, <1>3, <1>4 DEF Unmount, choiceVars, Goto, WholeInv, Progress, FillSteps,
     CompletedIsWhole

LEMMA InstallerProgress ==
  ASSUME TypeOK, Chosen, WholeInv, InstallerNext, ~Unmount
  PROVE  Progress'
<1>1. CASE SetupLang \/ SelectDisk \/ ConfirmEntireDisk \/ CreateUefiPartitions
           \/ CreateLegacyPartitions \/ ManualPartitioning \/ SelectRoot
           \/ NothingToSelect \/ ConfirmPartition \/ FormatEfi \/ Refused
           \/ UserCancels \/ InstallStepFails \/ PartitioningFails \/ FormatFails
           \/ GrubInstallFails
  BY <1>1 DEF SetupLang, SelectDisk, ConfirmEntireDisk, CreateUefiPartitions,
     CreateLegacyPartitions, ManualPartitioning, SelectRoot, NothingToSelect,
     ConfirmPartition, FormatEfi, Refused, UserCancels, InstallStepFails,
     PartitioningFails, FormatFails, GrubInstallFails, Goto, Panic, Progress, FillSteps
<1>2. CASE FormatRoot
  BY <1>2 DEF FormatRoot, Goto, choiceVars, Progress, FillSteps, Before, Chosen, RootSteps,
     TypeOK, DiskTypeOK
<1>3. CASE MountRoot
  BY <1>3 DEF MountRoot, Goto, choiceVars, diskVars, Progress, WholeInv, FillSteps, Before,
     Visible
<1>4. CASE CopyRootfs \/ MakeSysconfig \/ SetupUsers \/ SetupHostname \/ SetupLocale
           \/ SetupNetwork
  BY <1>4, FillProgress DEF CopyRootfs, MakeSysconfig, SetupUsers, SetupHostname,
     SetupLocale, SetupNetwork, WholeInv, FillSteps, Before, Copied, Configured, Writes
<1>5. CASE InstallBootFiles \/ InstallGrub \/ WriteGrubConfig \/ SetSysPerms
  BY <1>5, FillProgress DEF InstallBootFiles, InstallGrub, WriteGrubConfig, SetSysPerms,
     WholeInv, FillSteps, Before, Copied, Configured, Writes, Complete, File
<1> QED
  BY <1>1, <1>2, <1>3, <1>4, <1>5 DEF InstallerNext

LEMMA NextWhole == TypeOK /\ Chosen /\ WholeInv /\ [Next]_vars => WholeInv'
<1> SUFFICES ASSUME TypeOK, Chosen, WholeInv, [Next]_vars PROVE WholeInv'
  OBVIOUS
<1>1. CASE Unmount
  BY <1>1, UnmountIsWhole
<1>2. CASE InstallerNext /\ ~Unmount
  BY <1>2, InstallerIsGentle, InstallerProgress, GentleStep DEF WholeInv
<1>3. CASE StartNext
  <2>1. Gentle
    BY <1>3 DEF StartNext, StartProgress, MountSystem, FstabIsOk, FstabIsMissing,
       InitHostname, GetVersion, VersionIsMissing, InitNetwork, NetworkFails, SwitchRoot,
       InitLogs, InitKeymaps, ExecSystemd, SystemdIsMissing, StartStepFails, StartStep,
       Needs, Lacks, Gentle, diskVars, historyVars
  <2>2. Progress'
    BY <1>3 DEF StartNext, StartProgress, MountSystem, FstabIsOk, FstabIsMissing,
       InitHostname, GetVersion, VersionIsMissing, InitNetwork, NetworkFails, SwitchRoot,
       InitLogs, InitKeymaps, ExecSystemd, SystemdIsMissing, StartStepFails, StartStep,
       Needs, Lacks, Goto, Panic, Progress, FillSteps
  <2> QED
    BY <2>1, <2>2, GentleStep DEF WholeInv
<1>4. CASE PowerOn \/ BootKernel \/ MountFilesystems \/ StartInstalled \/ StartInstaller
           \/ PanicTick \/ UNCHANGED vars
  <2>1. Gentle
    BY <1>4 DEF PowerOn, BootKernel, MountFilesystems, StartInstalled, StartInstaller,
       PanicTick, vars, diskVars, historyVars, Gentle
  <2>2. Progress'
    BY <1>4 DEF PowerOn, BootKernel, MountFilesystems, StartInstalled, StartInstaller,
       PanicTick, vars, diskVars, choiceVars, Goto, Panic, Progress, FillSteps, WholeInv,
       Visible
  <2> QED
    BY <2>1, <2>2, GentleStep DEF WholeInv
<1>5. CASE PanicPowerOff \/ RebootAfterInstall \/ PanicReboot \/ PowerLoss
           \/ SystemdShutdown
  <2>1. Gentle
    BY <1>5 DEF PanicPowerOff, RebootAfterInstall, PanicReboot, PowerLoss,
       SystemdShutdown, Reset, Gentle, TypeOK, DiskTypeOK
  <2>2. Progress'
    BY <1>5 DEF PanicPowerOff, RebootAfterInstall, PanicReboot, PowerLoss,
       SystemdShutdown, Reset, Progress, FillSteps
  <2> QED
    BY <2>1, <2>2, GentleStep DEF WholeInv
<1> QED
  BY <1>1, <1>2, <1>3, <1>4, <1>5 DEF Next, MainNext

\* Durability: once install_system() has returned Ok, everything it wrote is on
\* the medium, and no cancelled, failed or interrupted later run of senbit-init
\* takes any of it away without erasing the partition.
THEOREM CompletedWhole == Spec => []CompletedIsWhole
<1>1. Init => WholeInv
  BY DEF Init, WholeInv, Progress, FillSteps, CompletedIsWhole
<1>2. Spec => [](TypeOK /\ Chosen)
  BY InitTypeOK, NextTypeOK, PTL DEF Spec
<1>3. Spec => []WholeInv
  BY <1>1, <1>2, NextWhole, PTL DEF Spec
<1> QED
  BY <1>3, PTL DEF WholeInv
=============================================================================
