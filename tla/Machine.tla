------------------------------- MODULE Machine -------------------------------
(***************************************************************************)
(* The life of a Senbit machine: firmware, senbit-init's main(), the       *)
(* installer or the start of the installed system, the panic screen, and   *)
(* power cuts anywhere.  Init leaves arbitrary earlier contents on disk.   *)
(***************************************************************************)
EXTENDS Installer, SystemStart

CONSTANT ProbeMayMiss    \* a partition may be unmountable while it is probed

ASSUME ProbeAssumption == ProbeMayMiss \in BOOLEAN

\* Layouts a disk may have before Senbit is installed.
BlankDisk == [table |-> "none", fs |-> <<"absent", "absent">>, flag |-> <<"none", "none">>]
UefiDisk  == [table |-> "gpt", fs |-> <<"vfat", "ext4">>, flag |-> <<"esp", "none">>]
GptDisk   == [table |-> "gpt", fs |-> <<"ext4", "ext4">>, flag |-> <<"none", "none">>]
MbrDisk   == [table |-> "msdos", fs |-> <<"ext4", "absent">>, flag |-> <<"none", "none">>]

Init ==
  /\ \E lay \in [Disks -> Layouts] :
       /\ table = [d \in Disks |-> lay[d].table]
       /\ fs = [p \in Parts |-> lay[p[1]].fs[p[2]]]
       /\ flag = [p \in Parts |-> lay[p[1]].flag[p[2]]]
       /\ files = [p \in Parts |-> IF lay[p[1]].fs[p[2]] = "ext4" THEN {"data"} ELSE {}]
  /\ netconf = [p \in Parts |-> NoConf]
  /\ loader = [d \in Disks |-> NoPart]
  /\ pc = "off"
  /\ firmware \in {"efi", "legacy"} /\ iso = FALSE
  /\ device = NoDisk /\ root = NoPart /\ esp = NoPart
  /\ dirty = {} /\ cause = "none" /\ countdown = Countdown /\ boots = 0
  /\ consent = {} /\ completed = {}

-----------------------------------------------------------------------------
(* Firmware and main()                                                     *)

PowerOn ==
  /\ pc = "off"
  /\ pc' = "post"
  /\ UNCHANGED <<diskVars, envVars, choiceVars, dirty, cause, countdown, historyVars>>

\* The ISO or a disk with GRUB, kernel and initramfs: both start senbit-init.
BootKernel ==
  /\ pc = "post"
  /\ boots < MaxBoots
  /\ boots' = boots + 1
  /\ iso' \in BOOLEAN
  /\ iso' \/ \E d \in Disks : Bootable(d)
  /\ pc' = "mount_filesystems"
  /\ UNCHANGED <<diskVars, firmware, choiceVars, dirty, cause, countdown, historyVars>>

MountFilesystems ==
  /\ pc = "mount_filesystems"
  /\ \/ Goto("detect") /\ UNCHANGED cause
     \/ Panic("fault")
  /\ UNCHANGED <<diskVars, choiceVars, dirty, historyVars>>

\* Mutant: any partition that mounts is an installation.
DetectedWithoutMarker == {p \in Parts : fs[p] = "ext4"}

\* Mutant: only an installation GRUB was installed for is looked for.
DetectedBehindGrub == {p \in Parts : Marked(p) /\ \E d \in Disks : loader[d] = p}

\* detect_installation(): the first partition, in the order the kernel lists
\* them, that mounts and has the marker.
Detected == {p \in Parts : Marked(p)}

StartInstalled ==
  /\ pc = "detect"
  /\ \E p \in Detected : root' = p
  /\ Goto("mount_system")
  /\ UNCHANGED <<diskVars, device, esp, dirty, cause, historyVars>>

\* Mutant: the live medium always installs.
StartInstallerFromLive ==
  /\ pc = "detect"
  /\ Detected = {} \/ iso
  /\ Goto("lang")
  /\ UNCHANGED <<diskVars, choiceVars, dirty, cause, historyVars>>

StartInstaller ==
  /\ pc = "detect"
  /\ Detected = {} \/ ProbeMayMiss
  /\ Goto("lang")
  /\ UNCHANGED <<diskVars, choiceVars, dirty, cause, historyVars>>

\* install_system() returned Ok: main() reboots.
RebootAfterInstall ==
  /\ pc = "installed"
  /\ Reset("post")
  /\ UNCHANGED <<table, fs, flag, netconf, loader, envVars, completed>>

-----------------------------------------------------------------------------
(* The panic screen                                                        *)

\* Mutant: the countdown goes on below zero.
PanicTickPastZero ==
  /\ pc = "panic"
  /\ countdown' = IF countdown = 0 THEN Countdown + 1 ELSE countdown - 1
  /\ UNCHANGED <<diskVars, pc, envVars, choiceVars, dirty, cause, historyVars>>

\* Mutant: every event that is not a key starts the wait again.
PanicTickStartsAgain ==
  /\ pc = "panic"
  /\ countdown > 0
  /\ countdown' = Countdown
  /\ UNCHANGED <<diskVars, pc, envVars, choiceVars, dirty, cause, historyVars>>

\* One second without a key.
PanicTick ==
  /\ pc = "panic"
  /\ countdown > 0
  /\ countdown' = countdown - 1
  /\ UNCHANGED <<diskVars, pc, envVars, choiceVars, dirty, cause, historyVars>>

PanicPowerOff ==
  /\ pc = "panic"
  /\ countdown = 0
  /\ Reset("off")
  /\ UNCHANGED <<table, fs, flag, netconf, loader, envVars, completed>>

PanicReboot ==
  /\ pc = "panic"
  /\ Reset("post")
  /\ UNCHANGED <<table, fs, flag, netconf, loader, envVars, completed>>

-----------------------------------------------------------------------------
(* Outside senbit-init                                                     *)

\* systemd stops the services, syncs and unmounts before it turns off.
SystemdShutdown ==
  /\ pc = "systemd"
  /\ files' = [files EXCEPT ![root] = @ \cup dirty]
  /\ pc' \in {"off", "post"}
  /\ device' = NoDisk /\ root' = NoPart /\ esp' = NoPart
  /\ dirty' = {} /\ cause' = "none" /\ countdown' = Countdown /\ consent' = {}
  /\ UNCHANGED <<table, fs, flag, netconf, loader, envVars, completed>>

PowerLoss ==
  /\ pc # "off"
  /\ Reset("off")
  /\ UNCHANGED <<table, fs, flag, netconf, loader, envVars, completed>>

MainNext == MountFilesystems \/ StartInstalled \/ StartInstaller
            \/ PanicTick \/ PanicPowerOff

Next ==
  \/ PowerOn \/ BootKernel \/ MainNext \/ InstallerNext \/ StartNext
  \/ RebootAfterInstall \/ PanicReboot \/ SystemdShutdown \/ PowerLoss

Spec == Init /\ [][Next]_vars

\* PID 1 runs whenever it does not wait for the user: main(), start_system()
\* and the countdown need no input.
Fairness == WF_vars(MainNext \/ StartProgress)

FairSpec == Spec /\ Fairness

-----------------------------------------------------------------------------
(* Safety                                                                  *)

\* A step that takes a file system or files away from a partition takes them
\* from one the user agreed to lose in this very installation: the prompts of
\* install_system() stand between any other partition and wipefs or mkfs.
NoUnconsentedErase ==
  [][ \A p \in Parts :
        (fs[p] # fs'[p] \/ ~(files[p] \subseteq files'[p])) => p \in consent' ]_vars

\* However often an installation is cancelled, fails or loses power, at most
\* one partition ever carries the marker detect_installation() looks for, so
\* the order in which it probes the partitions cannot matter.
OneInstallation == \A p, q \in Parts : Marked(p) /\ Marked(q) => p = q

\* Once a partition carries the marker, no later boot takes anything from it.
InstallationKept ==
  [][ \A p \in Parts : Marked(p) => Marked(p)' /\ files[p] \subseteq files'[p] ]_vars

\* When install_system() has returned Ok, everything it wrote is on the medium
\* and stays there, through reboots and power cuts.
CompletedIsWhole == \A p \in completed : Marked(p) /\ Complete \subseteq files[p]

\* ... and a GRUB that reads it stays installed.
CompletedStaysBootable ==
  \A p \in completed : \E d \in Disks : loader[d] = p /\ Bootable(d)

\* Nothing start_system() looks for is missing from a completed installation: only the
\* stanza can keep it from starting systemd, because it is static (and has no address),
\* or because the machine has an interface beyond the one it is for.
CompletedFailsOnNetworkOnly ==
  pc = "panic" /\ cause = "content" /\ root \in completed
    => \/ netconf[root][2] # "dhcp"
       \/ \E nic \in Nics : nic # netconf[root][1]

\* However many installations were cut short and disks repartitioned before, what
\* start_system() looked at is on the medium when systemd takes over: the applets, the
\* executable, an fstab, the marker with its version, and a stanza that gives every
\* interface its address.  The rest of the system, the fstab's contents, the accounts,
\* the settings, the boot files and the last permissions may be missing.
StartedIsUsable ==
  pc = "systemd" =>
    /\ {"applets", "systemd", "fstab", "release", "version", "interfaces"} \subseteq files[root]
    /\ Nics # {} /\ \A nic \in Nics : netconf[root] = <<nic, "dhcp">>

\* What lies before senbit-init from each step on, the panic screen left aside: main(),
\* then install_system() or start_system().
StepsAhead ==
  [ mount_filesystems |-> 21, detect |-> 20,
    lang |-> 19, disk |-> 18, confirm_disk |-> 17, partition |-> 16, fdisk |-> 16,
    confirm_part |-> 15, select_root |-> 15, format_efi |-> 15, format_root |-> 14,
    mount |-> 13, copy |-> 12, sysconfig |-> 11, users |-> 10, hostname |-> 9,
    locale |-> 8, network |-> 7, bootfiles |-> 6, grub |-> 5, grubcfg |-> 4,
    perms |-> 3, umount |-> 2, installed |-> 1,
    mount_system |-> 9, fstab |-> 8, init_hostname |-> 7, version |-> 6,
    init_network |-> 5, switch_root |-> 4, init_logs |-> 3, keymaps |-> 2, exec |-> 1 ]

\* Nothing, once senbit-init has made way for systemd, a reboot or the power switch.
Remaining ==
  CASE pc = "panic" -> countdown + 1
    [] pc \in DOMAIN StepsAhead -> Countdown + 1 + StepsAhead[pc]
    [] OTHER -> 0

\* senbit-init never goes back: whatever fails, is declined or is cancelled, every step
\* it takes brings it closer to its end, the panic screen included.
EveryBootEnds == [][ Remaining > 0 => Remaining' < Remaining ]_vars

\* The machine as SystemLife sees it.
Image ==
  [p \in Parts |-> IF p \in completed THEN "whole"
                   ELSE IF Marked(p) THEN "partial" ELSE "none"]

Running == IF pc \in StartSteps \cup {"systemd"} THEN root ELSE NoPart

Life == INSTANCE SystemLife WITH
  Roots <- Parts, NoRoot <- NoPart, image <- Image, running <- Running

\* Over all boots the machine behaves as SystemLife promises, provided that no
\* partition fails to mount while it is probed.
ImplementsLife == Life!LifeSpec

-----------------------------------------------------------------------------
(* Liveness, under FairSpec                                                *)

\* The panic screen never holds the machine: without a key it powers off.
PanicEnds == pc = "panic" ~> pc \in {"off", "post"}

\* Once the kernel has started senbit-init, the machine gets to a prompt of the
\* installer, to systemd, or through the panic screen to the firmware or off.
BootSettles == pc = "mount_filesystems" ~> pc \in {"lang", "systemd", "off", "post"}

-----------------------------------------------------------------------------
(* What the documents say and the code does not do                         *)

\* docs/SYSTEMD.md: "live (pas d'installation trouvée) -> installeur"; an
\* installation that was cut short is one only if it has the marker.
StartsOnlyCompleted == pc = "mount_system" => root \in completed

\* README.md: the system "can be installed and booted", and the init process "detects
\* network interfaces and configures them".
CompletedBoots == pc = "panic" /\ cause = "content" => root \notin completed
=============================================================================
