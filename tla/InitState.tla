------------------------------ MODULE InitState ------------------------------
(***************************************************************************)
(* The state that the phases of senbit-init share: what is on the disks,   *)
(* what is still only in the page cache, and where PID 1 is in its code.   *)
(* Installer.tla and SystemStart.tla add the actions of the two phases,    *)
(* Machine.tla puts the machine around them.                               *)
(*                                                                         *)
(* A partition is named <<disk, number>>.  Files are abstracted to the     *)
(* groups the code tells apart; the payload of a group is left out, except *)
(* for etc/network/interfaces, whose stanza decides whether a boot works.  *)
(***************************************************************************)
EXTENDS Naturals, FiniteSets

CONSTANTS
  Disks,        \* block devices that is_disk_name() accepts
  Nics,         \* interfaces left by filter_network_interfaces()
  Modes,        \* network modes the installer offers
  NoDisk,       \* no device chosen
  NoPart,       \* no partition
  NoConf,       \* no stanza in etc/network/interfaces
  Layouts,      \* what earlier systems may have left on a disk
  Countdown,    \* seconds the panic screen waits: 5 in the code
  MaxBoots,     \* bound: how often the kernel is started
  MaxSplit      \* bound: how many groups a reset or a failing copy parts from the others

Slots == {1, 2}
Parts == Disks \X Slots

\* partition_path(): "<disk><n>" or "<disk>p<n>", one name per partition.
partition_path(d, n) == <<d, n>>

PartsOf(d) == {d} \X Slots

ASSUME SentinelAssumption ==
  /\ NoDisk \notin Disks
  /\ NoDisk \notin Parts
  /\ NoPart \notin Parts
  /\ NoConf \notin Nics \X Modes

ASSUME BoundAssumption == Countdown \in Nat /\ MaxBoots \in Nat /\ MaxSplit \in Nat

\* A disk that parted or a firmware may have left, with a slot per partition.
LayoutOK(lay) ==
  /\ lay.table \in {"none", "gpt", "msdos"}
  /\ lay.fs \in [Slots -> {"absent", "raw", "ext4", "vfat"}]
  /\ lay.flag \in [Slots -> {"none", "esp", "bios_grub"}]

ASSUME LayoutAssumption == \A lay \in Layouts : LayoutOK(lay)

\* "data" stands for whatever another system left on a partition.
\* What start_system() looks for in the copied rootfs is a group of its own: "applets"
\* is BusyBox with sh, ip, ifup and ping, "systemd" the one executable; "system" is all
\* the rest, which nothing looks for.  "fstab" and "release" are files that exist,
\* "mounts" and "version" what they hold.
\* A group counts as written when its last file is: "settings" (hostname, locale,
\* timezone) with the timezone, "boot" (kernel, initramfs, grub.cfg) with grub.cfg.
File == { "data", "applets", "system", "systemd", "fstab", "mounts", "release", "version",
          "users", "settings", "interfaces", "boot", "perms" }

\* What a finished installation holds.
Complete == File \ {"data"}

InstallSteps ==
  { "lang", "disk", "confirm_disk", "partition", "fdisk", "select_root",
    "confirm_part", "format_efi", "format_root", "mount", "copy", "sysconfig",
    "users", "hostname", "locale", "network", "bootfiles", "grub", "grubcfg",
    "perms", "umount", "installed" }

StartSteps ==
  { "mount_system", "fstab", "init_hostname", "version", "init_network",
    "switch_root", "init_logs", "keymaps", "exec" }

MachineSteps == { "off", "post", "mount_filesystems", "detect", "panic", "systemd" }

Steps == InstallSteps \cup StartSteps \cup MachineSteps

VARIABLES
  \* ---- the disks: they survive everything ----
  table,      \* table[d]: partition table of disk d
  fs,         \* fs[p]: what partition p holds
  flag,       \* flag[p]: partition flag
  files,      \* files[p]: file groups that are on the medium
  netconf,    \* netconf[p]: stanza of etc/network/interfaces on p
  loader,     \* loader[d]: root that the GRUB core of disk d reads
  \* ---- the running machine: lost at every reset ----
  pc,         \* where PID 1 is
  firmware,   \* "efi" when /sys/firmware/efi exists
  iso,        \* an ISO9660 boot medium is plugged in
  device,     \* the disk or partition chosen in the installer
  root,       \* the partition being installed or started
  esp,        \* the EFI partition created by the installer
  dirty,      \* file groups of root that are only in the page cache
  cause,      \* why the last step failed
  countdown,  \* seconds shown by the panic screen
  boots,      \* kernel starts so far (bounded by MaxBoots)
  \* ---- history, read by properties only ----
  consent,    \* partitions the user agreed to lose in this installation
  completed   \* roots on which install_system() returned Ok

diskVars    == <<table, fs, flag, files, netconf, loader>>
choiceVars  == <<device, root, esp>>
historyVars == <<consent, completed>>
envVars     == <<firmware, iso, boots>>
vars == <<diskVars, pc, envVars, choiceVars, dirty, cause, countdown, historyVars>>

NetConf == (Nics \X Modes) \cup {NoConf}

DiskTypeOK ==
  /\ table \in [Disks -> {"none", "gpt", "msdos"}]
  /\ fs \in [Parts -> {"absent", "raw", "ext4", "vfat"}]
  /\ flag \in [Parts -> {"none", "esp", "bios_grub"}]
  /\ files \in [Parts -> SUBSET File]
  /\ netconf \in [Parts -> NetConf]
  /\ loader \in [Disks -> Parts \cup {NoPart}]

RunTypeOK ==
  /\ pc \in Steps
  /\ firmware \in {"efi", "legacy"}
  /\ iso \in BOOLEAN
  /\ device \in Disks \cup Parts \cup {NoDisk}
  /\ root \in Parts \cup {NoPart}
  /\ esp \in Parts \cup {NoPart}
  /\ dirty \in SUBSET File
  /\ cause \in {"none", "fault", "cancel", "refused", "content"}
  /\ countdown \in 0..Countdown
  /\ boots \in 0..MaxBoots

TypeOK ==
  /\ DiskTypeOK
  /\ RunTypeOK
  /\ consent \in SUBSET Parts
  /\ completed \in SUBSET Parts

-----------------------------------------------------------------------------
\* What a program that has p mounted sees: the medium and the page cache.
Visible(p) == IF p = root THEN files[p] \cup dirty ELSE files[p]

\* file_exists("/mnt/etc/senbit-release"): all that detect_installation() asks.
Marked(p) == fs[p] = "ext4" /\ "release" \in files[p]

\* Firmware, GRUB core, kernel and initramfs: enough to start senbit-init.
Bootable(d) ==
  /\ loader[d] # NoPart
  /\ "boot" \in files[loader[d]]

Goto(next) == pc' = next /\ UNCHANGED <<envVars, countdown>>

\* A step returned Err: every caller up to main() ends in kpanic!().
Panic(why) ==
  /\ pc' = "panic"
  /\ cause' = why
  /\ countdown' = Countdown
  /\ UNCHANGED envVars

\* MaxSplit bounds how many groups of G are missing alone, or there alone.
FewApart(G) ==
  { S \in SUBSET G : Cardinality(S) <= MaxSplit \/ Cardinality(G \ S) <= MaxSplit }

\* reboot(2) and a power cut do not flush the page cache: any part of it may
\* have reached the medium, but a file has its contents only if it exists.
Survivors ==
  { S \in FewApart(dirty) :
      /\ "version" \in S => "release" \in S \cup files[root]
      /\ "mounts" \in S => "fstab" \in S \cup files[root] }

Reset(next) ==
  /\ IF root = NoPart
       THEN UNCHANGED files
       ELSE \E S \in Survivors : files' = [files EXCEPT ![root] = @ \cup S]
  /\ pc' = next
  /\ device' = NoDisk /\ root' = NoPart /\ esp' = NoPart
  /\ dirty' = {} /\ cause' = "none" /\ countdown' = Countdown
  /\ consent' = {}
=============================================================================
