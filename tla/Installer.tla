------------------------------ MODULE Installer ------------------------------
(***************************************************************************)
(* install_system(): the interactive installer, one action per step that   *)
(* the code can fail or be stopped between.  Up to FormatRoot it decides   *)
(* what to erase; from CopyRootfs on it fills the root mounted on /mnt,    *)
(* through the page cache, until Unmount flushes it.                       *)
(***************************************************************************)
EXTENDS InitState

-----------------------------------------------------------------------------
(* Keyboard, target and partitions                                         *)

\* A prompt left with Esc falls back to "us" and a layout that does not load
\* is only logged: the live /etc/default/keyboard is written, in RAM.
SetupLang ==
  /\ pc = "lang"
  /\ Goto("disk")
  /\ UNCHANGED <<diskVars, choiceVars, dirty, cause, historyVars>>

\* Mutant: a chosen partition is taken as the root without a question.
SelectDiskOrRoot ==
  /\ pc = "disk"
  /\ \E dev \in Disks \cup {p \in Parts : fs[p] # "absent"} :
       /\ device' = dev
       /\ root' = IF dev \in Disks THEN root ELSE dev
       /\ Goto(IF dev \in Disks THEN "confirm_disk" ELSE "format_root")
  /\ UNCHANGED <<diskVars, esp, dirty, cause, historyVars>>

SelectDisk ==
  /\ pc = "disk"
  /\ \E dev \in Disks \cup {p \in Parts : fs[p] # "absent"} :
       /\ device' = dev
       /\ Goto(IF dev \in Disks THEN "confirm_disk" ELSE "confirm_part")
  /\ UNCHANGED <<diskVars, root, esp, dirty, cause, historyVars>>

\* "Use entire disk and create ... partitions?"
ConfirmEntireDisk ==
  /\ pc = "confirm_disk"
  /\ \/ /\ consent' = consent \cup PartsOf(device)
        /\ Goto("partition")
     \/ /\ UNCHANGED consent
        /\ Goto("fdisk")
  /\ UNCHANGED <<diskVars, choiceVars, dirty, cause, completed>>

\* What the partitions in S held is gone.
Erased(S) ==
  /\ files' = [p \in Parts |-> IF p \in S THEN {} ELSE files[p]]
  /\ netconf' = [p \in Parts |-> IF p \in S THEN NoConf ELSE netconf[p]]
  /\ completed' = completed \ S

\* wipe_disk(), and perhaps the mklabel of parted: every partition is gone.
Wiped(d, label) ==
  /\ table' = [table EXCEPT ![d] = label]
  /\ fs' = [p \in Parts |-> IF p \in PartsOf(d) THEN "absent" ELSE fs[p]]
  /\ flag' = [p \in Parts |-> IF p \in PartsOf(d) THEN "none" ELSE flag[p]]
  /\ loader' = [loader EXCEPT ![d] = NoPart]
  /\ Erased(PartsOf(d))

\* wipe_disk() and parted: partition 1 for the firmware, partition 2 for the
\* root.  Only the table is wiped, so a partition that lands where an old one
\* was (in keep) shows the old content again until it is formatted.
CreatePartitions(first) ==
  LET d == device IN
  /\ table' = [table EXCEPT ![d] = "gpt"]
  /\ flag' = [flag EXCEPT ![partition_path(d, 1)] = first,
                          ![partition_path(d, 2)] = "none"]
  /\ \E keep \in SUBSET {p \in PartsOf(d) : fs[p] # "absent"} :
       /\ fs' = [p \in Parts |-> IF p \in PartsOf(d) \ keep THEN "raw" ELSE fs[p]]
       /\ Erased(PartsOf(d) \ keep)
  /\ loader' = [loader EXCEPT ![d] = NoPart]

CreateUefiPartitions ==
  /\ pc = "partition" /\ firmware = "efi"
  /\ CreatePartitions("esp")
  /\ esp' = partition_path(device, 1)
  /\ root' = partition_path(device, 2)
  /\ Goto("format_efi")
  /\ UNCHANGED <<device, dirty, cause, consent>>

CreateLegacyPartitions ==
  /\ pc = "partition" /\ firmware = "legacy"
  /\ CreatePartitions("bios_grub")
  /\ root' = partition_path(device, 2)
  /\ Goto("format_root")
  /\ UNCHANGED <<device, esp, dirty, cause, consent>>

\* fdisk on the chosen disk: the user deletes partitions (gone), creates new
\* ones in their place (fresh), flags the first (f), may write a new label (t), or
\* leaves everything as it is.
Fdisk(gone, fresh, f, t) ==
  LET d == device IN
  /\ t # table[d] => gone = PartsOf(d)
  /\ t = "none" => gone = {}
  /\ table' = [table EXCEPT ![d] = t]
  /\ fs' = [p \in Parts |-> IF p \in fresh THEN "raw"
                            ELSE IF p \in gone THEN "absent" ELSE fs[p]]
  /\ flag' = [p \in Parts |-> IF p = partition_path(d, 1) /\ p \in fresh THEN f
                              ELSE IF p \in gone THEN "none" ELSE flag[p]]
  /\ loader' = IF gone = {} THEN loader ELSE [loader EXCEPT ![d] = NoPart]
  /\ Erased(gone)
  /\ consent' = consent \cup gone

ManualPartitioning ==
  /\ pc = "fdisk"
  /\ \E gone \in SUBSET PartsOf(device) :
     \E fresh \in SUBSET gone, f \in {"none", "esp", "bios_grub"},
        t \in {"gpt", "msdos", table[device]} : Fdisk(gone, fresh, f, t)
  /\ \/ Goto("select_root") /\ UNCHANGED cause
     \/ Panic("fault")          \* fdisk or the reload of the table failed
  /\ UNCHANGED <<choiceVars, dirty>>

\* Every partition of every disk is offered, and picking one is the only
\* consent to format it.
SelectRoot ==
  /\ pc = "select_root"
  /\ \E p \in Parts :
       /\ fs[p] # "absent"
       /\ root' = p
       /\ consent' = consent \cup {p}
  /\ Goto("format_root")
  /\ UNCHANGED <<diskVars, device, esp, dirty, cause, completed>>

NothingToSelect ==
  /\ pc = "select_root"
  /\ \A p \in Parts : fs[p] = "absent"
  /\ Panic("refused")
  /\ UNCHANGED <<diskVars, choiceVars, dirty, historyVars>>

\* "This will erase all data on ...": declining is an error, not a way back.
ConfirmPartition ==
  /\ pc = "confirm_part"
  /\ \/ /\ root' = device
        /\ consent' = consent \cup {device}
        /\ Goto("format_root")
        /\ UNCHANGED cause
     \/ /\ Panic("cancel")
        /\ UNCHANGED <<root, consent>>
  /\ UNCHANGED <<diskVars, device, esp, dirty, completed>>

-----------------------------------------------------------------------------
(* Formatting and filling the root                                         *)

FormatEfi ==
  /\ pc = "format_efi"
  /\ fs' = [fs EXCEPT ![esp] = "vfat"]
  /\ Erased({esp})
  /\ Goto("format_root")
  /\ UNCHANGED <<table, flag, loader, choiceVars, dirty, cause, consent>>

FormatRoot ==
  /\ pc = "format_root"
  /\ fs' = [fs EXCEPT ![root] = "ext4"]
  /\ Erased({root})
  /\ Goto("mount")
  /\ UNCHANGED <<table, flag, loader, choiceVars, dirty, cause, consent>>

\* mount() on /mnt, then get_partition_uuid().
MountRoot ==
  /\ pc = "mount"
  /\ Goto("copy")
  /\ UNCHANGED <<diskVars, choiceVars, dirty, cause, historyVars>>

\* Mutant: senbit-release is created, its VERSION line is not written.
WritesNoVersion(step) ==
  CASE step = "copy"      -> {"applets", "system", "systemd"}
    [] step = "sysconfig" -> {"fstab", "mounts", "release"}
    [] step = "users"     -> {"users"}
    [] step = "locale"    -> {"settings"}
    [] step = "network"   -> {"interfaces"}
    [] step = "grubcfg"   -> {"boot"}
    [] step = "perms"     -> {"perms"}
    [] OTHER              -> {}

\* The file groups each step of the installer writes.
Writes(step) ==
  CASE step = "copy"      -> {"applets", "system", "systemd"}
    [] step = "sysconfig" -> {"fstab", "mounts", "release", "version"}
    [] step = "users"     -> {"users"}
    [] step = "locale"    -> {"settings"}
    [] step = "network"   -> {"interfaces"}
    [] step = "grubcfg"   -> {"boot"}
    [] step = "perms"     -> {"perms"}
    [] OTHER              -> {}

Fill(step, next) ==
  /\ pc = step
  /\ dirty' = dirty \cup Writes(step)
  /\ Goto(next)
  /\ UNCHANGED <<table, fs, flag, files, choiceVars, cause, historyVars>>

CopyRootfs    == Fill("copy", "sysconfig") /\ UNCHANGED <<netconf, loader>>
MakeSysconfig == Fill("sysconfig", "users") /\ UNCHANGED <<netconf, loader>>
SetupUsers    == Fill("users", "hostname") /\ UNCHANGED <<netconf, loader>>
SetupHostname == Fill("hostname", "locale") /\ UNCHANGED <<netconf, loader>>

\* setup_locale() then setup_timezone().
SetupLocale   == Fill("locale", "network") /\ UNCHANGED <<netconf, loader>>

\* Mutant: DHCP, the default, needs no stanza.
SetupNetworkIfStatic ==
  /\ Fill("network", "bootfiles")
  /\ "applets" \in Visible(root)
  /\ \E nic \in Nics, mode \in Modes :
       netconf' = IF mode = "dhcp" THEN netconf ELSE [netconf EXCEPT ![root] = <<nic, mode>>]
  /\ UNCHANGED loader

\* One interface is asked for and one stanza is written.
SetupNetwork ==
  /\ Fill("network", "bootfiles")
  /\ "applets" \in Visible(root)
  /\ \E nic \in Nics, mode \in Modes :
       netconf' = [netconf EXCEPT ![root] = <<nic, mode>>]
  /\ UNCHANGED loader

\* Kernel and initramfs come from the boot medium, not from the live system.
InstallBootFiles ==
  /\ Fill("bootfiles", "grub")
  /\ iso
  /\ UNCHANGED <<netconf, loader>>

parent_disk(dev) == IF dev \in Disks THEN dev ELSE dev[1]

\* check_legacy_layout(): GRUB's core needs a BIOS Boot partition on GPT.
LegacyLayoutOk(d) ==
  /\ table[d] # "none"
  /\ table[d] = "gpt" => \E p \in PartsOf(d) : fs[p] # "absent" /\ flag[p] = "bios_grub"

\* find_efi_partition(): the FIRST partition flagged esp; it must be FAT32.
UefiLayoutOk(d) ==
  LET Esps == {n \in Slots : fs[partition_path(d, n)] # "absent"
                             /\ flag[partition_path(d, n)] = "esp"}
  IN \E n \in Esps : /\ \A m \in Esps : n <= m
                     /\ fs[partition_path(d, n)] = "vfat"

GrubLayoutOk(d) == IF firmware = "efi" THEN UefiLayoutOk(d) ELSE LegacyLayoutOk(d)

\* Mutant: an unusable layout skips GRUB instead of stopping the installation.
InstallGrubIfItCan ==
  /\ Fill("grub", "grubcfg")
  /\ loader' = IF GrubLayoutOk(parent_disk(device))
               THEN [loader EXCEPT ![parent_disk(device)] = root] ELSE loader
  /\ UNCHANGED netconf

\* GRUB goes to the disk that was SELECTED, and reads the root's /boot/grub.
InstallGrub ==
  /\ Fill("grub", "grubcfg")
  /\ GrubLayoutOk(parent_disk(device))
  /\ loader' = [loader EXCEPT ![parent_disk(device)] = root]
  /\ UNCHANGED netconf

WriteGrubConfig == Fill("grubcfg", "perms") /\ UNCHANGED <<netconf, loader>>
SetSysPerms     == Fill("perms", "umount") /\ UNCHANGED <<netconf, loader>>

\* Mutant: neither sync nor a real unmount before the installer returns Ok.
UnmountLazily ==
  /\ pc = "umount"
  /\ completed' = completed \cup {root}
  /\ Goto("installed")
  /\ UNCHANGED <<diskVars, choiceVars, dirty, cause, consent>>

\* sync and unmount(): only now is everything on the medium.
Unmount ==
  /\ pc = "umount"
  /\ files' = [files EXCEPT ![root] = @ \cup dirty]
  /\ dirty' = {}
  /\ completed' = completed \cup {root}
  /\ Goto("installed")
  /\ UNCHANGED <<table, fs, flag, netconf, loader, choiceVars, cause, consent>>

-----------------------------------------------------------------------------
(* The ways a step returns Err                                             *)

\* The code itself refuses: no usable interface, no boot medium, or a layout
\* GRUB cannot use -- found out only once the root has been filled.
Refused ==
  /\ \/ pc = "network" /\ Nics = {}
     \/ pc = "bootfiles" /\ ~iso
     \/ pc = "grub" /\ ~GrubLayoutOk(parent_disk(device))
  /\ Panic("refused")
  /\ UNCHANGED <<diskVars, choiceVars, dirty, historyVars>>

\* Esc or Ctrl-C at a prompt: inquire returns Err and "?" passes it on.
PromptSteps == {"disk", "confirm_disk", "select_root", "confirm_part",
                "users", "hostname", "locale", "network"}

UserCancels ==
  /\ pc \in PromptSteps
  /\ Panic("cancel")
  /\ UNCHANGED <<diskVars, choiceVars, dirty, historyVars>>

\* make_sysconfig() writes its groups in order, recursive_copy() in any order.
PartlyWritten(step) ==
  CASE step = "copy"      -> FewApart(Writes("copy"))
    [] step = "sysconfig" ->
         {{}, {"fstab"}, {"fstab", "mounts"}, {"fstab", "mounts", "release"}}
    [] OTHER              -> {{}}

\* A system call or an external command fails.
FallibleSteps == {"lang", "mount", "copy", "sysconfig", "users", "hostname", "locale",
                  "network", "bootfiles", "grubcfg", "perms", "umount"}

InstallStepFails ==
  /\ pc \in FallibleSteps
  /\ \E S \in PartlyWritten(pc) : dirty' = dirty \cup S
  /\ Panic("fault")
  /\ UNCHANGED <<diskVars, choiceVars, historyVars>>

\* wipefs, parted or the reload of the table fails: the disk is untouched, wiped,
\* labelled, or has the new partitions.
PartitioningFails ==
  /\ pc = "partition"
  /\ \/ UNCHANGED <<diskVars, completed>>
     \/ \E label \in {"none", "gpt"} : Wiped(device, label)
     \/ \E first \in {"esp", "bios_grub"} : CreatePartitions(first)
  /\ Panic("fault")
  /\ UNCHANGED <<choiceVars, dirty, consent>>

\* mkfs fails before it writes, or what the partition held is gone.
FormatFails ==
  /\ pc \in {"format_efi", "format_root"}
  /\ LET p == IF pc = "format_efi" THEN esp ELSE root IN
       \/ UNCHANGED <<fs, files, netconf, completed>>
       \/ fs' = [fs EXCEPT ![p] = "raw"] /\ Erased({p})
  /\ Panic("fault")
  /\ UNCHANGED <<table, flag, loader, choiceVars, dirty, consent>>

\* grub-install, or what follows it on the ESP, fails: GRUB may be in place.
GrubInstallFails ==
  /\ pc = "grub"
  /\ \/ UNCHANGED loader
     \/ /\ GrubLayoutOk(parent_disk(device))
        /\ loader' = [loader EXCEPT ![parent_disk(device)] = root]
  /\ Panic("fault")
  /\ UNCHANGED <<table, fs, flag, files, netconf, choiceVars, dirty, historyVars>>

InstallerNext ==
  \/ SetupLang \/ SelectDisk \/ ConfirmEntireDisk \/ CreateUefiPartitions
  \/ CreateLegacyPartitions \/ ManualPartitioning \/ SelectRoot
  \/ NothingToSelect \/ ConfirmPartition \/ FormatEfi \/ FormatRoot
  \/ MountRoot \/ CopyRootfs \/ MakeSysconfig \/ SetupUsers \/ SetupHostname
  \/ SetupLocale \/ SetupNetwork \/ InstallBootFiles \/ InstallGrub
  \/ WriteGrubConfig \/ SetSysPerms \/ Unmount
  \/ Refused \/ UserCancels \/ InstallStepFails \/ PartitioningFails
  \/ FormatFails \/ GrubInstallFails
=============================================================================
