----------------------------- MODULE SystemStart -----------------------------
(***************************************************************************)
(* start_system(): senbit-init mounts the installed root, checks and       *)
(* prepares it, switches to it and replaces itself with systemd.  Every    *)
(* error but a bad keymap ends in kpanic!().                               *)
(***************************************************************************)
EXTENDS InitState

StartStep(step, next) ==
  /\ pc = step
  /\ Goto(next)
  /\ UNCHANGED <<diskVars, choiceVars, cause, historyVars>>

Needs(step, condition, next) ==
  /\ pc = step
  /\ condition
  /\ StartStep(step, next)
  /\ UNCHANGED dirty

\* The check of a step fails on what the root holds.
Lacks(step, condition) ==
  /\ pc = step
  /\ ~condition
  /\ Panic("content")
  /\ UNCHANGED <<diskVars, choiceVars, dirty, historyVars>>

MountSystem == Needs("mount_system", fs[root] = "ext4", "fstab")

\* fstab_is_ok(): the path exists, whatever it holds.
HasFstab == "fstab" \in Visible(root)
FstabIsOk      == Needs("fstab", HasFstab, "init_hostname")
FstabIsMissing == Lacks("fstab", HasFstab)

\* Creates etc/hostname when it does not exist, which alone does not complete
\* the "settings" group.
InitHostname == Needs("init_hostname", TRUE, "version")

\* Mutant: it is the running initramfs that has a version.
HasAnyVersion == TRUE

HasVersion == "version" \in Visible(root)
GetVersion       == Needs("version", HasVersion, "init_network")
VersionIsMissing == Lacks("version", HasVersion)

\* get_interface_mode(): the mode of the stanza that names this interface.
HasStanza(nic) ==
  /\ "interfaces" \in Visible(root)
  /\ netconf[root] # NoConf
  /\ netconf[root][1] = nic

\* ifup of a static stanza fails: the installer writes no address into it.
IfupCanSucceed(nic) == HasStanza(nic) /\ netconf[root][2] = "dhcp"

\* prepare_dhcp() wants /bin/sh and ip in the root; configure_network() wants
\* every interface configured; then ifup and a ping must succeed.  The rest of the
\* root is not looked at.
NetworkReady ==
  /\ Nics # {}
  /\ "applets" \in Visible(root)
  /\ \A nic \in Nics : IfupCanSucceed(nic)

InitNetwork   == Needs("init_network", NetworkReady, "switch_root")

\* Mutant: a network that fails starts the whole boot again.
NetworkFailsAndRetries ==
  /\ pc = "init_network"
  /\ ~NetworkReady
  /\ StartStep("init_network", "mount_system")
  /\ UNCHANGED dirty

NetworkFails  == Lacks("init_network", NetworkReady)

SwitchRoot  == Needs("switch_root", TRUE, "init_logs")
InitLogs    == Needs("init_logs", TRUE, "keymaps")

\* "A bad layout must not prevent the system from booting."
InitKeymaps == Needs("keymaps", TRUE, "exec")

\* exec_systemd(): the one executable, not its units or what it starts.
HasSystemd == "systemd" \in Visible(root)
ExecSystemd      == Needs("exec", HasSystemd, "systemd")
SystemdIsMissing == Lacks("exec", HasSystemd)

\* An I/O error, a mount or an external command that fails.
StartStepFails ==
  /\ pc \in StartSteps \ {"fstab", "keymaps"}
  /\ Panic("fault")
  /\ UNCHANGED <<diskVars, choiceVars, dirty, historyVars>>

StartProgress ==
  \/ MountSystem \/ FstabIsOk \/ FstabIsMissing \/ InitHostname
  \/ GetVersion \/ VersionIsMissing \/ InitNetwork \/ NetworkFails
  \/ SwitchRoot \/ InitLogs \/ InitKeymaps \/ ExecSystemd \/ SystemdIsMissing

StartNext == StartProgress \/ StartStepFails
=============================================================================
