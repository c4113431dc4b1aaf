\* A second interface keeps a completed installation from booting.
SPECIFICATION Spec
CONSTANTS
  Disks = {sda}
  Nics = {eth0, eth1}
  Modes = {"dhcp"}
  NoDisk = NoDisk
  NoPart = NoPart
  NoConf = NoConf
  Layouts <- OneDiskLayouts
  Countdown = 0
  MaxBoots = 2
  MaxSplit = 0
  ProbeMayMiss = FALSE
INVARIANTS CompletedBoots
