\* An installation cut short after its marker is started.
SPECIFICATION Spec
CONSTANTS
  Disks = {sda}
  Nics = {eth0}
  Modes = {"dhcp"}
  NoDisk = NoDisk
  NoPart = NoPart
  NoConf = NoConf
  Layouts <- OneDiskLayouts
  Countdown = 0
  MaxBoots = 2
  MaxSplit = 1
  ProbeMayMiss = FALSE
INVARIANTS StartsOnlyCompleted
