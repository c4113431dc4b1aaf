\* PID 1 always gets somewhere.
SPECIFICATION FairSpec
CONSTANTS
  Disks = {sda}
  Nics = {eth0}
  Modes = {"dhcp", "static"}
  NoDisk = NoDisk
  NoPart = NoPart
  NoConf = NoConf
  Layouts <- OneDiskLayouts
  Countdown = 2
  MaxBoots = 2
  MaxSplit = 0
  ProbeMayMiss = FALSE
PROPERTIES PanicEnds BootSettles EveryBootEnds
