\* Two disks, and a probe that may pass over an installation.
SPECIFICATION Spec
CONSTANTS
  Disks = {sda, sdb}
  Nics = {eth0}
  Modes = {"dhcp"}
  NoDisk = NoDisk
  NoPart = NoPart
  NoConf = NoConf
  Layouts <- TwoDiskLayouts
  Countdown = 0
  MaxBoots = 2
  MaxSplit = 0
  ProbeMayMiss = TRUE
SYMMETRY DiskSymmetry
INVARIANTS CompletedIsWhole CompletedBoots
PROPERTIES NoUnconsentedErase
