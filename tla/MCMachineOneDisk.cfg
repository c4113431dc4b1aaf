\* Every layout of one disk, every choice of the user, resets anywhere.
SPECIFICATION Spec
CONSTANTS
  Disks = {sda}
  Nics = {eth0}
  Modes = {"dhcp", "static"}
  NoDisk = NoDisk
  NoPart = NoPart
  NoConf = NoConf
  Layouts <- OneDiskLayouts
  Countdown = 1
  MaxBoots = 3
  MaxSplit = 1
  ProbeMayMiss = FALSE
INVARIANTS TypeOK OneInstallation CompletedStaysBootable CompletedFailsOnNetworkOnly StartedIsUsable
PROPERTIES InstallationKept ImplementsLife
