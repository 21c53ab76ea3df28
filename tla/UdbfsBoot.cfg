SPECIFICATION BootSpec
CONSTANTS
  Devices <- MCDevices
  Tables <- MCTables
  Delta = 1048576
  Junk = {0, 70}
  NoBlock = NoBlock
  Images = {1, 4, 6, 68, 69, 133}
  MaxInstalls = 2
  Spt = 18
  Heads = 2
  Allow = {}
INVARIANTS FormattedForUdbfs RootTableWhole ImageLoaded InstallKeepsDisk
PROPERTIES EndsInStage2
CHECK_DEADLOCK FALSE
