SPECIFICATION CliSpec
CONSTANTS
  Focus = {"cascade", "status", "origin", "admission"}
  Zrams = {"zram0", "zram1"}
  MaxDaemons = 2
  ForeignZram = TRUE
  StatusLapses = TRUE
  MaxAlgos = 2
  Procs = {p1}
  ActiveKib = 1
  TierSize = 5
  Usages = {0, 4}
  CsControls = {"HEALTHY", "CRITICAL"}
  CsMaxDaemons = 2
  Versions = {1, 2}
  Partitions = {"sdb1", "sdc1"}
  Parent <- MCParent
  Home <- MCHome
  RootDevices = {"sda1", "sda"}
  MaxChanges = 2
  AdProcs = {p1, p2}
  Need <- MCNeed
  Budget = 3
  MaxEvidenceAge = 0
  MaxSupervisors = 1
  MaxBoots = 2
PROPERTIES CascadeContract CsContract OaContract AdContract
VIEW CliView
SYMMETRY Symmetry
CHECK_DEADLOCK FALSE
