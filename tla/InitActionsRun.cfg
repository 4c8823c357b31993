SPECIFICATION FairActionsSpec
CONSTANTS
  Props = {"sys.a", "sys.b", "sys.vold", "persist.x", "ro.x", "net.dns", "net.change"}
  Values = {"0", "1", ""}
  Ro = {"ro.x"}
  Persist = {"persist.x"}
  Net = {"net.dns", "net.change"}
  RcSections <- MCRc
  BootQueue <- MCBootQueue
  SystemProps <- MCSystem
  LocalProps <- MCNone
  ClientSets <- MCClients
  SvcSets <- MCSvc
INVARIANTS
  QueueInv
  PersistAgrees
PROPERTIES
  PropertiesKept
  AllRun
