SPECIFICATION FairSetup
INVARIANTS
  CommandReleased
  MapsBeforeNetwork
  TunOwnedByProxy
  ProxyOutlivesCommand
PROPERTIES
  NobodyWaits
  SignalEndsAll
