SPECIFICATION FairSpec
CONSTANTS
  Dns = {"udp", "tcp"}
  Web = {"http"}
  Proxies = {"socks"}
  BindOrder <- PlainOrder
  RegisterOrder <- PlainOrder
  UseUI = TRUE
INVARIANTS TypeOK StoppedIsSilent CleanExit ReadyMeansStarted
PROPERTIES DaemonStops StopEndsConsole
CHECK_DEADLOCK FALSE
