SPECIFICATION FairSpec
CONSTANTS
  Dns = {"udp", "tcp"}
  Web = {"http"}
  Proxies = {}
  BindOrder <- PlainOrder
  RegisterOrder <- PlainOrder
  UseUI = TRUE
PROPERTIES SignalEndsProcess
CHECK_DEADLOCK FALSE
