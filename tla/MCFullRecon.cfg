SPECIFICATION Spec
CONSTANTS
  Tools <- ShippedTools
  Wave <- ShippedWave
  Position <- ShippedPosition
  Gated <- ShippedGated
  Asn = "asn"
  Dns = "dns"
  IPs = {ip1, ip2}
  None = None
INVARIANTS
  TypeOK
  WaveBarrier
  GateNotStale
  ReportComplete
  NeverCrashes
PROPERTIES
  ResultWrittenOnce
  PromiseKept
