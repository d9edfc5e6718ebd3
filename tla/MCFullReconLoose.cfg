SPECIFICATION Spec
CONSTANTS
  Tools <- LooseTools
  Wave <- LooseWave
  Position <- LoosePosition
  Gated <- LooseGated
  Asn = "asn"
  Dns = "dns"
  IPs = {ip1, ip2}
  None = None
INVARIANTS
  NoThreadSurvives
PROPERTIES
  CallEnds
