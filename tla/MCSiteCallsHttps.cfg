SPECIFICATION Spec
CONSTANTS
  Sites <- OwnAndOther
  Private <- PrivateHosts
  NoHost = NoHost
  TraceHops = 3
  LongChain = 2
  Relative = Relative
  Urls = {u1, u2, u3, u4}
  WalkHops = 3
  Pages <- PageKinds
  Selectors = {s1, s2}
  SpfRecords <- SomeSpf
  DmarcRecords <- SomeDmarc
  KeyLists <- SomeKeys
  NSubdomains = 2
  ProbeHops = 2
  Paths = {"/", "/p"}
  NoUrl = NoUrl
  None = None
INVARIANTS
  HttpsThroughout
