SPECIFICATION Spec
CONSTANTS
  Agents = {"a", "b"}
  Paths = {"/p"}
  CrawlDelays = {"5", "30"}
  RobotsLines = 5
  Empty = Empty
  None = None
  Tables <- TwoTables
  Filler = Filler
  MaxBody = 3
  ChunkSize = 2
  Suffixes = {"assets"}
  Prefixes = {"assets"}
  Companies = {"assets"}
  Providers = {"GCP", "AZURE"}
  MaxWorkers = 2
  DataLines = {as1, as2}
  AsnLines = 4
  NoLine = NoLine
  Versions <- ThreeVersions
  CveReplies <- SearchReplies
  Absent = Absent
  Invalid = Invalid
  Subdomains = {sub1, sub2}
  Issued = {cert1, cert2}
  LogLines = 3
  MaxReturned = 1
  Many = 0
  Large = 1
  Hosts = {h1, h2, h3}
  Parallel = 2
  Setup = 1
  HostTimeout = 10
  Overrides = {3}
  Ports = {ftp, http}
  Dangerous = {ftp}
  Leads <- LeadTimes
  Validities <- ValidityDays
  JudgeDelays <- NoneOrHalfDay
  Unknown = Unknown
  Scores <- ScoreEdges
  Null = Null
  EntryCounts <- CountEdges
  Dates <- DateEdges
  MaxDates = 3
  Unparsable = Unparsable
  RawHeaders <- ResponseHeaders
  Year = 2
  Missing = Missing
  NoAge = NoAge
  BadAge = BadAge
INVARIANTS
  TypeOK
  RulesRight
  FetchRight
  ReportIsMerge
  FindingsAreReplies
  AnswerIsWhole
  CvesAffect
  CountsBeforeCut
  ScanNotLost
  VerdictsFollowEvidence
PROPERTIES
  CallEnds
