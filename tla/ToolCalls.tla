------------------------------ MODULE ToolCalls ------------------------------
(***************************************************************************)
(* One call of the server (src/server.py): the client names one of the     *)
(* registered tools, the tool runs to its end in the calling thread, and   *)
(* its dictionary is the answer.  full_recon makes the same calls of the   *)
(* tools of its registry, each in a thread of its own.                     *)
(*                                                                         *)
(* Each tool is the machine of its own module; they share the control      *)
(* state of the call and nothing else.  The tools that are not here have   *)
(* modules with specifications of their own.                               *)
(***************************************************************************)
EXTENDS Integers, Sequences, FiniteSets

CONSTANTS Agents, Paths, CrawlDelays, RobotsLines, Empty, None,      \* RobotsParser
          Tables, Filler, MaxBody, ChunkSize,                        \* TechStack
          Suffixes, Prefixes, Companies, Providers, MaxWorkers,      \* CloudExposure
          DataLines, AsnLines, NoLine,                               \* AsnLookup
          Versions, CveReplies, Absent, Invalid,                     \* CveLookup
          Subdomains, Issued, LogLines, MaxReturned, Many, Large,    \* CertTransparency
          Hosts, Parallel, Setup, HostTimeout, Overrides, Ports, Dangerous, \* PortScan
          Leads, Validities, JudgeDelays, Unknown,                   \* SslInspect
          Scores, Null,                                              \* IpReputation
          EntryCounts,                                               \* HibpCheck
          Dates, MaxDates, Unparsable,                               \* WhoisLookup
          RawHeaders, Year, Missing, NoAge, BadAge                   \* HeaderAnalysis

VARIABLES tool,  \* the tool that was named
          pc,    \* control state of its call
          file, rule, seen, rules,
          outcome, open, headers, cookies, arrived, body, technologies, software,
          buckets, reply, findings, totals,
          peer, lines, asn,
          version, replies, cves,
          log, subdomains, wildcards, certificates, answer, warning,
          override, limit, clock, host, since, found, timedout, openPorts, dangers,
          connection, delay, judgement, expiryWarning,
          evidence, reputation, abuseScore, flagged, ipWarning,
          query, breachReply, pasteReply, exposure,
          expiration, expiryDays, domainWarning,
          raw, analysis, missing, headerWarning

robots == <<file, rule, seen, rules>>
tech   == <<outcome, open, headers, cookies, arrived, body, technologies, software>>
cloud  == <<buckets, reply, findings, totals>>
whose  == <<peer, lines, asn>>
cve    == <<version, replies, cves>>
certs  == <<log, subdomains, wildcards, certificates, answer, warning>>
scan   == <<override, limit, clock, host, since, found, timedout, openPorts, dangers>>
ssl    == <<connection, delay, judgement, expiryWarning>>
abuse  == <<evidence, reputation, abuseScore, flagged, ipWarning>>
hibp   == <<query, breachReply, pasteReply, exposure>>
whois  == <<expiration, expiryDays, domainWarning>>
security == <<raw, analysis, missing, headerWarning>>

vars == <<tool, pc, robots, tech, cloud, whose, cve, certs, scan, ssl, abuse, hibp, whois, security>>

Robots == INSTANCE RobotsParser WITH Delays <- CrawlDelays, MaxLines <- RobotsLines
Tech   == INSTANCE TechStack
Cloud  == INSTANCE CloudExposure
Asn    == INSTANCE AsnLookup WITH MaxLines <- AsnLines
Cve    == INSTANCE CveLookup
Cert   == INSTANCE CertTransparency WITH MaxLines <- LogLines
Scan   == INSTANCE PortScan
Ssl    == INSTANCE SslInspect WITH Delays <- JudgeDelays
Ip     == INSTANCE IpReputation
Hibp   == INSTANCE HibpCheck
Whois  == INSTANCE WhoisLookup
Sec    == INSTANCE HeaderAnalysis

ASSUME ToolAssumption ==
  /\ Robots!ParserAssumption /\ Tech!TechAssumption /\ Cloud!CloudAssumption
  /\ Asn!AsnAssumption /\ Cve!CveAssumption /\ Cert!CertAssumption
  /\ Scan!ScanAssumption /\ Ssl!SslAssumption /\ Ip!IpAssumption
  /\ Hibp!HibpAssumption /\ Whois!WhoisAssumption /\ Sec!HeaderAssumption

(* The registrations that this module is about.                            *)
Tools == {"robots_txt_inspect", "tech_stack_detect", "cloud_exposure_check", "asn_lookup",
          "cve_lookup", "cert_transparency", "port_scan", "ssl_inspect", "ip_reputation",
          "hibp_check", "whois_lookup", "headers_analyzer"}

Init == /\ tool \in Tools
        /\ Robots!Init /\ Tech!Init /\ Cloud!Init /\ Asn!Init /\ Cve!Init /\ Cert!Init
        /\ Scan!Init /\ Ssl!Init /\ Ip!Init /\ Hibp!Init /\ Whois!Init /\ Sec!Init

-----------------------------------------------------------------------------
RobotsTxtInspect ==
  /\ tool = "robots_txt_inspect" /\ Robots!Next
  /\ UNCHANGED <<tool, tech, cloud, whose, cve, certs, scan, ssl, abuse, hibp, whois, security>>

TechStackDetect ==
  /\ tool = "tech_stack_detect" /\ Tech!Next
  /\ UNCHANGED <<tool, robots, cloud, whose, cve, certs, scan, ssl, abuse, hibp, whois, security>>

CloudExposureCheck ==
  /\ tool = "cloud_exposure_check" /\ Cloud!Next
  /\ UNCHANGED <<tool, robots, tech, whose, cve, certs, scan, ssl, abuse, hibp, whois, security>>

AsnCaller ==
  /\ tool = "asn_lookup" /\ Asn!Caller
  /\ UNCHANGED <<tool, robots, tech, cloud, cve, certs, scan, ssl, abuse, hibp, whois, security>>

(* What the whois service sends: nothing obliges it to end.                *)
AsnService ==
  /\ tool = "asn_lookup" /\ Asn!Service
  /\ UNCHANGED <<tool, robots, tech, cloud, cve, certs, scan, ssl, abuse, hibp, whois, security>>

CveSearch ==
  /\ tool = "cve_lookup" /\ Cve!Next
  /\ UNCHANGED <<tool, robots, tech, cloud, whose, certs, scan, ssl, abuse, hibp, whois, security>>

CertificateLog ==
  /\ tool = "cert_transparency" /\ Cert!Next
  /\ UNCHANGED <<tool, robots, tech, cloud, whose, cve, scan, ssl, abuse, hibp, whois, security>>

NmapScan ==
  /\ tool = "port_scan" /\ Scan!Next
  /\ UNCHANGED <<tool, robots, tech, cloud, whose, cve, certs, ssl, abuse, hibp, whois, security>>

Certificate ==
  /\ tool = "ssl_inspect" /\ Ssl!Next
  /\ UNCHANGED <<tool, robots, tech, cloud, whose, cve, certs, scan, abuse, hibp, whois, security>>

Reputation ==
  /\ tool = "ip_reputation" /\ Ip!Next
  /\ UNCHANGED <<tool, robots, tech, cloud, whose, cve, certs, scan, ssl, hibp, whois, security>>

Breaches ==
  /\ tool = "hibp_check" /\ Hibp!Next
  /\ UNCHANGED <<tool, robots, tech, cloud, whose, cve, certs, scan, ssl, abuse, whois, security>>

Registration ==
  /\ tool = "whois_lookup" /\ Whois!Next
  /\ UNCHANGED <<tool, robots, tech, cloud, whose, cve, certs, scan, ssl, abuse, hibp, security>>

(* Of headers_analyzer only what follows the walk of the redirects.        *)
SecurityHeaders ==
  /\ tool = "headers_analyzer" /\ Sec!Next
  /\ UNCHANGED <<tool, robots, tech, cloud, whose, cve, certs, scan, ssl, abuse, hibp, whois>>

Tool == \/ RobotsTxtInspect \/ TechStackDetect \/ CloudExposureCheck \/ AsnCaller
        \/ CveSearch \/ CertificateLog \/ NmapScan \/ Certificate \/ Reputation
        \/ Breaches \/ Registration \/ SecurityHeaders

Ended == pc \in {"failed", "timed out", "done"}

Terminated == Ended /\ UNCHANGED vars

Next == Tool \/ AsnService \/ Terminated

(* The caller waits for an answer from outside.  The timeouts are for one  *)
(* read each: a service that goes on sending a byte now and then keeps the *)
(* call, and nothing obliges it to stop.                                   *)
Requesting ==
  \/ /\ pc = "called"
     /\ tool \in {"robots_txt_inspect", "asn_lookup", "cert_transparency", "ssl_inspect",
                  "ip_reputation", "whois_lookup", "headers_analyzer"}
  \/ tool = "robots_txt_inspect" /\ pc = "http"
  \/ tool = "tech_stack_detect" /\ pc \in {"https", "http", "body"}
  \/ tool = "asn_lookup" /\ pc = "reading" /\ peer = "sending"
  \/ tool = "cve_lookup" /\ pc \in {"narrow", "broad"}
  \/ tool = "hibp_check" /\ pc \in {"email", "domain", "pastes"}

(* A provider's answer to a thread of cloud_exposure_check.                *)
Answering == \E t \in Cloud!AllTasks : Cloud!Answer(t)

(* A tool's own code goes on, and nmap is killed at its timeout.  Nothing  *)
(* outside is asked to be fair.                                            *)
Spec == Init /\ [][Next]_vars /\ WF_vars(Tool /\ ~Requesting /\ ~Answering)

-----------------------------------------------------------------------------
TypeOK ==
  /\ tool \in Tools
  /\ tool = "robots_txt_inspect"   => Robots!TypeOK
  /\ tool = "tech_stack_detect"    => Tech!TypeOK
  /\ tool = "cloud_exposure_check" => Cloud!TypeOK
  /\ tool = "asn_lookup"           => Asn!TypeOK
  /\ tool = "cve_lookup"           => Cve!TypeOK
  /\ tool = "cert_transparency"    => Cert!TypeOK
  /\ tool = "port_scan"            => Scan!TypeOK
  /\ tool = "ssl_inspect"          => Ssl!TypeOK
  /\ tool = "ip_reputation"        => Ip!TypeOK
  /\ tool = "hibp_check"           => Hibp!TypeOK
  /\ tool = "whois_lookup"         => Whois!TypeOK
  /\ tool = "headers_analyzer"     => Sec!TypeOK

(* The rules reported are those of the file (RobotsParser).                *)
RulesRight == tool = "robots_txt_inspect" => Robots!RulesRight

(* ... and exactly those, in every file, as the README claims of them      *)
(* (RobotsParser).                                                         *)
GroupsStandard == tool = "robots_txt_inspect" => Robots!GroupsStandard

(* http is tried exactly after a TLS or connection failure over https, no  *)
(* response stays open, and the body searched is the beginning of what was *)
(* sent, cut at the limit (TechStack).                                     *)
FetchRight == tool = "tech_stack_detect" => Tech!HttpIsLastResort /\ Tech!BodyIsPrefix

(* The technologies are what the four layers find, merged (TechStack).     *)
ReportIsMerge == tool = "tech_stack_detect" => Tech!ReportIsMerge

(* Every bucket has its own provider's answer (CloudExposure).             *)
FindingsAreReplies == tool = "cloud_exposure_check" => Cloud!FindingsAreReplies

(* An AS number is of the first data line of a whole reply (AsnLookup).    *)
AnswerIsWhole == tool = "asn_lookup" => Asn!AnswerIsWhole

(* The CVEs are those whose bounds span the version, and "none" is said    *)
(* after both searches (CveLookup).                                        *)
CvesAffect == tool = "cve_lookup" => Cve!CvesAffect

(* The numbers are of the log before the cut (CertTransparency).           *)
CountsBeforeCut == tool = "cert_transparency" => Cert!CountsBeforeCut

(* With the default timeout no scan that nmap can do at a time is lost,    *)
(* and a host without ports is marked unless it was scanned to the end     *)
(* (PortScan).                                                             *)
ScanNotLost == tool = "port_scan" => Scan!MarginSuffices /\ Scan!SilenceIsMarked

(* The verdicts of the tools that judge, and the warnings their extractors *)
(* add, follow the evidence: more of it never makes them milder, and a     *)
(* failed lookup is not evidence of safety (SslInspect, IpReputation,      *)
(* HibpCheck, WhoisLookup, HeaderAnalysis).                                *)
VerdictsFollowEvidence ==
  /\ tool = "ssl_inspect"   => Ssl!RatingFollowsEvidence
  /\ tool = "ip_reputation" => Ip!VerdictFollowsEvidence
  /\ tool = "hibp_check"    => Hibp!BreachesSurvive
  /\ tool = "whois_lookup"  => Whois!ExpiryNotMissed
  /\ tool = "headers_analyzer" => Sec!SeverityIsWorst

(* Breaches that were found are reported whatever the paste lookup says    *)
(* (HibpCheck).                                                            *)
PastesSupplemental == tool = "hibp_check" => Hibp!PastesSupplemental

(* No request of the call lasts for ever.                                  *)
RequestsEnd == /\ []<>~Requesting
               /\ \A t \in Cloud!AllTasks : []<>(reply[t] # "running")

(* A call is answered unless one of its own requests lasts for ever: no    *)
(* loop, no pool and no state of the tool keeps it (full_recon takes it    *)
(* for granted that its tools return).                                     *)
CallEnds == RequestsEnd => <>Ended
=============================================================================
