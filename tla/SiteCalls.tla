------------------------------ MODULE SiteCalls ------------------------------
(***************************************************************************)
(* One call of the server (src/server.py), like ToolCalls, of the tools    *)
(* whose specifications and theorems stand by themselves: those that are   *)
(* led by a site's redirects or by the records of its domain.              *)
(*                                                                         *)
(* Each tool is the machine of its own module; they share the control      *)
(* state of the call and nothing else.                                     *)
(***************************************************************************)
EXTENDS Naturals, Sequences, FiniteSets

CONSTANTS Sites, Private, NoHost, TraceHops, LongChain, Relative,  \* RedirectTrace
          Urls, WalkHops, Pages,                                   \* HeaderWalk
          Selectors, SpfRecords, DmarcRecords, KeyLists,           \* EmailSecurity
          NSubdomains, ProbeHops, Paths,                           \* SubdomainTakeover
          NoUrl, None

VARIABLES tool,  \* the tool that was named
          pc,    \* control state of its call
          original, current, chain, issues, notes,
          requested, walkUrl, hops, result, signal, warning,
          suborg, asked, spf, dmarc, inherited, keys, dkim, advice, rating, warnings,
          sub, bucket, confidence, scheme, probeUrl, trail, errors, reply, rejected

redirects == <<original, current, chain, issues, notes>>
headers   == <<requested, walkUrl, hops, result, signal, warning>>
records   == <<suborg, asked, spf, dmarc, inherited, keys, dkim, advice, rating, warnings>>
verdicts  == <<sub, bucket, confidence, scheme, probeUrl, trail, errors, reply, rejected>>

vars == <<tool, pc, redirects, headers, records, verdicts>>

Trace    == INSTANCE RedirectTrace WITH MaxHops <- TraceHops
Walk     == INSTANCE HeaderWalk WITH MaxHops <- WalkHops, current <- walkUrl
Mail     == INSTANCE EmailSecurity
Takeover == INSTANCE SubdomainTakeover WITH MaxHops <- ProbeHops, current <- probeUrl

ASSUME SiteAssumption == /\ Trace!TraceAssumption /\ Walk!WalkAssumption
                         /\ Mail!RecordsAssumption /\ Takeover!TakeoverAssumption

(* The registrations that this module is about.                            *)
Tools == {"trace_redirects", "headers_analyzer", "email_security_check", "subdomain_takeover"}

Init == /\ tool \in Tools
        /\ Trace!Init /\ Walk!Init /\ Mail!Init /\ Takeover!Init

-----------------------------------------------------------------------------
TraceRedirects == /\ tool = "trace_redirects" /\ Trace!Next
                  /\ UNCHANGED <<tool, headers, records, verdicts>>

(* With the walk of the redirects; what is made of the headers of the page *)
(* it ends on is part of ToolCalls.                                        *)
HeadersAnalyzer == /\ tool = "headers_analyzer" /\ Walk!Next
                   /\ UNCHANGED <<tool, redirects, records, verdicts>>

EmailSecurityCheck == /\ tool = "email_security_check" /\ Mail!Next
                      /\ UNCHANGED <<tool, redirects, headers, verdicts>>

SubdomainTakeoverScan == /\ tool = "subdomain_takeover" /\ Takeover!Next
                         /\ UNCHANGED <<tool, redirects, headers, records>>

Next == \/ TraceRedirects \/ HeadersAnalyzer
        \/ EmailSecurityCheck \/ SubdomainTakeoverScan

Spec == Init /\ [][Next]_vars

-----------------------------------------------------------------------------
(* No private host is requested, however the servers lead the trace        *)
(* (RedirectTrace).                                                        *)
NeverFetchesPrivate == tool = "trace_redirects" => Trace!NeverFetchesPrivate

(* The chain is the walk of the redirects, without a URL twice             *)
(* (RedirectTrace).                                                        *)
ChainIsWalk == tool = "trace_redirects" => Trace!ChainIsWalk

(* The report says why the trace stopped (RedirectTrace).                  *)
StopExplained == tool = "trace_redirects" => Trace!StopExplained

(* What the notes praise is so (RedirectTrace).                            *)
NotesTruthful == tool = "trace_redirects" => Trace!NotesTruthful

(* A chain said to have stayed on HTTPS names no other scheme              *)
(* (RedirectTrace).                                                        *)
HttpsThroughout == tool = "trace_redirects" => Trace!HttpsThroughout

(* The hops are the walk a browser would make (HeaderWalk).                *)
HopsAreWalk == tool = "headers_analyzer" => Walk!HopsAreWalk

(* Only a page of the site is evidence of absent headers (HeaderWalk).     *)
SignalIsEvidence == tool = "headers_analyzer" => Walk!SignalIsEvidence

(* The block says "none" only of a page that lacks no header (HeaderWalk). *)
NoneIsEvidence == tool = "headers_analyzer" => Walk!NoneIsEvidence

(* A record is advised only where its name is known to have none           *)
(* (EmailSecurity).                                                        *)
AbsenceIsEvidence == tool = "email_security_check" => Mail!AbsenceIsEvidence

(* The organisational domain speaks last (EmailSecurity).                  *)
InheritanceIsLastResort == tool = "email_security_check" => Mail!InheritanceIsLastResort

(* Rating and warnings do not contradict each other (EmailSecurity).       *)
RatingMatchesWarnings == tool = "email_security_check" => Mail!RatingMatchesWarnings

(* The order of a selector's records does not matter (EmailSecurity).      *)
KeysJudged == tool = "email_security_check" => Mail!KeysJudged

(* No warning rests on a failed lookup (EmailSecurity).                    *)
WarningsAreEvidence == tool = "email_security_check" => Mail!WarningsAreEvidence

(* The probe asks only what belongs to the subdomain (SubdomainTakeover).  *)
StaysInScope == tool = "subdomain_takeover" => Takeover!StaysInScope

(* The probe gives up only after both schemes (SubdomainTakeover).         *)
UnableMeansBothFailed == tool = "subdomain_takeover" => Takeover!UnableMeansBothFailed

(* An answer has a verdict on every subdomain (SubdomainTakeover).         *)
AllJudged == tool = "subdomain_takeover" => Takeover!AllJudged

(* No reply ends the scan with an exception (SubdomainTakeover).           *)
MalformedRepliesCaught == tool = "subdomain_takeover" => Takeover!MalformedRepliesCaught

(* No verdict is given twice or changed (SubdomainTakeover).               *)
JudgedOnce == Takeover!JudgedOnce
=============================================================================
