------------------------------- MODULE PortScan -------------------------------
(***************************************************************************)
(* port_scan (src/tools/portscan_tool.py) runs nmap with a --host-timeout  *)
(* and kills it after a timeout of its own; portscan_extractor             *)
(* (src/tools/signals/ports_scan.py) lists the open ports and warns of the *)
(* dangerous ones.                                                         *)
(*                                                                         *)
(* nmap is external: once it is set up it scans so many hosts at a time,   *)
(* gives up a host at its --host-timeout, reports it without ports then,   *)
(* and is done when all hosts are.  Time counts in ticks.  The operating   *)
(* system guesses, script outputs and versions are left out.               *)
(***************************************************************************)
EXTENDS Integers, FiniteSets

CONSTANTS Hosts,        \* the addresses that the target stands for
          Parallel,     \* hosts that nmap scans at a time
          Setup,        \* bound: ticks until nmap's first host is started
          HostTimeout,  \* --host-timeout of the scan type
          Overrides,    \* values of the parameter timeout
          Ports,        \* ports that are scanned
          Dangerous     \* those that the extractor knows

ScanAssumption == /\ IsFiniteSet(Hosts) /\ Ports # {}
                  /\ Parallel \in Nat \ {0}
                  /\ Overrides \subseteq Nat \ {0}
                  /\ Setup \in Nat /\ HostTimeout \in Nat \ {0}
                  /\ Dangerous \subseteq Ports

VARIABLES pc,        \* control state of the caller
          override,  \* the parameter timeout, in a set of at most one
          limit,     \* effective_timeout
          clock,     \* ticks since nmap was started
          host,      \* host[h]: what nmap has made of it
          since,     \* since[h]: ticks since its scan was started
          found,     \* found[h]: the states of the ports of host h
          timedout,  \* host_timeout_status: the hosts it marks, in a set of at most one
          openPorts, dangers \* signals["open_ports"] and the warnings

vars == <<pc, override, limit, clock, host, since, found, timedout, openPorts, dangers>>

(* Mutant: without the margin.                                             *)
DefaultTimeoutBare == HostTimeout

(* _default_timeout, TIMEOUT_MARGIN being 0.2.                             *)
DefaultTimeout == (HostTimeout * 12) \div 10

(* What the margin is for: nmap's own work before the first host and after *)
(* the last.                                                               *)
SetupFits == Setup + HostTimeout < DefaultTimeout

In(s) == {h \in Hosts : host[h] = s}

Init == /\ pc = "called" /\ override = {} /\ limit = 0 /\ clock = 0
        /\ host = [h \in Hosts |-> "waiting"]
        /\ since = [h \in Hosts |-> 0]
        /\ found = [h \in {} |-> {}] /\ timedout = {}
        /\ openPorts = {} /\ dangers = {}

(* Scan type, target or timeout is invalid, or nmap is not there.          *)
Reject == /\ pc = "called"
          /\ pc' = "failed"
          /\ UNCHANGED <<override, limit, clock, host, since, found, timedout, openPorts, dangers>>

Start == /\ pc = "called"
         /\ override' \in {{}} \cup {{t} : t \in Overrides}
         /\ limit' = IF override' = {} THEN DefaultTimeout ELSE CHOOSE t \in override' : TRUE
         /\ pc' = "scan"
         /\ UNCHANGED <<clock, host, since, found, timedout, openPorts, dangers>>

-----------------------------------------------------------------------------
(* nmap takes up a host as soon as it may, and finds that it is up or not. *)
MayTakeUp == In("waiting") # {} /\ Cardinality(In("running")) < Parallel

TakeUp(h, s) == /\ pc = "scan"
                /\ host[h] = "waiting" /\ MayTakeUp
                /\ host' = [host EXCEPT ![h] = s]
                /\ UNCHANGED <<pc, override, limit, clock, since, found, timedout, openPorts,
                               dangers>>

HostEnds(h, s) == /\ pc = "scan"
                  /\ host[h] = "running"
                  /\ s = "timed out" <=> since[h] = HostTimeout
                  /\ host' = [host EXCEPT ![h] = s]
                  /\ since' = [since EXCEPT ![h] = 0]
                  /\ UNCHANGED <<pc, override, limit, clock, found, timedout, openPorts, dangers>>

Over == In("waiting") \cup In("running") = {}

Tick == /\ pc = "scan" /\ clock < limit /\ ~Over
        /\ clock >= Setup => ~MayTakeUp
        /\ \A h \in In("running") : since[h] < HostTimeout
        /\ clock' = clock + 1
        /\ since' = [h \in Hosts |-> IF host[h] = "running" THEN since[h] + 1 ELSE 0]
        /\ UNCHANGED <<pc, override, limit, host, found, timedout, openPorts, dangers>>

-----------------------------------------------------------------------------
(* PortScannerTimeout: nmap is killed and its output is gone.              *)
Kill == /\ pc = "scan" /\ clock = limit /\ ~Over
        /\ pc' = "timed out"
        /\ UNCHANGED <<override, limit, clock, host, since, found, timedout, openPorts, dangers>>

(* The ports that are listed of a host; nmap sums up those that have the   *)
(* state of most ports, and lists none of a host that it gave up.          *)
Listings == UNION {[P -> {"open", "filtered"}] : P \in SUBSET Ports}

(* _extract_host_timeout_status, or None: of a report without hosts, and   *)
(* when nmap's output is missing, cannot be read or raises.                *)
Statuses(hosts) == {{}} \cup (IF hosts = {} THEN {} ELSE {{hosts \cap In("timed out")}})

(* Mutant: the hosts that timed out are left out of the results.           *)
ReportScanned ==
  /\ pc = "scan" /\ Over
  /\ found' \in [In("scanned") -> Listings]
  /\ timedout' \in Statuses(DOMAIN found')
  /\ pc' = "signals"
  /\ UNCHANGED <<override, limit, clock, host, since, openPorts, dangers>>

(* The loop over all_hosts, and host_timeout_status.                       *)
Report ==
  /\ pc = "scan" /\ Over
  /\ \E f \in [In("scanned") -> Listings] :
       found' = [h \in In("scanned") \cup In("timed out") |->
                   IF h \in In("scanned") THEN f[h] ELSE [p \in {} |-> "open"]]
  /\ timedout' \in Statuses(In("scanned") \cup In("timed out"))
  /\ pc' = "signals"
  /\ UNCHANGED <<override, limit, clock, host, since, openPorts, dangers>>

(* portscan_extractor.                                                     *)
Extract ==
  /\ pc = "signals"
  /\ openPorts' = UNION {{p \in DOMAIN found[h] : found[h][p] = "open"} : h \in DOMAIN found}
  /\ dangers' = Dangerous \cap openPorts'
  /\ pc' = "done"
  /\ UNCHANGED <<override, limit, clock, host, since, found, timedout>>

Ended == pc \in {"failed", "timed out", "done"}

Next == \/ Reject \/ Start \/ Tick \/ Kill \/ Report \/ Extract
        \/ \E h \in Hosts : \/ \E s \in {"running", "down"} : TakeUp(h, s)
                            \/ \E s \in {"scanned", "timed out"} : HostEnds(h, s)

-----------------------------------------------------------------------------
TypeOK == /\ pc \in {"called", "scan", "failed", "timed out", "signals", "done"}
          /\ override \subseteq Overrides /\ limit \in Nat /\ clock \in 0..limit
          /\ host \in [Hosts -> {"waiting", "running", "scanned", "timed out", "down"}]
          /\ since \in [Hosts -> 0..HostTimeout]
          /\ DOMAIN found \subseteq Hosts /\ timedout \subseteq SUBSET Hosts
          /\ dangers \subseteq openPorts /\ openPorts \subseteq Ports

(* "When omitted, it defaults to the scan's --host-timeout plus a margin": *)
(* as long as nmap's setup fits into the margin, a scan with no more hosts *)
(* that are up than nmap handles at a time always ends with its results,   *)
(* though each may use up its --host-timeout; only a caller's own timeout  *)
(* or a larger network can lose the whole scan.                            *)
MarginSuffices ==
  (pc = "timed out" /\ override = {}) => Cardinality(Hosts \ In("down")) > Parallel

(* A report has every host that is up, and the status, where it is given,  *)
(* tells the hosts that nmap gave up, which have no ports, from those that *)
(* have none to list; without it they look alike.  A port is called        *)
(* dangerous exactly if it was seen open on a host scanned to the end.     *)
SilenceIsMarked ==
  pc = "done" =>
    /\ DOMAIN found = Hosts \ In("down")
    /\ \A marked \in timedout : \A h \in DOMAIN found :
         /\ h \in marked <=> host[h] = "timed out"
         /\ h \in marked => DOMAIN found[h] = {}
    /\ \A p \in Dangerous :
         p \in dangers <=> \E h \in In("scanned") : p \in DOMAIN found[h] /\ found[h][p] = "open"
=============================================================================
