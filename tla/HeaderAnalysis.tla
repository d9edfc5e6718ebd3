---------------------------- MODULE HeaderAnalysis ----------------------------
(***************************************************************************)
(* _analyze_raw_headers (src/tools/headers_tool.py) judges the security    *)
(* headers of one response, and headers_extractor                          *)
(* (src/tools/signals/headers.py) warns of those that are absent.  Which   *)
(* response is judged is the subject of HeaderWalk.                        *)
(*                                                                         *)
(* A header is what the rules tell apart of its value.  The headers that   *)
(* disclose software are left out: they are only reported when present.    *)
(***************************************************************************)
EXTENDS Integers, Sequences, FiniteSets

CONSTANTS RawHeaders,  \* the headers a response may have
          Year,        \* 31536000 seconds
          Missing,     \* no such header, or an empty one
          NoAge,       \* no max-age directive
          BadAge       \* one that is not a number

Sources == {"'self'", "'none'", "*", "'unsafe-inline'", "'unsafe-eval'", "other"}

(* The rules look at the first source of a directive and at the set of all.*)
Directive == [name : {"default-src", "script-src", "other"},
              first : Sources, all : SUBSET Sources]

Raw == [hsts : [age : Int \cup {NoAge, BadAge}, subdomains : BOOLEAN] \cup {Missing},
        csp  : [enforced : BOOLEAN, directives : SUBSET Directive] \cup {Missing},
        xfo  : {"expected", "unexpected"} \cup {Missing},
        xcto : {"nosniff", "unexpected"} \cup {Missing},
        rp   : Seq({"good", "leaky", "unknown"}) \cup {Missing},
        pp   : (SUBSET {"camera", "payment", "other"}) \cup {Missing}]

Names == {"hsts", "csp", "xfo", "xcto", "rp", "pp"}

HeaderAssumption == /\ RawHeaders \subseteq Raw
                    /\ Year \in Nat \ {0}
                    /\ Missing \notin {"expected", "unexpected", "nosniff"}

VARIABLES pc,             \* control state
          raw,            \* the headers of the response, in a set of at most one
          analysis,       \* analysis[n]: what is said of header n, likewise
          missing,        \* signals["missing_security_headers"]
          headerWarning   \* what the extractor adds to auto_warnings

vars == <<pc, raw, analysis, missing, headerWarning>>

Judged(issues, severity) == [present |-> TRUE, issues |-> issues, severity |-> severity]

NotThere(severity) == [present |-> FALSE, issues |-> {"missing"}, severity |-> severity]

AgeIssue(age) == CASE age = NoAge  -> "no max-age"
                   [] age = BadAge -> "unreadable max-age"
                   [] OTHER        -> CASE age < 0         -> "negative max-age"
                                        [] age = 0         -> "max-age 0"
                                        [] age \in 1..(Year - 1) -> "short max-age"
                                        [] OTHER           -> "none"

AgeSeverity(age) ==
  CASE AgeIssue(age) = "none"                                      -> "low"
    [] AgeIssue(age) \in {"unreadable max-age", "short max-age"}   -> "medium"
    [] OTHER                                                       -> "high"

(* severity == "low" guards what may only raise it to medium.              *)
AtLeastMedium(condition, severity) ==
  IF condition /\ severity = "low" THEN "medium" ELSE severity

(* Mutant: a missing includeSubDomains is medium whatever max-age says.    *)
HstsLastWord(h) ==
  IF h = Missing THEN NotThere("high")
  ELSE Judged(({AgeIssue(h.age)} \ {"none"}) \cup (IF h.subdomains THEN {} ELSE {"no subdomains"}),
              IF h.subdomains THEN AgeSeverity(h.age) ELSE "medium")

Hsts(h) ==
  IF h = Missing THEN NotThere("high")
  ELSE Judged(({AgeIssue(h.age)} \ {"none"}) \cup (IF h.subdomains THEN {} ELSE {"no subdomains"}),
              AtLeastMedium(~h.subdomains, AgeSeverity(h.age)))

Restrictive(policy) == \E d \in policy.directives :
                          d.name = "default-src" /\ d.first \in {"'self'", "'none'"}

Grave(policy) ==
  {s \in {"'unsafe-inline'", "'unsafe-eval'"} : \E d \in policy.directives : s \in d.all}
    \cup {s \in {"*"} : \E d \in policy.directives : d.name # "other" /\ s \in d.all}

Csp(policy) ==
  IF policy = Missing THEN NotThere("high")
  ELSE Judged(Grave(policy) \cup (IF Restrictive(policy) THEN {} ELSE {"no default-src"})
                \cup (IF policy.enforced THEN {} ELSE {"report-only"}),
              AtLeastMedium(~Restrictive(policy) \/ ~policy.enforced,
                            IF Grave(policy) # {} THEN "high" ELSE "low"))

Frame(v) == CASE v = Missing    -> NotThere("medium")
              [] v = "expected" -> Judged({}, "low")
              [] OTHER          -> Judged({"unexpected value"}, "medium")

(* A wrong value counts as an absent header.                               *)
ContentType(v) == IF v = "nosniff" THEN Judged({}, "low") ELSE NotThere("medium")

Known(tokens) == {i \in DOMAIN tokens : tokens[i] # "unknown"}

(* The last known token, or else the last.                                 *)
Referrer(tokens) ==
  IF tokens = Missing THEN NotThere("low")
  ELSE IF Known(tokens) # {}
            /\ tokens[CHOOSE i \in Known(tokens) : \A j \in Known(tokens) : j <= i] = "good"
       THEN Judged({}, "low") ELSE Judged({"leaky"}, "medium")

(* Features granted to every origin.                                       *)
Permissions(granted) ==
  IF granted = Missing THEN NotThere("low")
  ELSE LET issues == granted \ {"other"} IN
       Judged(issues, IF issues = {} THEN "low" ELSE "medium")

-----------------------------------------------------------------------------
Init == /\ pc = "called" /\ raw = {} /\ analysis = {}
        /\ missing = {} /\ headerWarning = "none"

(* No page was reached (HeaderWalk).                                       *)
Fails == /\ pc = "called"
         /\ pc' = "failed"
         /\ UNCHANGED <<raw, analysis, missing, headerWarning>>

Analyze(r) ==
  /\ pc = "called"
  /\ raw' = {r}
  /\ analysis' = {[hsts |-> Hsts(r.hsts), csp |-> Csp(r.csp), xfo |-> Frame(r.xfo),
                   xcto |-> ContentType(r.xcto), rp |-> Referrer(r.rp),
                   pp |-> Permissions(r.pp)]}
  /\ pc' = "signals"
  /\ UNCHANGED <<missing, headerWarning>>

(* headers_extractor, of a response with a 2xx status.                     *)
Extract == /\ pc = "signals"
           /\ missing' = {n \in Names : \E a \in analysis : ~a[n].present}
           /\ headerWarning' = CASE Cardinality(missing') >= 4    -> "gap"
                                 [] Cardinality(missing') \in 2..3 -> "some"
                                 [] OTHER                          -> "none"
           /\ pc' = "done"
           /\ UNCHANGED <<raw, analysis>>

Ended == pc \in {"failed", "done"}

Next == Fails \/ Extract \/ \E r \in RawHeaders : Analyze(r)

-----------------------------------------------------------------------------
Severities == [low |-> 0, medium |-> 1, high |-> 2]

TypeOK == /\ pc \in {"called", "signals", "failed", "done"}
          /\ raw \subseteq RawHeaders
          /\ \A a \in analysis, n \in Names : a[n].severity \in DOMAIN Severities
          /\ missing \subseteq Names
          /\ headerWarning \in {"none", "some", "gap"}

(* The weight of each issue, read on its own.                              *)
Weight(issue) ==
  CASE issue \in {"no max-age", "negative max-age", "max-age 0", "'unsafe-inline'",
                  "'unsafe-eval'", "*"} -> 2
    [] OTHER -> 1

(* The severity is that of the worst issue.                                *)
WorstIssue(x) ==
  x.present => /\ \A i \in x.issues : Weight(i) <= Severities[x.severity]
               /\ x.severity # "low" =>
                    \E i \in x.issues : Weight(i) = Severities[x.severity]

(* A header without issues does what it is for: max-age and subdomains, an *)
(* enforced default that the scripts cannot leave, a known last word on    *)
(* referrers.                                                              *)
NoIssueWorks(r, a) ==
  /\ a.hsts.issues = {} => r.hsts.subdomains /\ r.hsts.age >= Year
  /\ a.csp.issues = {} =>
       /\ r.csp.enforced
       /\ \E d \in r.csp.directives : d.name = "default-src"
       /\ \A d \in r.csp.directives : d.name # "other" =>
            d.all \cap {"*", "'unsafe-inline'", "'unsafe-eval'"} = {}
  /\ a.rp.issues = {} =>
       \E i \in DOMAIN r.rp : /\ r.rp[i] = "good"
                              /\ \A j \in DOMAIN r.rp : j > i => r.rp[j] = "unknown"

NotSent(r) == {n \in Names : r[n] = Missing}

(* A header that is there is as bad as its worst issue, whatever order the *)
(* rules ran in; it has none only if it does what it is for; and a         *)
(* response without four of the six headers is warned of.                  *)
SeverityIsWorst ==
  pc = "done" =>
    \A r \in raw, a \in analysis :
      /\ \A n \in Names : WorstIssue(a[n])
      /\ NoIssueWorks(r, a)
      /\ Cardinality(NotSent(r)) >= 4 => headerWarning = "gap"
=============================================================================
