----------------------------- MODULE RobotsParser -----------------------------
(***************************************************************************)
(* robots_txt_inspect (src/tools/robots_txt_tool.py): robots.txt is        *)
(* fetched over https or else over http, and its lines are grouped into    *)
(* rules as they come.                                                     *)
(*                                                                         *)
(* A line is what is left of it after comments and blanks: its directive   *)
(* and its value.  The lists of a rule keep the order of the file and drop *)
(* repetitions; sets stand for them here.  Sitemap and Host lines belong   *)
(* to no group and are among the other lines.                              *)
(***************************************************************************)
EXTENDS Naturals, Sequences

CONSTANTS Agents,    \* values of User-agent lines
          Paths,     \* values of Allow and Disallow lines
          Delays,    \* values of Crawl-delay lines
          MaxLines,  \* bound: lines of the file
          Empty,     \* a missing value
          None       \* Python's None

ParserAssumption == /\ MaxLines \in Nat
                    /\ Empty \notin Agents \cup Paths \cup Delays
                    /\ None \notin Delays

L(directives, values) == [directive : directives, value : values \cup {Empty}]

Lines == L({"user-agent"}, Agents) \cup L({"allow", "disallow"}, Paths)
           \cup L({"crawl-delay"}, Delays) \cup L({"other"}, {})

VARIABLES pc,     \* control state
          file,   \* the lines read so far
          rule,   \* current_rule
          seen,   \* seen_directive_in_group
          rules   \* the rules saved

vars == <<pc, file, rule, seen, rules>>

NewRule == [agents |-> {}, allow |-> {}, disallow |-> {}, delay |-> None]

(* save_rule: groups without agents or without directives are dropped.     *)
SaveRule(r) == IF r.agents = {} \/ (r.allow = {} /\ r.disallow = {} /\ r.delay = None)
               THEN rules ELSE Append(rules, r)

Init == /\ pc = "called" /\ file = <<>>
        /\ rule = NewRule /\ seen = FALSE /\ rules = <<>>

(* An invalid domain, or an exception that is not one of the request's.    *)
Reject == /\ pc = "called"
          /\ pc' = "failed"
          /\ UNCHANGED <<file, rule, seen, rules>>

TryHttps == /\ pc = "called"
            /\ pc' \in {"lines", "http"}
            /\ UNCHANGED <<file, rule, seen, rules>>

TryHttp == /\ pc = "http"
           /\ pc' \in {"lines", "failed"}
           /\ UNCHANGED <<file, rule, seen, rules>>

Line(l) == /\ pc = "lines" /\ Len(file) < MaxLines
           /\ file' = Append(file, l)
           /\ UNCHANGED pc

(* A line of no consequence for the groups, an empty value included.       *)
Ignore(l) == /\ Line(l)
             /\ l.directive = "other" \/ l.value = Empty
             /\ UNCHANGED <<rule, seen, rules>>

(* Mutant: the flag is not reset with the group.                           *)
AgentKeepsFlag(l) == /\ Line(l)
                     /\ l.directive = "user-agent" /\ l.value # Empty
                     /\ IF seen THEN rules' = SaveRule(rule)
                                     /\ rule' = [NewRule EXCEPT !.agents = {l.value}]
                        ELSE /\ rule' = [rule EXCEPT !.agents = @ \cup {l.value}]
                             /\ UNCHANGED rules
                     /\ UNCHANGED seen

(* Mutant: an empty user agent counts.                                     *)
AgentEvenEmpty(l) == /\ Line(l)
                     /\ l.directive = "user-agent"
                     /\ rule' = [rule EXCEPT !.agents = @ \cup {l.value}]
                     /\ UNCHANGED <<seen, rules>>

(* A new group starts at the first user agent after a directive.           *)
Agent(l) == /\ Line(l)
            /\ l.directive = "user-agent" /\ l.value # Empty
            /\ IF seen THEN /\ rules' = SaveRule(rule)
                            /\ rule' = [NewRule EXCEPT !.agents = {l.value}]
                            /\ seen' = FALSE
               ELSE /\ rule' = [rule EXCEPT !.agents = @ \cup {l.value}]
                    /\ UNCHANGED <<seen, rules>>

Path(l) == /\ Line(l)
           /\ l.directive \in {"allow", "disallow"} /\ l.value # Empty
           /\ rule' = [rule EXCEPT ![l.directive] = @ \cup {l.value}]
           /\ seen' = TRUE
           /\ UNCHANGED rules

Delay(l) == /\ Line(l)
            /\ l.directive = "crawl-delay" /\ l.value # Empty
            /\ rule' = [rule EXCEPT !.delay = l.value]
            /\ seen' = TRUE
            /\ UNCHANGED rules

End == /\ pc = "lines"
       /\ rules' = SaveRule(rule)
       /\ pc' = "done"
       /\ UNCHANGED <<file, rule, seen>>

Elements(s) == {s[i] : i \in DOMAIN s}

(* The top-level summary: the paths of all rules.                          *)
Summary(directive) == UNION {r[directive] : r \in Elements(rules)}

Ended == pc \in {"failed", "done"}

Next == \/ Reject \/ TryHttps \/ TryHttp \/ End
        \/ \E l \in Lines : Ignore(l) \/ Agent(l) \/ Path(l) \/ Delay(l)

-----------------------------------------------------------------------------
(***************************************************************************)
(* What the file says, line by line, by the standard (RFC 9309): a         *)
(* directive is for the user agents above it with no other group's rule in *)
(* between, that is, no rule that is itself followed by another user       *)
(* agent.  An Allow or Disallow line without a value is a rule too, which  *)
(* matches no path; for the parser it is no line at all.  The standard     *)
(* does not know Crawl-delay, which is taken as the code takes it.         *)
(***************************************************************************)
IsAgent(i) == file[i].directive = "user-agent" /\ file[i].value # Empty

Counts(i) == file[i].directive \in {"allow", "disallow", "crawl-delay"} /\ file[i].value # Empty

IsRule(i) == Counts(i) \/ file[i].directive \in {"allow", "disallow"}

AgentLines(i) ==
  {j \in 1..(i - 1) : IsAgent(j) /\ ~\E d \in (j + 1)..(i - 1) :
     IsRule(d) /\ \E u \in (d + 1)..(i - 1) : IsAgent(u)}

(* No group that another one follows has only empty rules.                 *)
NoEmptyGroup ==
  \A j, u \in DOMAIN file : IsAgent(j) /\ IsAgent(u) =>
    \A d \in (j + 1)..(u - 1) : IsRule(d) => \E e \in (j + 1)..(u - 1) : Counts(e)

AgentsOf(i) == {file[j].value : j \in AgentLines(i)}

LinesOf(d) == {i \in DOMAIN file : Counts(i) /\ file[i].directive = d}

(* <<agent, directive, path>> for all that a file allows or disallows.     *)
Meant == UNION {AgentsOf(i) \X {file[i].directive} \X {file[i].value} :
                  i \in LinesOf("allow") \cup LinesOf("disallow")}

Reported == UNION {r.agents \X {d} \X r[d] : r \in Elements(rules), d \in {"allow", "disallow"}}

TypeOK ==
  /\ pc \in {"called", "http", "lines", "failed", "done"}
  /\ file \in Seq(Lines) /\ Len(file) <= MaxLines
  /\ seen \in BOOLEAN
  /\ \A r \in Elements(rules) \cup {rule} :
       r \in [agents : SUBSET Agents, allow : SUBSET Paths, disallow : SUBSET Paths,
              delay : Delays \cup {None}]

(* The rules say of each agent all that the lines of its groups say,       *)
(* wherever blank, empty and foreign lines stand, and no more than that,   *)
(* unless a group of empty rules is taken into the next one; the summary   *)
(* has the paths of all rules but none that stands above every agent; and  *)
(* the delay of a rule is the last one its group gives.                    *)
RulesRight ==
  pc = "done" =>
    /\ Meant \subseteq Reported
    /\ NoEmptyGroup => Reported = Meant
    /\ \A d \in {"allow", "disallow"} :
         Summary(d) = {file[i].value : i \in {k \in LinesOf(d) : \E j \in 1..k : IsAgent(j)}}
    /\ \A r \in Elements(rules) : r.delay # None =>
         \E i \in LinesOf("crawl-delay") :
            /\ file[i].value = r.delay /\ AgentsOf(i) \subseteq r.agents
            /\ NoEmptyGroup =>
                 /\ r.agents = AgentsOf(i)
                 /\ \A k \in LinesOf("crawl-delay") : k > i => AgentLines(k) # AgentLines(i)

(* README.md: "standards-compliant `robots.txt` directive parsing", so the *)
(* rules say of each agent exactly what the standard says that the file    *)
(* says, whatever the file is.                                             *)
GroupsStandard == pc = "done" => Reported = Meant
=============================================================================
