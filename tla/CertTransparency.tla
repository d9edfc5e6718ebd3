--------------------------- MODULE CertTransparency ---------------------------
(***************************************************************************)
(* cert_transparency (src/tools/crt_sh_tool.py): the names in the          *)
(* certificate log of a domain are sorted into subdomains, wildcards and   *)
(* certificate records, the latter without repetitions and cut at fifty;   *)
(* crt_extractor (src/tools/signals/crtsh.py) warns by the number of       *)
(* subdomains.                                                             *)
(*                                                                         *)
(* A line of the log is a name, classified as the code does, with the      *)
(* certificate (issuer and dates) of its entry.                            *)
(***************************************************************************)
EXTENDS Naturals, Sequences, FiniteSets

CONSTANTS Subdomains,  \* strict subdomains of the domain
          Issued,      \* issuer and dates of a certificate
          MaxLines,    \* bound: lines of the log
          MaxReturned, \* the cut, fifty
          Many, Large  \* crt_extractor: more than 20, more than 50 subdomains

CertAssumption == /\ {MaxLines, MaxReturned, Many, Large} \subseteq Nat
                  /\ Many <= Large

(* A wildcard of the domain or below it, one of another domain, the domain *)
(* itself, a name that is not below it, and an empty one.                  *)
Names == [kind : {"subdomain", "wildcard"}, name : Subdomains]
           \cup [kind : {"foreign wildcard", "apex", "foreign", "blank"}, name : {"-"}]

Lines == Names \X Issued

VARIABLES pc,           \* control state
          log,          \* the lines processed
          subdomains, wildcards, \* unique_subdomains, wildcards
          certificates, \* certificates, before the cut
          answer,       \* the numbers and the list of the result
          warning       \* what the extractor adds to auto_warnings

vars == <<pc, log, subdomains, wildcards, certificates, answer, warning>>

Elements(s) == {s[i] : i \in DOMAIN s}

Init == /\ pc = "called" /\ log = <<>>
        /\ subdomains = {} /\ wildcards = {} /\ certificates = <<>>
        /\ answer = <<>> /\ warning = "none"

(* The domain is invalid, the request fails or its reply is not JSON.      *)
Fails == /\ pc = "called"
         /\ pc' = "failed"
         /\ UNCHANGED <<log, subdomains, wildcards, certificates, answer, warning>>

Fetched == /\ pc = "called"
           /\ pc' = "lines"
           /\ UNCHANGED <<log, subdomains, wildcards, certificates, answer, warning>>

(* One name of an entry, by its kind.                                      *)
TakeSubdomain(n, issued) ==
  /\ pc = "lines" /\ Len(log) < MaxLines
  /\ log' = Append(log, <<n, issued>>)
  /\ n.kind = "subdomain"
  /\ subdomains' = subdomains \cup {n.name}
  /\ certificates' = IF <<n.name, issued>> \in Elements(certificates) THEN certificates
                     ELSE Append(certificates, <<n.name, issued>>)
  /\ UNCHANGED <<pc, wildcards, answer, warning>>

TakeOther(n, issued) ==
  /\ pc = "lines" /\ Len(log) < MaxLines
  /\ log' = Append(log, <<n, issued>>)
  /\ n.kind # "subdomain"
  /\ wildcards' = IF n.kind = "wildcard" THEN wildcards \cup {n.name} ELSE wildcards
  /\ UNCHANGED <<pc, subdomains, certificates, answer, warning>>

(* An entry that is not as expected: all is dropped for an error.          *)
BadEntry == /\ pc = "lines"
            /\ pc' = "failed"
            /\ UNCHANGED <<log, subdomains, wildcards, certificates, answer, warning>>

Least(a, b) == IF a < b THEN a ELSE b

(* Mutant: the totals are those of what is returned.                       *)
AnswerAfterCut ==
  /\ pc = "lines"
  /\ LET cut == SubSeq(certificates, 1, Least(MaxReturned, Len(certificates))) IN
       answer' = <<[total |-> Len(cut), unique |-> Cardinality(subdomains),
                    truncated |-> Len(certificates) > MaxReturned, records |-> cut]>>
  /\ pc' = "signals"
  /\ UNCHANGED <<log, subdomains, wildcards, certificates, warning>>

Answer ==
  /\ pc = "lines"
  /\ answer' = <<[total     |-> Len(certificates),
                  unique    |-> Cardinality(subdomains),
                  truncated |-> Len(certificates) > MaxReturned,
                  records   |-> SubSeq(certificates, 1, Least(MaxReturned, Len(certificates)))]>>
  /\ pc' = "signals"
  /\ UNCHANGED <<log, subdomains, wildcards, certificates, warning>>

Extract == /\ pc = "signals"
           /\ warning' = CASE answer[1].unique > Large -> "large"
                           [] answer[1].unique > Many /\ answer[1].unique <= Large -> "expanded"
                           [] OTHER -> "none"
           /\ pc' = "done"
           /\ UNCHANGED <<log, subdomains, wildcards, certificates, answer>>

Ended == pc \in {"failed", "done"}

Next == \/ Fails \/ Fetched \/ BadEntry \/ Answer \/ Extract
        \/ \E n \in Names, i \in Issued : TakeSubdomain(n, i) \/ TakeOther(n, i)

-----------------------------------------------------------------------------
TypeOK == /\ pc \in {"called", "failed", "lines", "signals", "done"}
          /\ log \in Seq(Lines) /\ Len(log) <= MaxLines
          /\ subdomains \cup wildcards \subseteq Subdomains
          /\ certificates \in Seq(Subdomains \X Issued)
          /\ warning \in {"none", "expanded", "large"}

(* The totals are those of the whole log: each subdomain counts once       *)
(* however many certificates name it and however few are returned, each    *)
(* pair of name and certificate once; what is returned are the first of    *)
(* them, "truncated" says whether any are missing; wildcards, the domain   *)
(* itself and foreign names count for nothing; the warning is by the       *)
(* number of subdomains.  Foreign are also names that end in the domain    *)
(* without a dot before it: docs/tools/cert_transparency.md:154 says that  *)
(* there is no such check, but _is_subdomain_of makes it.                  *)
CountsBeforeCut ==
  pc = "done" =>
    LET named == {l \in Elements(log) : l[1].kind = "subdomain"}
        first == {i \in DOMAIN log : log[i] \in named /\ \A j \in 1..(i - 1) : log[j] # log[i]}
        a     == answer[1]
    IN /\ a.unique = Cardinality({l[1].name : l \in named})
       /\ subdomains = {l[1].name : l \in named}
       /\ a.total = Cardinality(named)
       /\ a.truncated <=> Len(a.records) < a.total
       /\ Len(a.records) <= MaxReturned
       /\ \A k \in DOMAIN a.records : \E i \in first :
            /\ a.records[k] = <<log[i][1].name, log[i][2]>>
            /\ Cardinality({j \in first : j <= i}) = k
       /\ wildcards = {l[1].name : l \in {m \in Elements(log) : m[1].kind = "wildcard"}}
       /\ warning # "none" <=> a.unique > Many
=============================================================================
