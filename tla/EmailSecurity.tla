----------------------------- MODULE EmailSecurity -----------------------------
(***************************************************************************)
(* email_security_check (src/tools/email_security_tool.py) looks up SPF,   *)
(* DMARC (with inheritance from the organisational domain) and DKIM (one   *)
(* thread per selector), scores what it finds, and the extractor           *)
(* (src/tools/signals/email_security.py) turns the result into warnings of *)
(* the report.                                                             *)
(*                                                                         *)
(* A TXT record is what its parser makes of it: an SPF record is its       *)
(* sequence of mechanisms, a DMARC record its p, sp and rua tags, a DKIM   *)
(* record its status.  Other records of the same name are filtered out by  *)
(* the parsers and left out here.                                          *)
(***************************************************************************)
EXTENDS Naturals, Sequences, FiniteSets

CONSTANTS Selectors,     \* the DKIM selectors checked
          SpfRecords,    \* SPF records that may be published
          DmarcRecords,  \* DMARC records that may be published
          KeyLists,      \* the DKIM record lists a selector may publish
          None           \* Python's None

Mechanisms == {"-all", "~all", "?all", "+all", "redirect", "other"}
TagValues  == {"none", "quarantine", "reject", "bad", "absent"}
DmarcTags  == [p : TagValues, sp : TagValues,
               rua : {"valid", "malformed", "empty", "absent"}]
KeyStates  == {"active", "revoked", "malformed", "not_dkim"}

RecordsAssumption == /\ SpfRecords \subseteq Seq(Mechanisms)
                     /\ DmarcRecords \subseteq DmarcTags
                     /\ KeyLists \subseteq Seq(KeyStates)
                     /\ IsFiniteSet(Selectors)

-----------------------------------------------------------------------------
(* _query_txt: after trouble with the system's resolver public ones are    *)
(* asked, and there every failure, a missing name included, is a failed    *)
(* lookup.                                                                 *)
Tries == [first : {"answered", "absent"}, second : {"unasked"}]
           \cup [first : {"trouble"}, second : {"answered", "absent", "trouble"}]

Failed(q) == q.first = "trouble" /\ q.second # "answered"

Records(q, list) == IF "answered" \in {q.first, q.second} THEN list ELSE <<>>

(* Of two or more records of one kind the code uses only that they are.    *)
Lists(S) == {<<>>} \cup {<<r>> : r \in S} \cup {<<r, r>> : r \in S}

(* What a lookup came back with.                                           *)
Outcome(q, list) == IF Failed(q) THEN "failed"
                    ELSE CASE Len(Records(q, list)) = 0 -> "none"
                           [] Len(Records(q, list)) = 1 -> "one"
                           [] OTHER                     -> "many"

-----------------------------------------------------------------------------
Qualifier(m) == CASE m = "-all" -> "fail"    [] m = "~all" -> "softfail"
                  [] m = "?all" -> "neutral" [] m = "+all" -> "pass"

Alls(record) == {i \in DOMAIN record : record[i] \notin {"redirect", "other"}}

(* The first all mechanism ends evaluation; a redirect counts only where   *)
(* there is none.                                                          *)
SpfPolicy(record) ==
  IF Alls(record) # {}
  THEN Qualifier(record[CHOOSE i \in Alls(record) : \A j \in Alls(record) : i <= j])
  ELSE IF \E i \in DOMAIN record : record[i] = "redirect" THEN "redirect" ELSE "missing"

(* Mutant: only softfail costs anything.                                   *)
SpfScoreLenient(policy) == IF policy = "softfail" THEN 20 ELSE 30

SpfScore(policy) == CASE policy = "softfail"            -> 20
                      [] policy \in {"neutral", "pass"} -> 10
                      [] policy = "redirect"            -> 25
                      [] policy = "missing"             -> 5
                      [] OTHER                          -> 30

Found(valid, policy, score) ==
  [found |-> TRUE, valid |-> valid, policy |-> policy, score |-> score]

Absent  == [found |-> FALSE, valid |-> FALSE, policy |-> None, score |-> 0]
Several == Found(FALSE, None, 0)

(* Without any record nothing is found, with several nothing is valid.     *)
SpfOf(records) == CASE Len(records) = 0 -> Absent
                    [] Len(records) = 1 -> LET policy == SpfPolicy(records[1])
                                           IN Found(TRUE, policy, SpfScore(policy))
                    [] OTHER            -> Several

(* A bad p or sp makes the record invalid, and without a valid rua it then *)
(* counts for nothing; an inherited record speaks through its sp; the lack *)
(* of a reporting address costs five.                                      *)
Dmarc(tags, inherited) ==
  LET bad    == "bad" \in {tags.p, tags.sp}
      tag    == IF inherited /\ tags.sp # "absent" THEN tags.sp ELSE tags.p
      policy == IF bad THEN "invalid" ELSE IF tag = "absent" THEN "none" ELSE tag
      base   == CASE policy = "reject" -> 35 [] policy = "quarantine" -> 25 [] OTHER -> 10
  IN Found(~bad, policy, IF bad /\ tags.rua # "valid" THEN 0
                         ELSE IF tags.rua \in {"absent", "empty"} THEN base - 5 ELSE base)

DmarcOf(records, inherited) == CASE Len(records) = 0 -> Absent
                                 [] Len(records) = 1 -> Dmarc(records[1], inherited)
                                 [] OTHER            -> Several

Elements(list) == {list[i] : i \in DOMAIN list}

(* Mutant: what is seen last counts.                                       *)
SelectorStatusLast(list) ==
  IF list = <<>> \/ list[Len(list)] = "not_dkim" THEN "none" ELSE list[Len(list)]

(* check_selector: the loop over the records of one selector as a fold; an *)
(* active key returns at once, a revoked one outweighs a malformed one.    *)
SelectorStatus(list) ==
  LET status[i \in 0..Len(list)] ==
        IF i = 0 THEN "none"
        ELSE LET seen == status[i - 1] IN
             IF seen = "active" THEN seen
             ELSE CASE list[i] \in {"active", "revoked"} -> list[i]
                    [] list[i] = "malformed" /\ seen # "revoked" -> "malformed"
                    [] OTHER -> seen
  IN status[Len(list)]

-----------------------------------------------------------------------------
VARIABLES pc,       \* control state of the calling thread
          suborg,   \* the domain lies below an organisational domain
          asked,    \* asked[n]: the outcome of the lookup of n
          spf, dmarc, inherited, \* the results, DMARC's inherited_from
          keys,     \* keys[s]: what the thread of selector s has got
          dkim,     \* the status of each selector
          advice,   \* recommendations
          rating,   \* rating of the result, None if there is no result
          warnings  \* what the extractor adds to auto_warnings

vars == <<pc, suborg, asked, spf, dmarc, inherited, keys, dkim, advice, rating, warnings>>

Init == /\ pc = "called"
        /\ suborg \in BOOLEAN
        /\ asked = [n \in {"spf", "exact", "org"} |-> "no"]
        /\ spf = Absent /\ dmarc = Absent /\ inherited = FALSE
        /\ keys = [s \in Selectors |-> None]
        /\ dkim = [s \in Selectors |-> "none"]
        /\ advice = {} /\ rating = None /\ warnings = {}

Reject == /\ pc = "called"
          /\ pc' = "signals"
          /\ UNCHANGED <<suborg, asked, spf, dmarc, inherited, keys, dkim, advice, rating,
                         warnings>>

Accept == /\ pc = "called"
          /\ pc' = "spf"
          /\ UNCHANGED <<suborg, asked, spf, dmarc, inherited, keys, dkim, advice, rating,
                         warnings>>

(* The resolver cannot be set up: the whole check fails.                   *)
Raises == /\ pc \in {"spf", "exact", "org"}
          /\ pc' = "signals"
          /\ UNCHANGED <<suborg, asked, spf, dmarc, inherited, keys, dkim, advice, rating,
                         warnings>>

Advise(topic, what) == advice' = advice \cup {<<topic, what>>}

(* Mutant: the flag of a failed lookup is not looked at.                   *)
CheckSpfIgnoresFailure(q, list) ==
  /\ pc = "spf" /\ pc' = "exact"
  /\ asked' = [asked EXCEPT !["spf"] = Outcome(q, list)]
  /\ spf' = SpfOf(Records(q, list))
  /\ IF Records(q, list) = <<>> THEN Advise("spf", "absent") ELSE UNCHANGED advice
  /\ UNCHANGED <<suborg, dmarc, inherited, keys, dkim, rating, warnings>>

CheckSpf(q, list) ==
  /\ pc = "spf" /\ pc' = "exact"
  /\ asked' = [asked EXCEPT !["spf"] = Outcome(q, list)]
  /\ spf' = SpfOf(Records(q, list))
  /\ IF Failed(q) THEN Advise("spf", "unverified")
     ELSE IF Records(q, list) = <<>> THEN Advise("spf", "absent") ELSE UNCHANGED advice
  /\ UNCHANGED <<suborg, dmarc, inherited, keys, dkim, rating, warnings>>

(* Mutant: a failed lookup of the exact name falls back as well.           *)
CheckDmarcFallsBack(q, list) ==
  /\ pc = "exact"
  /\ asked' = [asked EXCEPT !["exact"] = Outcome(q, list)]
  /\ dmarc' = DmarcOf(Records(q, list), FALSE)
  /\ IF Records(q, list) = <<>> /\ suborg THEN pc' = "org" /\ UNCHANGED advice
     ELSE /\ pc' = "dkim"
          /\ IF Records(q, list) = <<>> THEN Advise("dmarc", "absent") ELSE UNCHANGED advice
  /\ UNCHANGED <<suborg, spf, inherited, keys, dkim, rating, warnings>>

(* Only where the exact name is known to have no record is the             *)
(* organisational domain asked.                                            *)
CheckDmarc(q, list) ==
  /\ pc = "exact"
  /\ asked' = [asked EXCEPT !["exact"] = Outcome(q, list)]
  /\ dmarc' = DmarcOf(Records(q, list), FALSE)
  /\ IF Failed(q) THEN pc' = "dkim" /\ Advise("dmarc", "unverified")
     ELSE IF Records(q, list) # <<>> THEN pc' = "dkim" /\ UNCHANGED advice
     ELSE IF suborg THEN pc' = "org" /\ UNCHANGED advice
     ELSE pc' = "dkim" /\ Advise("dmarc", "absent")
  /\ UNCHANGED <<suborg, spf, inherited, keys, dkim, rating, warnings>>

CheckOrganisation(q, list) ==
  /\ pc = "org" /\ pc' = "dkim"
  /\ asked' = [asked EXCEPT !["org"] = Outcome(q, list)]
  /\ dmarc' = DmarcOf(Records(q, list), TRUE)
  /\ inherited' = (Records(q, list) # <<>>)
  /\ IF Failed(q) THEN Advise("dmarc", "unverified")
     ELSE IF Records(q, list) = <<>> THEN Advise("dmarc", "absent") ELSE UNCHANGED advice
  /\ UNCHANGED <<suborg, spf, keys, dkim, rating, warnings>>

Raised == <<"raised">>

(* A thread of the pool: a lookup that failed leaves no records.           *)
LookUpKey(s) ==
  /\ pc = "dkim" /\ keys[s] = None
  /\ \E list \in KeyLists \cup {<<>>, Raised} : keys' = [keys EXCEPT ![s] = list]
  /\ UNCHANGED <<pc, suborg, asked, spf, dmarc, inherited, dkim, advice, rating, warnings>>

KeysLookedUp == pc = "dkim" /\ \A s \in Selectors : keys[s] # None

KeyRaises == /\ KeysLookedUp
             /\ \E s \in Selectors : keys[s] = Raised
             /\ pc' = "signals"
             /\ UNCHANGED <<suborg, asked, spf, dmarc, inherited, keys, dkim, advice, rating,
                            warnings>>

DkimFound == \E s \in Selectors : dkim[s] = "active"

Rating(score) == CASE score >= 90     -> "Excellent"
                   [] score \in 70..89 -> "Good"
                   [] score \in 40..69 -> "Fair"
                   [] OTHER           -> "Critical"

(* The results of the threads are put in the order of the selectors, and   *)
(* the whole is rated.                                                     *)
Rate == /\ KeysLookedUp
        /\ \A s \in Selectors : keys[s] # Raised
        /\ dkim' = [s \in Selectors |-> SelectorStatus(keys[s])]
        /\ advice' = advice \cup IF DkimFound' THEN {}
                                 ELSE LET seen == {dkim'[s] : s \in Selectors} IN
                                      {"dkim"} \X IF seen \subseteq {"none"} THEN {"absent"}
                                                  ELSE seen \ {"none"}
        /\ rating' = Rating(spf.score + dmarc.score + IF DkimFound' THEN 35 ELSE 0)
        /\ pc' = "signals"
        /\ UNCHANGED <<suborg, asked, spf, dmarc, inherited, keys, warnings>>

(* email_security_extractor; a failed check leaves the signals alone.      *)
Warnings ==
  {w \in {"spoofable", "spf missing", "spf weak", "dkim missing", "dmarc missing", "dmarc none"} :
     CASE w = "spoofable"     -> ~spf.found /\ ~dmarc.found
       [] w = "spf missing"   -> ~spf.found /\ dmarc.found
       [] w = "spf weak"      -> spf.found /\ spf.policy \in {"neutral", "pass"}
       [] w = "dkim missing"  -> ~DkimFound
       [] w = "dmarc missing" -> ~dmarc.found
       [] OTHER               -> dmarc.found /\ dmarc.policy = "none"}

Extract == /\ pc = "signals"
           /\ warnings' = IF rating = None THEN {} ELSE Warnings
           /\ pc' = "done"
           /\ UNCHANGED <<suborg, asked, spf, dmarc, inherited, keys, dkim, advice, rating>>

Terminated == pc = "done" /\ UNCHANGED vars

Main == \/ Reject \/ Accept \/ Raises
        \/ \E q \in Tries : \/ \E list \in Lists(SpfRecords) : CheckSpf(q, list)
                            \/ \E list \in Lists(DmarcRecords) :
                                 CheckDmarc(q, list) \/ CheckOrganisation(q, list)
        \/ KeyRaises \/ Rate \/ Extract

Next == Main \/ (\E s \in Selectors : LookUpKey(s)) \/ Terminated

Spec == Init /\ [][Next]_vars

-----------------------------------------------------------------------------
Result(policies, scores) == [found : BOOLEAN, valid : BOOLEAN,
                             policy : policies \cup {None}, score : scores]

TypeOK ==
  /\ pc \in {"called", "spf", "exact", "org", "dkim", "signals", "done"}
  /\ suborg \in BOOLEAN /\ inherited \in BOOLEAN
  /\ asked \in [{"spf", "exact", "org"} -> {"no", "failed", "none", "one", "many"}]
  /\ spf \in Result({"fail", "softfail", "neutral", "pass", "redirect", "missing"}, 0..30)
  /\ dmarc \in Result({"none", "quarantine", "reject", "invalid"}, 0..35)
  /\ keys \in [Selectors -> KeyLists \cup {<<>>, Raised, None}]
  /\ DOMAIN dkim = Selectors
  /\ advice \subseteq ({"spf", "dmarc"} \X {"absent", "unverified"})
                        \cup ({"dkim"} \X ({"absent"} \cup {dkim[s] : s \in Selectors}))
  /\ rating \in {"Excellent", "Good", "Fair", "Critical", None}
  /\ warnings \subseteq {"spoofable", "spf missing", "spf weak", "dkim missing",
                         "dmarc missing", "dmarc none"}

(* "A DNS failure must not look like a missing record": a recommendation   *)
(* to add a record is given only after every name that could hold it has   *)
(* answered that it does not, and a failed lookup is owned up to.          *)
AbsenceIsEvidence ==
  /\ <<"spf", "absent">> \in advice => asked["spf"] = "none"
  /\ <<"dmarc", "absent">> \in advice =>
       asked["exact"] = "none" /\ asked["org"] = IF suborg THEN "none" ELSE "no"
  /\ asked["spf"] = "failed" => <<"spf", "unverified">> \in advice
  /\ "failed" \in {asked["exact"], asked["org"]} => <<"dmarc", "unverified">> \in advice

(* The organisational domain speaks only for a name that is known to have  *)
(* no record of its own, never after a failed lookup of it, and the result *)
(* says inherited exactly if the record is the organisation's.             *)
InheritanceIsLastResort ==
  /\ asked["org"] # "no" => suborg /\ asked["exact"] = "none"
  /\ inherited <=> asked["org"] \in {"one", "many"}
  /\ asked["exact"] \in {"one", "many"} => dmarc.found /\ ~inherited

(* The score and the warnings, computed by different files, agree at both  *)
(* ends: an Excellent domain gets no warning, and a spoofable one, with    *)
(* neither SPF nor DMARC, is Critical whatever its DKIM.                   *)
RatingMatchesWarnings ==
  pc = "done" => /\ rating = "Excellent" => warnings = {}
                 /\ "spoofable" \in warnings => rating = "Critical"

(* A selector's status does not depend on the order of its records, and    *)
(* one active key among all records of all selectors is enough.            *)
KeysJudged ==
  rating # None =>
    /\ DkimFound <=> \E s \in Selectors : "active" \in Elements(keys[s])
    /\ \A s \in Selectors :
         dkim[s] = LET seen == Elements(keys[s]) IN
                   IF "active" \in seen THEN "active" ELSE IF "revoked" \in seen THEN "revoked"
                   ELSE IF "malformed" \in seen THEN "malformed" ELSE "none"

(* What the tests say of the tool and the prompt of the report: a lookup   *)
(* that failed is no missing record, so no warning of one rests on it.     *)
WarningsAreEvidence ==
  /\ warnings \cap {"spoofable", "spf missing"} # {} => asked["spf"] # "failed"
  /\ warnings \cap {"spoofable", "dmarc missing"} # {} =>
       "failed" \notin {asked["exact"], asked["org"]}
=============================================================================
