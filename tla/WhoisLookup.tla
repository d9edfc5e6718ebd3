----------------------------- MODULE WhoisLookup -----------------------------
(***************************************************************************)
(* whois_lookup (src/tools/whois_tool.py) passes on what the whois library *)
(* returns, dates as text; whois_extractor (src/tools/signals/whois.py)    *)
(* parses the expiration date again (safe_parse_datetime of                *)
(* src/utils/helpers.py) and warns by the days that are left.              *)
(*                                                                         *)
(* A date is the number of half days from the extraction to it, since days *)
(* are rounded down, or text that cannot be parsed.  The other fields are  *)
(* left out.                                                               *)
(***************************************************************************)
EXTENDS Integers, Sequences

CONSTANTS Dates,       \* half days until a date
          MaxDates,    \* bound: dates that a registry gives
          Unparsable   \* a date that no format fits

WhoisAssumption == Dates \subseteq Int /\ MaxDates \in Nat /\ Unparsable \notin Int

VARIABLES pc,          \* control state
          expiration,  \* expiration_date: the dates given, none for None
          expiryDays,  \* signals["domain_expiry_days"], in a set of at most one
          domainWarning \* what the extractor adds to auto_warnings

vars == <<pc, expiration, expiryDays, domainWarning>>

Init == /\ pc = "called" /\ expiration = <<>>
        /\ expiryDays = {} /\ domainWarning = "none"

(* The domain is invalid, or the library times out or raises.              *)
Fails == /\ pc = "called"
         /\ pc' = "failed"
         /\ UNCHANGED <<expiration, expiryDays, domainWarning>>

(* A single date is a list of one.                                         *)
Answered(dates) == /\ pc = "called"
                   /\ expiration' = dates
                   /\ pc' = "signals"
                   /\ UNCHANGED <<expiryDays, domainWarning>>

(* Mutant: only the first date is tried.                                   *)
ParsedFirst(dates) ==
  IF dates # <<>> /\ dates[1] # Unparsable THEN {dates[1]} ELSE {}

(* safe_parse_datetime: the first date of a list that can be parsed.       *)
Parsed(dates) ==
  {dates[i] : i \in {k \in DOMAIN dates :
     dates[k] # Unparsable /\ \A j \in 1..(k - 1) : dates[j] = Unparsable}}

Extract == /\ pc = "signals"
           /\ expiryDays' = {d \div 2 : d \in Parsed(expiration)}
           /\ domainWarning' = CASE expiryDays' \cap 0..13 # {}  -> "critical"
                                 [] expiryDays' \cap 14..29 # {} -> "high"
                                 [] \E d \in expiryDays' : d < 0 -> "expired"
                                 [] OTHER                        -> "none"
           /\ pc' = "done"
           /\ UNCHANGED expiration

Ended == pc \in {"failed", "done"}

Next == Fails \/ Extract \/ \E n \in 0..MaxDates :
          \E dates \in [1..n -> Dates \cup {Unparsable}] : Answered(dates)

-----------------------------------------------------------------------------
TypeOK == /\ pc \in {"called", "signals", "failed", "done"}
          /\ \A i \in DOMAIN expiration : expiration[i] \in Dates \cup {Unparsable}
          /\ expiryDays \subseteq Int
          /\ domainWarning \in {"none", "expired", "critical", "high"}

(* The date used is the first one that can be read.  The domain is called  *)
(* expired exactly if that date is past, by however little; the warning is *)
(* critical exactly for the two weeks before it and high exactly for the   *)
(* rest of the thirty days; and no date that can be read gives none.       *)
ExpiryNotMissed ==
  LET Readable == {i \in DOMAIN expiration : expiration[i] # Unparsable}
  IN pc = "done" =>
       /\ Readable = {} => domainWarning = "none"
       /\ \A i \in Readable : (\A j \in Readable : i <= j) =>
            /\ domainWarning = "expired"  <=> expiration[i] < 0
            /\ domainWarning = "critical" <=> expiration[i] \in 0..27
            /\ domainWarning = "high"     <=> expiration[i] \in 28..59
=============================================================================
