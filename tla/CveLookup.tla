------------------------------ MODULE CveLookup ------------------------------
(***************************************************************************)
(* cve_lookup (src/tools/cve_tool.py): the CVE service is searched for the *)
(* software with its version, and if nothing that affects this version     *)
(* comes back, for the software alone; both answers go through the same    *)
(* filter.                                                                 *)
(*                                                                         *)
(* Versions are numbers.  A CVE is the set of the matches in all nodes of  *)
(* its configurations, at whatever depth: the recursion of _node_matches   *)
(* asks whether there is one that applies.  A match says whether it is     *)
(* vulnerable, whether its criteria name the software (by vendor, product  *)
(* or wildcard), and what its four bounds are.                             *)
(***************************************************************************)
EXTENDS Integers, Sequences

CONSTANTS Versions,    \* versions that may be asked for
          CveReplies,  \* sets of CVEs that a search may return
          Absent,      \* a bound that is missing or empty
          Invalid      \* a bound that is not a version

Bound == Versions \cup {Absent, Invalid}

Match == [vulnerable : BOOLEAN, named : BOOLEAN,
          startIncluding : Bound, startExcluding : Bound,
          endIncluding : Bound, endExcluding : Bound]

CveAssumption == /\ Versions \subseteq Nat
                 /\ {Absent, Invalid} \cap Nat = {} /\ Absent # Invalid
                 /\ \A reply \in CveReplies : \A cve \in reply : cve \subseteq Match

VARIABLES pc,       \* control state
          version,  \* the version asked for, in a set of at most one
          replies,  \* the answers of the searches so far, in order of stages
          cves      \* the CVEs reported

vars == <<pc, version, replies, cves>>

Satisfies(bound, holds) == bound = Absent \/ (bound # Invalid /\ holds)

(* Mutant: an exclusive end is taken for an inclusive one.                 *)
InRangeInclusive(v, m) ==
  /\ {m.startIncluding, m.startExcluding, m.endIncluding, m.endExcluding} # {Absent}
  /\ Satisfies(m.startIncluding, v >= m.startIncluding)
  /\ Satisfies(m.startExcluding, v > m.startExcluding)
  /\ Satisfies(m.endIncluding,   v <= m.endIncluding)
  /\ Satisfies(m.endExcluding,   v <= m.endExcluding)

(* _version_in_range; a match without any bound does not count, and a      *)
(* bound that cannot be parsed makes it fail.                              *)
InRange(v, m) ==
  /\ {m.startIncluding, m.startExcluding, m.endIncluding, m.endExcluding} # {Absent}
  /\ Satisfies(m.startIncluding, v >= m.startIncluding)
  /\ Satisfies(m.startExcluding, v > m.startExcluding)
  /\ Satisfies(m.endIncluding,   v <= m.endIncluding)
  /\ Satisfies(m.endExcluding,   v < m.endExcluding)

AffectsVersion(cve, v) == \E m \in cve : m.vulnerable /\ m.named /\ InRange(v, m)

Filtered(reply) == {cve \in reply : \A v \in version : AffectsVersion(cve, v)}

-----------------------------------------------------------------------------
Init == /\ pc = "called" /\ version = {}
        /\ replies = <<>> /\ cves = {}

(* Software or version is empty, or the version cannot be parsed.          *)
Reject == /\ pc = "called"
          /\ pc' = "failed"
          /\ UNCHANGED <<version, replies, cves>>

Accept == /\ pc = "called"
          /\ \E v \in Versions : version' = {v}
          /\ pc' = "narrow"
          /\ UNCHANGED <<replies, cves>>

(* Stage 1; only if nothing is left is there a stage 2.                    *)
SearchNarrow(reply) == /\ pc = "narrow"
                       /\ replies' = <<reply>>
                       /\ cves' = Filtered(reply)
                       /\ pc' = IF cves' = {} THEN "broad" ELSE "done"
                       /\ UNCHANGED version

SearchBroad(reply) == /\ pc = "broad"
                      /\ replies' = <<replies[1], reply>>
                      /\ cves' = Filtered(reply)
                      /\ pc' = "done"
                      /\ UNCHANGED version

(* Either search may fail; an item that is not as expected raises as well. *)
SearchFails == /\ pc \in {"narrow", "broad"}
               /\ pc' = "failed"
               /\ UNCHANGED <<version, replies, cves>>

Ended == pc \in {"failed", "done"}

Next == \/ Reject \/ Accept \/ SearchFails
        \/ \E reply \in CveReplies : SearchNarrow(reply) \/ SearchBroad(reply)

-----------------------------------------------------------------------------
TypeOK == /\ pc \in {"called", "narrow", "broad", "failed", "done"}
          /\ version \subseteq Versions
          /\ \A i \in DOMAIN replies : replies[i] \in CveReplies
          /\ \A cve \in cves : cve \subseteq Match

(* The versions that the bounds span.                                      *)
Span(m) ==
  LET given  == {m.startIncluding, m.startExcluding, m.endIncluding, m.endExcluding}
      starts == ({m.startIncluding} \cap Versions)
                  \cup {b + 1 : b \in {m.startExcluding} \cap Versions}
      ends   == ({m.endIncluding} \cap Versions)
                  \cup {b - 1 : b \in {m.endExcluding} \cap Versions}
  IN IF given = {Absent} \/ Invalid \in given THEN {}
     ELSE {v \in Versions : (\A s \in starts : s <= v) /\ (\A e \in ends : v <= e)}

(* Every CVE reported affects the version, and one that the service        *)
(* returned and that affects it is reported: that is, has a vulnerable     *)
(* match for this software whose bounds span the version.  "No CVE" is     *)
(* said only after both searches have answered.                            *)
CvesAffect ==
  pc = "done" =>
    \A v \in version :
      /\ cves = {c \in replies[Len(replies)] :
                   \E m \in c : m.vulnerable /\ m.named /\ v \in Span(m)}
      /\ cves = {} => /\ Len(replies) = 2
                      /\ \A c \in replies[1], m \in UNION replies[1] :
                           m \in c /\ m.vulnerable /\ m.named => v \notin Span(m)
=============================================================================
