------------------------------ MODULE MCToolCalls ------------------------------
(* An instance of ToolCalls with small sets of values for every tool.      *)
EXTENDS ToolCalls

(* Two technologies in two categories, with markers of most types, two of  *)
(* one technology in the same body, and one in a header and a body.        *)
TwoTables ==
  [languages  |-> [PHP |-> << <<"header_value", "php", 90>>,
                              <<"cookie_name", "phpsessid", 85>>,
                              <<"html_substring", ".php", 40>> >>],
   frameworks |-> [WordPress |-> << <<"html_substring", "wp-content", 70>>,
                                    <<"meta_generator", "wordpress", 95>>,
                                    <<"html_substring", "wordpress", 60>> >>]]

ThreeVersions == 0..2

Matches == [vulnerable : {TRUE}, named : {TRUE},
            startIncluding : {1, Absent, Invalid},
            startExcluding : {1, Absent, Invalid},
            endIncluding : {1, Absent, Invalid},
            endExcluding : {1, Absent, Invalid}]

UpToOne == [vulnerable |-> TRUE, named |-> TRUE, startIncluding |-> Absent,
            startExcluding |-> Absent, endIncluding |-> 1, endExcluding |-> Absent]

(* Each single CVE of one match, and a reply of three in which a match     *)
(* that would apply is of other software, or not vulnerable, or both.      *)
SearchReplies ==
  {{}} \cup {{{m}} : m \in Matches}
    \cup {{{[UpToOne EXCEPT !.named = FALSE]},
           {UpToOne, [UpToOne EXCEPT !.vulnerable = FALSE]},
           {[UpToOne EXCEPT !.vulnerable = FALSE]}}}

(* Half days and days around the thresholds of the certificate's expiry    *)
(* and validity.                                                           *)
LeadTimes     == {0, 1, 27, 28, 29, 59, 60, 61, 62, 63}
ValidityDays  == {398, 399, 825, 826}
NoneOrHalfDay == {0, 1}

ScoreEdges  == {0, 1, 20, 21, 24, 25, 74, 75}
CountEdges  == {0, 1, 2, 3, 5, 6, 10, 11}
DateEdges   == {-1, 0, 27, 28, 59, 60}

(* Every combination of present and absent headers, and from a good        *)
(* response one header at a time through all its values.                   *)
Dir(name, first, all) == [name |-> name, first |-> first, all |-> all \cup {first}]

SelfOnly == [enforced |-> TRUE, directives |-> {Dir("default-src", "'self'", {})}]

Good == [hsts |-> [age |-> 2, subdomains |-> TRUE], csp |-> SelfOnly, xfo |-> "expected",
         xcto |-> "nosniff", rp |-> <<"good">>, pp |-> {}]

SomeDirectives ==
  {Dir("default-src", "'self'", {}), Dir("default-src", "'self'", {"*"}),
   Dir("default-src", "other", {"'self'"}), Dir("script-src", "*", {}),
   Dir("script-src", "'self'", {"'unsafe-eval'"}), Dir("other", "*", {}),
   Dir("other", "'self'", {"'unsafe-inline'"})}

ResponseHeaders ==
  {[n \in DOMAIN Good |-> IF n \in S THEN Good[n] ELSE Missing] : S \in SUBSET DOMAIN Good}
    \cup {[Good EXCEPT !.hsts = [age |-> a, subdomains |-> s]] :
            a \in -1..2 \cup {NoAge, BadAge}, s \in BOOLEAN}
    \cup {[Good EXCEPT !.csp = [enforced |-> e, directives |-> D]] :
            e \in BOOLEAN, D \in SUBSET SomeDirectives}
    \cup {[Good EXCEPT !.rp = t] :
            t \in UNION {[1..n -> {"good", "leaky", "unknown"}] : n \in 0..3}}
    \cup {[Good EXCEPT !.pp = g] : g \in SUBSET {"camera", "payment", "other"}}
    \cup {[Good EXCEPT !.xfo = "unexpected"], [Good EXCEPT !.xcto = "unexpected"]}
=============================================================================
