-------------------------- MODULE EmailSecurityProofs --------------------------
(***************************************************************************)
(* Proofs about the checks of email records of SiteCalls (its instance     *)
(* Mail of EmailSecurity), for all records that RecordsAssumption allows.  *)
(*                                                                         *)
(* What the parsers make of a record is settled by lemmas about the pure   *)
(* definitions (the choice of the first all mechanism, and the fold over   *)
(* the records of a selector, by induction); the invariants then follow    *)
(* the order of the lookups.                                               *)
(***************************************************************************)
EXTENDS SiteCalls, Integers, FiniteSetTheorems, WellFoundedInduction, TLAPS

(* Every non-empty set of naturals has a least element, since < on them is *)
(* well-founded.                                                           *)
LEMMA LeastElement ==
  ASSUME NEW T \in SUBSET Nat, T # {}
  PROVE  \E n \in T : \A m \in T : n <= m
<1> DEFINE R == {ss \in Nat \X Nat : ss[1] < ss[2]}
<1>1. IsWellFoundedOn(R, Nat)
  BY NatLessThanWellFounded DEF OpToRel
<1>2. \A x, y \in Nat : <<y, x>> \notin R => x <= y
  OBVIOUS
<1> HIDE DEF R
<1>3. PICK n \in T : \A m \in T : <<m, n>> \notin R
  BY <1>1, WFMin
<1> QED
  BY <1>2, <1>3

(* Induction with a set in place of a predicate: a set of naturals that    *)
(* holds 0 and every successor holds them all.                             *)
LEMMA NatSetInduction ==
  ASSUME NEW S, 0 \in S, \A n \in Nat : n \in S => n + 1 \in S
  PROVE  Nat \subseteq S
<1> SUFFICES ASSUME NEW k \in Nat, k \notin S PROVE FALSE
  OBVIOUS
<1> DEFINE Rest == {m \in Nat : m \notin S}
<1>1. PICK n \in Rest : \A m \in Rest : n <= m
  <2>1. Rest \in SUBSET Nat /\ Rest # {}
    OBVIOUS
  <2> HIDE DEF Rest
  <2> QED
    BY <2>1, LeastElement
<1>2. n # 0 /\ n - 1 \in Nat /\ n - 1 \notin Rest
  BY <1>1
<1> QED
  BY <1>2

(* The functions on an initial segment with the given value at 0 and at i  *)
(* what step[i] makes of the value at i - 1; there is one.                 *)
Recursions(V, base, step, n) ==
  {g \in [0..n -> V] : \A i \in 0..n : g[i] = IF i = 0 THEN base ELSE step[i][g[i - 1]]}

LEMMA RecursionOnSegment ==
  ASSUME NEW V, NEW base \in V, NEW step \in [Nat -> [V -> V]], NEW n \in Nat
  PROVE  Recursions(V, base, step, n) # {}
<1> DEFINE Good(g, k) == \A i \in 0..k : g[i] = IF i = 0 THEN base ELSE step[i][g[i - 1]]
           S == {k \in Nat : \E g \in [0..k -> V] : Good(g, k)}
<1>1. 0 \in S
  <2> DEFINE g == [i \in 0..0 |-> base]
  <2>1. g \in [0..0 -> V] /\ Good(g, 0)
    OBVIOUS
  <2> QED
    BY <2>1
<1>2. ASSUME NEW k \in Nat, k \in S PROVE k + 1 \in S
  <2>1. PICK g \in [0..k -> V] : Good(g, k)
    BY <1>2
  <2> DEFINE h == [i \in 0..(k + 1) |-> IF i = k + 1 THEN step[i][g[k]] ELSE g[i]]
  <2>2. step[k + 1][g[k]] \in V
    OBVIOUS
  <2>3. h \in [0..(k + 1) -> V]
    BY <2>2
  <2>4. ASSUME NEW i \in 0..(k + 1)
        PROVE  h[i] = IF i = 0 THEN base ELSE step[i][h[i - 1]]
    <3>1. CASE i = k + 1
      BY <3>1
    <3>2. CASE i # k + 1
      <4>1. i \in 0..k /\ h[i] = g[i] /\ (i # 0 => h[i - 1] = g[i - 1])
        BY <3>2
      <4>2. g[i] = IF i = 0 THEN base ELSE step[i][g[i - 1]]
        BY <2>1, <4>1
      <4> QED
        BY <4>1, <4>2
    <3> QED
      BY <3>1, <3>2
  <2>5. Good(h, k + 1)
    <3> HIDE DEF h
    <3> QED
      BY <2>3, <2>4
  <2>6. \E f \in [0..(k + 1) -> V] : Good(f, k + 1)
    <3> HIDE DEF h, Good
    <3> QED
      BY <2>3, <2>5
  <2> HIDE DEF Good
  <2> QED
    BY <2>6
<1> HIDE DEF S
<1>3. Nat \subseteq S
  BY <1>1, <1>2, NatSetInduction
<1> QED
  BY <1>3 DEF S, Recursions
-----------------------------------------------------------------------------

Policies == {"fail", "softfail", "neutral", "pass", "redirect", "missing"}

(* What is known of an SPF and of a DMARC result, whatever was looked up.  *)
SpfKnown(r) == /\ r \in Mail!Result(Policies, 0..30)
               /\ ~r.found => r.score = 0
               /\ r.score > 10 => r.found /\ r.policy \in {"fail", "softfail", "redirect"}

DmarcKnown(r) == /\ r \in Mail!Result({"none", "quarantine", "reject", "invalid"}, 0..35)
                 /\ ~r.found => r.score = 0
                 /\ r.score > 10 => r.found /\ r.policy \in {"quarantine", "reject"}

(* A lookup's outcome says whether it failed and whether it found records. *)
LEMMA OutcomeSays ==
  ASSUME NEW S, NEW q \in Mail!Tries, NEW list \in Mail!Lists(S)
  PROVE  /\ Mail!Records(q, list) \in Seq(S)
         /\ Mail!Outcome(q, list) \in {"failed", "none", "one", "many"}
         /\ Mail!Failed(q) <=> Mail!Outcome(q, list) = "failed"
         /\ Mail!Records(q, list) # <<>> <=> Mail!Outcome(q, list) \in {"one", "many"}
<1>1. list \in Seq(S) /\ Len(list) \in Nat /\ (Len(list) = 0 <=> list = <<>>)
  <2>1. CASE list = <<>>
    BY <2>1
  <2>2. CASE list \in {<<r>> : r \in S}
    <3>1. PICK r \in S : list = <<r>>
      BY <2>2
    <3> QED
      BY <3>1
  <2>3. CASE list \in {<<r, r>> : r \in S}
    <3>1. PICK r \in S : list = <<r, r>>
      BY <2>3
    <3> QED
      BY <3>1
  <2> QED
    BY <2>1, <2>2, <2>3 DEF Mail!Lists
<1>2. CASE Mail!Failed(q)
  <2>1. Mail!Records(q, list) = <<>> /\ Mail!Outcome(q, list) = "failed"
    BY <1>2 DEF Mail!Failed, Mail!Tries, Mail!Records, Mail!Outcome
  <2> QED
    BY <1>1, <1>2, <2>1
<1>3. CASE ~Mail!Failed(q)
  <2>1. Mail!Records(q, list) \in {<<>>, list}
    BY DEF Mail!Records
  <2>2. Mail!Outcome(q, list) = IF Len(Mail!Records(q, list)) = 0 THEN "none"
                                ELSE IF Len(Mail!Records(q, list)) = 1 THEN "one" ELSE "many"
    BY <1>3 DEF Mail!Outcome
  <2>3. Len(Mail!Records(q, list)) \in Nat
        /\ (Len(Mail!Records(q, list)) = 0 <=> Mail!Records(q, list) = <<>>)
    <3>1. Len(<<>>) = 0
      OBVIOUS
    <3> QED
      BY <1>1, <2>1, <3>1
  <2>4. Mail!Records(q, list) \in Seq(S)
    <3>1. <<>> \in Seq(S)
      OBVIOUS
    <3> QED
      BY <1>1, <2>1, <3>1
  <2> QED
    BY <1>1, <1>3, <2>1, <2>2, <2>3, <2>4
<1> QED
  BY <1>2, <1>3

(* The choice of the first all mechanism is that of an existing one.       *)
LEMMA SpfPolicyKnown ==
  ASSUME NEW record \in Seq(Mail!Mechanisms)
  PROVE  Mail!SpfPolicy(record) \in Policies
<1>1. CASE Mail!Alls(record) # {}
  <2> DEFINE first == CHOOSE i \in Mail!Alls(record) : \A j \in Mail!Alls(record) : i <= j
  <2>1. Mail!Alls(record) \subseteq Nat
    BY DEF Mail!Alls
  <2>2. \E i \in Mail!Alls(record) : \A j \in Mail!Alls(record) : i <= j
    BY <1>1, <2>1, LeastElement
  <2>3. first \in Mail!Alls(record)
    BY <2>2
  <2>4. record[first] \in {"-all", "~all", "?all", "+all"}
    BY <2>3 DEF Mail!Alls, Mail!Mechanisms
  <2>5. Mail!Qualifier(record[first]) \in {"fail", "softfail", "neutral", "pass"}
    BY <2>4 DEF Mail!Qualifier
  <2>6. Mail!SpfPolicy(record) = Mail!Qualifier(record[first])
    BY <1>1 DEF Mail!SpfPolicy
  <2> QED
    BY <2>5, <2>6 DEF Policies
<1>2. CASE Mail!Alls(record) = {}
  BY <1>2 DEF Mail!SpfPolicy, Policies
<1> QED
  BY <1>1, <1>2

LEMMA SpfResultKnown ==
  ASSUME Mail!RecordsAssumption, NEW published \in Seq(SpfRecords)
  PROVE  SpfKnown(Mail!SpfOf(published)) /\ (published # <<>> => Mail!SpfOf(published).found)
<1>1. CASE Len(published) = 0
  <2>1. Mail!SpfOf(published) = Mail!Absent /\ published = <<>>
    BY <1>1 DEF Mail!SpfOf
  <2> QED
    BY <2>1 DEF Mail!Absent, SpfKnown, Mail!Result
<1>2. CASE Len(published) = 1
  <2> DEFINE policy == Mail!SpfPolicy(published[1])
  <2>1. published[1] \in Seq(Mail!Mechanisms)
    BY <1>2 DEF Mail!RecordsAssumption
  <2>2. policy \in Policies
    BY <2>1, SpfPolicyKnown
  <2>3. Mail!SpfScore(policy) \in {5, 10, 20, 25, 30}
        /\ (Mail!SpfScore(policy) > 10 => policy \in {"fail", "softfail", "redirect"})
    <3> HIDE DEF policy
    <3> QED
      BY <2>2 DEF Policies, Mail!SpfScore
  <2>4. Mail!SpfOf(published) = Mail!Found(TRUE, policy, Mail!SpfScore(policy))
    BY <1>2 DEF Mail!SpfOf
  <2> HIDE DEF policy
  <2> QED
    BY <2>2, <2>3, <2>4 DEF Mail!Found, SpfKnown, Mail!Result
<1>3. CASE Len(published) \notin {0, 1}
  <2>1. Mail!SpfOf(published) = Mail!Several
    BY <1>3 DEF Mail!SpfOf
  <2> QED
    BY <2>1 DEF Mail!Several, Mail!Found, SpfKnown, Mail!Result
<1> QED
  BY <1>1, <1>2, <1>3

LEMMA DmarcResultKnown ==
  ASSUME Mail!RecordsAssumption, NEW published \in Seq(DmarcRecords), NEW inh \in BOOLEAN
  PROVE  /\ DmarcKnown(Mail!DmarcOf(published, inh))
         /\ published # <<>> => Mail!DmarcOf(published, inh).found
<1>1. CASE Len(published) = 0
  <2>1. Mail!DmarcOf(published, inh) = Mail!Absent /\ published = <<>>
    BY <1>1 DEF Mail!DmarcOf
  <2> QED
    BY <2>1 DEF Mail!Absent, DmarcKnown, Mail!Result
<1>2. CASE Len(published) = 1
  <2>1. PICK tags \in Mail!DmarcTags : tags = published[1]
    BY <1>2 DEF Mail!RecordsAssumption
  <2> DEFINE bad    == "bad" \in {tags.p, tags.sp}
             tag    == IF inh /\ tags.sp # "absent" THEN tags.sp ELSE tags.p
             policy == IF bad THEN "invalid" ELSE IF tag = "absent" THEN "none" ELSE tag
             base   == CASE policy = "reject" -> 35 [] policy = "quarantine" -> 25
                         [] OTHER -> 10
             score  == IF bad /\ tags.rua # "valid" THEN 0
                       ELSE IF tags.rua \in {"absent", "empty"} THEN base - 5 ELSE base
  <2>2. Mail!DmarcOf(published, inh) = Mail!Found(~bad, policy, score)
    BY <1>2, <2>1 DEF Mail!DmarcOf, Mail!Dmarc
  <2>3. policy \in {"none", "quarantine", "reject", "invalid"}
    BY DEF Mail!DmarcTags, Mail!TagValues
  <2>4. base \in {10, 25, 35} /\ (base > 10 => policy \in {"quarantine", "reject"})
    <3> HIDE DEF policy
    <3> QED
      BY <2>3
  <2>5. score \in 0..35 /\ (score > 10 => policy \in {"quarantine", "reject"})
    <3> HIDE DEF policy, base, bad
    <3> QED
      BY <2>4
  <2> HIDE DEF policy, score, bad
  <2> QED
    BY <2>2, <2>3, <2>5 DEF Mail!Found, DmarcKnown, Mail!Result
<1>3. CASE Len(published) \notin {0, 1}
  <2>1. Mail!DmarcOf(published, inh) = Mail!Several
    BY <1>3 DEF Mail!DmarcOf
  <2> QED
    BY <2>1 DEF Mail!Several, Mail!Found, DmarcKnown, Mail!Result
<1> QED
  BY <1>1, <1>2, <1>3

-----------------------------------------------------------------------------
Statuses == {"none", "active", "revoked", "malformed"}

(* The status a set of records deserves.                                   *)
Deserved(seen) == IF "active" \in seen THEN "active"
                  ELSE IF "revoked" \in seen THEN "revoked"
                  ELSE IF "malformed" \in seen THEN "malformed" ELSE "none"

(* One turn of the loop of check_selector.                                 *)
Turn(seen, r) == IF seen = "active" THEN seen
                 ELSE IF r \in {"active", "revoked"} THEN r
                 ELSE IF r = "malformed" /\ seen # "revoked" THEN "malformed" ELSE seen

(* The loop's fold exists, and ends with the status the records deserve.   *)
LEMMA StatusDeserved ==
  ASSUME NEW list \in Seq(Mail!KeyStates)
  PROVE  Mail!SelectorStatus(list) = Deserved(Mail!Elements(list))
<1> DEFINE n      == Len(list)
           Fold(g) == g = [i \in 0..n |->
                             IF i = 0 THEN "none"
                             ELSE IF g[i - 1] = "active" THEN g[i - 1]
                             ELSE CASE list[i] \in {"active", "revoked"} -> list[i]
                                    [] list[i] = "malformed" /\ g[i - 1] # "revoked" -> "malformed"
                                    [] OTHER -> g[i - 1]]
           step   == [i \in Nat |-> [v \in Statuses |->
                        IF i \in 1..n THEN Turn(v, list[i]) ELSE v]]
           status == CHOOSE g : Fold(g)
<1>1. n \in Nat /\ \A i \in 1..n : list[i] \in Mail!KeyStates
  OBVIOUS
<1>2. step \in [Nat -> [Statuses -> Statuses]]
  BY <1>1 DEF Turn, Statuses, Mail!KeyStates
<1>3. PICK g \in [0..n -> Statuses] :
        \A i \in 0..n : g[i] = IF i = 0 THEN "none" ELSE step[i][g[i - 1]]
  <2> HIDE DEF step, n
  <2>1. "none" \in Statuses
    BY DEF Statuses
  <2>2. Recursions(Statuses, "none", step, n) # {}
    BY <1>1, <1>2, <2>1, RecursionOnSegment
  <2> QED
    BY <2>2 DEF Recursions
<1>4. ASSUME NEW v \in Statuses, NEW r
      PROVE  Turn(v, r) = IF v = "active" THEN v
                          ELSE CASE r \in {"active", "revoked"} -> r
                                 [] r = "malformed" /\ v # "revoked" -> "malformed"
                                 [] OTHER -> v
  BY DEF Turn
<1>5. Fold(g)
  <2>1. ASSUME NEW i \in 0..n, i # 0
        PROVE  /\ g[i - 1] \in Statuses /\ i \in 1..n
               /\ step[i][g[i - 1]] = Turn(g[i - 1], list[i])
    BY <1>1, <2>1
  <2>2. ASSUME NEW i \in 0..n
        PROVE  g[i] = IF i = 0 THEN "none"
                      ELSE IF g[i - 1] = "active" THEN g[i - 1]
                      ELSE CASE list[i] \in {"active", "revoked"} -> list[i]
                             [] list[i] = "malformed" /\ g[i - 1] # "revoked" -> "malformed"
                             [] OTHER -> g[i - 1]
    <3> HIDE DEF step, n
    <3> QED
      BY <1>3, <1>4, <2>1
  <2> HIDE DEF step, n
  <2> QED
    BY <2>2
<1>6. Mail!SelectorStatus(list) = status[n]
  BY DEF Mail!SelectorStatus
<1>7. Fold(status)
  <2> HIDE DEF Fold
  <2> QED
    BY <1>5
<1> HIDE DEF status
<1> DEFINE S == {i \in Nat : i <= n => status[i] = Deserved({list[j] : j \in 1..i})}
<1>8. 0 \in S
  <2>1. status[0] = "none"
    <3>1. 0 \in 0..n
      BY <1>1
    <3> HIDE DEF n
    <3> QED
      BY <3>1, <1>7
  <2> QED
    BY <2>1 DEF Deserved
<1>9. ASSUME NEW i \in Nat, i \in S PROVE i + 1 \in S
  <2> SUFFICES ASSUME i + 1 <= n
               PROVE  status[i + 1] = Deserved({list[j] : j \in 1..(i + 1)})
    OBVIOUS
  <2> DEFINE seen == {list[j] : j \in 1..i}
  <2>1. status[i] = Deserved(seen)
    BY <1>1, <1>9
  <2>2. status[i] \in Statuses /\ i + 1 \in 1..n /\ i + 1 \in 0..n /\ (i + 1) - 1 = i
    BY <1>1, <2>1 DEF Deserved, Statuses
  <2>3. status[i + 1] = Turn(status[i], list[i + 1])
    <3> HIDE DEF n
    <3>1. status[i + 1] = LET v == status[(i + 1) - 1] IN
                          IF v = "active" THEN v
                          ELSE CASE list[i + 1] \in {"active", "revoked"} -> list[i + 1]
                                 [] list[i + 1] = "malformed" /\ v # "revoked" -> "malformed"
                                 [] OTHER -> v
      <4>1. i + 1 # 0
        OBVIOUS
      <4> QED
        BY <1>7, <2>2, <4>1
    <3> QED
      BY <1>4, <2>2, <3>1
  <2>4. {list[j] : j \in 1..(i + 1)} = seen \cup {list[i + 1]}
    OBVIOUS
  <2>5. list[i + 1] \in Mail!KeyStates
    BY <1>1, <2>2
  <2> HIDE DEF seen, status
  <2> QED
    BY <2>1, <2>3, <2>4, <2>5 DEF Turn, Deserved, Mail!KeyStates
<1> HIDE DEF S, status
<1>10. Nat \subseteq S
  BY <1>8, <1>9, NatSetInduction
<1>11. {list[j] : j \in 1..n} = Mail!Elements(list)
  BY DEF Mail!Elements
<1> QED
  BY <1>1, <1>6, <1>10, <1>11 DEF S

-----------------------------------------------------------------------------
Topics == {"absent", "unverified"}

(* What is asked and advised follows the order of the lookups.             *)
Order ==
  /\ pc \in {"called", "spf"} => asked["spf"] = "no" /\ advice = {}
  /\ pc \in {"called", "spf", "exact"} =>
       asked["exact"] = "no" /\ asked["org"] = "no" /\ advice \subseteq {"spf"} \X Topics
  /\ pc = "org" => /\ suborg /\ asked["exact"] = "none" /\ asked["org"] = "no"
                   /\ advice \subseteq {"spf"} \X Topics
  /\ pc \notin {"signals", "done"} => advice \subseteq {"spf", "dmarc"} \X Topics

(* What the score and the warnings of a result are computed from.          *)
Judged ==
  /\ rating # None =>
       /\ pc \in {"signals", "done"}
       /\ rating = Mail!Rating(spf.score + dmarc.score + IF Mail!DkimFound THEN 35 ELSE 0)
       /\ \A s \in Selectors : /\ keys[s] \in Seq(Mail!KeyStates)
                                /\ dkim[s] = Mail!SelectorStatus(keys[s])
  /\ pc = "done" => warnings = IF rating = None THEN {} ELSE Mail!Warnings

IInv == /\ Mail!TypeOK /\ SpfKnown(spf) /\ DmarcKnown(dmarc)
        /\ Order /\ Mail!AbsenceIsEvidence /\ Mail!InheritanceIsLastResort /\ Judged

LEMMA InitHolds == ASSUME Mail!RecordsAssumption PROVE Mail!Init => IInv
<1> SUFFICES ASSUME Mail!Init PROVE IInv
  OBVIOUS
<1>1. Mail!TypeOK
  <2>1. spf \in Mail!Result(Policies, 0..30)
        /\ dmarc \in Mail!Result({"none", "quarantine", "reject", "invalid"}, 0..35)
    BY DEF Mail!Init, Mail!Absent, Mail!Result
  <2>2. DOMAIN dkim = Selectors /\ advice = {}
    BY DEF Mail!Init
  <2> QED
    BY <2>1, <2>2 DEF Mail!Init, Mail!TypeOK, Policies
<1>2. SpfKnown(spf) /\ DmarcKnown(dmarc)
  BY DEF Mail!Init, SpfKnown, DmarcKnown, Mail!Absent, Mail!Result
<1>3. Order /\ Mail!AbsenceIsEvidence /\ Mail!InheritanceIsLastResort /\ Judged
  BY DEF Mail!Init, Order, Mail!AbsenceIsEvidence, Mail!InheritanceIsLastResort, Judged
<1> QED
  BY <1>1, <1>2, <1>3 DEF IInv

(* Steps that only move the caller on, or only fill in what a thread got.  *)
LEMMA QuietSteps ==
  ASSUME Mail!RecordsAssumption, IInv,
         \/ Mail!Reject \/ Mail!Accept \/ Mail!Raises \/ Mail!KeyRaises
         \/ \E s \in Selectors : Mail!LookUpKey(s)
  PROVE  IInv'
<1>1. UNCHANGED <<suborg, asked, spf, dmarc, inherited, dkim, advice, rating, warnings>>
  BY DEF Mail!Reject, Mail!Accept, Mail!Raises, Mail!KeyRaises, Mail!LookUpKey
<1>2. \/ pc = "called" /\ pc' \in {"signals", "spf"} /\ keys' = keys
      \/ pc \in {"spf", "exact", "org", "dkim"} /\ pc' = "signals" /\ keys' = keys
      \/ pc = "dkim" /\ pc' = "dkim"
  BY DEF Mail!Reject, Mail!Accept, Mail!Raises, Mail!KeyRaises, Mail!LookUpKey,
         Mail!KeysLookedUp
<1>3. Mail!TypeOK'
  <2>1. keys' \in [Selectors -> KeyLists \cup {<<>>, Mail!Raised, None}]
    BY DEF IInv, Mail!TypeOK, Mail!Reject, Mail!Accept, Mail!Raises, Mail!KeyRaises,
           Mail!LookUpKey
  <2>2. pc' \in {"called", "spf", "exact", "org", "dkim", "signals", "done"}
    BY <1>2
  <2>3. {dkim'[s] : s \in Selectors} = {dkim[s] : s \in Selectors}
    BY <1>1
  <2> QED
    BY <1>1, <2>1, <2>2, <2>3 DEF IInv, Mail!TypeOK
<1>4. SpfKnown(spf)' /\ DmarcKnown(dmarc)' /\ Order'
  BY <1>1, <1>2 DEF IInv, Order, SpfKnown, DmarcKnown
<1>5. Mail!AbsenceIsEvidence' /\ Mail!InheritanceIsLastResort'
  BY <1>1 DEF IInv, Mail!AbsenceIsEvidence, Mail!InheritanceIsLastResort
<1>6. Judged'
  BY <1>1, <1>2 DEF IInv, Judged
<1> QED
  BY <1>3, <1>4, <1>5, <1>6 DEF IInv

LEMMA SpfStep ==
  ASSUME Mail!RecordsAssumption, IInv,
         NEW q \in Mail!Tries, NEW list \in Mail!Lists(SpfRecords),
         Mail!CheckSpf(q, list)
  PROVE  IInv'
<1>1. /\ Mail!Records(q, list) \in Seq(SpfRecords)
      /\ Mail!Outcome(q, list) \in {"failed", "none", "one", "many"}
      /\ Mail!Failed(q) <=> Mail!Outcome(q, list) = "failed"
      /\ Mail!Records(q, list) # <<>> <=> Mail!Outcome(q, list) \in {"one", "many"}
  BY OutcomeSays
<1>2. /\ pc = "spf" /\ pc' = "exact" /\ spf' = Mail!SpfOf(Mail!Records(q, list))
      /\ asked' = [asked EXCEPT !["spf"] = Mail!Outcome(q, list)]
      /\ UNCHANGED <<suborg, dmarc, inherited, keys, dkim, rating, warnings>>
  BY DEF Mail!CheckSpf
<1>3. advice' = IF Mail!Failed(q) THEN {<<"spf", "unverified">>}
                ELSE IF Mail!Records(q, list) = <<>> THEN {<<"spf", "absent">>} ELSE {}
  BY <1>2 DEF Mail!CheckSpf, Mail!Advise, IInv, Order
<1>4. SpfKnown(spf')
  BY <1>1, <1>2, SpfResultKnown
<1>5. /\ asked \in [{"spf", "exact", "org"} -> {"no", "failed", "none", "one", "many"}]
      /\ asked'["spf"] = Mail!Outcome(q, list)
      /\ asked["exact"] = "no" /\ asked["org"] = "no"
      /\ asked'["exact"] = "no" /\ asked'["org"] = "no"
  BY <1>2 DEF IInv, Mail!TypeOK, Order
<1>6. Mail!TypeOK'
  <2>1. asked' \in [{"spf", "exact", "org"} -> {"no", "failed", "none", "one", "many"}]
    BY <1>1, <1>2, <1>5
  <2>2. advice' \subseteq {"spf", "dmarc"} \X {"absent", "unverified"}
    BY <1>3
  <2> QED
    BY <1>2, <1>4, <2>1, <2>2 DEF IInv, Mail!TypeOK, SpfKnown, Policies
<1>7. Order' /\ Mail!AbsenceIsEvidence' /\ Mail!InheritanceIsLastResort'
  BY <1>1, <1>2, <1>3, <1>5
  DEF IInv, Order, Mail!AbsenceIsEvidence, Mail!InheritanceIsLastResort, Topics
<1>8. DmarcKnown(dmarc)' /\ Judged'
  BY <1>2 DEF IInv, Judged, DmarcKnown
<1> QED
  BY <1>4, <1>6, <1>7, <1>8 DEF IInv

LEMMA DmarcStep ==
  ASSUME Mail!RecordsAssumption, IInv,
         NEW q \in Mail!Tries, NEW list \in Mail!Lists(DmarcRecords),
         Mail!CheckDmarc(q, list) \/ Mail!CheckOrganisation(q, list)
  PROVE  IInv'
<1> DEFINE name == IF pc = "exact" THEN "exact" ELSE "org"
<1>1. /\ Mail!Records(q, list) \in Seq(DmarcRecords)
      /\ Mail!Outcome(q, list) \in {"failed", "none", "one", "many"}
      /\ Mail!Failed(q) <=> Mail!Outcome(q, list) = "failed"
      /\ Mail!Records(q, list) # <<>> <=> Mail!Outcome(q, list) \in {"one", "many"}
  BY OutcomeSays
<1>2. /\ pc \in {"exact", "org"}
      /\ dmarc' = Mail!DmarcOf(Mail!Records(q, list), pc = "org")
      /\ asked' = [asked EXCEPT ![name] = Mail!Outcome(q, list)]
      /\ inherited' = IF pc = "org" THEN Mail!Records(q, list) # <<>> ELSE inherited
      /\ pc' = IF pc = "exact" /\ ~Mail!Failed(q) /\ Mail!Records(q, list) = <<>> /\ suborg
               THEN "org" ELSE "dkim"
      /\ UNCHANGED <<suborg, spf, keys, dkim, rating, warnings>>
  BY DEF Mail!CheckDmarc, Mail!CheckOrganisation
<1>3. advice' = advice \cup IF Mail!Failed(q) THEN {<<"dmarc", "unverified">>}
                            ELSE IF Mail!Records(q, list) = <<>> /\ pc' = "dkim"
                                 THEN {<<"dmarc", "absent">>} ELSE {}
  BY <1>2 DEF Mail!CheckDmarc, Mail!CheckOrganisation, Mail!Advise
<1>4. DmarcKnown(dmarc') /\ (Mail!Records(q, list) # <<>> => dmarc'.found)
  BY <1>1, <1>2, DmarcResultKnown
<1>5. /\ asked \in [{"spf", "exact", "org"} -> {"no", "failed", "none", "one", "many"}]
      /\ asked'[name] = Mail!Outcome(q, list) /\ asked'["spf"] = asked["spf"]
      /\ pc = "exact" => asked["exact"] = "no" /\ asked["org"] = "no" /\ asked'["org"] = "no"
      /\ pc = "org" => asked["exact"] = "none" /\ asked'["exact"] = "none" /\ suborg
      /\ asked["org"] = "no" /\ advice \subseteq {"spf"} \X Topics
  BY <1>2 DEF IInv, Mail!TypeOK, Order
<1>6. Mail!TypeOK'
  <2>1. asked' \in [{"spf", "exact", "org"} -> {"no", "failed", "none", "one", "many"}]
    BY <1>1, <1>2, <1>5
  <2>2. advice' \subseteq {"spf", "dmarc"} \X {"absent", "unverified"}
    BY <1>3, <1>5 DEF Topics
  <2> QED
    BY <1>2, <1>4, <2>1, <2>2 DEF IInv, Mail!TypeOK, DmarcKnown
<1>7. Order'
  BY <1>1, <1>2, <1>3, <1>5 DEF IInv, Order, Topics
<1>8. Mail!AbsenceIsEvidence'
  <2>1. advice \cap ({"dmarc"} \X Topics) = {}
    BY <1>5
  <2>2. \A t \in Topics : <<"spf", t>> \in advice' <=> <<"spf", t>> \in advice
    BY <1>3
  <2>3. <<"dmarc", "absent">> \in advice' =>
          ~Mail!Failed(q) /\ Mail!Records(q, list) = <<>> /\ pc' = "dkim"
    BY <1>3, <2>1 DEF Topics
  <2>4. Mail!Failed(q) => <<"dmarc", "unverified">> \in advice'
    BY <1>3
  <2> QED
    BY <1>1, <1>2, <1>5, <2>2, <2>3, <2>4 DEF IInv, Mail!AbsenceIsEvidence, Topics
<1>9. Mail!InheritanceIsLastResort'
  BY <1>1, <1>2, <1>4, <1>5 DEF IInv, Mail!InheritanceIsLastResort
<1>10. SpfKnown(spf)' /\ Judged'
  BY <1>2 DEF IInv, Judged, SpfKnown
<1> QED
  BY <1>4, <1>6, <1>7, <1>8, <1>9, <1>10 DEF IInv

(* The status of each selector is the fold over what its thread got.       *)
LEMMA RateStep ==
  ASSUME Mail!RecordsAssumption, IInv, Mail!Rate
  PROVE  IInv'
<1>1. /\ pc = "dkim" /\ pc' = "signals"
      /\ dkim' = [s \in Selectors |-> Mail!SelectorStatus(keys[s])]
      /\ rating' = Mail!Rating(spf.score + dmarc.score + IF Mail!DkimFound' THEN 35 ELSE 0)
      /\ UNCHANGED <<suborg, asked, spf, dmarc, inherited, keys, warnings>>
  BY DEF Mail!Rate, Mail!KeysLookedUp
<1>2. advice' = advice \cup IF Mail!DkimFound' THEN {}
                            ELSE LET seen == {dkim'[s] : s \in Selectors} IN
                                 {"dkim"} \X IF seen \subseteq {"none"} THEN {"absent"}
                                             ELSE seen \ {"none"}
  BY DEF Mail!Rate
<1>3. \A s \in Selectors : keys[s] \in Seq(Mail!KeyStates)
  <2>1. <<>> \in Seq(Mail!KeyStates)
    OBVIOUS
  <2> QED
    BY <2>1 DEF Mail!RecordsAssumption, Mail!Rate, Mail!KeysLookedUp, IInv, Mail!TypeOK
<1>4. /\ advice \subseteq {"spf", "dmarc"} \X Topics
      /\ \A t \in Topics : \A n \in {"spf", "dmarc"} :
           <<n, t>> \in advice' <=> <<n, t>> \in advice
  BY <1>1, <1>2 DEF IInv, Order
<1>5. Mail!TypeOK'
  <2>1. advice' \subseteq ({"spf", "dmarc"} \X {"absent", "unverified"})
                            \cup ({"dkim"} \X ({"absent"} \cup {dkim'[s] : s \in Selectors}))
    BY <1>2, <1>4 DEF Topics
  <2>2. rating' \in {"Excellent", "Good", "Fair", "Critical", None}
    BY <1>1 DEF Mail!Rating
  <2>3. DOMAIN dkim' = Selectors
    BY <1>1
  <2> QED
    BY <1>1, <2>1, <2>2, <2>3 DEF IInv, Mail!TypeOK
<1>6. SpfKnown(spf)' /\ DmarcKnown(dmarc)' /\ Order'
  BY <1>1 DEF IInv, Order, SpfKnown, DmarcKnown
<1>7. Mail!AbsenceIsEvidence' /\ Mail!InheritanceIsLastResort'
  BY <1>1, <1>4 DEF IInv, Mail!AbsenceIsEvidence, Mail!InheritanceIsLastResort, Topics
<1>8. Judged'
  <2>1. \A s \in Selectors : /\ keys'[s] \in Seq(Mail!KeyStates)
                              /\ dkim'[s] = Mail!SelectorStatus(keys'[s])
    BY <1>1, <1>3
  <2> QED
    BY <1>1, <2>1 DEF Judged
<1> QED
  BY <1>5, <1>6, <1>7, <1>8 DEF IInv

LEMMA ExtractStep ==
  ASSUME Mail!RecordsAssumption, IInv, Mail!Extract
  PROVE  IInv'
<1>1. /\ pc = "signals" /\ pc' = "done"
      /\ warnings' = IF rating = None THEN {} ELSE Mail!Warnings
      /\ UNCHANGED <<suborg, asked, spf, dmarc, inherited, keys, dkim, advice, rating>>
  BY DEF Mail!Extract
<1>2. Mail!Warnings' = Mail!Warnings /\ Mail!DkimFound' = Mail!DkimFound
  BY <1>1 DEF Mail!Warnings, Mail!DkimFound
<1>3. Mail!TypeOK'
  <2>1. {dkim'[s] : s \in Selectors} = {dkim[s] : s \in Selectors}
    BY <1>1
  <2>2. warnings' \subseteq {"spoofable", "spf missing", "spf weak", "dkim missing",
                            "dmarc missing", "dmarc none"}
    BY <1>1 DEF Mail!Warnings
  <2> QED
    BY <1>1, <2>1, <2>2 DEF IInv, Mail!TypeOK
<1>4. SpfKnown(spf)' /\ DmarcKnown(dmarc)' /\ Order'
  BY <1>1 DEF IInv, Order, SpfKnown, DmarcKnown
<1>5. Mail!AbsenceIsEvidence' /\ Mail!InheritanceIsLastResort' /\ Judged'
  BY <1>1, <1>2 DEF IInv, Mail!AbsenceIsEvidence, Mail!InheritanceIsLastResort, Judged
<1> QED
  BY <1>3, <1>4, <1>5 DEF IInv

LEMMA NextInv ==
  ASSUME Mail!RecordsAssumption, IInv, Mail!Next \/ UNCHANGED Mail!vars
  PROVE  IInv'
<1>1. CASE \/ Mail!Reject \/ Mail!Accept \/ Mail!Raises \/ Mail!KeyRaises
           \/ \E s \in Selectors : Mail!LookUpKey(s)
  BY <1>1, QuietSteps
<1>2. CASE \E q \in Mail!Tries, list \in Mail!Lists(SpfRecords) : Mail!CheckSpf(q, list)
  BY <1>2, SpfStep
<1>3. CASE \E q \in Mail!Tries, list \in Mail!Lists(DmarcRecords) :
             Mail!CheckDmarc(q, list) \/ Mail!CheckOrganisation(q, list)
  BY <1>3, DmarcStep
<1>4. CASE Mail!Rate
  BY <1>4, RateStep
<1>5. CASE Mail!Extract
  BY <1>5, ExtractStep
<1>6. CASE UNCHANGED Mail!vars
  <2>1. (Mail!DkimFound <=> Mail!DkimFound') /\ Mail!Warnings' = Mail!Warnings
    BY <1>6 DEF Mail!vars, Mail!DkimFound, Mail!Warnings
  <2>2. {dkim'[s] : s \in Selectors} = {dkim[s] : s \in Selectors}
    BY <1>6 DEF Mail!vars
  <2>3. Mail!TypeOK'
    BY <1>6, <2>2 DEF Mail!vars, IInv, Mail!TypeOK
  <2>4. SpfKnown(spf)' /\ DmarcKnown(dmarc)' /\ Order'
    BY <1>6 DEF Mail!vars, IInv, SpfKnown, DmarcKnown, Order
  <2>5. Mail!AbsenceIsEvidence' /\ Mail!InheritanceIsLastResort' /\ Judged'
    BY <1>6, <2>1 DEF Mail!vars, IInv, Mail!AbsenceIsEvidence,
                      Mail!InheritanceIsLastResort, Judged
  <2> QED
    BY <2>3, <2>4, <2>5 DEF IInv
<1> QED
  BY <1>1, <1>2, <1>3, <1>4, <1>5, <1>6 DEF Mail!Next, Mail!Main, Mail!Terminated

(* A step of a call of this tool is a step of the tool.                    *)
LEMMA StepsAreOwn ==
  ASSUME [Next]_vars
  PROVE  /\ tool' = tool
         /\ UNCHANGED vars => UNCHANGED Mail!vars
         /\ tool = "email_security_check" /\ ~UNCHANGED vars
              => Mail!Next /\ ~UNCHANGED Mail!vars
BY DEF Next, TraceRedirects, HeadersAnalyzer, EmailSecurityCheck, SubdomainTakeoverScan, vars,
       redirects, headers, records, verdicts, Mail!vars

LEMMA Invariance == Spec => [](tool = "email_security_check" => IInv)
<1>1. Mail!RecordsAssumption
  BY SiteAssumption
<1>2. Init => IInv
  BY <1>1, InitHolds DEF Init
<1>3. (tool = "email_security_check" => IInv) /\ [Next]_vars
        => (tool = "email_security_check" => IInv)'
  BY <1>1, StepsAreOwn, NextInv
<1> QED
  BY <1>2, <1>3, PTL DEF Spec

-----------------------------------------------------------------------------
(* Every variable keeps to its type, whatever records are published.       *)
THEOREM TypeCorrect == Spec => [](tool = "email_security_check" => Mail!TypeOK)
<1>1. IInv => Mail!TypeOK
  BY DEF IInv
<1> QED
  BY <1>1, Invariance, PTL

(* A recommendation to add a record rests on an answer of every name that  *)
(* could hold one (check_spf, check_dmarc).                                *)
THEOREM AbsenceRestsOnEvidence == Spec => []AbsenceIsEvidence
<1>1. IInv => Mail!AbsenceIsEvidence
  BY DEF IInv
<1> QED
  BY <1>1, Invariance, PTL DEF AbsenceIsEvidence

(* The organisational domain's DMARC record counts only for a name known   *)
(* to have none of its own (check_dmarc).                                  *)
THEOREM InheritanceComesLast == Spec => []InheritanceIsLastResort
<1>1. IInv => Mail!InheritanceIsLastResort
  BY DEF IInv
<1> QED
  BY <1>1, Invariance, PTL DEF InheritanceIsLastResort

(* The rating of the tool and the warnings of the extractor agree at both  *)
(* ends, for every record the parsers accept.                              *)
THEOREM RatingsMatchWarnings == Spec => []RatingMatchesWarnings
<1>1. IInv => Mail!RatingMatchesWarnings
  <2> SUFFICES ASSUME IInv, pc = "done", rating # None
               PROVE  /\ rating = "Excellent" => warnings = {}
                      /\ "spoofable" \in warnings => rating = "Critical"
    BY DEF Mail!RatingMatchesWarnings, IInv, Judged
  <2>1. /\ spf.score \in 0..30 /\ dmarc.score \in 0..35
        /\ ~spf.found => spf.score = 0
        /\ ~dmarc.found => dmarc.score = 0
        /\ spf.score > 10 => spf.found /\ spf.policy \in {"fail", "softfail", "redirect"}
        /\ dmarc.score > 10 => dmarc.found /\ dmarc.policy \in {"quarantine", "reject"}
    BY DEF IInv, SpfKnown, DmarcKnown, Mail!Result
  <2>2. /\ warnings = Mail!Warnings
        /\ rating = Mail!Rating(spf.score + dmarc.score + IF Mail!DkimFound THEN 35 ELSE 0)
    BY DEF IInv, Judged
  <2>3. ASSUME rating = "Excellent" PROVE warnings = {}
    <3>1. spf.score + dmarc.score + (IF Mail!DkimFound THEN 35 ELSE 0) >= 90
      BY <2>1, <2>2, <2>3 DEF Mail!Rating
    <3>2. Mail!DkimFound /\ spf.score > 10 /\ dmarc.score > 10
      BY <2>1, <3>1
    <3> QED
      BY <2>1, <2>2, <3>2 DEF Mail!Warnings
  <2>4. ASSUME "spoofable" \in warnings PROVE rating = "Critical"
    <3>1. ~spf.found /\ ~dmarc.found
      BY <2>2, <2>4 DEF Mail!Warnings
    <3>2. spf.score + dmarc.score + (IF Mail!DkimFound THEN 35 ELSE 0) \in {0, 35}
      BY <2>1, <3>1
    <3> QED
      BY <2>2, <3>2 DEF Mail!Rating
  <2> QED
    BY <2>3, <2>4
<1> QED
  BY <1>1, Invariance, PTL DEF RatingMatchesWarnings

(* A selector's status is the one its records deserve, in whatever order   *)
(* and number they come, and one active key is enough (check_selector).    *)
THEOREM KeysAreJudged == Spec => []KeysJudged
<1>1. IInv => Mail!KeysJudged
  <2> SUFFICES ASSUME IInv, rating # None PROVE Mail!KeysJudged
    BY DEF Mail!KeysJudged
  <2>1. \A s \in Selectors : dkim[s] = Deserved(Mail!Elements(keys[s]))
    BY StatusDeserved DEF IInv, Judged
  <2>2. \A s \in Selectors : dkim[s] = "active" <=> "active" \in Mail!Elements(keys[s])
    BY <2>1 DEF Deserved
  <2> QED
    BY <2>1, <2>2 DEF Mail!KeysJudged, Mail!DkimFound, Deserved
<1> QED
  BY <1>1, Invariance, PTL DEF KeysJudged
=============================================================================
