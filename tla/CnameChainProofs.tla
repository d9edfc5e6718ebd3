--------------------------- MODULE CnameChainProofs ---------------------------
(***************************************************************************)
(* Proofs about CnameChain, for every set of names, every alias map and    *)
(* every depth limit: first what is said of each chain step by step, then  *)
(* that this is what the recursive definition of the aliases' path says.   *)
(***************************************************************************)
EXTENDS CnameChain, WellFoundedInduction, TLAPS

(* A chain follows the aliases from the name asked for.                    *)
AliasPath(l) ==
  \A i \in DOMAIN chain[l] :
     chain[l][i] = alias[IF i = 1 THEN name ELSE chain[l][i - 1]]

(* Each verdict has its reason at the end of the chain.                    *)
Reason(l) ==
  /\ verdict[l] = "complete"  => alias[Current(l)] = NoAlias
  /\ verdict[l] = "failed"    => alias[Current(l)] = Broken
  /\ verdict[l] = "truncated" => Len(chain[l]) = MaxDepth + 1
  /\ verdict[l] \in {"walking", "complete", "failed"} \/ (l = "enum" /\ verdict[l] = "cycle")
       => Len(chain[l]) <= MaxDepth
  /\ verdict[l] = "cycle"     =>
       \/ l = "enum" /\ alias[Current(l)] \in Seen(l)
       \/ /\ l = "takeover" /\ chain[l] # <<>>
          /\ \/ Current(l) = name
             \/ \E i \in 1..(Len(chain[l]) - 1) : chain[l][i] = Current(l)

(* How many names were collected before a cycle was found.                 *)
Firsts(l) == IF l = "takeover" /\ verdict[l] = "cycle" THEN Len(chain[l]) - 1
             ELSE Len(chain[l])

(* No name is met twice before a cycle is found.                           *)
Once(l) == \A i, j \in 1..Firsts(l) : chain[l][i] = chain[l][j] => i = j

(* Nor is the name asked for, unless it is its own alias: the enumeration  *)
(* starts from the alias without looking at it.                            *)
Away(l) == IF l = "enum" /\ alias[name] = name THEN chain[l] = <<name>>
           ELSE \A i \in 1..Firsts(l) : chain[l][i] # name

Sound(l) == AliasPath(l) /\ Reason(l) /\ Once(l) /\ Away(l)

ChainsSound == \A l \in Loops : Sound(l)

ChainInv == TypeOK /\ ChainsSound

-----------------------------------------------------------------------------
LEMMA InitInv == Init => ChainInv
<1> SUFFICES ASSUME Init PROVE ChainInv
  OBVIOUS
<1>1. /\ alias \in [Names -> Names \cup {NoAlias, Broken}] /\ name \in Names
      /\ NoAlias \notin Names /\ Broken \notin Names /\ NoAlias # Broken
      /\ MaxDepth \in Nat \ {0}
  BY CnameAssumption DEF Init
<1>2. ASSUME NEW l \in Loops
      PROVE  /\ chain[l] \in Seq(Names) /\ Len(chain[l]) <= MaxDepth
             /\ Sound(l)
             /\ verdict[l] \in {"walking", "complete", "failed", "cycle", "truncated"}
  <2>1. CASE l = "enum" /\ alias[name] \in Names
    <3>1. chain[l] = <<alias[name]>> /\ verdict[l] = "walking"
      BY <2>1 DEF Init, Loops
    <3>2. /\ chain[l] \in Seq(Names) /\ Len(chain[l]) = 1 /\ DOMAIN chain[l] = 1..1
          /\ chain[l][1] = alias[name]
      BY <2>1, <3>1
    <3>3. AliasPath(l) /\ Reason(l)
      BY <1>1, <3>1, <3>2 DEF AliasPath, Reason
    <3>4. Firsts(l) = 1
      BY <3>1, <3>2 DEF Firsts
    <3>5. Once(l) /\ Away(l)
      BY <2>1, <3>1, <3>2, <3>4 DEF Once, Away
    <3> QED
      BY <1>1, <3>1, <3>2, <3>3, <3>5 DEF Sound
  <2>2. CASE ~(l = "enum" /\ alias[name] \in Names)
    <3>1. chain[l] = <<>>
      BY <2>2 DEF Init
    <3>2. chain[l] \in Seq(Names) /\ Len(chain[l]) = 0 /\ DOMAIN chain[l] = {}
      BY <3>1
    <3>3. /\ verdict[l] \in {"walking", "complete", "failed"}
          /\ verdict[l] = "complete" => alias[name] = NoAlias
          /\ verdict[l] = "failed" => alias[name] = Broken
      BY <1>1 DEF Init
    <3>4. AliasPath(l) /\ Reason(l)
      BY <1>1, <3>1, <3>2, <3>3 DEF AliasPath, Reason, Current
    <3>5. Firsts(l) = 0
      BY <3>2, <3>3 DEF Firsts
    <3>6. Once(l) /\ Away(l)
      BY <1>1, <2>2, <3>5 DEF Once, Away
    <3> QED
      BY <1>1, <3>1, <3>2, <3>3, <3>4, <3>6 DEF Sound
  <2> QED
    BY <2>1, <2>2
<1>3. verdict \in [Loops -> {"walking", "complete", "failed", "cycle", "truncated"}]
  <2>1. DOMAIN verdict = Loops /\ verdict = [l \in Loops |-> verdict[l]]
    BY DEF Init
  <2> QED
    BY <1>2, <2>1
<1>4. chain \in [Loops -> Seq(Names)]
  <2>1. chain = [l \in Loops |-> chain[l]]
    BY DEF Init
  <2> QED
    BY <1>2, <2>1
<1>5. \A l \in Loops : Len(chain[l]) <= MaxDepth + 1
  <2>1. \A l \in Loops : Len(chain[l]) \in Nat
    BY <1>4
  <2> QED
    BY <1>1, <1>2, <2>1
<1> QED
  BY <1>1, <1>2, <1>3, <1>4, <1>5 DEF ChainInv, TypeOK, ChainsSound

(* A loop that changes only its verdict.                                   *)
LEMMA EndStep ==
  ASSUME ChainInv, NEW l \in Loops, verdict[l] = "walking", UNCHANGED <<chain, alias, name>>,
         NEW v \in {"complete", "failed", "cycle"}, End(l, v),
         v = "complete" => alias[Current(l)] = NoAlias,
         v = "failed" => alias[Current(l)] = Broken,
         v = "cycle" => l = "enum" /\ alias[Current(l)] \in Seen(l)
  PROVE  ChainInv'
<1>1. /\ verdict' = [verdict EXCEPT ![l] = v]
      /\ verdict \in [Loops -> {"walking", "complete", "failed", "cycle", "truncated"}]
  BY DEF End, ChainInv, TypeOK
<1>2. verdict'[l] = v /\ \A k \in Loops : k # l => verdict'[k] = verdict[k]
  BY <1>1
<1>3. TypeOK'
  BY <1>1 DEF ChainInv, TypeOK
<1>4. \A k \in Loops : Current(k)' = Current(k) /\ Seen(k)' = Seen(k)
  BY DEF Current, Seen, Elements
<1>5. Sound(l)'
  BY <1>2, <1>4 DEF ChainInv, ChainsSound, Sound, AliasPath, Reason, Once, Away, Firsts
<1>6. ASSUME NEW k \in Loops, k # l PROVE Sound(k)'
  BY <1>2, <1>4, <1>6 DEF ChainInv, ChainsSound, Sound, AliasPath, Reason, Once, Away, Firsts
<1> QED
  BY <1>3, <1>5, <1>6 DEF ChainInv, ChainsSound

(* A loop that collects the next name, and perhaps ends.                   *)
LEMMA CollectStep ==
  ASSUME ChainInv, NEW l \in Loops, verdict[l] = "walking", UNCHANGED <<alias, name>>,
         NEW n \in Names, n = alias[Current(l)], Collect(l, n),
         NEW v \in {"walking", "cycle", "truncated"},
         verdict' = [verdict EXCEPT ![l] = v],
         v = "cycle" <=> n \in Seen(l),
         v = "cycle" => l = "takeover",
         v = "truncated" => Len(chain'[l]) > MaxDepth,
         v = "walking" => Len(chain'[l]) <= MaxDepth
  PROVE  ChainInv'
<1>1. /\ verdict \in [Loops -> {"walking", "complete", "failed", "cycle", "truncated"}]
      /\ \A k \in Loops : chain[k] \in Seq(Names) /\ Len(chain[k]) <= MaxDepth + 1
      /\ MaxDepth \in Nat
  BY CnameAssumption DEF ChainInv, TypeOK
<1>2. verdict'[l] = v /\ \A k \in Loops : k # l => verdict'[k] = verdict[k]
  BY <1>1
<1>3. chain' = [chain EXCEPT ![l] = Append(chain[l], n)] /\ chain \in [Loops -> Seq(Names)]
  BY DEF Collect, ChainInv, TypeOK
<1>4. chain'[l] = Append(chain[l], n) /\ \A k \in Loops : k # l => chain'[k] = chain[k]
  BY <1>3
<1>5. chain[l] \in Seq(Names) /\ Len(chain[l]) \in Nat /\ Len(chain[l]) <= MaxDepth
  BY <1>1 DEF ChainInv, ChainsSound, Sound, Reason
<1>6. /\ chain'[l] \in Seq(Names) /\ Len(chain'[l]) = Len(chain[l]) + 1
      /\ chain'[l] # <<>>
      /\ DOMAIN chain'[l] = 1..(Len(chain[l]) + 1) /\ DOMAIN chain[l] = 1..Len(chain[l])
      /\ chain'[l][Len(chain[l]) + 1] = n
      /\ \A i \in 1..Len(chain[l]) : chain'[l][i] = chain[l][i]
  BY <1>4, <1>5
<1>7. TypeOK'
  <2>1. chain' \in [Loops -> Seq(Names)]
    BY <1>3, <1>6, <1>4
  <2>2. \A k \in Loops : Len(chain'[k]) <= MaxDepth + 1
    BY <1>1, <1>4, <1>5, <1>6
  <2> QED
    BY <1>1, <2>1, <2>2 DEF ChainInv, TypeOK
<1>8. Current(l)' = n
  BY <1>5, <1>6 DEF Current
<1>9. AliasPath(l)'
  <2> SUFFICES ASSUME NEW i \in 1..(Len(chain[l]) + 1)
               PROVE  chain'[l][i] = alias[IF i = 1 THEN name ELSE chain'[l][i - 1]]
    BY <1>6 DEF AliasPath
  <2>1. CASE i <= Len(chain[l])
    <3>1. chain[l][i] = alias[IF i = 1 THEN name ELSE chain[l][i - 1]]
      <4>1. AliasPath(l)
        BY DEF ChainInv, ChainsSound, Sound
      <4>2. i \in DOMAIN chain[l]
        BY <1>5, <1>6, <2>1
      <4> QED
        BY <4>1, <4>2 DEF AliasPath
    <3>2. chain'[l][i] = chain[l][i] /\ (i # 1 => chain'[l][i - 1] = chain[l][i - 1])
      BY <1>5, <1>6, <2>1
    <3> QED
      BY <3>1, <3>2
  <2>2. CASE i = Len(chain[l]) + 1
    <3>1. chain'[l][i] = alias[Current(l)]
      BY <1>6, <2>2
    <3>2. Current(l) = IF i = 1 THEN name ELSE chain[l][i - 1]
      BY <1>5, <2>2 DEF Current
    <3>3. i # 1 => chain'[l][i - 1] = chain[l][i - 1]
      BY <1>5, <1>6, <2>2
    <3> QED
      BY <3>1, <3>2, <3>3
  <2> QED
    BY <1>5, <2>1, <2>2
<1>10. n \in Seen(l) => n = name \/ \E i \in 1..Len(chain[l]) : chain[l][i] = n
  BY <1>6 DEF Seen, Elements
<1>11. Reason(l)'
  <2>1. v = "truncated" => Len(chain'[l]) = MaxDepth + 1
    BY <1>1, <1>5, <1>6
  <2>2. v = "cycle" => \/ Current(l)' = name
                      \/ \E i \in 1..(Len(chain'[l]) - 1) : chain'[l][i] = Current(l)'
    BY <1>5, <1>6, <1>8, <1>10
  <2> QED
    BY <1>2, <1>6, <2>1, <2>2 DEF Reason
<1>12. Once(l)' /\ Away(l)'
  <2>1. Once(l) /\ Away(l) /\ Firsts(l) = Len(chain[l])
    BY <1>5 DEF ChainInv, ChainsSound, Sound, Firsts
  <2>2. Firsts(l)' = IF v = "cycle" THEN Len(chain[l]) ELSE Len(chain[l]) + 1
    BY <1>2, <1>5, <1>6 DEF Firsts, Loops
  <2>3. v # "cycle" => n # name /\ \A i \in 1..Len(chain[l]) : chain[l][i] # n
    BY <1>6 DEF Seen, Elements
  <2>4. Once(l)'
    BY <1>5, <1>6, <2>1, <2>2, <2>3 DEF Once
  <2>5. CASE l = "enum" /\ alias[name] = name
    <3>1. chain[l] = <<name>> /\ Current(l) = name
      BY <2>1, <2>5 DEF Away, Current
    <3>2. n = name /\ n \in Seen(l)
      BY <2>5, <3>1 DEF Seen
    <3> QED
      BY <2>5, <3>2
  <2>6. CASE ~(l = "enum" /\ alias[name] = name)
    <3>1. \A i \in 1..Len(chain[l]) : chain[l][i] # name
      BY <2>1, <2>6 DEF Away
    <3>2. \A i \in 1..Firsts(l)' : chain'[l][i] # name
      BY <1>5, <1>6, <2>2, <2>3, <3>1
    <3> QED
      BY <2>4, <2>6, <3>2 DEF Away
  <2> QED
    BY <2>4, <2>5, <2>6
<1>13. ASSUME NEW k \in Loops, k # l PROVE Sound(k)'
  <2>1. chain'[k] = chain[k] /\ verdict'[k] = verdict[k]
    BY <1>2, <1>4, <1>13
  <2>2. Current(k)' = Current(k) /\ Seen(k)' = Seen(k)
    BY <2>1 DEF Current, Seen, Elements
  <2>3. Firsts(k)' = Firsts(k)
    BY <2>1 DEF Firsts
  <2> QED
    BY <2>1, <2>2, <2>3 DEF ChainInv, ChainsSound, Sound, AliasPath, Reason, Once, Away
<1> QED
  BY <1>7, <1>9, <1>11, <1>12, <1>13 DEF ChainInv, ChainsSound, Sound

LEMMA NextInv == ChainInv /\ [Next]_vars => ChainInv'
<1> SUFFICES ASSUME ChainInv, [Next]_vars PROVE ChainInv'
  OBVIOUS
<1>1. CASE UNCHANGED vars
  <2>1. TypeOK' /\ UNCHANGED <<chain, verdict, alias, name>>
    BY <1>1 DEF vars, ChainInv, TypeOK
  <2>2. ASSUME NEW l \in Loops PROVE Sound(l)'
    <3>1. Current(l)' = Current(l) /\ Seen(l)' = Seen(l) /\ Firsts(l)' = Firsts(l)
      BY <2>1 DEF Current, Seen, Elements, Firsts
    <3> QED
      BY <2>1, <3>1 DEF ChainInv, ChainsSound, Sound, AliasPath, Reason, Once, Away
  <2> QED
    BY <2>1, <2>2 DEF ChainInv, ChainsSound
<1>2. ASSUME NEW l \in Loops, Ends(l) \/ Fails(l), UNCHANGED <<alias, name>> PROVE ChainInv'
  BY <1>2, EndStep DEF Ends, Fails
<1>3. CASE EnumFollows /\ UNCHANGED <<alias, name>>
  <2> DEFINE n == alias[Current("enum")]
  <2>1. verdict["enum"] = "walking" /\ n \in Names /\ "enum" \in Loops
    BY <1>3 DEF EnumFollows, Loops
  <2>2. CASE n \in Seen("enum")
    <3>1. End("enum", "cycle") /\ UNCHANGED chain
      BY <1>3, <2>2 DEF EnumFollows
    <3> QED
      BY <1>3, <2>1, <2>2, <3>1, EndStep
  <2>3. CASE n \notin Seen("enum")
    <3>1. /\ Collect("enum", n)
          /\ IF Len(chain'["enum"]) > MaxDepth THEN End("enum", "truncated")
             ELSE UNCHANGED verdict
      BY <1>3, <2>3 DEF EnumFollows
    <3>2. Len(chain'["enum"]) \in Nat /\ MaxDepth \in Nat
      BY <2>1, <3>1, CnameAssumption DEF Collect, ChainInv, TypeOK
    <3>3. CASE Len(chain'["enum"]) > MaxDepth
      <4>1. verdict' = [verdict EXCEPT !["enum"] = "truncated"]
        BY <3>1, <3>3 DEF End
      <4> QED
        BY <1>3, <2>1, <2>3, <3>1, <3>3, <4>1, CollectStep
    <3>4. CASE ~(Len(chain'["enum"]) > MaxDepth)
      <4>1. verdict' = [verdict EXCEPT !["enum"] = "walking"]
        BY <2>1, <3>1, <3>4 DEF ChainInv, TypeOK
      <4>2. Len(chain'["enum"]) <= MaxDepth
        BY <3>2, <3>4
      <4> QED
        BY <1>3, <2>1, <2>3, <3>1, <4>1, <4>2, CollectStep
    <3> QED
      BY <3>3, <3>4
  <2> QED
    BY <2>2, <2>3
<1>4. CASE TakeoverFollows /\ UNCHANGED <<alias, name>>
  <2> DEFINE n == alias[Current("takeover")]
  <2>1. /\ verdict["takeover"] = "walking" /\ n \in Names /\ "takeover" \in Loops
        /\ Collect("takeover", n)
    BY <1>4 DEF TakeoverFollows, Loops
  <2>2. Len(chain'["takeover"]) \in Nat /\ MaxDepth \in Nat
    BY <2>1, CnameAssumption DEF Collect, ChainInv, TypeOK
  <2>3. CASE n \in Seen("takeover")
    <3>1. verdict' = [verdict EXCEPT !["takeover"] = "cycle"]
      BY <1>4, <2>3 DEF TakeoverFollows, End
    <3> QED
      BY <1>4, <2>1, <2>3, <3>1, CollectStep
  <2>4. CASE n \notin Seen("takeover") /\ Len(chain'["takeover"]) > MaxDepth
    <3>1. verdict' = [verdict EXCEPT !["takeover"] = "truncated"]
      BY <1>4, <2>4 DEF TakeoverFollows, End
    <3> QED
      BY <1>4, <2>1, <2>4, <3>1, CollectStep
  <2>5. CASE n \notin Seen("takeover") /\ ~(Len(chain'["takeover"]) > MaxDepth)
    <3>1. verdict' = [verdict EXCEPT !["takeover"] = "walking"]
      BY <1>4, <2>1, <2>5 DEF TakeoverFollows, ChainInv, TypeOK
    <3>2. Len(chain'["takeover"]) <= MaxDepth
      BY <2>2, <2>5
    <3> QED
      BY <1>4, <2>1, <2>5, <3>1, <3>2, CollectStep
  <2> QED
    BY <2>3, <2>4, <2>5
<1> QED
  BY <1>1, <1>2, <1>3, <1>4 DEF Next, Terminated

LEMMA ChainInvariant == Spec => []ChainInv
BY InitInv, NextInv, PTL DEF Spec

-----------------------------------------------------------------------------
(* The two loops keep their types; no chain is longer than the limit and   *)
(* the alias that exceeded it.                                             *)
THEOREM TypeCorrect == Spec => []TypeOK
<1>1. ChainInv => TypeOK
  BY DEF ChainInv
<1> QED
  BY <1>1, ChainInvariant, PTL

(* Both loops follow the aliases step by step and meet no name twice; a    *)
(* chain is called complete, failed, cut or cyclic only if its last name   *)
(* has no alias, has a broken one, is beyond the limit or was met before.  *)
THEOREM ChainsFollowAliases == Spec => []ChainsSound
<1>1. ChainInv => ChainsSound
  BY DEF ChainInv
<1> QED
  BY <1>1, ChainInvariant, PTL

-----------------------------------------------------------------------------
(* Induction over sets of naturals, from the well-foundedness of <.        *)
LEMMA LeastElement ==
  ASSUME NEW T \in SUBSET Nat, T # {}
  PROVE  \E n \in T : \A m \in T : n <= m
<1> DEFINE R == {ss \in Nat \X Nat : ss[1] < ss[2]}
<1>1. IsWellFoundedOn(R, Nat)
  BY NatLessThanWellFounded DEF OpToRel
<1>2. \A x, y \in Nat : <<y, x>> \notin R => x <= y
  OBVIOUS
<1> HIDE DEF R
<1>3. PICK n \in T : \A m \in T : <<m, n>> \notin R
  BY <1>1, WFMin
<1> QED
  BY <1>2, <1>3

LEMMA Induction ==
  ASSUME NEW S \in SUBSET Nat, 0 \in S, \A n \in S : n + 1 \in S
  PROVE  S = Nat
<1> SUFFICES ASSUME Nat \ S # {} PROVE FALSE
  OBVIOUS
<1>1. PICK n \in Nat \ S : \A m \in Nat \ S : n <= m
  BY LeastElement
<1>2. n - 1 \in Nat /\ ~(n <= n - 1)
  BY <1>1
<1>3. n - 1 \in S
  BY <1>1, <1>2
<1> QED
  BY <1>1, <1>3

(* The recursive definition of Path has a solution.                        *)
LEMMA PathDefined ==
  Path = [i \in 0..(MaxDepth + 1) |->
            IF i = 0 THEN name
            ELSE IF Path[i - 1] \in Names THEN alias[Path[i - 1]] ELSE NoAlias]
<1> DEFINE After(n)   == IF n \in Names THEN alias[n] ELSE NoAlias
           Walk(f, n) == f = [i \in 0..n |->
                                IF i = 0 THEN name
                                ELSE IF f[i - 1] \in Names THEN alias[f[i - 1]] ELSE NoAlias]
           S == {n \in Nat : \E f : Walk(f, n)}
<1>1. 0 \in S
  <2>1. Walk([i \in 0..0 |-> name], 0)
    OBVIOUS
  <2> QED
    BY <2>1
<1>2. ASSUME NEW n \in Nat, NEW f, Walk(f, n) PROVE \E g : Walk(g, n + 1)
  <2> DEFINE g == [i \in 0..(n + 1) |-> IF i = n + 1 THEN After(f[n]) ELSE f[i]]
  <2>1. \A i \in 0..n : f[i] = IF i = 0 THEN name ELSE After(f[i - 1])
    BY <1>2
  <2> HIDE DEF After
  <2>2. g[n + 1] = After(f[n]) /\ \A i \in 0..n : g[i] = f[i]
    OBVIOUS
  <2>3. ASSUME NEW i \in 0..(n + 1)
        PROVE  g[i] = IF i = 0 THEN name ELSE After(g[i - 1])
    <3>1. CASE i = n + 1
      BY <2>2, <3>1
    <3>2. CASE i # n + 1
      <4>1. i \in 0..n /\ (i # 0 => i - 1 \in 0..n)
        BY <3>2
      <4> HIDE DEF g
      <4> QED
        BY <2>1, <2>2, <4>1
    <3> QED
      BY <3>1, <3>2
  <2>4. g = [i \in 0..(n + 1) |-> g[i]]
    OBVIOUS
  <2> HIDE DEF g
  <2>5. g = [i \in 0..(n + 1) |-> IF i = 0 THEN name ELSE After(g[i - 1])]
    BY <2>3, <2>4
  <2> QED
    BY <2>5 DEF After
<1>3. \A n \in S : n + 1 \in S
  BY <1>2
<1>4. S \in SUBSET Nat
  OBVIOUS
<1>5. MaxDepth + 1 \in S
  <2> HIDE DEF S
  <2> QED
    BY <1>1, <1>3, <1>4, CnameAssumption, Induction
<1>6. \E f : Walk(f, MaxDepth + 1)
  BY <1>5
<1> QED
  BY <1>6 DEF Path

(* Where a chain follows the aliases it is the path from the name.         *)
LEMMA PathFollows ==
  ASSUME ChainInv, NEW l \in Loops
  PROVE  /\ Path[0] = name /\ \A i \in 1..Len(chain[l]) : Path[i] = chain[l][i]
         /\ Len(chain[l]) <= MaxDepth => Path[Len(chain[l]) + 1] = alias[Current(l)]
<1> DEFINE At(i) == IF i = 0 THEN name ELSE chain[l][i]
           L     == Len(chain[l])
           S     == {n \in Nat : n <= L => Path[n] = At(n)}
<1>1. /\ chain[l] \in Seq(Names) /\ L \in Nat /\ L <= MaxDepth + 1 /\ MaxDepth \in Nat
      /\ DOMAIN chain[l] = 1..L /\ name \in Names
  BY CnameAssumption DEF ChainInv, TypeOK
<1>2. \A i \in 1..L : chain[l][i] = alias[At(i - 1)] /\ At(i) \in Names /\ At(i - 1) \in Names
  <2>1. \A i \in 1..L : chain[l][i] = alias[IF i = 1 THEN name ELSE chain[l][i - 1]]
    BY <1>1 DEF ChainInv, ChainsSound, Sound, AliasPath
  <2> QED
    BY <1>1, <2>1
<1>3. \A i \in 0..(MaxDepth + 1) :
        Path[i] = IF i = 0 THEN name
                  ELSE IF Path[i - 1] \in Names THEN alias[Path[i - 1]] ELSE NoAlias
  BY PathDefined
<1>4. 0 \in S
  BY <1>1, <1>3
<1>5. ASSUME NEW n \in S PROVE n + 1 \in S
  <2> SUFFICES ASSUME n + 1 <= L PROVE Path[n + 1] = At(n + 1)
    OBVIOUS
  <2>1. n \in 0..L /\ n + 1 \in 1..L /\ n + 1 \in 0..(MaxDepth + 1) /\ Path[n] = At(n)
    BY <1>1
  <2>2. Path[n + 1] = IF Path[n] \in Names THEN alias[Path[n]] ELSE NoAlias
    BY <1>3, <2>1
  <2>3. At(n) \in Names /\ At(n + 1) = alias[At(n)]
    BY <1>2, <2>1
  <2> QED
    BY <2>1, <2>2, <2>3
<1>6. \A i \in 0..L : Path[i] = At(i)
  <2>1. S = Nat
    <3> HIDE DEF S
    <3>1. S \in SUBSET Nat
      BY DEF S
    <3> QED
      BY <1>4, <1>5, <3>1, Induction
  <2> QED
    BY <1>1, <2>1
<1>7. L <= MaxDepth => Path[L + 1] = alias[Current(l)]
  <2>1. Current(l) = At(L) /\ At(L) \in Names
    BY <1>1, <1>2 DEF Current
  <2>2. L <= MaxDepth => Path[L + 1] = IF Path[L] \in Names THEN alias[Path[L]] ELSE NoAlias
    BY <1>1, <1>3
  <2> QED
    BY <1>1, <1>6, <2>1, <2>2
<1> QED
  BY <1>1, <1>6, <1>7

LEMMA StopIs ==
  ASSUME NEW i \in 1..(MaxDepth + 2), \A j \in 1..(i - 1) : Fresh(j),
         i = MaxDepth + 2 \/ ~Fresh(i)
  PROVE  StopAt = i
<1>1. MaxDepth \in Nat
  BY CnameAssumption
<1>2. ASSUME NEW k \in 1..(MaxDepth + 2), \A j \in 1..(k - 1) : Fresh(j),
             k = MaxDepth + 2 \/ ~Fresh(k)
      PROVE  k = i
  BY <1>1, <1>2
<1> HIDE DEF Fresh
<1> QED
  BY <1>2 DEF StopAt

LEMMA NamesAreFresh ==
  ASSUME ChainInv, NEW l \in Loops, NEW k \in 0..Len(chain[l]),
         \A i \in 1..k : chain[l][i] # name,
         \A i, j \in 1..k : chain[l][i] = chain[l][j] => i = j
  PROVE  \A i \in 1..k : Fresh(i)
<1>1. chain[l] \in Seq(Names) /\ Len(chain[l]) \in Nat
  BY DEF ChainInv, TypeOK
<1>2. Path[0] = name /\ \A i \in 1..k : Path[i] = chain[l][i]
  BY <1>1, PathFollows
<1> QED
  BY <1>1, <1>2 DEF Fresh

LEMMA InvRight == ChainInv => ChainsRight
<1> SUFFICES ASSUME ChainInv, NEW l \in Loops, verdict[l] # "walking"
             PROVE  /\ verdict[l] = Expected
                    /\ chain[l] = CASE l = "takeover" /\ Expected = "cycle" ->
                                            Append(ExpectedChain, Path[StopAt])
                                     [] l = "enum" /\ Path[1] = name -> <<name>>
                                     [] OTHER -> ExpectedChain
  BY DEF ChainsRight
<1> DEFINE L == Len(chain[l])
<1>1. /\ chain[l] \in Seq(Names) /\ L \in Nat /\ L <= MaxDepth + 1 /\ MaxDepth \in Nat \ {0}
      /\ DOMAIN chain[l] = 1..L /\ name \in Names
      /\ verdict[l] \in {"complete", "failed", "cycle", "truncated"}
      /\ NoAlias \notin Names /\ Broken \notin Names /\ NoAlias # Broken
      /\ alias \in [Names -> Names \cup {NoAlias, Broken}]
  BY CnameAssumption DEF ChainInv, TypeOK
<1>2. AliasPath(l) /\ Reason(l) /\ Once(l) /\ Away(l)
  BY DEF ChainInv, ChainsSound, Sound
<1>3. /\ Path[0] = name /\ \A i \in 1..L : Path[i] = chain[l][i]
      /\ L <= MaxDepth => Path[L + 1] = alias[Current(l)]
  BY PathFollows
<1>4. Path[1] = alias[name]
  <2>1. \A i \in 0..(MaxDepth + 1) :
          Path[i] = IF i = 0 THEN name
                    ELSE IF Path[i - 1] \in Names THEN alias[Path[i - 1]] ELSE NoAlias
    BY PathDefined
  <2>2. 1 \in 0..(MaxDepth + 1) /\ 1 - 1 = 0
    BY <1>1
  <2> QED
    BY <1>1, <1>3, <2>1, <2>2
<1>5. ASSUME NEW k \in 0..L PROVE [i \in 1..k |-> Path[i]] = SubSeq(chain[l], 1, k)
  BY <1>1, <1>3
<1>6. SubSeq(chain[l], 1, L) = chain[l]
  BY <1>1
<1>7. CASE l = "enum" /\ alias[name] = name
  <2>1. chain[l] = <<name>> /\ L = 1
    BY <1>2, <1>7 DEF Away
  <2>0. Current(l) = name
    BY <2>1 DEF Current
  <2>2. verdict[l] = "cycle"
    BY <1>1, <1>2, <1>7, <2>0, <2>1 DEF Reason
  <2>3. ~Fresh(1) /\ Path[1] = name
    BY <1>3, <1>4, <1>7 DEF Fresh
  <2>4. StopAt = 1
    BY <1>1, <2>3, StopIs
  <2>5. Expected = "cycle"
    BY <1>1, <2>3, <2>4 DEF Expected
  <2> QED
    BY <1>7, <2>1, <2>2, <2>3, <2>5
<1>8. CASE l = "takeover" /\ verdict[l] = "cycle"
  <2>1. L >= 1 /\ L - 1 \in 0..L /\ L \in 1..(MaxDepth + 2) /\ L # MaxDepth + 2
    BY <1>1, <1>2, <1>8 DEF Reason
  <2>2. \A i \in 1..(L - 1) : Fresh(i)
    <3>1. Firsts(l) = L - 1 /\ l # "enum"
      BY <1>8 DEF Firsts
    <3> QED
      BY <1>2, <2>1, <3>1, NamesAreFresh DEF Away, Once
  <2>3. Path[L] = chain[l][L] /\ Current(l) = chain[l][L] /\ chain[l][L] \in Names
    BY <1>1, <1>3, <2>1 DEF Current
  <2>4. ~Fresh(L)
    <3>1. Current(l) = name \/ \E i \in 1..(L - 1) : chain[l][i] = Current(l)
      BY <1>2, <1>8 DEF Reason
    <3>2. \E i \in 0..(L - 1) : Path[i] = Path[L]
      BY <1>1, <1>3, <2>1, <2>3, <3>1
    <3> QED
      BY <3>2 DEF Fresh
  <2>5. StopAt = L
    BY <2>1, <2>2, <2>4, StopIs
  <2>6. Expected = "cycle"
    BY <1>1, <2>1, <2>3, <2>5 DEF Expected
  <2>7. chain[l] = Append(ExpectedChain, Path[StopAt])
    <3>1. ExpectedChain = SubSeq(chain[l], 1, L - 1)
      BY <1>5, <2>1, <2>5 DEF ExpectedChain
    <3> QED
      BY <1>1, <2>1, <2>3, <2>5, <3>1
  <2> QED
    BY <1>8, <2>6, <2>7
<1>9. CASE ~(l = "enum" /\ alias[name] = name) /\ ~(l = "takeover" /\ verdict[l] = "cycle")
  <2>0. Firsts(l) = L
    BY <1>9 DEF Firsts
  <2>1. \A i \in 1..L : Fresh(i)
    <3>1. /\ \A i \in 1..L : chain[l][i] # name
          /\ \A i, j \in 1..L : chain[l][i] = chain[l][j] => i = j
      BY <1>2, <1>9, <2>0 DEF Away, Once
    <3> QED
      BY <1>1, <3>1, NamesAreFresh
  <2>2. L + 1 \in 1..(MaxDepth + 2)
    BY <1>1
  <2>3. L + 1 = MaxDepth + 2 \/ ~Fresh(L + 1)
    <3>1. CASE verdict[l] = "truncated"
      BY <1>1, <1>2, <3>1 DEF Reason
    <3>2. CASE verdict[l] \in {"complete", "failed"}
      <4>1. Path[L + 1] \notin Names
        BY <1>1, <1>2, <1>3, <3>2 DEF Reason
      <4> QED
        BY <4>1 DEF Fresh
    <3>3. CASE verdict[l] = "cycle"
      <4>1. l = "enum" /\ Path[L + 1] \in Seen(l)
        BY <1>1, <1>2, <1>3, <1>9, <3>3 DEF Reason, Loops
      <4>2. \E i \in 0..L : Path[i] = Path[L + 1]
        BY <1>1, <1>3, <4>1 DEF Seen, Elements
      <4> QED
        BY <1>1, <4>2 DEF Fresh
    <3> QED
      BY <1>1, <3>1, <3>2, <3>3
  <2>4. StopAt = L + 1
    BY <1>1, <2>1, <2>2, <2>3, StopIs
  <2>5. ExpectedChain = chain[l]
    <3>1. L \in 0..L /\ StopAt - 1 = L
      BY <1>1, <2>4
    <3> QED
      BY <1>5, <1>6, <3>1 DEF ExpectedChain
  <2>6. verdict[l] = Expected
    <3>1. CASE verdict[l] = "truncated"
      BY <1>1, <1>2, <2>4, <3>1 DEF Reason, Expected
    <3>2. CASE verdict[l] = "complete"
      <4>1. L <= MaxDepth /\ Path[L + 1] = NoAlias
        BY <1>1, <1>2, <1>3, <3>2 DEF Reason
      <4> QED
        BY <1>1, <2>4, <3>2, <4>1 DEF Expected
    <3>3. CASE verdict[l] = "failed"
      <4>1. L <= MaxDepth /\ Path[L + 1] = Broken
        BY <1>1, <1>2, <1>3, <3>3 DEF Reason
      <4> QED
        BY <1>1, <2>4, <3>3, <4>1 DEF Expected
    <3>4. CASE verdict[l] = "cycle"
      <4>1. L <= MaxDepth /\ Path[L + 1] \in Seen(l)
        BY <1>1, <1>2, <1>3, <1>9, <3>4 DEF Reason, Loops
      <4>2. Path[L + 1] \in Names
        BY <1>1, <4>1 DEF Seen, Elements
      <4> QED
        BY <1>1, <2>4, <3>4, <4>1, <4>2 DEF Expected
    <3> QED
      BY <1>1, <3>1, <3>2, <3>3, <3>4
  <2>7. ~(l = "takeover" /\ Expected = "cycle") /\ ~(l = "enum" /\ Path[1] = name)
    BY <1>4, <1>9, <2>6
  <2> QED
    BY <2>5, <2>6, <2>7
<1> QED
  BY <1>7, <1>8, <1>9

(* Each loop ends with what the aliases say, for every alias map and depth *)
(* limit: the reference definition of a chain and of its verdict, which    *)
(* knows nothing of the loops, describes both.                             *)
THEOREM ChainsAreRight == Spec => []ChainsRight
BY InvRight, ChainInvariant, PTL

-----------------------------------------------------------------------------
(* How many steps a loop may still take.                                   *)
Left(l) == IF verdict[l] = "walking" THEN MaxDepth + 2 - Len(chain[l]) ELSE 0

StepsLeft == Left("enum") + Left("takeover")

(* Each step of a loop uses up one of these.                               *)
StepsRunOut == [][StepsLeft' < StepsLeft]_vars

(* A loop that goes on has a longer chain, still within the limit.         *)
LEMMA StepCounts ==
  ASSUME ChainInv, NEW l \in Loops, verdict[l] = "walking",
         \A k \in Loops : k # l => verdict'[k] = verdict[k] /\ chain'[k] = chain[k],
         \/ verdict'[l] # "walking"
         \/ Len(chain'[l]) = Len(chain[l]) + 1 /\ Len(chain'[l]) <= MaxDepth
  PROVE  StepsLeft' < StepsLeft
<1>1. /\ MaxDepth \in Nat
      /\ \A k \in Loops : Len(chain[k]) \in Nat /\ Len(chain[k]) <= MaxDepth + 1
  BY CnameAssumption DEF ChainInv, TypeOK
<1>2. Left(l)' < Left(l)
  BY <1>1 DEF Left
<1>3. \A k \in Loops : k # l => Left(k)' = Left(k)
  BY DEF Left
<1>4. \A k \in Loops : Left(k) \in Int
  BY <1>1 DEF Left
<1>5. Left(l)' \in Int
  BY <1>1 DEF Left
<1> QED
  BY <1>2, <1>3, <1>4, <1>5 DEF StepsLeft, Loops

LEMMA StepsRun == ChainInv /\ ChainInv' /\ [Next]_vars => [StepsLeft' < StepsLeft]_vars
<1> SUFFICES ASSUME ChainInv, ChainInv', Next, ~UNCHANGED vars PROVE StepsLeft' < StepsLeft
  BY DEF Next, Terminated
<1>1. /\ chain \in [Loops -> Seq(Names)]
      /\ verdict \in [Loops -> {"walking", "complete", "failed", "cycle", "truncated"}]
  BY DEF ChainInv, TypeOK
<1>2. \A l \in Loops : verdict'[l] = "walking" => Len(chain'[l]) <= MaxDepth
  BY DEF ChainInv, ChainsSound, Sound, Reason
<1>3. ASSUME NEW l \in Loops, Ends(l) \/ Fails(l) PROVE StepsLeft' < StepsLeft
  <2>1. /\ verdict[l] = "walking" /\ chain' = chain /\ verdict'[l] # "walking"
        /\ \A k \in Loops : k # l => verdict'[k] = verdict[k]
    BY <1>1, <1>3 DEF Ends, Fails, End
  <2> QED
    BY <2>1, StepCounts
<1>4. ASSUME NEW l \in Loops, NEW n \in Names, verdict[l] = "walking",
             \/ Collect(l, n)
             \/ UNCHANGED chain /\ verdict'[l] # "walking",
             NEW v, End(l, v) \/ UNCHANGED verdict
      PROVE  StepsLeft' < StepsLeft
  <2>1. \A k \in Loops : k # l => verdict'[k] = verdict[k] /\ chain'[k] = chain[k]
    BY <1>1, <1>4 DEF Collect, End
  <2>2. verdict'[l] # "walking" \/ Len(chain'[l]) = Len(chain[l]) + 1
    BY <1>1, <1>4 DEF Collect
  <2> QED
    BY <1>2, <1>4, <2>1, <2>2, StepCounts
<1>5. CASE EnumFollows
  <2> DEFINE n == alias[Current("enum")]
  <2>1. verdict["enum"] = "walking" /\ n \in Names /\ "enum" \in Loops
    BY <1>5 DEF EnumFollows, Loops
  <2>2. CASE n \in Seen("enum")
    <3>1. End("enum", "cycle") /\ UNCHANGED chain /\ verdict'["enum"] = "cycle"
      BY <1>1, <1>5, <2>1, <2>2 DEF EnumFollows, End
    <3> QED
      BY <1>4, <2>1, <3>1
  <2>3. CASE n \notin Seen("enum")
    <3>1. Collect("enum", n) /\ (End("enum", "truncated") \/ UNCHANGED verdict)
      BY <1>5, <2>3 DEF EnumFollows
    <3> QED
      BY <1>4, <2>1, <3>1
  <2> QED
    BY <2>2, <2>3
<1>6. CASE TakeoverFollows
  <2> DEFINE n == alias[Current("takeover")]
  <2>1. verdict["takeover"] = "walking" /\ n \in Names /\ "takeover" \in Loops
    BY <1>6 DEF TakeoverFollows, Loops
  <2>2. Collect("takeover", n)
    BY <1>6 DEF TakeoverFollows
  <2>3. PICK v : End("takeover", v) \/ UNCHANGED verdict
    BY <1>6 DEF TakeoverFollows
  <2> HIDE DEF n
  <2> QED
    BY <1>4, <2>1, <2>2, <2>3
<1> QED
  BY <1>3, <1>5, <1>6 DEF Next, Terminated

LEMMA StepsBounded ==
  ChainInv => StepsLeft \in 0..(2 * (MaxDepth + 2)) /\ (StepsLeft = 0 <=> Settled)
<1> SUFFICES ASSUME ChainInv
             PROVE  StepsLeft \in 0..(2 * (MaxDepth + 2)) /\ (StepsLeft = 0 <=> Settled)
  OBVIOUS
<1>1. MaxDepth \in Nat
  BY CnameAssumption
<1>2. \A l \in Loops :
         Left(l) \in 0..(MaxDepth + 2) /\ (Left(l) = 0 <=> verdict[l] # "walking")
  BY <1>1 DEF ChainInv, TypeOK, ChainsSound, Sound, Reason, Left
<1>3. "enum" \in Loops /\ "takeover" \in Loops /\ \A l \in Loops : l \in {"enum", "takeover"}
  BY DEF Loops
<1> QED
  BY <1>1, <1>2, <1>3 DEF StepsLeft, Settled

(* The safety half of ChainsEnd, for every alias map and depth limit: each *)
(* step leaves fewer to come, of which there are at most as many as two    *)
(* chains have links and verdicts, and none is left only when both loops   *)
(* have ended.                                                             *)
THEOREM ChainsRunOut ==
  Spec => /\ [](StepsLeft \in 0..(2 * (MaxDepth + 2)) /\ (StepsLeft = 0 <=> Settled))
          /\ StepsRunOut
BY ChainInvariant, StepsBounded, StepsRun, PTL DEF Spec, StepsRunOut
=============================================================================
