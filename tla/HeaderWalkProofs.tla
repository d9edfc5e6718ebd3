--------------------------- MODULE HeaderWalkProofs ---------------------------
(***************************************************************************)
(* Proofs about the header scans of SiteCalls (its instance Walk of        *)
(* HeaderWalk), for every set of URLs, every hop limit (SiteAssumption)    *)
(* and whatever the servers answer.                                        *)
(*                                                                         *)
(* The argument: while the walk goes on, all its hops are redirects and    *)
(* the last one points to current_url; when it is judged, the last hop     *)
(* leads nowhere, back, or the limit is reached; and only a hop that is    *)
(* neither a redirect nor a block page is analysed.                        *)
(***************************************************************************)
EXTENDS SiteCalls, TLAPS

(* redirect_chain is a walk without repetitions.                           *)
IsWalk ==
  /\ Len(hops) <= WalkHops
  /\ hops # <<>> => hops[1].url = requested
  /\ \A i, j \in DOMAIN hops : hops[i].url = hops[j].url => i = j
  /\ \A i \in 1..(Len(hops) - 1) : /\ hops[i].status = "redirect"
                                   /\ hops[i].to = hops[i + 1].url

(* Where the walk goes on.                                                 *)
GoesOn ==
  pc = "walk" => /\ requested \in Urls /\ walkUrl \in Urls
                 /\ \A i \in DOMAIN hops : hops[i].status = "redirect"
                 /\ IF hops = <<>> THEN walkUrl = requested ELSE Walk!Final.to = walkUrl

CannotGoOn == Walk!Final.to \in Walk!Seen \cup {NoUrl} \/ Len(hops) = WalkHops

(* What is known when the last hop is judged, and after.                   *)
Judged ==
  /\ pc \in {"called", "walk", "judge"} => result = "none"
  /\ pc # "done" => signal = 0
  /\ pc = "called" => hops = <<>>
  /\ pc = "judge" => hops # <<>> /\ CannotGoOn
  /\ result = "unresolved" => hops # <<>> /\ CannotGoOn
  /\ result = "analysed" => /\ hops # <<>> /\ Walk!Final.status # "redirect"
                            /\ ~Walk!DetectWaf(Walk!Final)
  /\ signal # 0 => /\ result = "analysed" /\ Walk!Final.status = "ok"
                   /\ signal = Walk!Final.page.missing

WalkInv == Walk!TypeOK /\ IsWalk /\ GoesOn /\ Judged

-----------------------------------------------------------------------------
LEMMA InitInv == ASSUME Walk!WalkAssumption PROVE Walk!Init => WalkInv
BY DEF Walk!WalkAssumption, Walk!Init, WalkInv, Walk!TypeOK, IsWalk, GoesOn, Judged

(* A response is recorded: the chain stays a walk, whatever it answered.   *)
LEMMA RecordWalk ==
  ASSUME Walk!WalkAssumption, WalkInv, pc = "walk", Walk!MayFetch, requested' = requested,
         NEW s \in Walk!Landing \cup {"redirect"},
         NEW to \in Urls \cup {NoUrl}, NEW p \in Pages,
         hops' = Append(hops, [url |-> walkUrl, status |-> s, to |-> to, page |-> p])
  PROVE  /\ hops' \in Seq(Walk!Hop) /\ hops' # <<>>
         /\ Len(hops') = Len(hops) + 1 /\ DOMAIN hops' = 1..(Len(hops) + 1)
         /\ \A i \in 1..Len(hops) : hops'[i] = hops[i]
         /\ Walk!Final' = [url |-> walkUrl, status |-> s, to |-> to, page |-> p]
         /\ IsWalk'
<1> DEFINE hop == [url |-> walkUrl, status |-> s, to |-> to, page |-> p]
<1>1. /\ hop \in Walk!Hop
      /\ hop.url = walkUrl /\ hop.status = s /\ hop.to = to
  BY DEF WalkInv, GoesOn, Walk!Hop
<1>2. hops \in Seq(Walk!Hop) /\ Len(hops) \in Nat
  BY DEF WalkInv, Walk!TypeOK
<1>3. hops' = Append(hops, hop)
  OBVIOUS
<1> HIDE DEF hop
<1>4. /\ hops' \in Seq(Walk!Hop) /\ hops' # <<>>
      /\ Len(hops') = Len(hops) + 1
      /\ hops'[Len(hops) + 1] = hop
      /\ \A i \in 1..Len(hops) : hops'[i] = hops[i]
      /\ DOMAIN hops' = 1..(Len(hops) + 1) /\ DOMAIN hops = 1..Len(hops)
  BY <1>1, <1>2, <1>3
<1>5. Len(hops') <= WalkHops
  BY <1>2, <1>4 DEF Walk!WalkAssumption, Walk!MayFetch
<1>6. hops'[1].url = requested'
  <2>1. CASE hops = <<>>
    BY <1>1, <1>2, <1>4, <2>1 DEF WalkInv, GoesOn
  <2>2. CASE hops # <<>>
    BY <1>2, <1>4, <2>2 DEF WalkInv, IsWalk
  <2> QED
    BY <2>1, <2>2
<1>7. \A i, j \in DOMAIN hops' : hops'[i].url = hops'[j].url => i = j
  <2>1. \A i, j \in DOMAIN hops : hops[i].url = hops[j].url => i = j
    BY DEF WalkInv, IsWalk
  <2>2. \A i \in DOMAIN hops : hops[i].url # walkUrl
    BY DEF Walk!MayFetch, Walk!Seen
  <2> QED
    BY <1>1, <1>2, <1>4, <2>1, <2>2
<1>8. \A i \in 1..(Len(hops') - 1) : /\ hops'[i].status = "redirect"
                                     /\ hops'[i].to = hops'[i + 1].url
  <2> SUFFICES ASSUME NEW i \in 1..Len(hops)
               PROVE  hops'[i].status = "redirect" /\ hops'[i].to = hops'[i + 1].url
    BY <1>2, <1>4
  <2>1. hops'[i].status = "redirect"
    BY <1>4 DEF WalkInv, GoesOn
  <2>2. CASE i < Len(hops)
    BY <1>2, <1>4, <2>1, <2>2 DEF WalkInv, IsWalk
  <2>3. CASE i = Len(hops)
    <3>1. hops # <<>> /\ hops[Len(hops)].to = walkUrl
      BY <1>2, <2>3 DEF WalkInv, GoesOn, Walk!Final
    <3> QED
      BY <1>1, <1>2, <1>4, <2>1, <2>3, <3>1
  <2> QED
    BY <1>2, <2>2, <2>3
<1>9. Walk!Final' = hop
  BY <1>4 DEF Walk!Final
<1> QED
  BY <1>4, <1>5, <1>6, <1>7, <1>8, <1>9 DEF IsWalk, hop

(* Steps that record nothing.                                              *)
LEMMA HopsStay ==
  ASSUME Walk!WalkAssumption, WalkInv,
         \/ Walk!Reject \/ Walk!Accept \/ Walk!Stop \/ Walk!Fails \/ Walk!Judge \/ Walk!Extract
  PROVE  WalkInv'
<1> USE DEF WalkInv
<1>1. hops' = hops /\ Walk!Final' = Walk!Final /\ Walk!Seen' = Walk!Seen
  BY DEF Walk!Reject, Walk!Accept, Walk!Stop, Walk!Fails, Walk!Judge, Walk!Extract,
         Walk!Final, Walk!Seen
<1>2. Len(hops) \in Nat /\ WalkHops \in Nat \ {0}
  BY DEF Walk!WalkAssumption, Walk!TypeOK
<1>3. CASE Walk!Reject
  BY <1>1, <1>3 DEF Walk!Reject, Walk!TypeOK, IsWalk, GoesOn, Judged
<1>4. CASE Walk!Accept
  <2>1. PICK u \in Urls : requested' = u /\ walkUrl' = u
    BY <1>4 DEF Walk!Accept
  <2>2. /\ pc = "called" /\ pc' = "walk" /\ hops = <<>> /\ result = "none" /\ signal = 0
        /\ UNCHANGED <<result, signal, warning>>
    BY <1>4 DEF Walk!Accept, Judged
  <2> QED
    BY <1>1, <2>1, <2>2 DEF Walk!TypeOK, IsWalk, GoesOn, Judged
<1>5. CASE Walk!Stop
  <2>1. hops # <<>> /\ CannotGoOn
    <3>1. Len(hops) = WalkHops \/ walkUrl \in Walk!Seen
      BY <1>2, <1>5 DEF Walk!Stop, Walk!MayFetch, IsWalk
    <3>2. hops # <<>>
      BY <1>2, <3>1 DEF Walk!Seen
    <3> QED
      BY <1>5, <3>1, <3>2 DEF Walk!Stop, GoesOn, CannotGoOn
  <2> QED
    BY <1>1, <1>5, <2>1 DEF Walk!Stop, Walk!TypeOK, IsWalk, GoesOn, Judged, CannotGoOn
<1>6. CASE Walk!Fails
  BY <1>1, <1>6 DEF Walk!Fails, Walk!TypeOK, IsWalk, GoesOn, Judged
<1>7. CASE Walk!Judge
  <2>1. /\ pc = "judge" /\ pc' = "signals" /\ signal = 0
        /\ UNCHANGED <<requested, walkUrl, signal, warning>>
        /\ hops # <<>> /\ CannotGoOn
    BY <1>7 DEF Walk!Judge, Judged
  <2>2. /\ result' \in {"unresolved", "blocked", "analysed"}
        /\ result' = "analysed" => Walk!Final.status # "redirect" /\ ~Walk!DetectWaf(Walk!Final)
    BY <1>7 DEF Walk!Judge
  <2>3. Walk!DetectWaf(Walk!Final)' <=> Walk!DetectWaf(Walk!Final)
    BY <1>1 DEF Walk!DetectWaf
  <2> QED
    BY <1>1, <2>1, <2>2, <2>3 DEF Walk!TypeOK, IsWalk, GoesOn, Judged, CannotGoOn
<1>8. CASE Walk!Extract
  <2>1. /\ pc = "signals" /\ pc' = "done" /\ signal = 0
        /\ UNCHANGED <<requested, walkUrl, result>>
    BY <1>8 DEF Walk!Extract, Judged
  <2>2. \/ signal' = 0 /\ warning' = warning
        \/ /\ result = "analysed" /\ Walk!Final.status = "ok"
           /\ signal' = Walk!Final.page.missing
           /\ warning' \in {"none", "some", "gap"}
    BY <1>8, <2>1 DEF Walk!Extract
  <2>3. result = "analysed" => Walk!Final.page.missing \in Nat
    <3>1. result = "analysed" => Len(hops) \in 1..Len(hops)
      BY <1>2 DEF Judged
    <3>2. \A i \in 1..Len(hops) : hops[i] \in Walk!Hop
      BY DEF Walk!TypeOK
    <3>3. \A h \in Walk!Hop : h.page.missing \in Nat
      BY DEF Walk!WalkAssumption, Walk!Hop, Walk!Page
    <3> QED
      BY <3>1, <3>2, <3>3 DEF Walk!Final
  <2>4. Walk!DetectWaf(Walk!Final)' <=> Walk!DetectWaf(Walk!Final)
    BY <1>1 DEF Walk!DetectWaf
  <2> QED
    BY <1>1, <2>1, <2>2, <2>3, <2>4 DEF Walk!TypeOK, IsWalk, GoesOn, Judged, CannotGoOn
<1> QED
  BY <1>3, <1>4, <1>5, <1>6, <1>7, <1>8

(* A response that ends the walk.                                          *)
LEMMA WalkEnds ==
  ASSUME Walk!WalkAssumption, WalkInv,
         NEW p \in Pages, NEW s \in Walk!Landing \cup {"redirect"}, Walk!Arrives(p, s)
  PROVE  WalkInv'
<1>1. /\ pc = "walk" /\ Walk!MayFetch /\ pc' = "judge"
      /\ UNCHANGED <<requested, walkUrl, result, signal, warning>>
      /\ hops' = Append(hops, [url |-> walkUrl, status |-> s, to |-> NoUrl, page |-> p])
  BY DEF Walk!Arrives
<1>2. /\ hops' \in Seq(Walk!Hop) /\ hops' # <<>> /\ IsWalk'
      /\ Walk!Final' = [url |-> walkUrl, status |-> s, to |-> NoUrl, page |-> p]
  BY <1>1, RecordWalk
<1>3. CannotGoOn'
  BY <1>2 DEF CannotGoOn
<1> QED
  BY <1>1, <1>2, <1>3 DEF WalkInv, Walk!TypeOK, GoesOn, Judged

LEMMA WalkGoesOn ==
  ASSUME Walk!WalkAssumption, WalkInv, NEW p \in Pages, NEW u \in Urls, Walk!Redirects(p, u)
  PROVE  WalkInv'
<1>1. /\ pc = "walk" /\ Walk!MayFetch /\ pc' = "walk" /\ walkUrl' = u
      /\ UNCHANGED <<requested, result, signal, warning>>
      /\ hops' = Append(hops, [url |-> walkUrl, status |-> "redirect", to |-> u, page |-> p])
  BY DEF Walk!Redirects
<1>2. /\ hops' \in Seq(Walk!Hop) /\ hops' # <<>> /\ IsWalk'
      /\ Len(hops') = Len(hops) + 1 /\ DOMAIN hops' = 1..(Len(hops) + 1)
      /\ \A i \in 1..Len(hops) : hops'[i] = hops[i]
      /\ Walk!Final' = [url |-> walkUrl, status |-> "redirect", to |-> u, page |-> p]
  BY <1>1, RecordWalk
<1>3. \A i \in DOMAIN hops' : hops'[i].status = "redirect"
  <2>1. Len(hops) \in Nat /\ DOMAIN hops = 1..Len(hops)
    BY DEF WalkInv, Walk!TypeOK
  <2>2. hops'[Len(hops) + 1].status = "redirect"
    BY <1>2 DEF Walk!Final
  <2>3. \A i \in 1..Len(hops) : hops[i].status = "redirect"
    BY <1>1, <2>1 DEF WalkInv, GoesOn
  <2> QED
    BY <1>2, <2>1, <2>2, <2>3
<1>4. GoesOn'
  BY <1>1, <1>2, <1>3 DEF WalkInv, GoesOn
<1> QED
  BY <1>1, <1>2, <1>4 DEF WalkInv, Walk!TypeOK, Judged

LEMMA NextInv ==
  ASSUME Walk!WalkAssumption, WalkInv, Walk!Next \/ UNCHANGED Walk!vars
  PROVE  WalkInv'
<1>1. CASE UNCHANGED Walk!vars
  BY <1>1 DEF Walk!vars, WalkInv, Walk!TypeOK, IsWalk, GoesOn, Judged, CannotGoOn,
              Walk!Final, Walk!Seen, Walk!DetectWaf
<1>2. ASSUME NEW p \in Pages, Walk!NoLocation(p) PROVE WalkInv'
  BY <1>2, WalkEnds DEF Walk!NoLocation
<1> QED
  BY <1>1, <1>2, HopsStay, WalkEnds, WalkGoesOn DEF Walk!Next, Walk!Terminated

(* A step of a call of this tool is a step of the tool.                    *)
LEMMA StepsAreOwn ==
  ASSUME [Next]_vars
  PROVE  /\ tool' = tool
         /\ UNCHANGED vars => UNCHANGED Walk!vars
         /\ tool = "headers_analyzer" /\ ~UNCHANGED vars
              => Walk!Next /\ ~UNCHANGED Walk!vars
BY DEF Next, TraceRedirects, HeadersAnalyzer, EmailSecurityCheck, SubdomainTakeoverScan,
       vars, redirects, headers, records, verdicts, Walk!vars

LEMMA WalkInvariant == Spec => [](tool = "headers_analyzer" => WalkInv)
<1>1. Walk!WalkAssumption
  BY SiteAssumption
<1>2. Init => WalkInv
  BY <1>1, InitInv DEF Init
<1>3. (tool = "headers_analyzer" => WalkInv) /\ [Next]_vars
        => (tool = "headers_analyzer" => WalkInv)'
  BY <1>1, StepsAreOwn, NextInv
<1> QED
  BY <1>2, <1>3, PTL DEF Spec

-----------------------------------------------------------------------------
(* A walk and its judgement keep their types.                              *)
THEOREM TypeCorrect == Spec => [](tool = "headers_analyzer" => Walk!TypeOK)
<1>1. WalkInv => Walk!TypeOK
  BY DEF WalkInv
<1> QED
  BY <1>1, WalkInvariant, PTL

(* redirect_chain is the walk of a browser, redirected is told truly, and  *)
(* a chain is given up only where it cannot go on.                         *)
THEOREM HopsAreWalks == Spec => []HopsAreWalk
<1>1. ASSUME WalkInv PROVE Walk!HopsAreWalk
  <2>1. result = "analysed" => (Walk!Redirected <=> Walk!Final.url # requested)
    <3> SUFFICES ASSUME hops # <<>> PROVE Walk!Redirected <=> Walk!Final.url # requested
      BY <1>1 DEF WalkInv, Judged
    <3>1. Len(hops) \in Nat \ {0} /\ DOMAIN hops = 1..Len(hops)
      BY <1>1 DEF WalkInv, Walk!TypeOK
    <3> QED
      BY <1>1, <3>1 DEF WalkInv, IsWalk, Walk!Redirected, Walk!Final
  <2> QED
    BY <1>1, <2>1 DEF WalkInv, IsWalk, Judged, CannotGoOn, Walk!HopsAreWalk
<1> QED
  BY <1>1, WalkInvariant, PTL DEF HopsAreWalk

(* The signal counts headers missing on a page of the site, never on a     *)
(* redirect, an error or a challenge page.                                 *)
THEOREM SignalsAreEvidence == Spec => []SignalIsEvidence
<1>1. WalkInv => Walk!SignalIsEvidence
  BY DEF WalkInv, Judged, Walk!SignalIsEvidence, Walk!DetectWaf
<1> QED
  BY <1>1, WalkInvariant, PTL DEF SignalIsEvidence

-----------------------------------------------------------------------------
(* How many steps a walk may still take.                                   *)
StepsLeft == CASE pc = "called"  -> WalkHops + 4
               [] pc = "walk"    -> WalkHops + 3 - Len(hops)
               [] pc = "judge"   -> 2
               [] pc = "signals" -> 1
               [] OTHER          -> 0

(* Each step of a walk uses up one of these.                               *)
StepsRunOut == [][tool = "headers_analyzer" => StepsLeft' < StepsLeft]_vars

LEMMA StepsBounded ==
  ASSUME Walk!WalkAssumption, WalkInv
  PROVE  StepsLeft \in 0..(WalkHops + 4) /\ (StepsLeft = 0 <=> Walk!Ended)
<1>1. WalkHops \in Nat /\ Len(hops) \in Nat /\ Len(hops) <= WalkHops
  BY DEF Walk!WalkAssumption, WalkInv, Walk!TypeOK, IsWalk
<1>2. pc \in {"called", "refused", "walk", "judge", "signals", "done"}
  BY DEF WalkInv, Walk!TypeOK
<1> QED
  BY <1>1, <1>2 DEF StepsLeft, Walk!Ended

LEMMA StepsRun ==
  ASSUME Walk!WalkAssumption, WalkInv, WalkInv', Walk!Next, ~UNCHANGED Walk!vars
  PROVE  StepsLeft' < StepsLeft
<1>1. WalkHops \in Nat /\ Len(hops) \in Nat /\ Len(hops) <= WalkHops
  BY DEF Walk!WalkAssumption, WalkInv, Walk!TypeOK, IsWalk
<1>2. CASE Walk!Reject \/ Walk!Accept \/ Walk!Stop \/ Walk!Fails \/ Walk!Judge \/ Walk!Extract
  <2>1. Walk!Accept => Len(hops') = Len(hops)
    BY DEF Walk!Accept
  <2> QED
    BY <1>1, <1>2, <2>1 DEF StepsLeft, Walk!Reject, Walk!Accept, Walk!Stop, Walk!Fails,
                            Walk!Judge, Walk!Extract
<1>3. ASSUME NEW p \in Pages, NEW s, Walk!Arrives(p, s) PROVE StepsLeft' < StepsLeft
  BY <1>1, <1>3 DEF StepsLeft, Walk!Arrives
<1>4. ASSUME NEW p \in Pages, NEW u \in Urls, Walk!Redirects(p, u)
      PROVE  StepsLeft' < StepsLeft
  <2>1. pc = "walk" /\ pc' = "walk"
    BY <1>4 DEF Walk!Redirects
  <2>2. Len(hops') = Len(hops) + 1
    BY <1>4 DEF Walk!Redirects, WalkInv, Walk!TypeOK
  <2> QED
    BY <1>1, <2>1, <2>2 DEF StepsLeft
<1> QED
  BY <1>2, <1>3, <1>4 DEF Walk!Next, Walk!Terminated, Walk!NoLocation

(* Every walk is finite, whatever the servers answer: each step leaves     *)
(* fewer to come, and none is left only when the signal is made or the     *)
(* domain was refused.                                                     *)
THEOREM WalksRunOut ==
  Spec => /\ [](tool = "headers_analyzer" => /\ StepsLeft \in 0..(WalkHops + 4)
                                             /\ StepsLeft = 0 <=> Walk!Ended)
          /\ StepsRunOut
<1>1. WalkInv => StepsLeft \in 0..(WalkHops + 4) /\ (StepsLeft = 0 <=> Walk!Ended)
  BY SiteAssumption, StepsBounded
<1>2. /\ tool = "headers_analyzer" => WalkInv
      /\ (tool = "headers_analyzer" => WalkInv)'
      /\ [Next]_vars
      => [tool = "headers_analyzer" => StepsLeft' < StepsLeft]_vars
  BY SiteAssumption, StepsAreOwn, StepsRun
<1> QED
  BY <1>1, <1>2, WalkInvariant, PTL DEF Spec, StepsRunOut
=============================================================================
