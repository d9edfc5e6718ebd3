----------------------------- MODULE CnameChain -----------------------------
(***************************************************************************)
(* The two loops that follow CNAME aliases: _resolve_cname_chain of        *)
(* src/tools/dns_tool.py ("enum"), which starts from the alias the record  *)
(* lookup already found, and _resolve_cname of                             *)
(* src/tools/subdomain_takeover_tool.py ("takeover"), which starts from    *)
(* the name itself.  Both are held against one definition of what the      *)
(* aliases say.                                                            *)
(***************************************************************************)
EXTENDS Naturals, Sequences

CONSTANTS Names,     \* host names, in small letters
          MaxDepth,  \* MAX_CNAME_DEPTH of either file
          NoAlias,   \* the answer NoAnswer or NXDOMAIN
          Broken     \* any other failure of the lookup

ASSUME CnameAssumption == /\ MaxDepth \in Nat \ {0}
                          /\ {NoAlias, Broken} \cap Names = {}
                          /\ NoAlias # Broken

Loops == {"enum", "takeover"}

VARIABLES alias,    \* alias[n]: what a CNAME lookup of n answers
          name,     \* the name whose chain is resolved
          chain,    \* chain[l]: the chain that loop l has collected
          verdict   \* verdict[l]: how loop l ended

vars == <<alias, name, chain, verdict>>

Elements(s) == {s[i] : i \in DOMAIN s}

(* The name the next lookup is for.                                        *)
Current(l) == IF chain[l] = <<>> THEN name ELSE chain[l][Len(chain[l])]

Seen(l) == {name} \cup Elements(chain[l])

End(l, v) == verdict' = [verdict EXCEPT ![l] = v]

Collect(l, n) == chain' = [chain EXCEPT ![l] = Append(@, n)]

(* dns_tool calls its loop with the answer of the CNAME record lookup; an  *)
(* empty answer leaves it without anything to do.                          *)
Init == /\ alias \in [Names -> Names \cup {NoAlias, Broken}]
        /\ name \in Names
        /\ chain = [l \in Loops |-> IF l = "enum" /\ alias[name] \in Names
                                    THEN <<alias[name]>> ELSE <<>>]
        /\ verdict = [l \in Loops |-> IF l = "takeover" \/ alias[name] \in Names
                                      THEN "walking"
                                      ELSE IF alias[name] = Broken THEN "failed"
                                           ELSE "complete"]

Ends(l) == /\ verdict[l] = "walking"
           /\ alias[Current(l)] = NoAlias
           /\ End(l, "complete")
           /\ UNCHANGED chain

Fails(l) == /\ verdict[l] = "walking"
            /\ alias[Current(l)] = Broken
            /\ End(l, "failed")
            /\ UNCHANGED chain

(* Mutant: a cycle does not end the loop.                                  *)
EnumFollowsOn == /\ verdict["enum"] = "walking"
                 /\ alias[Current("enum")] \in Names
                 /\ LET next == alias[Current("enum")] IN
                      IF next \in Seen("enum") THEN UNCHANGED <<chain, verdict>>
                      ELSE /\ Collect("enum", next)
                           /\ IF Len(chain'["enum"]) > MaxDepth
                              THEN End("enum", "truncated") ELSE UNCHANGED verdict

(* for _ in range(MAX_CNAME_DEPTH) of dns_tool, with its else.             *)
EnumFollows == /\ verdict["enum"] = "walking"
               /\ alias[Current("enum")] \in Names
               /\ LET next == alias[Current("enum")] IN
                    IF next \in Seen("enum")
                    THEN End("enum", "cycle") /\ UNCHANGED chain
                    ELSE /\ Collect("enum", next)
                         /\ IF Len(chain'["enum"]) > MaxDepth
                            THEN End("enum", "truncated") ELSE UNCHANGED verdict

(* Mutant: the depth is looked at before the cycle.                        *)
TakeoverDepthFirst ==
  /\ verdict["takeover"] = "walking"
  /\ alias[Current("takeover")] \in Names
  /\ LET next == alias[Current("takeover")] IN
       /\ Collect("takeover", next)
       /\ IF Len(chain'["takeover"]) > MaxDepth THEN End("takeover", "truncated")
          ELSE IF next \in Seen("takeover") THEN End("takeover", "cycle")
               ELSE UNCHANGED verdict

(* while True of subdomain_takeover_tool: the target is recorded before it *)
(* is examined.                                                            *)
TakeoverFollows == /\ verdict["takeover"] = "walking"
                   /\ alias[Current("takeover")] \in Names
                   /\ LET next == alias[Current("takeover")] IN
                        /\ Collect("takeover", next)
                        /\ IF next \in Seen("takeover") THEN End("takeover", "cycle")
                           ELSE IF Len(chain'["takeover"]) > MaxDepth
                                THEN End("takeover", "truncated") ELSE UNCHANGED verdict

Settled == \A l \in Loops : verdict[l] # "walking"

Terminated == Settled /\ UNCHANGED vars

Next == \/ /\ \/ \E l \in Loops : Ends(l) \/ Fails(l)
              \/ EnumFollows \/ TakeoverFollows
           /\ UNCHANGED <<alias, name>>
        \/ Terminated

Spec == Init /\ [][Next]_vars /\ WF_vars(Next)

-----------------------------------------------------------------------------
(***************************************************************************)
(* What the aliases say: the names reached from `name`, and the first step *)
(* at which there is no fresh name to go on to.                            *)
(***************************************************************************)
Path[i \in 0..(MaxDepth + 1)] ==
  IF i = 0 THEN name
  ELSE IF Path[i - 1] \in Names THEN alias[Path[i - 1]] ELSE NoAlias

Fresh(i) == Path[i] \in Names /\ \A j \in 0..(i - 1) : Path[j] # Path[i]

StopAt == CHOOSE i \in 1..(MaxDepth + 2) :
            /\ \A j \in 1..(i - 1) : Fresh(j)
            /\ i = MaxDepth + 2 \/ ~Fresh(i)

Expected == IF StopAt = MaxDepth + 2 THEN "truncated"
            ELSE CASE Path[StopAt] = NoAlias -> "complete"
                   [] Path[StopAt] = Broken  -> "failed"
                   [] OTHER                  -> "cycle"

(* The fresh names in their order.                                         *)
ExpectedChain == [i \in 1..(StopAt - 1) |-> Path[i]]

TypeOK == /\ alias \in [Names -> Names \cup {NoAlias, Broken}]
          /\ name \in Names
          /\ chain \in [Loops -> Seq(Names)]
          /\ \A l \in Loops : Len(chain[l]) <= MaxDepth + 1
          /\ verdict \in [Loops -> {"walking", "complete", "failed", "cycle", "truncated"}]

(* Each loop finds what the aliases say: a chain is complete, cyclic, cut  *)
(* at the depth limit or broken exactly when they are, so a cycle or a cut *)
(* chain never passes for a resolved one, and the two tools agree.  The    *)
(* enumeration lists each name once, but for a name that is its own alias; *)
(* the takeover tool shows the repeated name of a cycle as the last entry. *)
ChainsRight ==
  \A l \in Loops : verdict[l] # "walking" =>
     /\ verdict[l] = Expected
     /\ chain[l] = CASE l = "takeover" /\ Expected = "cycle" ->
                            Append(ExpectedChain, Path[StopAt])
                     [] l = "enum" /\ Path[1] = name -> <<name>>
                     [] OTHER -> ExpectedChain

(* Neither loop runs for ever, whatever the aliases are.                   *)
ChainsEnd == <>Settled
=============================================================================
