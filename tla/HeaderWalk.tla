------------------------------ MODULE HeaderWalk ------------------------------
(***************************************************************************)
(* headers_analyzer (src/tools/headers_tool.py): redirects are followed    *)
(* hop by hop, the last response is analysed unless it is a redirect or    *)
(* the block page of a firewall, and headers_extractor                     *)
(* (src/tools/signals/headers.py) turns the analysis into a signal of the  *)
(* report.                                                                 *)
(*                                                                         *)
(* Of a response the model keeps its class of status, where it redirects   *)
(* to, the two marks by which a firewall is recognised and the number of   *)
(* security headers it lacks.                                              *)
(***************************************************************************)
EXTENDS Naturals, Sequences, FiniteSets

CONSTANTS Urls,      \* URLs as requested, compared as text
          MaxHops,   \* _MAX_REDIRECT_HOPS
          Pages,     \* what a response may be like
          NoUrl      \* no Location header

(* challenge: the cf-mitigated header; blocked: the text of a block page;  *)
(* missing: how many security headers are absent.                          *)
Page == [challenge : BOOLEAN, blocked : BOOLEAN, missing : Nat]

WalkAssumption == /\ MaxHops \in Nat \ {0}
                  /\ NoUrl \notin Urls
                  /\ Pages \subseteq Page

(* ok is 2xx, error is 400 and above, other is none of these and not one   *)
(* of _REDIRECT_STATUSES.                                                  *)
Landing == {"ok", "error", "other"}

Hop == [url : Urls, status : Landing \cup {"redirect"}, to : Urls \cup {NoUrl},
        page : Pages]

VARIABLES pc,        \* control state
          requested, \* requested_url
          current,   \* current_url
          hops,      \* the responses so far
          result,    \* how headers_analyzer ended
          signal,    \* the length of signals["missing_security_headers"],
                     \* an empty list by default
          warning    \* the warning about it in signals["auto_warnings"]

vars == <<pc, requested, current, hops, result, signal, warning>>

Final == hops[Len(hops)]

(* Mutant: only an immediate repetition is noticed.                        *)
SeenLast == IF hops = <<>> THEN {} ELSE {Final.url}

Seen == {hops[i].url : i \in DOMAIN hops}

(* Mutant: header signatures are checked on errors only, like the texts.   *)
DetectWafOnErrors(hop) == hop.status = "error" /\ (hop.page.challenge \/ hop.page.blocked)

(* The text of a block page counts only with an error status.              *)
DetectWaf(hop) == hop.page.challenge \/ (hop.page.blocked /\ hop.status = "error")

-----------------------------------------------------------------------------
Init == /\ pc = "called"
        /\ requested = NoUrl /\ current = NoUrl
        /\ hops = <<>> /\ result = "none"
        /\ signal = 0 /\ warning = "none"

(* Only a client that names the tool itself can be refused here: for       *)
(* full_recon the domain is valid before any tool or extractor runs.       *)
Reject == /\ pc = "called"
          /\ pc' = "refused" /\ result' = "rejected"
          /\ UNCHANGED <<requested, current, hops, signal, warning>>

Accept == /\ pc = "called"
          /\ \E u \in Urls : requested' = u /\ current' = u
          /\ pc' = "walk"
          /\ UNCHANGED <<hops, result, signal, warning>>

(* The loop's condition and its guard against redirect loops.              *)
MayFetch == Len(hops) < MaxHops /\ current \notin Seen

Stop == /\ pc = "walk" /\ ~MayFetch
        /\ pc' = "judge"
        /\ UNCHANGED <<requested, current, hops, result, signal, warning>>

(* The request raises, or urljoin does.                                    *)
Fails == /\ pc = "walk" /\ MayFetch
         /\ pc' = "signals" /\ result' = "failed"
         /\ UNCHANGED <<requested, current, hops, signal, warning>>

Arrives(p, s) == /\ pc = "walk" /\ MayFetch
                 /\ hops' = Append(hops, [url |-> current, status |-> s,
                                          to |-> NoUrl, page |-> p])
                 /\ pc' = "judge"
                 /\ UNCHANGED <<requested, current, result, signal, warning>>

NoLocation(p) == Arrives(p, "redirect")

Redirects(p, u) == /\ pc = "walk" /\ MayFetch
                   /\ hops' = Append(hops, [url |-> current, status |-> "redirect",
                                            to |-> u, page |-> p])
                   /\ current' = u
                   /\ UNCHANGED <<pc, requested, result, signal, warning>>

Judge == /\ pc = "judge"
         /\ result' = IF Final.status = "redirect" THEN "unresolved"
                      ELSE IF DetectWaf(Final) THEN "blocked" ELSE "analysed"
         /\ pc' = "signals"
         /\ UNCHANGED <<requested, current, hops, signal, warning>>

(* headers_extractor: four absent headers are a gap, two are worth a line. *)
Extract == /\ pc = "signals"
           /\ IF result = "analysed" /\ Final.status = "ok"
              THEN LET n == Final.page.missing IN
                     /\ signal' = n
                     /\ warning' = IF n >= 4 THEN "gap" ELSE IF n >= 2 THEN "some" ELSE "none"
              ELSE UNCHANGED <<signal, warning>>
           /\ pc' = "done"
           /\ UNCHANGED <<requested, current, hops, result>>

Ended == pc \in {"refused", "done"}

Terminated == Ended /\ UNCHANGED vars

Next == \/ Reject \/ Accept \/ Stop \/ Fails \/ Judge \/ Extract
        \/ \E p \in Pages : \/ \E s \in Landing : Arrives(p, s)
                            \/ NoLocation(p)
                            \/ \E u \in Urls : Redirects(p, u)
        \/ Terminated

Spec == Init /\ [][Next]_vars

(* The flag of the result.                                                 *)
Redirected == Len(hops) > 1

(* The line "Missing sec headers" of the signals block.                    *)
BlockLine == IF pc = "done" THEN IF signal = 0 THEN "none" ELSE "some" ELSE "unwritten"

-----------------------------------------------------------------------------
TypeOK == /\ pc \in {"called", "refused", "walk", "judge", "signals", "done"}
          /\ {requested, current} \subseteq Urls \cup {NoUrl}
          /\ hops \in Seq(Hop)
          /\ result \in {"none", "rejected", "failed", "unresolved", "blocked", "analysed"}
          /\ signal \in Nat
          /\ warning \in {"none", "some", "gap"}

(* redirect_chain is the walk a browser would make: every hop but the last *)
(* is a redirect to the next, no URL is requested twice, and the result    *)
(* says "redirected" exactly if the page analysed is not the one asked for *)
(* ("report redirected=False even though a redirect demonstrably occurred" *)
(* is what the code guards against).  The walk is given up only where it   *)
(* cannot go on: its last response leads nowhere, back or beyond the       *)
(* limit.                                                                  *)
HopsAreWalk ==
  /\ Len(hops) <= MaxHops
  /\ hops # <<>> => hops[1].url = requested
  /\ \A i, j \in DOMAIN hops : hops[i].url = hops[j].url => i = j
  /\ \A i \in 1..(Len(hops) - 1) : /\ hops[i].status = "redirect"
                                   /\ hops[i].to = hops[i + 1].url
  /\ result = "analysed" => (Redirected <=> Final.url # requested)
  /\ result = "unresolved" => \/ Final.to \in Seen \cup {NoUrl}
                              \/ Len(hops) = MaxHops

(* What the report calls missing was missing on a page of the site: not on *)
(* a redirect, an error or a challenge page, and not after a failed walk.  *)
SignalIsEvidence ==
  signal # 0 =>
     /\ result = "analysed"
     /\ Final.status = "ok" /\ ~Final.page.challenge
     /\ signal = Final.page.missing

(* What the docstring of headers_extractor says of a result that did not   *)
(* reach a page of the site: the default stands for insufficient data.  So *)
(* the block may say "none" only of a page that lacks no header.           *)
NoneIsEvidence ==
  BlockLine = "none" => /\ result = "analysed" /\ Final.status = "ok"
                        /\ Final.page.missing = 0

=============================================================================
