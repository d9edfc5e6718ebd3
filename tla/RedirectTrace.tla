---------------------------- MODULE RedirectTrace ----------------------------
(***************************************************************************)
(* trace_redirects (src/tools/redirect_tracer.py): the redirect chain of a *)
(* URL is followed hop by hop, and what is wrong with it is reported.      *)
(*                                                                         *)
(* A URL is its scheme, how the scheme is spelled, and its host; servers   *)
(* answer each request as they like, and a Location may be of any scheme   *)
(* ("other": ftp, mailto, javascript ...) and need not name a host.        *)
(***************************************************************************)
EXTENDS Naturals, Sequences, FiniteSets

CONSTANTS Sites,      \* host names a user may ask for, as <<site, www?>>
          Private,    \* hosts that are private IP literals, same form
          NoHost,     \* the hostname of a URL that has none
          MaxHops,    \* _MAX_HOPS
          LongChain,  \* _LONG_CHAIN_THRESHOLD
          Relative,   \* a relative Location header
          NoUrl       \* Python's None

Hosts == Sites \cup Private

(* upper: the scheme is written in capitals.                               *)
URL == [scheme : {"http", "https", "other"}, upper : BOOLEAN, host : Hosts \cup {NoHost}]

(* What requests can ask for; it raises for anything else.                 *)
Fetchable == {u \in URL : u.scheme # "other" /\ u.host # NoHost}

TraceAssumption == /\ Sites \cap Private = {}
                   /\ NoHost \notin Hosts
                   /\ {Relative, NoUrl} \cap URL = {}
                   /\ MaxHops \in Nat \ {0}
                   /\ LongChain \in Nat

(* str.startswith(scheme + "://") looks at the spelling.                   *)
StartsWith(u, scheme) == u.scheme = scheme /\ ~u.upper

(* A Location header is relative or an absolute URL.  urljoin leaves one   *)
(* of another scheme than the base's as it is; otherwise it writes the     *)
(* scheme in small letters and takes a missing host from the base.         *)
UrlJoin(base, loc) ==
  IF loc = Relative \/ (loc.scheme = base.scheme /\ loc.host = NoHost)
  THEN [base EXCEPT !.upper = FALSE]
  ELSE IF loc.scheme = base.scheme THEN [loc EXCEPT !.upper = FALSE]
  ELSE loc

StripWww(host) == host[1]

-----------------------------------------------------------------------------
VARIABLES pc,        \* control state
          original,  \* original_url
          current,   \* current_url
          chain,     \* the hops recorded: url and redirect_to
          issues,    \* issues_found, as <<hop, type>>; hop 0 is None
          notes      \* security_notes

vars == <<pc, original, current, chain, issues, notes>>

(* Mutant: only the first URL is remembered.                               *)
SeenFirst == IF chain = <<>> THEN {} ELSE {original}

(* seen_urls: a URL is added to it and to the chain in the same iteration. *)
SeenUrls == {chain[i].url : i \in DOMAIN chain}

Record(to) == chain' = Append(chain, [url |-> current, to |-> to])

Report(types) == issues' = issues \cup {<<Len(chain) + 1, ty>> : ty \in types}

(* Mutant: the loop is reported at the iteration that found it.            *)
LoopsAtIteration == /\ pc = "hop" /\ Len(chain) < MaxHops /\ current \in SeenUrls
                    /\ issues' = issues \cup {<<Len(chain) + 1, "redirect_loop">>}
                    /\ pc' = "conclude"
                    /\ UNCHANGED <<original, current, chain, notes>>

Init == /\ pc = "called"
        /\ original = NoUrl /\ current = NoUrl
        /\ chain = <<>> /\ issues = {} /\ notes = {}

(* _normalize_url leaves http and https as they are and prepends http://   *)
(* to anything else; no host or an IP literal is not a valid domain.       *)
Start == /\ pc = "called"
         /\ \E u \in {v \in URL : v.scheme # "other"} :
              /\ original' = u /\ current' = u
              /\ pc' = IF u.host \in Sites THEN "hop" ELSE "invalid"
         /\ UNCHANGED <<chain, issues, notes>>

(* The top of the loop.                                                    *)
Loops == /\ pc = "hop" /\ Len(chain) < MaxHops
         /\ current \in SeenUrls
         /\ issues' = issues \cup {<<Len(chain), "redirect_loop">>}
         /\ pc' = "conclude"
         /\ UNCHANGED <<original, current, chain, notes>>

Fetching == pc = "hop" /\ Len(chain) < MaxHops /\ current \notin SeenUrls

(* The request raises, for a URL that is not fetchable in any case, or     *)
(* urljoin does: everything found so far is dropped for an error.          *)
Fails == /\ Fetching
         /\ pc' = "failed"
         /\ UNCHANGED <<original, current, chain, issues, notes>>

Answered == Fetching /\ current \in Fetchable

Arrives == /\ Answered
           /\ Record(NoUrl)
           /\ pc' = "conclude"
           /\ UNCHANGED <<original, current, issues, notes>>

NoLocation == /\ Answered
              /\ Record(NoUrl)
              /\ Report({"malformed_redirect"})
              /\ pc' = "conclude"
              /\ UNCHANGED <<original, current, notes>>

CrossDomain(from, to) == /\ from.host # NoHost /\ to.host # NoHost
                         /\ StripWww(from.host) # StripWww(to.host)

(* Mutant: a downgrade is noticed only within one host.                    *)
HopIssuesSameHost(from, to) ==
  {ty \in {"tls_downgrade", "private_ip_leak", "cross_domain_redirect"} :
     CASE ty = "tls_downgrade"   -> /\ from.scheme = "https" /\ to.scheme = "http"
                                    /\ from.host = to.host
       [] ty = "private_ip_leak" -> to.host \in Private
       [] OTHER                  -> CrossDomain(from, to)}

(* What a hop reports of its redirect.                                     *)
HopIssues(from, to) ==
  {ty \in {"tls_downgrade", "private_ip_leak", "cross_domain_redirect"} :
     CASE ty = "tls_downgrade"   -> from.scheme = "https" /\ to.scheme = "http"
       [] ty = "private_ip_leak" -> to.host \in Private
       [] OTHER                  -> CrossDomain(from, to)}

(* Mutant: the trace is not halted at a private address.                   *)
RedirectsAnywhere(loc) == /\ Answered
                          /\ LET next == UrlJoin(current, loc) IN
                               /\ Record(next) /\ Report(HopIssues(current, next))
                               /\ current' = next
                          /\ UNCHANGED <<pc, original, notes>>

Redirects(loc) == /\ Answered
                  /\ LET next == UrlJoin(current, loc) IN
                       /\ Record(next)
                       /\ Report(HopIssues(current, next))
                       /\ IF next.host \in Private
                          THEN pc' = "conclude" /\ current' = current
                          ELSE current' = next /\ pc' = pc
                  /\ UNCHANGED <<original, notes>>

(* The else of the for loop.                                               *)
HopLimit == /\ pc = "hop" /\ Len(chain) = MaxHops
            /\ issues' = issues \cup {<<Len(chain), "max_hops_exceeded">>}
            /\ pc' = "conclude"
            /\ UNCHANGED <<original, current, chain, notes>>

Last == chain[Len(chain)]

FinalUrl == IF Last.to = NoUrl THEN Last.url ELSE Last.to

(* The URLs a chain names, fetched or not.                                 *)
Named == (SeenUrls \cup {chain[i].to : i \in DOMAIN chain}) \ {NoUrl}

NeverUpgraded == /\ StartsWith(original, "http")
                 /\ ~\E u \in Named : StartsWith(u, "https")

Has(found, ty) == \E i \in found : i[2] = ty

NotesOn(found) ==
  {n \in {"upgraded", "stayed_on_https", "no_private_ip"} :
     IF n = "no_private_ip" THEN ~Has(found, "private_ip_leak")
     ELSE /\ ~Has(found, "tls_downgrade") /\ ~Has(found, "no_tls_upgrade")
          /\ IF n = "upgraded" THEN StartsWith(original, "http") /\ StartsWith(FinalUrl, "https")
             ELSE StartsWith(original, "https")}

(* The judgements on the whole chain.                                      *)
Conclude == /\ pc = "conclude"
            /\ LET found == issues
                     \cup (IF Len(chain) > LongChain THEN {<<0, "long_chain">>} ELSE {})
                     \cup (IF NeverUpgraded THEN {<<0, "no_tls_upgrade">>} ELSE {})
               IN issues' = found /\ notes' = NotesOn(found)
            /\ pc' = "done"
            /\ UNCHANGED <<original, current, chain>>

Ended == pc \in {"invalid", "failed", "done"}

Terminated == Ended /\ UNCHANGED vars

Next == \/ Start \/ Loops \/ Fails \/ Arrives \/ NoLocation \/ HopLimit \/ Conclude
        \/ \E loc \in URL \cup {Relative} : Redirects(loc)
        \/ Terminated

Spec == Init /\ [][Next]_vars

-----------------------------------------------------------------------------
TypeOK == /\ pc \in {"called", "invalid", "hop", "conclude", "failed", "done"}
          /\ {original, current} \subseteq URL \cup {NoUrl}
          /\ chain \in Seq([url : URL, to : URL \cup {NoUrl}])
          /\ issues \subseteq (0..MaxHops) \X
               {"redirect_loop", "malformed_redirect", "tls_downgrade", "private_ip_leak",
                "cross_domain_redirect", "max_hops_exceeded", "long_chain", "no_tls_upgrade"}
          /\ notes \subseteq {"upgraded", "stayed_on_https", "no_private_ip"}

(* "This tool does not follow redirects into private/internal address      *)
(* space": no fetched URL, the first included, has a private host.         *)
NeverFetchesPrivate ==
  /\ \A i \in DOMAIN chain : chain[i].url.host \notin Private
  /\ Fetching => current.host \notin Private

(* The chain is a walk: each hop is the target of the one before, no URL   *)
(* is fetched twice, and only the last hop may lead nowhere.               *)
ChainIsWalk ==
  /\ Len(chain) <= MaxHops
  /\ \A i, j \in DOMAIN chain : chain[i].url = chain[j].url => i = j
  /\ \A i \in DOMAIN chain : i < Len(chain) => chain[i].to = chain[i + 1].url
  /\ chain # <<>> => chain[1].url = original

(* A report says why the trace stopped: a chain that still points onward   *)
(* has exactly one of the loop, private address and hop limit issues, at   *)
(* its last hop, and a chain that does not has none of them.               *)
StopExplained ==
  pc = "done" =>
    LET stops == {i \in issues : i[2] \in {"redirect_loop", "private_ip_leak",
                                           "max_hops_exceeded"}}
    IN IF Last.to = NoUrl THEN stops = {}
       ELSE \E ty \in {"redirect_loop", "private_ip_leak", "max_hops_exceeded"} :
              stops = {<<Len(chain), ty>>}

(* What the notes praise is so.  A chain said to have stayed on HTTPS was  *)
(* fetched over https only and names no http URL (its last, unfetched      *)
(* target may be of a third scheme, see HttpsThroughout); one said to be   *)
(* upgraded ends on https and never went back; and one said to lead to no  *)
(* private address names none, fetched or not.                             *)
NotesTruthful ==
  pc = "done" =>
    /\ "stayed_on_https" \in notes => /\ \A u \in SeenUrls : u.scheme = "https"
                                      /\ \A u \in Named : u.scheme # "http"
    /\ "upgraded" \in notes =>
         /\ original.scheme = "http" /\ FinalUrl.scheme = "https"
         /\ \A i \in DOMAIN chain : chain[i].url.scheme = "https" /\ chain[i].to # NoUrl
                                      => chain[i].to.scheme # "http"
    /\ "no_private_ip" \in notes => \A u \in Named : u.host \notin Private

(* "Chain stayed on HTTPS throughout": every URL such a chain names is     *)
(* https.  Only a next scheme of exactly http counts as leaving https, so  *)
(* the code says it of a chain that ends by pointing to ftp, too.          *)
HttpsThroughout ==
  pc = "done" /\ "stayed_on_https" \in notes => \A u \in Named : u.scheme = "https"

=============================================================================
