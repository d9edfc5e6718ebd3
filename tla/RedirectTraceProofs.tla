------------------------- MODULE RedirectTraceProofs -------------------------
(***************************************************************************)
(* Proofs about the redirect traces of SiteCalls (its instance Trace of    *)
(* RedirectTrace), for every set of sites, every limit (SiteAssumption)    *)
(* and whatever the servers answer.                                        *)
(*                                                                         *)
(* The argument: while the loop runs, the chain is a walk from the         *)
(* original URL whose last hop points to current_url, no host of it is     *)
(* private, and none of the three issues that end a trace is reported; the *)
(* step that leaves the loop reports the one that applies, for the last    *)
(* hop recorded.                                                           *)
(***************************************************************************)
EXTENDS SiteCalls, TLAPS

StopTypes == {"redirect_loop", "private_ip_leak", "max_hops_exceeded"}

Stops == {i \in issues : i[2] \in StopTypes}

Started == pc \in {"hop", "conclude", "failed", "done"}

(* The chain so far, and where it goes on.                                 *)
WalkInv ==
  /\ Started => original \in Trace!URL /\ current \in Trace!URL
  /\ pc = "hop" => /\ current.host \notin Private
                   /\ IF chain = <<>> THEN current = original ELSE Trace!Last.to = current
  /\ ~Started => chain = <<>>
  /\ pc \in {"conclude", "done"} => chain # <<>>
  /\ \A i \in DOMAIN chain : /\ chain[i].url.host \notin Private
                            /\ chain[i].url \in Trace!Fetchable

(* The reason for which the loop was left.                                 *)
StopInv ==
  /\ pc \in {"called", "invalid", "hop"} => Stops = {}
  /\ pc \in {"conclude", "done"} =>
       IF Trace!Last.to = NoUrl THEN Stops = {}
       ELSE \E ty \in StopTypes : Stops = {<<Len(chain), ty>>}

TraceInv == Trace!TypeOK /\ Trace!ChainIsWalk /\ WalkInv /\ StopInv

-----------------------------------------------------------------------------
LEMMA UrlsTyped ==
  ASSUME Trace!TraceAssumption
  PROVE  /\ NoUrl \notin Trace!URL
         /\ \A u \in Trace!Fetchable : u \in Trace!URL /\ u.scheme \in {"http", "https"}
         /\ \A base \in Trace!URL, loc \in Trace!URL \cup {Relative} :
              Trace!UrlJoin(base, loc) \in Trace!URL
<1>1. NoUrl \notin Trace!URL /\ Relative \notin Trace!URL
  BY DEF Trace!TraceAssumption
<1>2. ASSUME NEW u \in Trace!URL PROVE [u EXCEPT !.upper = FALSE] \in Trace!URL
  BY DEF Trace!URL
<1>3. ASSUME NEW base \in Trace!URL, NEW loc \in Trace!URL \cup {Relative}
      PROVE  Trace!UrlJoin(base, loc) \in Trace!URL
  BY <1>2 DEF Trace!UrlJoin
<1>4. \A u \in Trace!Fetchable : u \in Trace!URL /\ u.scheme \in {"http", "https"}
  BY DEF Trace!Fetchable, Trace!URL
<1> QED
  BY <1>1, <1>3, <1>4

LEMMA InitInv == ASSUME Trace!TraceAssumption PROVE Trace!Init => TraceInv
BY DEF Trace!TraceAssumption, Trace!Init, TraceInv, Trace!TypeOK, Trace!ChainIsWalk,
       WalkInv, StopInv, Stops, Started

(* A hop is recorded: the chain stays a walk, whatever it is followed by.  *)
LEMMA RecordWalk ==
  ASSUME Trace!TraceAssumption, TraceInv, Trace!Answered, original' = original,
         NEW to \in Trace!URL \cup {NoUrl}, Trace!Record(to)
  PROVE  /\ chain' \in Seq([url : Trace!URL, to : Trace!URL \cup {NoUrl}])
         /\ Len(chain') = Len(chain) + 1 /\ chain' # <<>>
         /\ Trace!Last' = [url |-> current, to |-> to]
         /\ Trace!ChainIsWalk'
         /\ \A i \in DOMAIN chain' : /\ chain'[i].url.host \notin Private
                                  /\ chain'[i].url \in Trace!Fetchable
<1> USE DEF TraceInv
<1>1. current \in Trace!Fetchable /\ current \in Trace!URL /\ current.host \notin Private
  BY DEF WalkInv, Started, Trace!Answered, Trace!Fetching
<1> DEFINE hop == [url |-> current, to |-> to]
<1>2. hop \in [url : Trace!URL, to : Trace!URL \cup {NoUrl}] /\ chain' = Append(chain, hop)
  BY <1>1 DEF Trace!Record
<1>3. chain \in Seq([url : Trace!URL, to : Trace!URL \cup {NoUrl}]) /\ Len(chain) \in Nat
  BY DEF Trace!TypeOK
<1>4. /\ Len(chain') = Len(chain) + 1
      /\ chain'[Len(chain) + 1] = hop
      /\ \A i \in 1..Len(chain) : chain'[i] = chain[i]
      /\ DOMAIN chain' = 1..(Len(chain) + 1) /\ DOMAIN chain = 1..Len(chain)
  BY <1>2, <1>3
<1>5. \A i \in DOMAIN chain : chain[i].url # current
  BY DEF Trace!Answered, Trace!Fetching, Trace!SeenUrls
<1>6. hop.url = current /\ hop.to = to
  OBVIOUS
<1>7. Len(chain') <= TraceHops
  BY <1>3, <1>4 DEF Trace!TraceAssumption, Trace!Answered, Trace!Fetching
<1>8. \A i, j \in DOMAIN chain' : chain'[i].url = chain'[j].url => i = j
  <2>1. \A i, j \in DOMAIN chain : chain[i].url = chain[j].url => i = j
    BY DEF Trace!ChainIsWalk
  <2> HIDE DEF hop
  <2> QED
    BY <1>3, <1>4, <1>5, <1>6, <2>1
<1>9. \A i \in DOMAIN chain' : i < Len(chain') => chain'[i].to = chain'[i + 1].url
  <2>1. \A i \in DOMAIN chain : i < Len(chain) => chain[i].to = chain[i + 1].url
    BY DEF Trace!ChainIsWalk
  <2>2. chain # <<>> => chain[Len(chain)].to = current
    BY DEF WalkInv, Trace!Answered, Trace!Fetching, Trace!Last
  <2> HIDE DEF hop
  <2> SUFFICES ASSUME NEW i \in 1..Len(chain) PROVE chain'[i].to = chain'[i + 1].url
    BY <1>3, <1>4
  <2>3. CASE i < Len(chain)
    BY <1>3, <1>4, <2>1, <2>3
  <2>4. CASE i = Len(chain)
    BY <1>3, <1>4, <1>6, <2>2, <2>4
  <2> QED
    BY <1>3, <2>3, <2>4
<1>10. chain'[1].url = original'
  <2> HIDE DEF hop
  <2>1. CASE chain = <<>>
    BY <1>3, <1>4, <1>6, <2>1 DEF WalkInv, Trace!Answered, Trace!Fetching
  <2>2. CASE chain # <<>>
    BY <1>3, <1>4, <2>2 DEF Trace!ChainIsWalk
  <2> QED
    BY <2>1, <2>2
<1>11. \A i \in DOMAIN chain' : /\ chain'[i].url.host \notin Private
                               /\ chain'[i].url \in Trace!Fetchable
  <2> HIDE DEF hop
  <2> QED
    BY <1>1, <1>3, <1>4, <1>6 DEF WalkInv
<1> QED
  BY <1>2, <1>3, <1>4, <1>7, <1>8, <1>9, <1>10, <1>11 DEF Trace!ChainIsWalk, Trace!Last

(* Steps that leave the chain as it is.                                    *)
LEMMA ChainStays ==
  ASSUME Trace!TraceAssumption, TraceInv,
         \/ Trace!Start \/ Trace!Loops \/ Trace!Fails \/ Trace!HopLimit \/ Trace!Conclude
  PROVE  TraceInv'
<1> USE DEF TraceInv
<1>1. chain' = chain
  BY DEF Trace!Start, Trace!Loops, Trace!Fails, Trace!HopLimit, Trace!Conclude
<1>2. Len(chain) \in Nat /\ Len(chain) <= TraceHops /\ TraceHops \in Nat \ {0}
  BY DEF Trace!TraceAssumption, Trace!TypeOK, Trace!ChainIsWalk
<1>3. CASE Trace!Start
  <2>1. PICK u \in Trace!URL : /\ original' = u /\ current' = u
                               /\ pc' = "invalid" \/ (pc' = "hop" /\ u.host \notin Private)
    BY <1>3 DEF Trace!Start, Trace!TraceAssumption
  <2>2. pc = "called" /\ chain = <<>> /\ UNCHANGED <<issues, notes>>
    BY <1>3 DEF Trace!Start, WalkInv, Started
  <2>3. Trace!TypeOK' /\ Trace!ChainIsWalk'
    BY <1>1, <2>1, <2>2 DEF Trace!TypeOK, Trace!ChainIsWalk
  <2>4. WalkInv' /\ StopInv'
    BY <1>1, <2>1, <2>2 DEF WalkInv, StopInv, Stops, Started
  <2> QED
    BY <2>3, <2>4
<1>4. CASE Trace!Fails
  BY <1>1, <1>4 DEF Trace!Fails, Trace!Answered, Trace!Fetching, Trace!TypeOK,
                    Trace!ChainIsWalk, WalkInv, StopInv, Stops, Started
<1>5. CASE Trace!Loops \/ Trace!HopLimit
  <2>1. PICK ty \in {"redirect_loop", "max_hops_exceeded"} :
          issues' = issues \cup {<<Len(chain), ty>>}
    BY <1>5 DEF Trace!Loops, Trace!HopLimit
  <2>2. pc = "hop" /\ pc' = "conclude" /\ UNCHANGED <<original, current, notes>>
    BY <1>5 DEF Trace!Loops, Trace!HopLimit
  <2>3. chain # <<>>
    BY <1>2, <1>5 DEF Trace!Loops, Trace!HopLimit, Trace!SeenUrls
  <2>4. Trace!Last.to = current /\ current \in Trace!URL /\ Trace!Last' = Trace!Last
    BY <1>1, <2>2, <2>3 DEF WalkInv, Started, Trace!Last
  <2>5. Trace!TypeOK' /\ Trace!ChainIsWalk'
    BY <1>1, <1>2, <2>1, <2>2 DEF Trace!TypeOK, Trace!ChainIsWalk
  <2>6. Stops' = {<<Len(chain), ty>>}
    BY <2>1, <2>2 DEF StopInv, Stops, StopTypes
  <2>7. WalkInv' /\ StopInv'
    BY <1>1, <2>2, <2>3, <2>4, <2>6, UrlsTyped DEF WalkInv, StopInv, Started, StopTypes
  <2> QED
    BY <2>5, <2>7
<1>6. CASE Trace!Conclude
  <2>1. PICK more \in SUBSET {<<0, "long_chain">>, <<0, "no_tls_upgrade">>} :
          issues' = issues \cup more
    <3>1. issues' = issues
            \cup ((IF Len(chain) > LongChain THEN {<<0, "long_chain">>} ELSE {})
                  \cup (IF Trace!NeverUpgraded THEN {<<0, "no_tls_upgrade">>} ELSE {}))
      BY <1>6 DEF Trace!Conclude
    <3> QED
      BY <3>1
  <2>2. /\ pc = "conclude" /\ pc' = "done" /\ UNCHANGED <<original, current>>
        /\ notes' \subseteq {"upgraded", "stayed_on_https", "no_private_ip"}
    BY <1>6 DEF Trace!Conclude, Trace!NotesOn
  <2>3. Trace!TypeOK' /\ Trace!ChainIsWalk'
    BY <1>1, <1>2, <2>1, <2>2 DEF Trace!TypeOK, Trace!ChainIsWalk
  <2>4. Stops' = Stops /\ Trace!Last' = Trace!Last
    BY <1>1, <2>1 DEF Stops, StopTypes, Trace!Last
  <2>5. WalkInv' /\ StopInv'
    BY <1>1, <2>2, <2>4 DEF WalkInv, StopInv, Started
  <2> QED
    BY <2>3, <2>5
<1> QED
  BY <1>3, <1>4, <1>5, <1>6

(* A response that leads nowhere.                                          *)
LEMMA ChainEnds ==
  ASSUME Trace!TraceAssumption, TraceInv, Trace!Arrives \/ Trace!NoLocation
  PROVE  TraceInv'
<1> USE DEF TraceInv
<1>1. /\ Trace!Answered /\ Trace!Fetching /\ Trace!Record(NoUrl) /\ pc' = "conclude"
      /\ UNCHANGED <<original, current, notes>>
      /\ issues' = issues \/ issues' = issues \cup {<<Len(chain) + 1, "malformed_redirect">>}
  BY DEF Trace!Arrives, Trace!NoLocation, Trace!Answered, Trace!Report
<1>2. /\ chain' \in Seq([url : Trace!URL, to : Trace!URL \cup {NoUrl}])
      /\ Len(chain') = Len(chain) + 1 /\ chain' # <<>>
      /\ Trace!Last' = [url |-> current, to |-> NoUrl]
      /\ Trace!ChainIsWalk'
      /\ \A i \in DOMAIN chain' : /\ chain'[i].url.host \notin Private
                                  /\ chain'[i].url \in Trace!Fetchable
  BY <1>1, RecordWalk
<1>3. Trace!TypeOK'
  <2>1. Len(chain) + 1 \in 0..TraceHops
    BY <1>1 DEF Trace!TraceAssumption, Trace!TypeOK, Trace!Answered, Trace!Fetching
  <2> QED
    BY <1>1, <1>2, <2>1 DEF Trace!TypeOK
<1>4. Stops' = {}
  BY <1>1 DEF Stops, StopTypes, StopInv, Trace!Answered, Trace!Fetching
<1>5. WalkInv' /\ StopInv'
  BY <1>1, <1>2, <1>4 DEF WalkInv, StopInv, Started, Trace!Answered, Trace!Fetching
<1> QED
  BY <1>2, <1>3, <1>5

LEMMA ChainGoesOn ==
  ASSUME Trace!TraceAssumption, TraceInv,
         NEW loc \in Trace!URL \cup {Relative}, Trace!Redirects(loc)
  PROVE  TraceInv'
<1> USE DEF TraceInv
<1> DEFINE next == Trace!UrlJoin(current, loc)
<1>1. Trace!Answered /\ Trace!Fetching /\ current \in Trace!URL
  BY DEF Trace!Redirects, WalkInv, Started, Trace!Answered, Trace!Fetching
<1>2. next \in Trace!URL
  BY <1>1, UrlsTyped
<1> HIDE DEF next
<1>3. /\ Trace!Record(next) /\ UNCHANGED <<original, notes>>
      /\ issues' = issues \cup {<<Len(chain) + 1, ty>> : ty \in Trace!HopIssues(current, next)}
      /\ IF next.host \in Private THEN pc' = "conclude" /\ current' = current
         ELSE current' = next /\ pc' = "hop"
  BY DEF Trace!Redirects, next, Trace!Report, Trace!Answered, Trace!Fetching
<1>4. /\ chain' \in Seq([url : Trace!URL, to : Trace!URL \cup {NoUrl}])
      /\ Len(chain') = Len(chain) + 1 /\ chain' # <<>>
      /\ Trace!Last' = [url |-> current, to |-> next]
      /\ Trace!ChainIsWalk'
      /\ \A i \in DOMAIN chain' : /\ chain'[i].url.host \notin Private
                                  /\ chain'[i].url \in Trace!Fetchable
  BY <1>1, <1>2, <1>3, RecordWalk
<1>5. /\ Trace!HopIssues(current, next) \subseteq
           {"tls_downgrade", "private_ip_leak", "cross_domain_redirect"}
      /\ "private_ip_leak" \in Trace!HopIssues(current, next) <=> next.host \in Private
  BY DEF Trace!HopIssues
<1>6. Trace!TypeOK'
  <2>1. Len(chain) + 1 \in 0..TraceHops
    BY <1>1 DEF Trace!TraceAssumption, Trace!TypeOK, Trace!Answered, Trace!Fetching
  <2> QED
    BY <1>1, <1>2, <1>3, <1>4, <1>5, <2>1 DEF Trace!TypeOK
<1>7. Stops' = IF next.host \in Private THEN {<<Len(chain) + 1, "private_ip_leak">>} ELSE {}
  BY <1>1, <1>3, <1>5 DEF Stops, StopTypes, StopInv, Trace!Answered, Trace!Fetching
<1>8. WalkInv'
  <2>1. Trace!Last'.to = next /\ chain' # <<>>
    BY <1>4
  <2>2. original' \in Trace!URL /\ current' \in Trace!URL /\ pc' \in {"hop", "conclude"}
    BY <1>1, <1>2, <1>3 DEF WalkInv, Started, Trace!Answered, Trace!Fetching
  <2>3. pc' = "hop" => current'.host \notin Private /\ current' = next
    BY <1>3
  <2> QED
    BY <1>4, <2>1, <2>2, <2>3 DEF WalkInv, Started
<1>9. StopInv'
  BY <1>2, <1>3, <1>4, <1>7, UrlsTyped DEF StopInv, StopTypes
<1> QED
  BY <1>4, <1>6, <1>8, <1>9

LEMMA NextInv ==
  ASSUME Trace!TraceAssumption, TraceInv, Trace!Next \/ UNCHANGED Trace!vars
  PROVE  TraceInv'
<1>1. CASE UNCHANGED Trace!vars
  BY <1>1 DEF Trace!vars, TraceInv, Trace!TypeOK, Trace!ChainIsWalk, WalkInv, StopInv,
              Stops, Started, Trace!Last
<1> QED
  BY <1>1, ChainStays, ChainEnds, ChainGoesOn DEF Trace!Next, Trace!Terminated

(* What each hop did wrong is among the issues, and after a start on https *)
(* only a reported downgrade leads away from it.                           *)
NoteInv ==
  /\ \A i \in DOMAIN chain :
       /\ chain[i].to # NoUrl /\ chain[i].url.scheme = "https" =>
            chain[i].to.scheme # "http" \/ Trace!Has(issues, "tls_downgrade")
       /\ chain[i].to # NoUrl /\ chain[i].to.host \in Private =>
            Trace!Has(issues, "private_ip_leak")
       /\ original.scheme = "https" =>
            chain[i].url.scheme = "https" \/ Trace!Has(issues, "tls_downgrade")
  /\ pc = "hop" /\ original.scheme = "https" =>
       current.scheme # "http" \/ Trace!Has(issues, "tls_downgrade")
  /\ pc = "done" => notes = Trace!NotesOn(issues)

LEMMA NoteStep ==
  ASSUME Trace!TraceAssumption, TraceInv, NoteInv, Trace!Next \/ UNCHANGED Trace!vars
  PROVE  NoteInv'
<1>1. issues \subseteq issues'
  BY DEF Trace!Next, Trace!vars, Trace!Start, Trace!Loops, Trace!Fails, Trace!Arrives,
         Trace!NoLocation, Trace!HopLimit, Trace!Conclude, Trace!Redirects, Trace!Report,
         Trace!Terminated
<1>2. \A ty : Trace!Has(issues, ty) => Trace!Has(issues', ty)
  BY <1>1 DEF Trace!Has
<1>3. ASSUME NEW to \in Trace!URL \cup {NoUrl},
             Trace!Answered, Trace!Record(to), original' = original,
             pc' # "done",
             pc' = "hop" => to \in Trace!URL /\ current' = to,
             to # NoUrl => issues' = issues \cup
               {<<Len(chain) + 1, ty>> : ty \in Trace!HopIssues(current, to)}
      PROVE  NoteInv'
  <2>1. /\ chain \in Seq([url : Trace!URL, to : Trace!URL \cup {NoUrl}])
        /\ current \in Trace!URL /\ current.scheme \in {"http", "https"}
    BY <1>3, UrlsTyped DEF TraceInv, Trace!TypeOK, Trace!Answered
  <2> DEFINE hop == [url |-> current, to |-> to]
  <2>2. /\ DOMAIN chain = 1..Len(chain) /\ Len(chain) \in Nat
        /\ DOMAIN chain' = 1..(Len(chain) + 1) /\ chain'[Len(chain) + 1] = hop
        /\ \A i \in 1..Len(chain) : chain'[i] = chain[i]
    BY <1>3, <2>1 DEF Trace!Record
  <2>3. hop.url = current /\ hop.to = to
    OBVIOUS
  <2> HIDE DEF hop
  <2>4. /\ to # NoUrl /\ current.scheme = "https" =>
             to.scheme # "http" \/ Trace!Has(issues', "tls_downgrade")
        /\ to # NoUrl /\ to.host \in Private => Trace!Has(issues', "private_ip_leak")
    <3>1. ASSUME NEW ty \in Trace!HopIssues(current, to), to # NoUrl
          PROVE  Trace!Has(issues', ty)
      <4>1. <<Len(chain) + 1, ty>> \in issues'
        BY <1>3, <3>1
      <4> QED
        BY <4>1 DEF Trace!Has
    <3>2. /\ current.scheme = "https" /\ to.scheme = "http" =>
               "tls_downgrade" \in Trace!HopIssues(current, to)
          /\ to.host \in Private => "private_ip_leak" \in Trace!HopIssues(current, to)
      BY DEF Trace!HopIssues
    <3> QED
      BY <2>1, <3>1, <3>2
  <2>5. original.scheme = "https" =>
          current.scheme = "https" \/ Trace!Has(issues', "tls_downgrade")
    BY <1>2, <1>3, <2>1 DEF NoteInv, Trace!Answered, Trace!Fetching
  <2>6. pc' = "hop" /\ original'.scheme = "https" =>
          current'.scheme # "http" \/ Trace!Has(issues', "tls_downgrade")
    <3>1. pc' = "hop" => to # NoUrl /\ current' = to
      BY <1>3, UrlsTyped
    <3> QED
      BY <1>3, <2>4, <2>5, <3>1
  <2>7. ASSUME NEW i \in DOMAIN chain'
        PROVE  /\ chain'[i].to # NoUrl /\ chain'[i].url.scheme = "https" =>
                    chain'[i].to.scheme # "http" \/ Trace!Has(issues', "tls_downgrade")
               /\ chain'[i].to # NoUrl /\ chain'[i].to.host \in Private =>
                    Trace!Has(issues', "private_ip_leak")
               /\ original'.scheme = "https" =>
                    chain'[i].url.scheme = "https" \/ Trace!Has(issues', "tls_downgrade")
    <3>1. CASE i = Len(chain) + 1
      BY <1>3, <2>2, <2>3, <2>4, <2>5, <3>1
    <3>2. CASE i \in DOMAIN chain
      BY <1>2, <1>3, <2>2, <3>2 DEF NoteInv
    <3> QED
      BY <2>2, <3>1, <3>2
  <2> QED
    BY <1>3, <2>6, <2>7 DEF NoteInv, Trace!Has
<1>4. CASE Trace!Arrives \/ Trace!NoLocation
  BY <1>3, <1>4 DEF Trace!Arrives, Trace!NoLocation
<1>5. ASSUME NEW loc \in Trace!URL \cup {Relative}, Trace!Redirects(loc) PROVE NoteInv'
  <2> DEFINE next == Trace!UrlJoin(current, loc)
  <2>1. Trace!Answered /\ Trace!Fetching /\ current \in Trace!URL
    BY <1>5 DEF Trace!Redirects, TraceInv, WalkInv, Started, Trace!Answered, Trace!Fetching
  <2>2. next \in Trace!URL
    BY <2>1, UrlsTyped
  <2>3. /\ Trace!Record(next) /\ original' = original /\ pc' # "done"
        /\ issues' = issues \cup {<<Len(chain) + 1, ty>> : ty \in Trace!HopIssues(current, next)}
        /\ pc' = "hop" => current' = next
    BY <1>5 DEF Trace!Redirects, Trace!Report, Trace!Answered, Trace!Fetching
  <2> HIDE DEF next
  <2> QED
    BY <1>3, <2>1, <2>2, <2>3
<1>6. CASE Trace!Start
  <2>1. chain = <<>> /\ chain' = chain /\ pc' # "done" /\ current' = original'
    BY <1>6 DEF Trace!Start, TraceInv, WalkInv, Started
  <2> QED
    BY <2>1 DEF NoteInv
<1>7. CASE Trace!Loops \/ Trace!Fails \/ Trace!HopLimit
  <2>1. UNCHANGED <<original, current, chain>> /\ pc' \notin {"hop", "done"}
    BY <1>7 DEF Trace!Loops, Trace!Fails, Trace!HopLimit
  <2> QED
    BY <1>2, <2>1 DEF NoteInv, Trace!Has
<1>8. CASE Trace!Conclude
  <2>1. /\ UNCHANGED <<original, current, chain>>
        /\ pc' = "done" /\ notes' = Trace!NotesOn(issues')
    BY <1>8 DEF Trace!Conclude
  <2>2. Trace!NotesOn(issues') = Trace!NotesOn(issues)'
    BY <2>1 DEF Trace!NotesOn, Trace!Has, Trace!FinalUrl, Trace!Last
  <2> QED
    BY <1>2, <2>1, <2>2 DEF NoteInv, Trace!Has
<1>9. CASE UNCHANGED Trace!vars
  BY <1>9 DEF Trace!vars, NoteInv, Trace!Has, Trace!NotesOn, Trace!FinalUrl, Trace!Last
<1> QED
  BY <1>4, <1>5, <1>6, <1>7, <1>8, <1>9 DEF Trace!Next, Trace!Terminated

LEMMA NotesRight ==
  ASSUME Trace!TraceAssumption, TraceInv, NoteInv
  PROVE  Trace!NotesTruthful
<1> SUFFICES ASSUME pc = "done" PROVE Trace!NotesTruthful
  BY DEF Trace!NotesTruthful
<1>1. /\ notes = Trace!NotesOn(issues)
      /\ "no_private_ip" \in notes => ~Trace!Has(issues, "private_ip_leak")
      /\ "stayed_on_https" \in notes =>
           ~Trace!Has(issues, "tls_downgrade") /\ Trace!StartsWith(original, "https")
      /\ "upgraded" \in notes => /\ ~Trace!Has(issues, "tls_downgrade")
                                 /\ Trace!StartsWith(original, "http")
                                 /\ Trace!StartsWith(Trace!FinalUrl, "https")
  BY DEF NoteInv, Trace!NotesOn
<1>2. /\ chain \in Seq([url : Trace!URL, to : Trace!URL \cup {NoUrl}]) /\ NoUrl \notin Trace!URL
      /\ \A i \in DOMAIN chain : chain[i].url \in Trace!URL /\ chain[i].url.host \notin Private
  <2>1. chain \in Seq([url : Trace!URL, to : Trace!URL \cup {NoUrl}])
        /\ \A i \in DOMAIN chain : chain[i].url.host \notin Private
    BY DEF TraceInv, Trace!TypeOK, WalkInv
  <2>2. \A i \in DOMAIN chain : chain[i].url \in Trace!URL
    <3> DEFINE Hop == [url : Trace!URL, to : Trace!URL \cup {NoUrl}]
    <3>1. \A h \in Hop : h.url \in Trace!URL
      OBVIOUS
    <3>2. chain \in Seq(Hop)
      BY <2>1
    <3> HIDE DEF Hop
    <3> QED
      BY <3>1, <3>2
  <2> QED
    BY <2>1, <2>2, UrlsTyped
<1>3. \A u \in Trace!Named : \E i \in DOMAIN chain :
        u = chain[i].url \/ (u = chain[i].to /\ chain[i].to # NoUrl)
  BY <1>2 DEF Trace!Named, Trace!SeenUrls
<1>4. "stayed_on_https" \in notes => /\ \A u \in Trace!SeenUrls : u.scheme = "https"
                                     /\ \A u \in Trace!Named : u.scheme # "http"
  BY <1>1, <1>3 DEF NoteInv, Trace!StartsWith, Trace!SeenUrls
<1>5. "upgraded" \in notes =>
        /\ original.scheme = "http" /\ Trace!FinalUrl.scheme = "https"
        /\ \A i \in DOMAIN chain : chain[i].url.scheme = "https" /\ chain[i].to # NoUrl
                                     => chain[i].to.scheme # "http"
  BY <1>1 DEF NoteInv, Trace!StartsWith
<1>6. "no_private_ip" \in notes => \A u \in Trace!Named : u.host \notin Private
  BY <1>1, <1>2, <1>3 DEF NoteInv
<1> QED
  BY <1>4, <1>5, <1>6 DEF Trace!NotesTruthful

(* A step of a call of this tool is a step of the tool.                    *)
LEMMA StepsAreOwn ==
  ASSUME [Next]_vars
  PROVE  /\ tool' = tool
         /\ UNCHANGED vars => UNCHANGED Trace!vars
         /\ tool = "trace_redirects" /\ ~UNCHANGED vars
              => Trace!Next /\ ~UNCHANGED Trace!vars
BY DEF Next, TraceRedirects, HeadersAnalyzer, EmailSecurityCheck, SubdomainTakeoverScan,
       vars, redirects, headers, records, verdicts, Trace!vars

LEMMA TraceInvariant == Spec => [](tool = "trace_redirects" => TraceInv)
<1>1. Trace!TraceAssumption
  BY SiteAssumption
<1>2. Init => TraceInv
  BY <1>1, InitInv DEF Init
<1>3. (tool = "trace_redirects" => TraceInv) /\ [Next]_vars
        => (tool = "trace_redirects" => TraceInv)'
  BY <1>1, StepsAreOwn, NextInv
<1> QED
  BY <1>2, <1>3, PTL DEF Spec

-----------------------------------------------------------------------------
(* A trace keeps its types; hop numbers stay within the limit.             *)
THEOREM TypeCorrect == Spec => [](tool = "trace_redirects" => Trace!TypeOK)
<1>1. TraceInv => Trace!TypeOK
  BY DEF TraceInv
<1> QED
  BY <1>1, TraceInvariant, PTL

(* No URL with a private host is fetched, whatever the servers answer.     *)
THEOREM PrivateNeverFetched == Spec => []NeverFetchesPrivate
<1>1. TraceInv => Trace!NeverFetchesPrivate
  BY DEF TraceInv, WalkInv, Trace!NeverFetchesPrivate, Trace!Answered, Trace!Fetching
<1> QED
  BY <1>1, TraceInvariant, PTL DEF NeverFetchesPrivate

(* The chain is a walk without repetitions, of at most TraceHops URLs.     *)
THEOREM ChainsAreWalks == Spec => []ChainIsWalk
<1>1. TraceInv => Trace!ChainIsWalk
  BY DEF TraceInv
<1> QED
  BY <1>1, TraceInvariant, PTL DEF ChainIsWalk

(* The report names the one reason for which the trace stopped, at its     *)
(* last hop.                                                               *)
THEOREM StopsAreExplained == Spec => []StopExplained
<1>1. TraceInv => Trace!StopExplained
  BY DEF TraceInv, StopInv, Stops, StopTypes, Trace!StopExplained
<1> QED
  BY <1>1, TraceInvariant, PTL DEF StopExplained

(* The notes of a finished trace are true of its whole chain.              *)
THEOREM NotesAreTrue == Spec => []NotesTruthful
<1>1. Init => NoteInv
  BY DEF Init, Trace!Init, NoteInv
<1>2. Trace!TraceAssumption
  BY SiteAssumption
<1>3. /\ tool = "trace_redirects" => TraceInv /\ NoteInv
      /\ [Next]_vars
      => (tool = "trace_redirects" => NoteInv)'
  BY <1>2, StepsAreOwn, NoteStep
<1>4. TraceInv /\ NoteInv => Trace!NotesTruthful
  BY <1>2, NotesRight
<1> QED
  BY <1>1, <1>3, <1>4, TraceInvariant, PTL DEF Spec, NotesTruthful

-----------------------------------------------------------------------------
(* How many steps a trace may still take.                                  *)
StepsLeft == CASE pc = "called"   -> TraceHops + 3
               [] pc = "hop"      -> TraceHops + 2 - Len(chain)
               [] pc = "conclude" -> 1
               [] OTHER           -> 0

(* Each step of a trace uses up one of these.                              *)
StepsRunOut == [][tool = "trace_redirects" => StepsLeft' < StepsLeft]_vars

LEMMA StepsBounded ==
  ASSUME Trace!TraceAssumption, TraceInv
  PROVE  StepsLeft \in 0..(TraceHops + 3) /\ (StepsLeft = 0 <=> Trace!Ended)
<1>1. TraceHops \in Nat /\ Len(chain) \in Nat /\ Len(chain) <= TraceHops
  BY DEF Trace!TraceAssumption, TraceInv, Trace!TypeOK, Trace!ChainIsWalk
<1>2. pc \in {"called", "invalid", "hop", "conclude", "failed", "done"}
  BY DEF TraceInv, Trace!TypeOK
<1> QED
  BY <1>1, <1>2 DEF StepsLeft, Trace!Ended

LEMMA StepsRun ==
  ASSUME Trace!TraceAssumption, TraceInv, Trace!Next, ~UNCHANGED Trace!vars
  PROVE  StepsLeft' < StepsLeft
<1>1. TraceHops \in Nat /\ Len(chain) \in Nat /\ Len(chain) <= TraceHops
  BY DEF Trace!TraceAssumption, TraceInv, Trace!TypeOK, Trace!ChainIsWalk
<1>2. CASE Trace!Start
  BY <1>1, <1>2 DEF Trace!Start, StepsLeft
<1>3. CASE \/ Trace!Loops \/ Trace!Fails \/ Trace!Arrives \/ Trace!NoLocation
           \/ Trace!HopLimit \/ Trace!Conclude
  BY <1>1, <1>3 DEF StepsLeft, Trace!Loops, Trace!Fails, Trace!Arrives, Trace!NoLocation,
                    Trace!HopLimit, Trace!Conclude, Trace!Answered, Trace!Fetching
<1>4. ASSUME NEW loc \in Trace!URL \cup {Relative}, Trace!Redirects(loc)
      PROVE  StepsLeft' < StepsLeft
  <2>1. /\ pc = "hop" /\ pc' \in {"hop", "conclude"} /\ Len(chain) < TraceHops
        /\ chain' = Append(chain, [url |-> current, to |-> Trace!UrlJoin(current, loc)])
    BY <1>4 DEF Trace!Redirects, Trace!Answered, Trace!Fetching, Trace!Record
  <2>2. Len(chain') = Len(chain) + 1
    BY <2>1 DEF TraceInv, Trace!TypeOK
  <2> QED
    BY <1>1, <2>1, <2>2 DEF StepsLeft
<1> QED
  BY <1>2, <1>3, <1>4 DEF Trace!Next, Trace!Terminated

(* Every trace is finite, whatever the servers answer: each step leaves    *)
(* fewer to come, none is left only at the end, and there are never more   *)
(* than three beyond the hop limit.                                        *)
THEOREM TracesRunOut ==
  Spec => /\ [](tool = "trace_redirects" => /\ StepsLeft \in 0..(TraceHops + 3)
                                            /\ StepsLeft = 0 <=> Trace!Ended)
          /\ StepsRunOut
<1>1. TraceInv => StepsLeft \in 0..(TraceHops + 3) /\ (StepsLeft = 0 <=> Trace!Ended)
  BY SiteAssumption, StepsBounded
<1>2. (tool = "trace_redirects" => TraceInv) /\ [Next]_vars
        => [tool = "trace_redirects" => StepsLeft' < StepsLeft]_vars
  BY SiteAssumption, StepsAreOwn, StepsRun
<1> QED
  BY <1>1, <1>2, TraceInvariant, PTL DEF Spec, StepsRunOut
=============================================================================
