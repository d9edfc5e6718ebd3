------------------------------ MODULE TechStack ------------------------------
(***************************************************************************)
(* tech_stack_detect (src/tools/techstack_tool.py): a page is fetched over *)
(* https or else over http, its body is read up to a limit while it        *)
(* arrives, the fingerprint engine (src/tools/fingerprint/engine.py)       *)
(* recognises technologies in it, and the extractor                        *)
(* (src/tools/signals/tech_stack.py) lists their names.                    *)
(*                                                                         *)
(* A marker is a text that is in a header, a cookie or the body, or not.   *)
(* The body is a stream of units: a generator tag or other text with a     *)
(* marker in it, or a filler.  The order of detections and of evidence is  *)
(* left out.                                                               *)
(***************************************************************************)
EXTENDS Naturals, Sequences

CONSTANTS Tables,      \* Tables[c][t]: the markers of technology t in category
                       \* c, as <<marker type, marker, confidence>>
          Filler,      \* a unit of the body that is no marker
          MaxBody,     \* MAX_BODY_BYTES
          ChunkSize    \* units in a chunk of the body

MarkerTypes == {"header_name", "header_value", "cookie_name", "meta_generator",
                "html_substring"}

Elements(s) == {s[i] : i \in DOMAIN s}

AllMarkers == UNION {UNION {Elements(Tables[c][t]) : t \in DOMAIN Tables[c]} :
                       c \in DOMAIN Tables}

(* No marker of the tables has a confidence of zero.                       *)
TechAssumption ==
  /\ MaxBody \in Nat \ {0}
  /\ ChunkSize \in Nat \ {0}
  /\ \A c \in DOMAIN Tables : \A t \in DOMAIN Tables[c] : Tables[c][t] \in Seq(AllMarkers)
  /\ \A m \in AllMarkers : m[1] \in MarkerTypes /\ m[3] \in Nat \ {0}

(* What can be found in the places where markers of these types are.       *)
Texts(types) == {m[2] : m \in {k \in AllMarkers : k[1] \in types}}

Units == ({"tag"} \X Texts({"meta_generator"})) \cup ({"text"} \X Texts({"html_substring"}))
           \cup {<<"filler", Filler>>}

Chunks == UNION {[1..n -> Units] : n \in 0..ChunkSize}

VARIABLES pc,           \* control state
          outcome,      \* outcome[s]: how the attempt over scheme s went
          open,         \* the response has been opened and not closed
          headers, cookies, \* the markers in the response's headers, cookies
          arrived,      \* the units of the body that have been received
          body,         \* those that _read_body has kept
          technologies, \* the detections, by category
          software      \* signals["software_detected"]

vars == <<pc, outcome, open, headers, cookies, arrived, body, technologies, software>>

Schemes == {"https", "http"}

Init == /\ pc = "called"
        /\ outcome = [s \in Schemes |-> "untried"]
        /\ open = FALSE /\ headers = {} /\ cookies = {}
        /\ arrived = <<>> /\ body = <<>>
        /\ technologies = [c \in DOMAIN Tables |-> {}]
        /\ software = {}

Reject == /\ pc = "called"
          /\ pc' = "failed"
          /\ UNCHANGED <<outcome, open, headers, cookies, arrived, body, technologies,
                         software>>

Accept == /\ pc = "called"
          /\ pc' = "https"
          /\ UNCHANGED <<outcome, open, headers, cookies, arrived, body, technologies,
                         software>>

(* _fetch over scheme s answers.                                           *)
Fetched(s) == /\ pc = s
              /\ outcome' = [outcome EXCEPT ![s] = "answered"]
              /\ open' = TRUE
              /\ headers' \in SUBSET Texts({"header_name", "header_value"})
              /\ cookies' \in SUBSET Texts({"cookie_name"})
              /\ pc' = "body"
              /\ UNCHANGED <<arrived, body, technologies, software>>

(* Mutant: a timeout falls back as well.                                   *)
NotFetchedFallsBack(s, why) ==
  /\ pc = s
  /\ outcome' = [outcome EXCEPT ![s] = why]
  /\ pc' = IF s = "https" THEN "http" ELSE "failed"
  /\ UNCHANGED <<open, headers, cookies, arrived, body, technologies, software>>

(* Only a TLS or connection failure leads on to http; a connect timeout is *)
(* a connection failure, a read timeout is not.                            *)
NotFetched(s, why) ==
  /\ pc = s
  /\ outcome' = [outcome EXCEPT ![s] = why]
  /\ pc' = IF s = "https" /\ why \in {"ssl", "connection"} THEN "http" ELSE "failed"
  /\ UNCHANGED <<open, headers, cookies, arrived, body, technologies, software>>

-----------------------------------------------------------------------------
Remaining == MaxBody - Len(body)

(* Mutant: a chunk that fills the limit exactly does not end the reading.  *)
ReadChunkOver(chunk) ==
  /\ pc = "body"
  /\ arrived' = arrived \o chunk
  /\ IF Len(chunk) > Remaining
     THEN /\ body' = body \o SubSeq(chunk, 1, Remaining)
          /\ open' = FALSE /\ pc' = "fingerprint"
     ELSE body' = body \o chunk /\ UNCHANGED <<open, pc>>
  /\ UNCHANGED <<outcome, headers, cookies, technologies, software>>

(* One iteration of _read_body; an empty chunk changes nothing.            *)
ReadChunk(chunk) ==
  /\ pc = "body"
  /\ arrived' = arrived \o chunk
  /\ IF chunk # <<>> /\ Len(chunk) >= Remaining
     THEN /\ body' = body \o SubSeq(chunk, 1, Remaining)
          /\ open' = FALSE /\ pc' = "fingerprint"
     ELSE body' = body \o chunk /\ UNCHANGED <<open, pc>>
  /\ UNCHANGED <<outcome, headers, cookies, technologies, software>>

BodyEnds == /\ pc = "body"
            /\ open' = FALSE /\ pc' = "fingerprint"
            /\ UNCHANGED <<outcome, headers, cookies, arrived, body, technologies, software>>

(* The connection breaks while the body arrives: there is no fallback, and *)
(* finally closes the response.                                            *)
BodyBreaks == /\ pc = "body"
              /\ open' = FALSE /\ pc' = "failed"
              /\ UNCHANGED <<outcome, headers, cookies, arrived, body, technologies, software>>

-----------------------------------------------------------------------------
(* _extract_meta_tags: the first generator tag of the page.                *)
Generator(page) ==
  {page[i][2] : i \in {k \in DOMAIN page :
     page[k][1] = "tag" /\ \A j \in 1..(k - 1) : page[j][1] # "tag"}}

(* The tags are text of the page as well.                                  *)
Html(page) == {u[2] : u \in Elements(page)}

(* The inputs of _match_signatures.                                        *)
Inputs(h, c, meta, html) ==
  [type \in MarkerTypes |-> CASE type \in {"header_name", "header_value"} -> h
                              [] type = "cookie_name"    -> c
                              [] type = "meta_generator" -> meta
                              [] OTHER                   -> html]

(* Mutant: the last marker that fires decides.                             *)
MatchLast(markers, inputs) ==
  LET found[i \in 0..Len(markers)] ==
        IF i = 0 THEN [confidence |-> 0, evidence |-> {}]
        ELSE LET m == markers[i] IN
             IF m[2] \in inputs[m[1]]
             THEN [confidence |-> m[3], evidence |-> found[i - 1].evidence \cup {m}]
             ELSE found[i - 1]
  IN found[Len(markers)]

(* The loop over the markers of one technology.                            *)
Match(markers, inputs) ==
  LET found[i \in 0..Len(markers)] ==
        IF i = 0 THEN [confidence |-> 0, evidence |-> {}]
        ELSE LET m    == markers[i]
                 best == found[i - 1].confidence
             IN IF m[2] \in inputs[m[1]]
                THEN [confidence |-> IF m[3] > best THEN m[3] ELSE best,
                      evidence   |-> found[i - 1].evidence \cup {m}]
                ELSE found[i - 1]
  IN found[Len(markers)]

(* _match_signatures on the table of category c.                           *)
Detections(c, inputs) ==
  {[name |-> t, found |-> Match(Tables[c][t], inputs)] :
     t \in {u \in DOMAIN Tables[c] : Match(Tables[c][u], inputs).confidence > 0}}

(* The layer functions, each of which sees one kind of input.              *)
Layers == {Inputs(headers, {}, {}, {}), Inputs({}, cookies, {}, {}),
           Inputs({}, {}, Generator(body), {}), Inputs({}, {}, {}, Html(body))}

Fingerprint == /\ pc = "fingerprint"
               /\ technologies' = [c \in DOMAIN Tables |->
                    Detections(c, Inputs(headers, cookies, Generator(body), Html(body)))]
               /\ pc' = "signals"
               /\ UNCHANGED <<outcome, open, headers, cookies, arrived, body, software>>

(* techstack_extractor.                                                    *)
Extract == /\ pc = "signals"
           /\ software' = UNION {{d.name : d \in technologies[c]} : c \in DOMAIN Tables}
           /\ pc' = "done"
           /\ UNCHANGED <<outcome, open, headers, cookies, arrived, body, technologies>>

Ended == pc \in {"failed", "done"}

Next == \/ Reject \/ Accept \/ BodyEnds \/ BodyBreaks \/ Fingerprint \/ Extract
        \/ \E s \in Schemes :
             \/ Fetched(s)
             \/ \E why \in {"ssl", "connection", "timeout", "other"} : NotFetched(s, why)
        \/ \E chunk \in Chunks : ReadChunk(chunk)

-----------------------------------------------------------------------------
TypeOK == /\ pc \in {"called", "https", "http", "body", "fingerprint", "signals",
                     "failed", "done"}
          /\ outcome \in [Schemes -> {"untried", "answered", "ssl", "connection",
                                      "timeout", "other"}]
          /\ open \in BOOLEAN
          /\ Elements(body) \subseteq Units
          /\ \A c \in DOMAIN Tables : \A d \in technologies[c] : d.name \in DOMAIN Tables[c]

(* "Tries HTTPS first; falls back to HTTP if the HTTPS connection fails    *)
(* with an SSL or connection error": http is asked exactly then, a success *)
(* is the answer of the scheme tried last, and however the call ends the   *)
(* streamed response is closed.                                            *)
HttpIsLastResort ==
  /\ pc \in {"https", "http"} \/
       (outcome["http"] # "untried" <=> outcome["https"] \in {"ssl", "connection"})
  /\ pc = "done" => \E s \in Schemes : /\ outcome[s] = "answered"
                                       /\ s = "https" => outcome["http"] = "untried"
  /\ open <=> pc = "body"

(* The text that is searched is the beginning of what the server sent, cut *)
(* at the limit wherever the chunks fell, and reading stops as soon as the *)
(* limit is reached.                                                       *)
BodyIsPrefix ==
  /\ body = SubSeq(arrived, 1, IF Len(arrived) < MaxBody THEN Len(arrived) ELSE MaxBody)
  /\ pc = "body" => Len(body) < MaxBody

(* "Evidence lists are unioned, confidence is the max": the report is what *)
(* the four layers find on their own, merged, so a technology is in it     *)
(* exactly if some layer sees it; and the signal names these and no other. *)
ReportIsMerge ==
  pc = "done" =>
    /\ \A c \in DOMAIN Tables : \A t \in DOMAIN Tables[c] :
         LET seen == UNION {{d.found : d \in {e \in Detections(c, l) : e.name = t}} : l \in Layers}
             told == {d.found : d \in {e \in technologies[c] : e.name = t}}
         IN IF seen = {} THEN told = {}
            ELSE \E f \in told : /\ told = {f}
                                 /\ f.evidence = UNION {g.evidence : g \in seen}
                                 /\ \E g \in seen : f.confidence = g.confidence
                                 /\ \A g \in seen : f.confidence >= g.confidence
    /\ software = UNION {{t \in DOMAIN Tables[c] :
                            \E m \in Elements(Tables[c][t]), l \in Layers : m[2] \in l[m[1]]} :
                         c \in DOMAIN Tables}
=============================================================================
