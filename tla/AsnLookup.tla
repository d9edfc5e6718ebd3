------------------------------ MODULE AsnLookup ------------------------------
(***************************************************************************)
(* asn_lookup (src/tools/asn_tool.py): a whois service is asked over a     *)
(* plain socket and its reply is read until the service closes the         *)
(* connection; the timeout of the socket is for each recv, not for the     *)
(* whole.                                                                  *)
(*                                                                         *)
(* A line of the reply is a data line, or a heading, a line with too few   *)
(* fields, or blank; chunks may end anywhere, since they are joined before *)
(* they are split.  Blank lines may come for ever and are not kept.        *)
(***************************************************************************)
EXTENDS Naturals, Sequences

CONSTANTS DataLines,  \* lines with an AS number and all seven fields
          MaxLines,   \* bound: lines of a reply that are not blank
          NoLine      \* Python's None

AsnAssumption == /\ MaxLines \in Nat
                 /\ {NoLine, "heading", "short", "blank"} \cap DataLines = {}

Lines == DataLines \cup {"heading", "short"}

VARIABLES pc,     \* control state of the caller
          peer,   \* what the service does: sending, closed or silent
          lines,  \* the lines received so far
          asn     \* data_line

vars == <<pc, peer, lines, asn>>

Init == /\ pc = "called" /\ peer = "sending"
        /\ lines = <<>> /\ asn = NoLine

(* The target cannot be resolved, or the connection is refused or times    *)
(* out, or sending the query does.                                         *)
NotConnected == /\ pc = "called"
                /\ pc' = "failed"
                /\ UNCHANGED <<peer, lines, asn>>

Connect == /\ pc = "called"
           /\ pc' = "reading"
           /\ UNCHANGED <<peer, lines, asn>>

Recv(l) == /\ pc = "reading" /\ peer = "sending"
           /\ Len(lines) < MaxLines
           /\ lines' = Append(lines, l)
           /\ UNCHANGED <<pc, peer, asn>>

(* Mutant: what has come so far is used when the service falls silent.     *)
GivesUpAndParses == /\ pc = "reading" /\ peer = "silent"
                    /\ pc' = "parse"
                    /\ UNCHANGED <<peer, lines, asn>>

(* Mutant: the silence is not noticed.                                     *)
WaitsOn == pc = "reading" /\ peer = "silent" /\ UNCHANGED vars

(* No data within the timeout, or a reset: all that came is dropped.       *)
GivesUp == /\ pc = "reading" /\ peer = "silent"
           /\ pc' = "failed"
           /\ UNCHANGED <<peer, lines, asn>>

(* recv returns nothing.                                                   *)
EndOfReply == /\ pc = "reading" /\ peer = "closed"
              /\ pc' = "parse"
              /\ UNCHANGED <<peer, lines, asn>>

(* The loop over the lines breaks at the first data line.                  *)
Pick(reply) ==
  LET data == {i \in DOMAIN reply : reply[i] \in DataLines}
  IN IF data = {} THEN NoLine ELSE reply[CHOOSE i \in data : \A j \in data : i <= j]

Parse == /\ pc = "parse"
         /\ asn' = Pick(lines)
         /\ pc' = IF asn' = NoLine THEN "failed" ELSE "done"
         /\ UNCHANGED <<peer, lines>>

(* The service: it ends its reply or falls silent in the middle of it.     *)
PeerStops == /\ pc = "reading" /\ peer = "sending"
             /\ peer' \in {"closed", "silent"}
             /\ UNCHANGED <<pc, lines, asn>>

Ended == pc \in {"failed", "done"}

Caller == NotConnected \/ Connect \/ GivesUp \/ EndOfReply \/ Parse

Service == PeerStops \/ \E l \in Lines : Recv(l)

Next == Caller \/ Service

-----------------------------------------------------------------------------
TypeOK == /\ pc \in {"called", "reading", "parse", "failed", "done"}
          /\ peer \in {"sending", "closed", "silent"}
          /\ lines \in Seq(Lines) /\ Len(lines) <= MaxLines
          /\ asn \in DataLines \cup {NoLine}

(* An ASN is reported only from a reply whose end the service has marked,  *)
(* and it is the one of the first data line, wherever headings, blank and  *)
(* short lines stand; a reply with such a line is never called malformed.  *)
AnswerIsWhole ==
  /\ pc = "done" =>
       /\ peer = "closed"
       /\ \E i \in DOMAIN lines : /\ asn = lines[i] /\ asn \in DataLines
                                  /\ \A j \in 1..(i - 1) : lines[j] \notin DataLines
  /\ (pc = "failed" /\ peer = "closed") => \A i \in DOMAIN lines : lines[i] \notin DataLines
=============================================================================
