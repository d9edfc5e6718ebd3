------------------------------ MODULE SslInspect ------------------------------
(***************************************************************************)
(* ssl_inspect (src/tools/ssl_tool.py): a verified connection is made, the *)
(* certificate's dates, the protocol and the cipher are classified and     *)
(* rated, and ssl_extractor (src/tools/signals/ssl.py) warns by the days   *)
(* that are left.                                                          *)
(*                                                                         *)
(* Time counts in half days, since days are rounded down: verification     *)
(* and judgement are at different times.  Names, addresses, keys and       *)
(* extensions of the certificate are left out.                             *)
(***************************************************************************)
EXTENDS Integers

CONSTANTS Leads,       \* half days from verification to the certificate's end
          Validities,  \* days from the certificate's start to its end
          Delays,      \* half days that judging may take
          Unknown      \* bits that are not told

SslAssumption == /\ Leads \cup Delays \cup Validities \subseteq Nat

(* create_default_context with minimum_version accepts these only.         *)
Connections == [tls : {"TLSv1.2", "TLSv1.3"}, weakName : BOOLEAN,
                bits : {112, 128, 256, Unknown}, lead : Leads, validity : Validities]

VARIABLES pc,          \* control state
          connection,  \* what was negotiated, in a set of at most one
          delay,       \* half days from verification to judgement
          judgement,   \* the derived fields of the result, likewise
          expiryWarning \* what the extractor adds to auto_warnings

vars == <<pc, connection, delay, judgement, expiryWarning>>

DaysLeft(lead, late) == (lead - late) \div 2

Rank(tls) == IF tls = "TLSv1.3" THEN 5 ELSE 4

(* _classify_tls.                                                          *)
Tls(c) == IF Rank(c.tls) >= 5 THEN "Strong" ELSE "Good"

(* _is_weak_cipher and _classify_cipher.                                   *)
WeakCipher(c) == c.weakName \/ (c.bits # Unknown /\ c.bits < 128)

Cipher(c) == CASE WeakCipher(c)                       -> "Weak"
               [] ~WeakCipher(c) /\ c.bits = Unknown  -> "Unknown"
               [] OTHER -> IF c.bits >= 256 THEN "Strong" ELSE "Good"

Status(days) == CASE days < 0      -> "Expired"
                  [] days \in 0..30 -> "Expiring Soon"
                  [] OTHER         -> "Healthy"

Score(c, days) == (IF Tls(c) = "Strong" THEN 3 ELSE 2)
                  + (CASE Cipher(c) = "Strong" -> 3 [] Cipher(c) = "Good" -> 2 [] OTHER -> 0)
                  + (IF days > 30 THEN 2 ELSE 1)
                  + (CASE c.validity <= 398 -> 2 [] c.validity \in 399..825 -> 1 [] OTHER -> 0)

Grade(score) == CASE score >= 9     -> "Excellent"
                  [] score \in 7..8 -> "Good"
                  [] score \in 4..6 -> "Fair"
                  [] OTHER          -> "Poor"

(* Mutant: expiry is left to the score.                                    *)
RatingNoExpiry(c, days) == IF Cipher(c) = "Weak" THEN "Poor" ELSE Grade(Score(c, days))

(* _security_rating; no protocol that is accepted is weak.                 *)
Rating(c, days) == IF days < 0 \/ Cipher(c) = "Weak" THEN "Poor" ELSE Grade(Score(c, days))

-----------------------------------------------------------------------------
Init == /\ pc = "called" /\ connection = {} /\ delay = 0
        /\ judgement = {} /\ expiryWarning = "none"

(* The domain is invalid, or the connection fails; a certificate that has  *)
(* already ended is not verified.                                          *)
Fails == /\ pc = "called"
         /\ pc' = "failed"
         /\ UNCHANGED <<connection, delay, judgement, expiryWarning>>

Verified(c) == /\ pc = "called"
               /\ connection' = {c}
               /\ pc' = "judge"
               /\ UNCHANGED <<delay, judgement, expiryWarning>>

Judge == /\ pc = "judge"
         /\ \E late \in Delays :
              /\ delay' = late
              /\ judgement' = {LET days == DaysLeft(c.lead, late) IN
                                [days |-> days, status |-> Status(days), tls |-> Tls(c),
                                 cipher |-> Cipher(c), rating |-> Rating(c, days)] :
                              c \in connection}
         /\ pc' = "signals"
         /\ UNCHANGED <<connection, expiryWarning>>

(* ssl_extractor.                                                          *)
Extract == /\ pc = "signals"
           /\ \E j \in judgement :
                expiryWarning' = CASE j.days < 0       -> "expired"
                                   [] j.days \in 0..13  -> "critical"
                                   [] j.days \in 14..29 -> "high"
                                   [] OTHER             -> "none"
           /\ pc' = "done"
           /\ UNCHANGED <<connection, delay, judgement>>

Ended == pc \in {"failed", "done"}

Next == Fails \/ Judge \/ Extract \/ \E c \in Connections : Verified(c)

-----------------------------------------------------------------------------
TypeOK == /\ pc \in {"called", "judge", "signals", "failed", "done"}
          /\ connection \subseteq Connections
          /\ delay \in Delays \cup {0}
          /\ expiryWarning \in {"none", "expired", "critical", "high"}

Grades == [Poor |-> 0, Fair |-> 1, Good |-> 2, Excellent |-> 3, Weak |-> 0, Unknown |-> 1,
           Strong |-> 3]

(* c is in no respect worse than d.                                        *)
NoWorse(c, d) == /\ Rank(c.tls) >= Rank(d.tls)
                 /\ Grades[Cipher(c)] >= Grades[Cipher(d)]
                 /\ c.lead >= d.lead /\ c.validity <= d.validity

(* "An expired certificate, a weak TLS version or a weak cipher caps the   *)
(* rating": a connection in no respect better is never rated better;       *)
(* "Expired" is said exactly if the certificate ended, by however little,  *)
(* before the judgement, and then the rating is Poor and the warning says  *)
(* so; and the extractor's own thresholds never warn of a certificate that *)
(* the tool calls healthy.                                                 *)
RatingFollowsEvidence ==
  pc = "done" =>
    \A c \in connection, j \in judgement :
      /\ \A d \in Connections :
           NoWorse(c, d) => Grades[j.rating] >= Grades[Rating(d, DaysLeft(d.lead, delay))]
      /\ j.status = "Expired" <=> c.lead < delay
      /\ j.status = "Expired" <=> expiryWarning = "expired"
      /\ (j.status = "Expired" \/ j.cipher = "Weak") => j.rating = "Poor"
      /\ expiryWarning # "none" => j.status # "Healthy"
=============================================================================
