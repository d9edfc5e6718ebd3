------------------------- MODULE DnsEnumerationProofs -------------------------
(***************************************************************************)
(* Proofs about DnsEnumeration, for every length of the configured lists,  *)
(* every size of the pool and every number of addresses.                   *)
(*                                                                         *)
(* The argument: a future has an answer exactly when it is done, so a line *)
(* that has been written rests on an answer that no worker can change; and *)
(* when the PTR lookups are submitted the record lines are all written, so *)
(* the addresses they are for cannot change either.                        *)
(***************************************************************************)
EXTENDS DnsEnumeration, FiniteSetTheorems, WellFoundedInduction, TLAPS

(* A future has an answer when it is done, and is read only then.          *)
DoneMeansAnswered ==
  \A t \in Jobs : /\ job[t] = "done" => answer[t].kind # "unset"
                  /\ job[t] # "done" => answer[t] = Unset /\ line[t] = "unset"

(* The first lookup is over when the pool is used, and the domain exists.  *)
FirstKnown ==
  /\ pc \notin {"called", "rejected"} => answer[A].kind # "unset"
  /\ pc \notin {"called", "rejected", "missing"} => answer[A].kind # "nxdomain"
  /\ pc \in {"called", "rejected"} => line[A] = "unset" /\ \A t \in Jobs : job[t] = "new"

LinesRight ==
  \A t \in Lookups : line[t] # "unset" =>
     /\ answer[t].kind # "unset" /\ line[t] = Line(t, answer[t].kind)
     /\ t[1] = "record" => answer[t].kind # "nxdomain"

(* The columns the caller has passed are read.                             *)
ColumnsRead ==
  /\ pc \in {"srv", "dnssec", "subdomain", "chain", "ptr", "closing", "done"} =>
       Unread("record") = {}
  /\ pc \in {"dnssec", "subdomain", "chain", "ptr", "closing", "done"} => Unread("srv") = {}
  /\ pc \in {"subdomain", "chain", "ptr", "closing", "done"} => Unread("dnssec") = {}
  /\ pc \in {"chain", "ptr", "closing", "done"} => Unread("subdomain") = {}
  /\ pc \in {"closing", "done"} => Unread("ptr") = {}

(* PTR lookups are for addresses that were found, once all are known.      *)
PtrLater ==
  \A t \in PtrJobs : job[t] # "new" =>
     t \in Addresses /\ pc \in {"chain", "ptr", "closing", "done"}

MissingSeen ==
  pc \in {"cancelling", "missing"} => \E t \in Column("record") : answer[t].kind = "nxdomain"

QueueClosed == Returned => Queued = {}

EnumInv == /\ TypeOK /\ DoneMeansAnswered /\ FirstKnown /\ LinesRight
           /\ ColumnsRead /\ PtrLater /\ MissingSeen /\ QueueClosed

-----------------------------------------------------------------------------
LEMMA LookupsApart ==
  /\ A \in Lookups /\ A \notin Jobs /\ AAAA \in Batch
  /\ Batch \subseteq Jobs /\ PtrJobs \subseteq Jobs /\ Jobs \subseteq Lookups
  /\ \A t \in Batch : t[1] \in {"record", "srv", "subdomain", "dnssec"}
  /\ \A t \in PtrJobs : t[1] = "ptr"
  /\ \A t \in Lookups : t = A \/ t \in Batch \/ t \in PtrJobs
BY DnsAssumption DEF A, AAAA, Batch, PtrJobs, Jobs, Lookups

LEMMA ColumnsTyped ==
  /\ \A c \in {"record", "srv", "dnssec", "subdomain"} :
       \A t \in Column(c) : t \in Batch \cup {A} /\ t[1] = c
  /\ \A t \in Batch \cup {A} : t \in Column(t[1])
  /\ Column("ptr") = Addresses
BY LookupsApart DEF Column, A

(* Any answer is of the declared kind, and none is "unset".                *)
LEMMA AnswersTyped ==
  ASSUME NEW t \in Lookups, NEW a \in AnswersTo(t)
  PROVE  /\ a \in [kind : {"unset", "answer", "nxdomain", "noanswer", "failed", "garbled"},
                   size : 0..MaxAnswers]
         /\ a.kind # "unset"
<1>1. MaxAnswers \in Nat
  BY DnsAssumption
<1>2. CASE t \in {A, AAAA}
  BY <1>1, <1>2 DEF AnswersTo, Negative, Answer
<1>3. CASE t \notin {A, AAAA} /\ t[1] = "subdomain"
  <2>1. PICK q : a = Answer(SubdomainAnswer(q), 0)
    BY <1>3 DEF AnswersTo
  <2>2. SubdomainAnswer(q) \in {"answer", "failed", "noanswer"}
    BY DEF SubdomainAnswer
  <2> QED
    BY <2>1, <2>2, <1>1 DEF Answer
<1>4. CASE t \notin {A, AAAA} /\ t[1] # "subdomain"
  BY <1>1, <1>4 DEF AnswersTo, Negative, Answer
<1> QED
  BY <1>2, <1>3, <1>4

LEMMA LinesTyped == \A t, k : Line(t, k) \in {"found", "empty", "error"}
BY DEF Line

LEMMA InitInv == Init => EnumInv
<1> SUFFICES ASSUME Init PROVE EnumInv
  OBVIOUS
<1>1. MaxAnswers \in Nat /\ A \in Lookups /\ Jobs \subseteq Lookups
  BY LookupsApart, DnsAssumption
<1>2. Unset \in [kind : {"unset", "answer", "nxdomain", "noanswer", "failed", "garbled"},
                 size : 0..MaxAnswers] /\ Unset.kind = "unset"
  BY <1>1 DEF Unset, Answer
<1>3. TypeOK
  BY <1>1, <1>2 DEF Init, TypeOK
<1> QED
  BY <1>1, <1>2, <1>3, LookupsApart
  DEF Init, EnumInv, DoneMeansAnswered, FirstKnown, LinesRight, ColumnsRead, PtrLater,
      MissingSeen, QueueClosed, Returned, Queued

-----------------------------------------------------------------------------
(* One lemma for each kind of step.                                        *)

(* Steps that only move the caller on.                                     *)
LEMMA CallerMoves ==
  ASSUME EnumInv,
         \/ Reject \/ Submitted \/ NextColumn \/ PtrSubmitted \/ Close \/ Abandon
         \/ \E t \in Lookups : ReadMissing(t)
  PROVE  EnumInv'
<1> USE DEF EnumInv
<1>1. UNCHANGED <<job, answer, line>>
  BY DEF Reject, Submitted, NextColumn, PtrSubmitted, Close, Abandon, ReadMissing
<1>2. DoneMeansAnswered' /\ LinesRight'
  BY <1>1 DEF DoneMeansAnswered, LinesRight
<1>3. \A c : Unread(c)' = Unread(c) /\ Column(c)' = Column(c)
  BY <1>1 DEF Unread, Column, Addresses
<1>4. TypeOK'
  BY <1>1 DEF TypeOK, Reject, Submitted, NextColumn, PtrSubmitted, Close, Abandon,
              ReadMissing, After
<1>5. FirstKnown'
  BY <1>1 DEF FirstKnown, Reject, Submitted, NextColumn, PtrSubmitted, Close, Abandon,
              ReadMissing, After
<1>6. ColumnsRead'
  BY <1>3 DEF ColumnsRead, Reject, Submitted, NextColumn, PtrSubmitted, Close, Abandon,
              ReadMissing, After
<1>7. PtrLater'
  <2>1. pc \in {"chain", "ptr", "closing", "done"} =>
          pc' \in {"chain", "ptr", "closing", "done"}
    BY DEF Reject, Submitted, NextColumn, PtrSubmitted, Close, Abandon, ReadMissing, After
  <2> QED
    BY <1>1, <2>1 DEF PtrLater, Addresses
<1>8. MissingSeen'
  <2>1. ASSUME NEW t \in Lookups, ReadMissing(t)
        PROVE  t \in Column("record") /\ answer[t].kind = "nxdomain"
    BY <2>1 DEF ReadMissing, First, Unread
  <2> QED
    BY <1>1, <1>3, <2>1 DEF MissingSeen, Reject, Submitted, NextColumn, PtrSubmitted, Close,
              Abandon, ReadMissing, After
<1>9. QueueClosed'
  <2>1. Queued' = Queued
    BY <1>1 DEF Queued
  <2>2. Reject => Queued = {}
    BY DEF Reject, FirstKnown, Queued
  <2> QED
    BY <2>1, <2>2 DEF QueueClosed, Returned, Reject, Submitted, NextColumn, PtrSubmitted,
              Close, Abandon, ReadMissing, After
<1> QED
  BY <1>2, <1>4, <1>5, <1>6, <1>7, <1>8, <1>9

(* The lookup before the pool.                                             *)
LEMMA FirstLookupInv ==
  ASSUME EnumInv, FirstLookup
  PROVE  EnumInv'
<1> USE DEF EnumInv
<1>1. PICK a \in AnswersTo(A) :
        /\ answer' = [answer EXCEPT ![A] = a]
        /\ pc' = IF a.kind = "nxdomain" THEN "missing" ELSE "submit"
  BY DEF FirstLookup
<1>2. pc = "called" /\ UNCHANGED <<job, line>>
  BY DEF FirstLookup
<1>3. A \in Lookups /\ A \notin Jobs /\ Jobs \subseteq Lookups
  BY LookupsApart
<1>4. TypeOK' /\ answer'[A] = a /\ a.kind # "unset" /\ \A t \in Jobs : answer'[t] = answer[t]
  BY <1>1, <1>2, <1>3, AnswersTyped DEF TypeOK
<1>5. \A t \in Jobs : job[t] = "new" /\ line[t] = "unset"
  BY <1>2 DEF FirstKnown, DoneMeansAnswered
<1>6. \A t \in Lookups : line[t] = "unset"
  BY <1>2, <1>5, LookupsApart DEF FirstKnown
<1>7. DoneMeansAnswered' /\ FirstKnown' /\ LinesRight' /\ ColumnsRead'
  BY <1>1, <1>2, <1>4, <1>5, <1>6 DEF DoneMeansAnswered, FirstKnown, LinesRight, ColumnsRead
<1>8. PtrLater' /\ QueueClosed'
  BY <1>2, <1>5, LookupsApart DEF PtrLater, QueueClosed, Queued
<1>9. MissingSeen'
  <2>1. A \in Column("record")'
    BY DEF Column, A
  <2> QED
    BY <1>1, <1>4, <2>1 DEF MissingSeen
<1> QED
  BY <1>4, <1>7, <1>8, <1>9

(* Steps that queue or cancel a lookup, or give it to a worker.            *)
LEMMA FutureMoves ==
  ASSUME EnumInv, NEW t \in Jobs, Submit(t) \/ SubmitPtr(t) \/ Cancel(t) \/ Take(t)
  PROVE  EnumInv'
<1> USE DEF EnumInv
<1>1. /\ UNCHANGED <<pc, answer, line>>
      /\ \E s \in {"queued", "running", "cancelled"} : job' = [job EXCEPT ![t] = s]
  BY DEF Submit, SubmitPtr, Cancel, Take
<1>2. job[t] \in {"new", "queued"}
  BY DEF Submit, SubmitPtr, Cancel, Take, First, Queued
<1>3. \A u \in Jobs \ {t} : job'[u] = job[u]
  BY <1>1 DEF TypeOK
<1>4. job[t] # "done" /\ job'[t] # "done"
  BY <1>1, <1>2 DEF TypeOK
<1>5. TypeOK' /\ DoneMeansAnswered' /\ LinesRight'
  BY <1>1, <1>3, <1>4 DEF TypeOK, DoneMeansAnswered, LinesRight
<1>6. \A c : Unread(c)' = Unread(c) /\ Column(c)' = Column(c)
  BY <1>1 DEF Unread, Column, Addresses
<1>7. ColumnsRead' /\ MissingSeen'
  BY <1>1, <1>6 DEF ColumnsRead, MissingSeen
<1>8. pc \notin {"called", "rejected"}
  BY DEF Submit, SubmitPtr, Cancel, Take, First, Queued, FirstKnown
<1>9. FirstKnown'
  BY <1>1, <1>8 DEF FirstKnown
<1>10. PtrLater'
  <2>1. t \in PtrJobs => t \in Addresses /\ pc \in {"chain", "ptr", "closing", "done"}
    BY LookupsApart DEF Submit, SubmitPtr, Cancel, Take, First, Queued, PtrLater
  <2> QED
    BY <1>1, <1>3, <2>1 DEF PtrLater, Addresses
<1>11. QueueClosed'
  <2>1. ~Returned
    BY DEF Submit, SubmitPtr, Cancel, Take, First, Queued, QueueClosed, Returned
  <2> QED
    BY <1>1, <2>1 DEF QueueClosed, Returned
<1> QED
  BY <1>5, <1>7, <1>9, <1>10, <1>11

(* A worker hands in its answer; whatever rests on another answer stays.   *)
LEMMA FinishInv ==
  ASSUME EnumInv, NEW t \in Jobs, Finish(t)
  PROVE  EnumInv'
<1> USE DEF EnumInv
<1>1. /\ job[t] = "running" /\ job' = [job EXCEPT ![t] = "done"]
      /\ UNCHANGED <<pc, line>>
  BY DEF Finish
<1>2. PICK a \in AnswersTo(t) : answer' = [answer EXCEPT ![t] = a]
  BY DEF Finish
<1>3. t \in Lookups /\ t # A
  BY LookupsApart
<1>4. /\ a.kind # "unset" /\ answer'[t] = a
      /\ \A u \in Lookups \ {t} : answer'[u] = answer[u]
  BY <1>2, <1>3, AnswersTyped DEF TypeOK
<1>5. job'[t] = "done" /\ \A u \in Jobs \ {t} : job'[u] = job[u]
  BY <1>1 DEF TypeOK
<1>6. answer[t] = Unset /\ line[t] = "unset"
  BY <1>1 DEF DoneMeansAnswered
<1>7. TypeOK'
  BY <1>1, <1>2, <1>3, AnswersTyped DEF TypeOK
<1>8. DoneMeansAnswered'
  BY <1>1, <1>4, <1>5, LookupsApart DEF DoneMeansAnswered
<1>9. FirstKnown'
  BY <1>1, <1>3, <1>4, LookupsApart DEF FirstKnown
<1>10. LinesRight'
  BY <1>1, <1>4, <1>6 DEF LinesRight
<1>11. pc \in {"chain", "ptr", "closing", "done"} => Addresses' = Addresses
  <2>1. ASSUME pc \in {"chain", "ptr", "closing", "done"} PROVE t # AAAA
    BY <1>1, <1>6, <2>1, LookupsApart DEF ColumnsRead, Unread, Column, AAAA
  <2> QED
    BY <1>3, <1>4, <2>1, LookupsApart DEF Addresses
<1>12. ColumnsRead'
  <2>1. \A c \in {"record", "srv", "dnssec", "subdomain"} : Unread(c)' = Unread(c)
    BY <1>1 DEF Unread, Column
  <2>2. pc \in {"closing", "done"} => Unread("ptr")' = Unread("ptr")
    BY <1>1, <1>11 DEF Unread, Column
  <2> QED
    BY <1>1, <2>1, <2>2 DEF ColumnsRead
<1>13. PtrLater'
  <2>1. t \in PtrJobs => pc \in {"chain", "ptr", "closing", "done"} /\ t \in Addresses
    BY <1>1 DEF PtrLater
  <2> QED
    BY <1>1, <1>5, <1>11, <2>1, LookupsApart DEF PtrLater
<1>14. MissingSeen'
  <2>1. Column("record")' = Column("record") /\ Column("record") \subseteq Lookups
    BY LookupsApart DEF Column
  <2>2. answer[t].kind # "nxdomain"
    BY <1>6 DEF Unset, Answer
  <2> QED
    BY <1>1, <1>4, <2>1, <2>2 DEF MissingSeen
<1>15. QueueClosed'
  BY <1>1, <1>5 DEF QueueClosed, Queued, Returned
<1> QED
  BY <1>7, <1>8, <1>9, <1>10, <1>12, <1>13, <1>14, <1>15

(* The caller writes a line.                                               *)
LEMMA ReadInv ==
  ASSUME EnumInv, NEW t \in Lookups, Read(t)
  PROVE  EnumInv'
<1> USE DEF EnumInv
<1>1. /\ UNCHANGED <<pc, job, answer>>
      /\ line' = [line EXCEPT ![t] = Line(t, answer[t].kind)]
      /\ pc \in {"record", "srv", "dnssec", "subdomain", "ptr"}
      /\ t \in Column(pc) /\ Available(t)
      /\ ~(pc = "record" /\ answer[t].kind = "nxdomain")
  BY DEF Read, First, Unread, After
<1>2. /\ line'[t] = Line(t, answer[t].kind)
      /\ \A u \in Lookups \ {t} : line'[u] = line[u]
  BY <1>1 DEF TypeOK
<1>3. TypeOK'
  BY <1>1, LinesTyped DEF TypeOK
<1>4. answer[t].kind # "unset" /\ (t \in Jobs => job[t] = "done")
  BY <1>1, LookupsApart DEF Available, FirstKnown, DoneMeansAnswered
<1>5. DoneMeansAnswered' /\ FirstKnown'
  BY <1>1, <1>2, <1>4, LookupsApart DEF DoneMeansAnswered, FirstKnown
<1>6. t[1] = "record" => answer[t].kind # "nxdomain"
  BY <1>1, ColumnsTyped, LookupsApart DEF Addresses
<1>7. LinesRight'
  BY <1>1, <1>2, <1>4, <1>6 DEF LinesRight
<1>8. \A c : Column(c)' = Column(c) /\ Addresses' = Addresses
  BY <1>1 DEF Column, Addresses
<1>9. \A c : Unread(c) = {} => Unread(c)' = {}
  <2>1. line'[t] # "unset"
    BY <1>2, LinesTyped
  <2>2. ASSUME NEW c, Unread(c) = {}, NEW u \in Column(c), line'[u] = "unset" PROVE FALSE
    <3>1. u \in Lookups
      BY LookupsApart DEF Column, Addresses
    <3> QED
      BY <1>2, <2>1, <2>2, <3>1 DEF Unread
  <2> QED
    BY <1>8, <2>2 DEF Unread
<1>10. ColumnsRead' /\ PtrLater' /\ MissingSeen' /\ QueueClosed'
  BY <1>1, <1>8, <1>9 DEF ColumnsRead, PtrLater, MissingSeen, QueueClosed, Queued, Returned
<1> QED
  BY <1>3, <1>5, <1>7, <1>10

LEMMA NextInv == EnumInv /\ [Next]_vars => EnumInv'
<1> SUFFICES ASSUME EnumInv, [Next]_vars PROVE EnumInv'
  OBVIOUS
<1>1. CASE UNCHANGED vars
  BY <1>1 DEF vars, EnumInv, TypeOK, DoneMeansAnswered, FirstKnown, LinesRight, ColumnsRead,
              PtrLater, MissingSeen, QueueClosed, Queued, Returned, Unread, Column, Addresses
<1>2. CASE Caller
  BY <1>2, CallerMoves, FirstLookupInv, FutureMoves, ReadInv DEF Caller
<1>3. CASE \E t \in Jobs : Take(t) \/ Finish(t)
  BY <1>3, FutureMoves, FinishInv
<1> QED
  BY <1>1, <1>2, <1>3 DEF Next, Terminated

LEMMA EnumInvariant == Spec => []EnumInv
BY InitInv, NextInv, PTL DEF Spec

-----------------------------------------------------------------------------
(* dns_enumeration keeps its types: futures, answers and lines only ever   *)
(* have the declared values.                                               *)
THEOREM TypeCorrect == Spec => []TypeOK
<1>1. EnumInv => TypeOK
  BY DEF EnumInv
<1> QED
  BY <1>1, EnumInvariant, PTL

(* The result does not depend on timing, is complete, and says that the    *)
(* domain does not exist only if a record lookup said so.                  *)
THEOREM ResultsFollow == Spec => []ResultFollowsAnswers
<1>1. EnumInv => ResultFollowsAnswers
  <2> SUFFICES ASSUME EnumInv PROVE ResultFollowsAnswers
    OBVIOUS
  <2> USE DEF EnumInv
  <2>1. ASSUME pc = "done", NEW t \in Batch \cup {A} \cup Addresses
        PROVE  line[t] # "unset"
    <3>1. CASE t \in Batch \cup {A}
      BY <2>1, <3>1, ColumnsTyped, LookupsApart DEF ColumnsRead, Unread, A
    <3>2. CASE t \in Addresses
      BY <2>1, <3>2, ColumnsTyped DEF ColumnsRead, Unread
    <3> QED
      BY <2>1, <3>1, <3>2
  <2>2. ASSUME pc = "done", NEW t \in PtrJobs \ Addresses
        PROVE  job[t] = "new" /\ line[t] = "unset"
    BY <2>2, LookupsApart DEF PtrLater, DoneMeansAnswered
  <2>3. Addresses \subseteq PtrJobs /\ \A t \in Column("record") : t \in Batch \cup {A} /\ t[1] = "record"
    BY ColumnsTyped DEF Addresses
  <2>4. Unset.kind = "unset"
    BY DEF Unset, Answer
  <2>5. ASSUME pc = "done", NEW t \in Batch \cup {A} \cup Addresses
        PROVE  answer[t] # Unset /\ line[t] = Line(t, answer[t].kind)
               /\ (t[1] = "record" => answer[t].kind # "nxdomain")
    BY <2>1, <2>3, <2>4, <2>5, LookupsApart DEF LinesRight
  <2>6. ASSUME pc = "done", NEW t \in Jobs
        PROVE  job[t] = IF t \in Batch \cup Addresses THEN "done" ELSE "new"
    <3>1. CASE t \in Batch \cup Addresses
      BY <2>1, <2>6, <3>1 DEF DoneMeansAnswered
    <3>2. CASE t \notin Batch \cup Addresses
      BY <2>2, <2>6, <3>2 DEF Jobs
    <3> QED
      BY <3>1, <3>2
  <2>7. pc = "missing" => \E t \in Column("record") : answer[t].kind = "nxdomain"
    BY DEF MissingSeen
  <2> QED
    BY <2>2, <2>3, <2>5, <2>6, <2>7 DEF ResultFollowsAnswers
<1> QED
  BY <1>1, EnumInvariant, PTL

(* No query goes out once the caller has its answer.                       *)
THEOREM NoneAfterReturn == Spec => NoLookupAfterReturn
<1>1. EnumInv /\ [Next]_vars =>
        [Returned => \A t \in Jobs : job[t] # "running" => job'[t] # "running"]_vars
  <2> SUFFICES ASSUME EnumInv, Next, Returned, NEW t \in Jobs, job[t] # "running"
               PROVE  job'[t] # "running"
    BY DEF vars
  <2>1. Queued = {} /\ job \in [Jobs -> {"new", "queued", "running", "done", "cancelled"}]
    BY DEF EnumInv, QueueClosed, TypeOK
  <2>2. ASSUME NEW u \in Jobs, Take(u) PROVE FALSE
    BY <2>1, <2>2 DEF Take, First
  <2>3. ASSUME NEW u \in Jobs, Finish(u) PROVE job'[t] # "running"
    BY <2>1, <2>3 DEF Finish
  <2>4. ASSUME Caller PROVE job' = job
    BY <2>4 DEF Caller, Returned, Reject, FirstLookup, Submitted, NextColumn, PtrSubmitted,
                Close, Abandon, Read, ReadMissing, Submit, SubmitPtr, Cancel, After
  <2>5. Terminated => job' = job
    BY DEF Terminated, vars
  <2> QED
    BY <2>2, <2>3, <2>4, <2>5 DEF Next
<1> QED
  BY <1>1, EnumInvariant, PTL DEF Spec, NoLookupAfterReturn

-----------------------------------------------------------------------------
LEMMA JobsFinite == IsFiniteSet(Jobs)
<1>0. \A n \in Int : IsFiniteSet(1..n)
  BY FS_Interval
<1>1. {NRecords - 1, NServices, NSubdomains, NDnssec, 2 * MaxAnswers} \subseteq Int
  BY DnsAssumption
<1>2. \A c : IsFiniteSet({c})
  BY FS_Singleton
<1>3. IsFiniteSet(PtrJobs)
  BY <1>0, <1>1, <1>2, FS_Product DEF PtrJobs
<1>4. IsFiniteSet(Batch)
  BY <1>0, <1>1, <1>2, FS_Product, FS_Union DEF Batch
<1> QED
  BY <1>3, <1>4, FS_Union DEF Jobs

PoolInv == TypeOK /\ Cardinality(Running) <= Workers

LEMMA WorkersTyped == Workers \in Nat /\ Workers <= MaxWorkers /\ MaxWorkers \in Nat
BY DnsAssumption DEF Workers, LookupCount

(* At no time are there more queries under way than the limit, however     *)
(* long the lists are.                                                     *)
THEOREM PoolHolds == Spec => []PoolBound
<1>1. Init => Running = {}
  BY DEF Init, Running
<1>2. Init => Cardinality(Running) <= Workers
  BY <1>1, FS_EmptySet, WorkersTyped
<1>3. ASSUME TypeOK, Cardinality(Running) <= Workers, [Next]_vars
      PROVE  Cardinality(Running') <= Workers
  <2>1. IsFiniteSet(Running) /\ Cardinality(Running) \in Nat
    BY JobsFinite, FS_Subset, FS_CardinalityType DEF Running
  <2>2. ASSUME Running' \subseteq Running PROVE Cardinality(Running') <= Workers
    <3>1. Cardinality(Running') <= Cardinality(Running) /\ IsFiniteSet(Running')
      BY <2>1, <2>2, FS_Subset
    <3>2. Cardinality(Running') \in Nat
      BY <3>1, FS_CardinalityType
    <3> QED
      BY <1>3, <2>1, <3>1, <3>2, WorkersTyped
  <2>3. ASSUME NEW t \in Jobs, Take(t) PROVE Cardinality(Running') <= Workers
    <3>1. Running' = Running \cup {t} /\ Cardinality(Running) < Workers
      BY <1>3, <2>3 DEF Take, Running, TypeOK
    <3>2. Cardinality(Running') <= Cardinality(Running) + 1 /\ Cardinality(Running') \in Nat
      BY <2>1, <3>1, FS_AddElement, FS_CardinalityType
    <3> QED
      BY <2>1, <3>1, <3>2, WorkersTyped
  <2>4. ASSUME \/ UNCHANGED job
               \/ \E t \in Jobs, s \in {"queued", "cancelled", "done"} :
                    job' = [job EXCEPT ![t] = s]
        PROVE  Running' \subseteq Running
    BY <1>3, <2>4 DEF Running, TypeOK
  <2>5. CASE Caller
    BY <2>5, <2>2, <2>4 DEF Caller, Reject, FirstLookup, Submitted, NextColumn, PtrSubmitted,
       Close, Abandon, Read, ReadMissing, Submit, SubmitPtr, Cancel
  <2>6. ASSUME NEW t \in Jobs, Finish(t) PROVE Cardinality(Running') <= Workers
    BY <2>6, <2>2, <2>4 DEF Finish
  <2>7. CASE UNCHANGED vars \/ Terminated
    BY <2>7, <2>2, <2>4 DEF vars, Terminated
  <2> QED
    BY <1>3, <2>3, <2>5, <2>6, <2>7 DEF Next
<1>4. Workers' = Workers
  BY DEF Workers, LookupCount
<1>5. PoolInv => PoolBound
  <2> SUFFICES ASSUME PoolInv PROVE PoolBound
    OBVIOUS
  <2>1. IsFiniteSet(Running)
    BY JobsFinite, FS_Subset DEF Running
  <2> QED
    BY <2>1, FS_CardinalityType, WorkersTyped DEF PoolInv, PoolBound
<1>6. (TypeOK /\ TypeOK') /\ PoolInv /\ [Next]_vars => PoolInv'
  BY <1>3, <1>4 DEF PoolInv
<1>7. TypeOK /\ Init => PoolInv
  BY <1>2 DEF PoolInv
<1> QED
  BY <1>5, <1>6, <1>7, TypeCorrect, PTL DEF Spec

-----------------------------------------------------------------------------
(* What is still to come: each future goes through at most three stages,   *)
(* each line is written once, and the caller goes through its loops.       *)
Stage(t) == CASE job[t] = "new"     -> 0
              [] job[t] = "queued"  -> 1
              [] job[t] \in {"running", "cancelled"} -> 2
              [] OTHER              -> 3

Todo == {m \in Jobs \X (1..3) : Stage(m[1]) < m[2]}

Unwritten == {t \in Lookups : line[t] = "unset"}

CallerLeft == CASE pc = "called"     -> 10
                [] pc = "submit"     -> 9
                [] pc = "record"     -> 8
                [] pc = "srv"        -> 7
                [] pc = "dnssec"     -> 6
                [] pc = "subdomain"  -> 5
                [] pc = "chain"      -> 4
                [] pc = "ptr"        -> 3
                [] pc = "closing"    -> 2
                [] pc = "cancelling" -> 1
                [] OTHER             -> 0

StepsLeft == Cardinality(Todo) + Cardinality(Unwritten) + CallerLeft

StepsRunOut == [][StepsLeft' < StepsLeft]_vars

LEMMA TodoBounded == IsFiniteSet(Todo) /\ Cardinality(Todo) \in 0..(3 * Cardinality(Jobs))
<1>1. \A n \in Nat \ {0} : IsFiniteSet(1..n) /\ Cardinality(1..n) = n
  BY FS_Interval
<1>2. IsFiniteSet(1..3) /\ Cardinality(1..3) = 3
  <2>1. 3 \in Nat \ {0}
    OBVIOUS
  <2>2. (\A n \in Nat \ {0} : IsFiniteSet(1..n) /\ Cardinality(1..n) = n)
          => IsFiniteSet(1..3) /\ Cardinality(1..3) = 3
    BY <2>1, Zenon
  <2> QED
    BY <1>1, <2>2
<1>3. /\ IsFiniteSet(Jobs \X (1..3))
      /\ Cardinality(Jobs \X (1..3)) = Cardinality(Jobs) * 3
  BY <1>2, FS_Product, JobsFinite
<1>4. Todo \subseteq Jobs \X (1..3)
  BY DEF Todo
<1>5. /\ Cardinality(Jobs) \in Nat /\ Cardinality(Todo) \in Nat
      /\ Cardinality(Todo) <= Cardinality(Jobs \X (1..3))
  BY <1>3, <1>4, FS_Subset, FS_CardinalityType, JobsFinite
<1> QED
  BY <1>3, <1>4, <1>5, FS_Subset

LEMMA UnwrittenBounded ==
  /\ IsFiniteSet(Unwritten) /\ Cardinality(Lookups) \in Nat
  /\ Cardinality(Unwritten) \in Nat /\ Cardinality(Unwritten) <= Cardinality(Lookups)
<1>1. IsFiniteSet(Lookups)
  BY JobsFinite, FS_Singleton, FS_Union DEF Lookups
<1> QED
  BY <1>1, FS_Subset, FS_CardinalityType DEF Unwritten

(* A future that goes up a stage leaves less to do.                        *)
LEMMA TodoShrinks ==
  ASSUME NEW t \in Jobs, NEW s, Stage(t) < Stage(t)',
         job \in [Jobs -> {"new", "queued", "running", "done", "cancelled"}],
         job' = [job EXCEPT ![t] = s]
  PROVE  Cardinality(Todo') \in Nat /\ Cardinality(Todo') < Cardinality(Todo)
<1>1. /\ Stage(t) \in 0..3 /\ Stage(t)' \in 0..3
      /\ \A u \in Jobs : u # t => Stage(u)' = Stage(u)
  BY DEF Stage
<1>2. Todo' \subseteq Todo
  BY <1>1 DEF Todo
<1>3. PICK m \in Jobs \X (1..3) : m[1] = t /\ m[2] = Stage(t)'
  <2>1. <<t, Stage(t)'>> \in Jobs \X (1..3)
    BY <1>1
  <2> QED
    BY <2>1
<1>4. m \in Todo /\ m \notin Todo'
  BY <1>1, <1>3 DEF Todo
<1>5. /\ IsFiniteSet(Todo') /\ Cardinality(Todo') <= Cardinality(Todo)
      /\ Cardinality(Todo') # Cardinality(Todo)
  BY <1>2, <1>4, TodoBounded, FS_Subset
<1>6. Cardinality(Todo') \in Nat /\ Cardinality(Todo) \in Nat
  BY <1>5, TodoBounded, FS_CardinalityType
<1> QED
  BY <1>5, <1>6

LEMMA StepsRun == TypeOK /\ [Next]_vars => [StepsLeft' < StepsLeft]_vars
<1> SUFFICES ASSUME TypeOK, Next, ~UNCHANGED vars
             PROVE  StepsLeft' < StepsLeft
  BY DEF Next, Terminated
<1>1. CallerLeft \in Nat
  BY DEF CallerLeft
<1>2. Cardinality(Todo) \in Nat /\ Cardinality(Unwritten) \in Nat
  BY TodoBounded, UnwrittenBounded
<1>3. CASE \/ Reject \/ FirstLookup \/ Submitted \/ NextColumn \/ PtrSubmitted \/ Close
           \/ Abandon \/ \E t \in Lookups : ReadMissing(t)
  <2>1. job' = job /\ line' = line
    BY <1>3 DEF Reject, FirstLookup, Submitted, NextColumn, PtrSubmitted, Close, Abandon,
                ReadMissing
  <2>2. Todo' = Todo /\ Unwritten' = Unwritten
    BY <2>1 DEF Todo, Stage, Unwritten
  <2>3. \/ pc = "called" /\ pc' \in {"rejected", "missing", "submit"}
        \/ pc = "submit" /\ pc' = "record"
        \/ pc = "record" /\ pc' \in {"srv", "cancelling"}
        \/ pc = "srv" /\ pc' = "dnssec"
        \/ pc = "dnssec" /\ pc' = "subdomain"
        \/ pc = "subdomain" /\ pc' = "chain"
        \/ pc = "chain" /\ pc' = "ptr"
        \/ pc = "ptr" /\ pc' = "closing"
        \/ pc = "closing" /\ pc' = "done"
        \/ pc = "cancelling" /\ pc' = "missing"
    BY <1>3 DEF Reject, FirstLookup, Submitted, NextColumn, PtrSubmitted, Close, Abandon,
                ReadMissing, After
  <2>4. CallerLeft' \in Nat /\ CallerLeft' < CallerLeft
    BY <2>3 DEF CallerLeft
  <2> HIDE DEF CallerLeft, Todo, Unwritten
  <2> QED
    BY <1>1, <1>2, <2>2, <2>4 DEF StepsLeft
<1>4. ASSUME NEW t \in Lookups, Read(t)
      PROVE  StepsLeft' < StepsLeft
  <2>1. /\ UNCHANGED <<pc, job>> /\ line[t] = "unset"
        /\ line' = [line EXCEPT ![t] = Line(t, answer[t].kind)]
        /\ Line(t, answer[t].kind) # "unset"
    BY <1>4, LinesTyped DEF Read, First, Unread
  <2>2. CallerLeft' = CallerLeft /\ Todo' = Todo
    BY <2>1 DEF CallerLeft, Todo, Stage
  <2>3. Unwritten' = Unwritten \ {t} /\ t \in Unwritten
    BY <2>1 DEF Unwritten, TypeOK
  <2>4. Cardinality(Unwritten') = Cardinality(Unwritten) - 1
    BY <2>3, UnwrittenBounded, FS_RemoveElement
  <2> HIDE DEF CallerLeft, Todo, Unwritten
  <2> QED
    BY <1>1, <1>2, <2>2, <2>4 DEF StepsLeft
<1>5. ASSUME NEW t \in Jobs, Submit(t) \/ SubmitPtr(t) \/ Cancel(t) \/ Take(t) \/ Finish(t)
      PROVE  StepsLeft' < StepsLeft
  <2>1. CallerLeft' = CallerLeft /\ Unwritten' = Unwritten
    BY <1>5 DEF Submit, SubmitPtr, Cancel, Take, Finish, CallerLeft, Unwritten
  <2>2. job \in [Jobs -> {"new", "queued", "running", "done", "cancelled"}]
    BY DEF TypeOK
  <2>3. \/ job[t] = "new" /\ job' = [job EXCEPT ![t] = "queued"]
        \/ job[t] = "queued" /\ job' = [job EXCEPT ![t] = "cancelled"]
        \/ job[t] = "queued" /\ job' = [job EXCEPT ![t] = "running"]
        \/ job[t] = "running" /\ job' = [job EXCEPT ![t] = "done"]
    BY <1>5 DEF Submit, SubmitPtr, Cancel, Take, Finish, First, Queued
  <2>4. PICK s : job' = [job EXCEPT ![t] = s] /\ Stage(t) < Stage(t)'
    BY <2>2, <2>3 DEF Stage
  <2>5. Cardinality(Todo') \in Nat /\ Cardinality(Todo') < Cardinality(Todo)
    BY <2>2, <2>4, TodoShrinks
  <2> HIDE DEF CallerLeft, Todo, Unwritten
  <2> QED
    BY <1>1, <1>2, <2>1, <2>5 DEF StepsLeft
<1> QED
  BY <1>3, <1>4, <1>5 DEF Next, Caller, Terminated

(* A call of dns_enumeration is finite, whatever the answers and however   *)
(* the pool interleaves with the caller, the lookups it leaves running     *)
(* included: each step leaves fewer to come.                               *)
THEOREM CallsRunOut ==
  Spec => /\ [](StepsLeft \in 0..(3 * Cardinality(Jobs) + Cardinality(Lookups) + 10))
          /\ StepsRunOut
<1>1. StepsLeft \in 0..(3 * Cardinality(Jobs) + Cardinality(Lookups) + 10)
  <2>1. CallerLeft \in 0..10
    BY DEF CallerLeft
  <2>2. Cardinality(Jobs) \in Nat
    BY JobsFinite, FS_CardinalityType
  <2> HIDE DEF Todo, Unwritten, CallerLeft
  <2> QED
    BY <2>1, <2>2, TodoBounded, UnwrittenBounded DEF StepsLeft
<1> QED
  BY <1>1, TypeCorrect, StepsRun, PTL DEF Spec, StepsRunOut

-----------------------------------------------------------------------------
(* What the caller can do next: each line is the guard of one or more of   *)
(* its actions.                                                            *)
CallerReady ==
  \/ pc = "called"
  \/ pc = "submit" /\ \/ \A t \in Batch : job[t] # "new"
                      \/ \E t \in Jobs : First(t, {u \in Batch : job[u] = "new"})
  \/ pc \in DOMAIN After /\ \/ Unread(pc) = {}
                            \/ \E t \in Lookups : First(t, Unread(pc)) /\ Available(t)
  \/ pc = "chain" /\ \/ \A t \in Addresses : job[t] # "new"
                     \/ \E t \in Jobs : First(t, {u \in Addresses : job[u] = "new"})
  \/ pc = "closing" /\ Queued = {} /\ Running = {}
  \/ pc = "cancelling" /\ (Queued = {} \/ \E t \in Jobs : First(t, Queued))

(* A worker is free and the queue has a head.                              *)
PoolReady == Cardinality(Running) < Workers /\ \E t \in Jobs : First(t, Queued)

CanGoOn == ~Returned => Running # {} \/ PoolReady \/ CallerReady

(* What the caller blocks on has been submitted, and is only cancelled     *)
(* when the caller no longer waits for it.                                 *)
SubmittedFirst ==
  /\ pc \in {"record", "srv", "dnssec", "subdomain"} => \A t \in Batch : job[t] # "new"
  /\ pc \in {"chain", "ptr", "closing", "done"} => \A t \in Batch : job[t] # "new"
  /\ pc \in {"ptr", "closing", "done"} => \A t \in Addresses : job[t] # "new"
  /\ \A t \in Jobs : job[t] = "cancelled" => pc \in {"cancelling", "missing"}

LEMMA SubmittedInvariant == Spec => []SubmittedFirst
<1>1. Init => SubmittedFirst
  BY DEF Init, SubmittedFirst
<1>2. EnumInv /\ SubmittedFirst /\ [Next]_vars => SubmittedFirst'
  <2> SUFFICES ASSUME EnumInv, SubmittedFirst, [Next]_vars PROVE SubmittedFirst'
    OBVIOUS
  <2>1. job \in [Jobs -> {"new", "queued", "running", "done", "cancelled"}]
    BY DEF EnumInv, TypeOK
  <2>2. CASE UNCHANGED vars
    BY <2>2 DEF vars, SubmittedFirst, Addresses
  <2>3. CASE \/ Reject \/ FirstLookup \/ Submitted \/ NextColumn \/ PtrSubmitted \/ Close
             \/ Abandon \/ \E t \in Lookups : Read(t) \/ ReadMissing(t)
    <3>1. job' = job
      BY <2>3 DEF Reject, FirstLookup, Submitted, NextColumn, PtrSubmitted, Close, Abandon, Read,
                  ReadMissing
    <3>2. FirstLookup \/ Addresses' = Addresses
      BY <2>3 DEF Reject, Submitted, NextColumn, PtrSubmitted, Close, Abandon, Read,
                  ReadMissing, Addresses
    <3>3. \/ FirstLookup /\ pc = "called" /\ pc' \in {"missing", "submit"}
          \/ Addresses' = Addresses /\ pc' = pc
          \/ pc = "called" /\ pc' = "rejected"
          \/ pc = "submit" /\ pc' = "record" /\ \A t \in Batch : job[t] # "new"
          \/ pc = "record" /\ pc' \in {"srv", "cancelling"}
          \/ pc = "srv" /\ pc' = "dnssec"
          \/ pc = "dnssec" /\ pc' = "subdomain"
          \/ pc = "subdomain" /\ pc' = "chain"
          \/ /\ pc = "chain" /\ pc' = "ptr" /\ Addresses' = Addresses
             /\ \A t \in Addresses : job[t] # "new"
          \/ pc = "ptr" /\ pc' = "closing" /\ Addresses' = Addresses
          \/ pc = "closing" /\ pc' = "done" /\ Addresses' = Addresses
          \/ pc = "cancelling" /\ pc' = "missing"
      BY <2>3, <3>2 DEF Reject, FirstLookup, Submitted, NextColumn, PtrSubmitted, Close, Abandon,
                  Read, ReadMissing, After
    <3> HIDE DEF Addresses
    <3> QED
      BY <3>1, <3>3 DEF SubmittedFirst
  <2>4. ASSUME NEW t \in Jobs, Submit(t) \/ SubmitPtr(t) \/ Cancel(t) \/ Take(t) \/ Finish(t)
        PROVE  SubmittedFirst'
    <3>1. /\ pc' = pc
          /\ \E s \in {"queued", "running", "done", "cancelled"} :
               /\ job' = [job EXCEPT ![t] = s]
               /\ s = "cancelled" => pc = "cancelling"
      BY <2>4 DEF Submit, SubmitPtr, Cancel, Take, Finish
    <3>2. pc \in {"ptr", "closing", "done"} => Addresses' = Addresses
      <4>1. pc \in {"ptr", "closing", "done"} /\ Finish(t) => t # AAAA
        BY LookupsApart
        DEF EnumInv, DoneMeansAnswered, ColumnsRead, Unread, Column, AAAA, Finish
      <4>2. pc \in {"ptr", "closing", "done"} => answer'[A] = answer[A] /\ answer'[AAAA] = answer[AAAA]
        BY <2>4, <4>1, LookupsApart DEF EnumInv, TypeOK, Submit, SubmitPtr, Cancel, Take, Finish
      <4> QED
        BY <4>2 DEF Addresses
    <3>3. \A u \in Jobs : job[u] # "new" => job'[u] # "new"
      BY <2>1, <3>1
    <3>4. \A u \in Jobs : job'[u] = "cancelled" => pc \in {"cancelling", "missing"}
      BY <2>1, <3>1 DEF SubmittedFirst
    <3>5. Addresses \subseteq Jobs /\ Batch \subseteq Jobs
      BY LookupsApart DEF Addresses
    <3> HIDE DEF Addresses
    <3> QED
      BY <3>1, <3>2, <3>3, <3>4, <3>5 DEF SubmittedFirst
  <2> QED
    BY <2>2, <2>3, <2>4 DEF Next, Caller, Terminated
<1> QED
  BY <1>1, <1>2, EnumInvariant, PTL DEF Spec

(* Any set of lookups that is not empty has a first one.                   *)
Rank(t) == 4 * t[2] + Place[t[1]]

LEMMA LookupPairs ==
  /\ \A t \in Lookups : /\ t[1] \in {"record", "srv", "subdomain", "dnssec", "ptr"}
                        /\ t[2] \in Nat /\ t = <<t[1], t[2]>>
                        /\ Place[t[1]] \in 0..3 /\ Rank(t) \in Nat
<1>1. \A t \in Lookups : /\ t[1] \in {"record", "srv", "subdomain", "dnssec", "ptr"}
                         /\ t[2] \in Nat /\ t = <<t[1], t[2]>>
  BY DnsAssumption DEF Lookups, Jobs, Batch, PtrJobs, A
<1> QED
  BY <1>1 DEF Place, Rank

LEMMA RanksApart ==
  ASSUME NEW t \in Lookups, NEW u \in Lookups, Rank(t) = Rank(u),
         t[1] = "ptr" <=> u[1] = "ptr"
  PROVE  t = u
<1>1. t[2] = u[2] /\ Place[t[1]] = Place[u[1]]
  BY LookupPairs DEF Rank
<1>2. t[1] = u[1]
  BY <1>1, LookupPairs DEF Place
<1> QED
  BY <1>1, <1>2, LookupPairs

LEMMA FirstExists ==
  ASSUME NEW S \in SUBSET Lookups, S # {}
  PROVE  \E t \in S : First(t, S)
<1> DEFINE R == {ss \in Nat \X Nat : ss[1] < ss[2]}
           Early == {t \in S : t[1] # "ptr"}
           Best == IF Early # {} THEN Early ELSE S
           Ranks == {Rank(t) : t \in Best}
<1>1. IsWellFoundedOn(R, Nat)
  BY NatLessThanWellFounded DEF OpToRel
<1>2. Ranks \subseteq Nat /\ Ranks # {}
  BY LookupPairs
<1> HIDE DEF R, Ranks
<1>3. PICK n \in Ranks : \A m \in Ranks : <<m, n>> \notin R
  BY <1>1, <1>2, WFMin
<1>4. PICK t \in Best : n = Rank(t)
  BY <1>3 DEF Ranks
<1>5. ASSUME NEW u \in S \ {t} PROVE Precedes(t, u)
  <2>1. CASE u \notin Best
    BY <1>4, <2>1 DEF Precedes
  <2>2. CASE u \in Best
    <3>1. (t[1] = "ptr") <=> (u[1] = "ptr")
      BY <1>4, <2>2
    <3>2. Rank(t) # Rank(u) /\ Rank(t) \in Nat /\ Rank(u) \in Nat
      BY <1>4, <1>5, <3>1, RanksApart, LookupPairs
    <3>3. ~(Rank(u) < Rank(t))
      <4>1. Rank(u) \in Ranks
        BY <2>2 DEF Ranks
      <4> QED
        BY <1>3, <1>4, <3>2, <4>1 DEF R
    <3>4. Rank(t) < Rank(u)
      BY <3>2, <3>3
    <3> QED
      BY <3>1, <3>4 DEF Precedes, Rank
  <2> QED
    BY <2>1, <2>2
<1> QED
  BY <1>4, <1>5 DEF First

LEMMA SomeWorker == Workers \in Nat /\ Workers > 0
BY DnsAssumption DEF Workers, LookupCount

(* The call never waits in vain, whatever the lists, the answers and the   *)
(* size of the pool: until it returns the caller can go on, or a lookup is *)
(* running, or a free worker can take the head of the queue.  In           *)
(* particular a future the caller blocks on was submitted and has not been *)
(* cancelled.                                                              *)
THEOREM NeverWaitsInVain == Spec => []CanGoOn
<1>1. EnumInv /\ SubmittedFirst => CanGoOn
  <2> SUFFICES ASSUME EnumInv, SubmittedFirst, ~Returned, Running = {}
               PROVE  PoolReady \/ CallerReady
    BY DEF CanGoOn
  <2>1. /\ Jobs \subseteq Lookups /\ Batch \subseteq Jobs /\ Addresses \subseteq Jobs
        /\ Queued \subseteq Jobs
        /\ \A c : Unread(c) \subseteq Lookups
    BY LookupsApart DEF Addresses, Queued, Unread, Column
  <2>2. \A S \in SUBSET Jobs : S # {} => \E t \in Jobs : First(t, S)
    BY <2>1, FirstExists
  <2>3. Queued # {} => PoolReady
    <3>1. Cardinality(Running) < Workers
      BY FS_EmptySet, SomeWorker
    <3> QED
      BY <2>1, <2>2, <3>1 DEF PoolReady
  <2>4. CASE pc \in {"called", "closing", "cancelling"}
    BY <2>3, <2>4 DEF CallerReady
  <2>5. CASE pc = "submit"
    <3>1. {u \in Batch : job[u] = "new"} \in SUBSET Jobs
      BY <2>1
    <3> QED
      BY <2>2, <2>5, <3>1 DEF CallerReady
  <2>6. CASE pc = "chain"
    <3>1. {u \in Addresses : job[u] = "new"} \in SUBSET Jobs
      BY <2>1
    <3> QED
      BY <2>2, <2>6, <3>1 DEF CallerReady
  <2>7. CASE pc \in {"record", "srv", "dnssec", "subdomain", "ptr"} /\ Unread(pc) # {}
    <3>1. PICK t \in Lookups : First(t, Unread(pc))
      BY <2>1, <2>7, FirstExists
    <3>2. t \in Column(pc)
      BY <3>1 DEF First, Unread
    <3>3. t # A => t \in Batch \cup Addresses /\ t \in Jobs
      BY <2>1, <2>7, <3>2, ColumnsTyped
    <3>4. t # A => job[t] # "new"
      <4>1. CASE pc = "ptr"
        BY <4>1, <3>2, ColumnsTyped DEF SubmittedFirst
      <4>2. CASE pc # "ptr"
        BY <2>7, <4>2, <3>2, ColumnsTyped DEF SubmittedFirst
      <4> QED
        BY <4>1, <4>2
    <3>5. t # A => job[t] \in {"queued", "done"}
      BY <2>7, <3>3, <3>4 DEF SubmittedFirst, EnumInv, TypeOK, Running
    <3>6. Available(t) \/ Queued # {}
      BY <3>3, <3>5 DEF Available, Queued
    <3>7. pc \in DOMAIN After
      BY <2>7 DEF After
    <3> QED
      BY <2>3, <3>1, <3>6, <3>7 DEF CallerReady
  <2>8. CASE pc \in {"record", "srv", "dnssec", "subdomain", "ptr"} /\ Unread(pc) = {}
    <3>1. pc \in DOMAIN After
      BY <2>8 DEF After
    <3> QED
      BY <2>8, <3>1 DEF CallerReady
  <2> QED
    BY <2>4, <2>5, <2>6, <2>7, <2>8 DEF EnumInv, TypeOK, Returned
<1> QED
  BY <1>1, EnumInvariant, SubmittedInvariant, PTL
=============================================================================
