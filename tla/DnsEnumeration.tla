--------------------------- MODULE DnsEnumeration ---------------------------
(***************************************************************************)
(* One call of dns_enumeration (src/tools/dns_tool.py): a first lookup on  *)
(* the calling thread, then a bounded pool of worker threads that runs the *)
(* record, SRV, subdomain and DNSSEC lookups in submission order, while    *)
(* the caller reads the futures in configured order; a second batch of PTR *)
(* lookups uses the same pool.  An NXDOMAIN for a record type of the       *)
(* target ends the call early and cancels what has not started.            *)
(*                                                                         *)
(* A lookup is <<column, row>>: record type, service, subdomain or DNSSEC  *)
(* type number `row` of its configured list, or the PTR lookup of address  *)
(* number `row`.  Record type 0 is "A", record type 1 is "AAAA".           *)
(***************************************************************************)
EXTENDS Naturals, FiniteSets

CONSTANTS NRecords, NServices, NSubdomains, NDnssec, \* lengths of the lists
          MaxWorkers,   \* MAX_CONCURRENT_LOOKUPS
          MaxAnswers,   \* bound: addresses in one A or AAAA answer
          Garbled       \* the record types whose formatting may raise
                        \* UnicodeDecodeError (TXT and CAA)

ASSUME DnsAssumption ==
  /\ NRecords \in Nat /\ NRecords >= 2
  /\ {NServices, NSubdomains, NDnssec, MaxAnswers} \subseteq Nat
  /\ MaxWorkers \in Nat \ {0}
  /\ Garbled \subseteq 2..(NRecords - 1)

A    == <<"record", 0>>
AAAA == <<"record", 1>>

Batch == ({"record"} \X (1..(NRecords - 1))) \cup ({"srv"} \X (1..NServices))
           \cup ({"subdomain"} \X (1..NSubdomains)) \cup ({"dnssec"} \X (1..NDnssec))

PtrJobs == {"ptr"} \X (1..(2 * MaxAnswers))

Jobs    == Batch \cup PtrJobs
Lookups == Jobs \cup {A}

(* zip_longest interleaves the four lists row by row; PTR lookups come     *)
(* later.  The queue of the pool is first in, first out, so this is also   *)
(* the order in which the lookups are started.                             *)
Place == [record |-> 0, srv |-> 1, subdomain |-> 2, dnssec |-> 3, ptr |-> 0]

Precedes(t, u) ==
  \/ t[1] # "ptr" /\ u[1] = "ptr"
  \/ /\ (t[1] = "ptr") <=> (u[1] = "ptr")
     /\ 4 * t[2] + Place[t[1]] < 4 * u[2] + Place[u[1]]

First(t, S) == t \in S /\ \A u \in S \ {t} : Precedes(t, u)

-----------------------------------------------------------------------------
(* What a lookup may come back with.                                       *)
Answer(k, n) == [kind |-> k, size |-> n]
Negative     == {Answer(k, 0) : k \in {"nxdomain", "noanswer", "failed"}}
Unset        == Answer("unset", 0)

(* _lookup_subdomain asks for A, AAAA and CNAME in turn: the first answer  *)
(* settles it, and only unexpected errors count against it.                *)
SubdomainAnswer(q) == IF \E i \in DOMAIN q : q[i] = "answer" THEN "answer"
                      ELSE IF \E i \in DOMAIN q : q[i] = "unexpected" THEN "failed"
                      ELSE "noanswer"

AnswersTo(t) ==
  IF t \in {A, AAAA} THEN Negative \cup {Answer("answer", n) : n \in 1..MaxAnswers}
  ELSE IF t[1] = "subdomain"
       THEN {Answer(SubdomainAnswer(q), 0) :
               q \in [1..3 -> {"answer", "negative", "unexpected"}]}
       ELSE Negative \cup {Answer("answer", 0)}
              \cup (IF t[1] = "dnssec" \/ (t[1] = "record" /\ t[2] \in Garbled)
                    THEN {Answer("garbled", 0)} ELSE {})

(* The line of the public result that a lookup's answer makes.  A record   *)
(* type of the target reports every failure; elsewhere a name that is      *)
(* simply not there is an ordinary empty line.                             *)
Line(t, k) == CASE k = "answer" -> "found"
                [] k \in {"nxdomain", "noanswer"} /\ t[1] # "record" -> "empty"
                [] OTHER -> "error"

-----------------------------------------------------------------------------
VARIABLES pc,      \* control state of the calling thread
          job,     \* job[t]: the future of lookup t
          answer,  \* answer[t]: what lookup t came back with
          line     \* line[t]: the line of the result made from it

vars == <<pc, job, answer, line>>

Queued  == {t \in Jobs : job[t] = "queued"}
Running == {t \in Jobs : job[t] = "running"}

(* The distinct addresses of the A and AAAA records, as PTR lookups.       *)
Addresses == {t \in PtrJobs : t[2] <= answer[A].size + answer[AAAA].size}

(* The lookups a loop of the calling thread is over.                       *)
Column(c) == IF c = "ptr" THEN Addresses
             ELSE {t \in Batch \cup {A} : t[1] = c}

Unread(c) == {t \in Column(c) : line[t] = "unset"}

Available(t) == t # A => job[t] = "done"

After == [record |-> "srv", srv |-> "dnssec", dnssec |-> "subdomain",
          subdomain |-> "chain", ptr |-> "closing"]

-----------------------------------------------------------------------------
(* Mutants of the actions below.                                           *)

(* NXDOMAIN of a record type is reported like any other failure.           *)
ReadMissingToo(t) == /\ pc \in DOMAIN After /\ First(t, Unread(pc)) /\ Available(t)
                     /\ line' = [line EXCEPT ![t] = Line(t, answer[t].kind)]
                     /\ UNCHANGED <<pc, job, answer>>
(* The queue is drained without cancelling its futures, or not at all.     *)
CancelForgets(t) == /\ pc = "cancelling" /\ First(t, Queued)
                    /\ job' = [job EXCEPT ![t] = "new"]
                    /\ UNCHANGED <<pc, answer, line>>
AbandonAtOnce == /\ pc = "cancelling" /\ pc' = "missing"
                 /\ UNCHANGED <<job, answer, line>>
(* A worker for every lookup.                                              *)
WorkersUnbounded == NRecords + NServices + NSubdomains + NDnssec

-----------------------------------------------------------------------------
Init == /\ pc = "called"
        /\ job = [t \in Jobs |-> "new"]
        /\ answer = [t \in Lookups |-> Unset]
        /\ line = [t \in Lookups |-> "unset"]

(* The domain is not valid.                                                *)
Reject == /\ pc = "called"
          /\ pc' = "rejected"
          /\ UNCHANGED <<job, answer, line>>

(* The first record type is looked up before there is a pool; NXDOMAIN     *)
(* ends the call, any other failure is kept for the loop over the records. *)
FirstLookup == /\ pc = "called"
               /\ \E a \in AnswersTo(A) :
                    /\ answer' = [answer EXCEPT ![A] = a]
                    /\ pc' = IF a.kind = "nxdomain" THEN "missing" ELSE "submit"
               /\ UNCHANGED <<job, line>>

Submit(t) == /\ pc = "submit"
             /\ First(t, {u \in Batch : job[u] = "new"})
             /\ job' = [job EXCEPT ![t] = "queued"]
             /\ UNCHANGED <<pc, answer, line>>

Submitted == /\ pc = "submit"
             /\ \A t \in Batch : job[t] # "new"
             /\ pc' = "record"
             /\ UNCHANGED <<job, answer, line>>

(* future.result(): the loop blocks on the future it has reached.          *)
Read(t) == /\ pc \in DOMAIN After
           /\ First(t, Unread(pc))
           /\ Available(t)
           /\ ~(pc = "record" /\ answer[t].kind = "nxdomain")
           /\ line' = [line EXCEPT ![t] = Line(t, answer[t].kind)]
           /\ UNCHANGED <<pc, job, answer>>

(* The domain does not exist: the executor is left with cancel_pending.    *)
ReadMissing(t) == /\ pc = "record"
                  /\ First(t, Unread(pc))
                  /\ Available(t)
                  /\ answer[t].kind = "nxdomain"
                  /\ pc' = "cancelling"
                  /\ UNCHANGED <<job, answer, line>>

NextColumn == /\ pc \in DOMAIN After
              /\ Unread(pc) = {}
              /\ pc' = After[pc]
              /\ UNCHANGED <<job, answer, line>>

(* _resolve_cname_chain on the calling thread (see CnameChain), then the   *)
(* PTR lookups are submitted to the pool.                                  *)
SubmitPtr(t) == /\ pc = "chain"
                /\ First(t, {u \in Addresses : job[u] = "new"})
                /\ job' = [job EXCEPT ![t] = "queued"]
                /\ UNCHANGED <<pc, answer, line>>

PtrSubmitted == /\ pc = "chain"
                /\ \A t \in Addresses : job[t] # "new"
                /\ pc' = "ptr"
                /\ UNCHANGED <<job, answer, line>>

(* shutdown(wait=True) of the ordinary exit.                               *)
Close == /\ pc = "closing"
         /\ Queued = {} /\ Running = {}
         /\ pc' = "done"
         /\ UNCHANGED <<job, answer, line>>

(* shutdown(wait=False, cancel_futures=True): the queue is drained from    *)
(* its head while the workers still take from it; the call returns with    *)
(* lookups running.                                                        *)
Cancel(t) == /\ pc = "cancelling"
             /\ First(t, Queued)
             /\ job' = [job EXCEPT ![t] = "cancelled"]
             /\ UNCHANGED <<pc, answer, line>>

Abandon == /\ pc = "cancelling"
           /\ Queued = {}
           /\ pc' = "missing"
           /\ UNCHANGED <<job, answer, line>>

LookupCount == NRecords + NServices + NSubdomains + NDnssec

(* The pool has at most MAX_CONCURRENT_LOOKUPS workers, for both batches.  *)
Workers == IF LookupCount < MaxWorkers THEN LookupCount ELSE MaxWorkers

(* A worker takes the head of the queue.                                   *)
Take(t) == /\ First(t, Queued)
           /\ Cardinality(Running) < Workers
           /\ job' = [job EXCEPT ![t] = "running"]
           /\ UNCHANGED <<pc, answer, line>>

Finish(t) == /\ job[t] = "running"
             /\ job' = [job EXCEPT ![t] = "done"]
             /\ \E a \in AnswersTo(t) : answer' = [answer EXCEPT ![t] = a]
             /\ UNCHANGED <<pc, line>>

Returned == pc \in {"rejected", "missing", "done"}

Terminated == Returned /\ Running = {} /\ UNCHANGED vars

Caller == \/ Reject \/ FirstLookup \/ Submitted \/ NextColumn \/ PtrSubmitted
          \/ Close \/ Abandon
          \/ \E t \in Lookups : Read(t) \/ ReadMissing(t)
          \/ \E t \in Jobs : Submit(t) \/ SubmitPtr(t) \/ Cancel(t)

Next == Caller \/ (\E t \in Jobs : Take(t) \/ Finish(t)) \/ Terminated

(* Every query has a lifetime after which the resolver raises, so a        *)
(* running lookup ends; an idle worker takes the head of the queue.        *)
Fairness == /\ WF_vars(Caller)
            /\ WF_vars(\E t \in Jobs : Take(t))
            /\ \A t \in Jobs : WF_vars(Finish(t))

Spec == Init /\ [][Next]_vars /\ Fairness

-----------------------------------------------------------------------------
TypeOK ==
  /\ pc \in {"called", "rejected", "missing", "submit", "record", "srv", "dnssec",
             "subdomain", "chain", "ptr", "closing", "done", "cancelling"}
  /\ job \in [Jobs -> {"new", "queued", "running", "done", "cancelled"}]
  /\ answer \in [Lookups -> [kind : {"unset", "answer", "nxdomain", "noanswer",
                                     "failed", "garbled"}, size : 0..MaxAnswers]]
  /\ line \in [Lookups -> {"unset", "found", "empty", "error"}]

(* At most MAX_CONCURRENT_LOOKUPS queries are under way, PTR lookups and   *)
(* the stragglers of an abandoned call included.                           *)
PoolBound == Cardinality(Running) <= MaxWorkers

(* Execution timing cannot alter the public result: a success holds the    *)
(* line of every configured lookup and of every address found, each made   *)
(* from that lookup's own answer; "does not exist" is said only if some    *)
(* record type of the target came back NXDOMAIN, and always then; and a    *)
(* success leaves nothing behind: every lookup it submitted, and no other, *)
(* has been run and read.                                                  *)
ResultFollowsAnswers ==
  /\ pc = "done" =>
       /\ \A t \in Batch \cup {A} \cup Addresses :
             /\ answer[t] # Unset
             /\ line[t] = Line(t, answer[t].kind)
       /\ \A t \in PtrJobs \ Addresses : line[t] = "unset"
       /\ \A t \in Column("record") : answer[t].kind # "nxdomain"
       /\ \A t \in Jobs : job[t] = IF t \in Batch \cup Addresses THEN "done" ELSE "new"
  /\ pc = "missing" =>
       \E t \in Column("record") : answer[t].kind = "nxdomain"

(* After the call has returned no further query goes out: the queue of an  *)
(* abandoned call is cancelled, only what was running comes to its end.    *)
NoLookupAfterReturn ==
  [][Returned => \A t \in Jobs : job[t] # "running" => job'[t] # "running"]_vars

(* The caller gets its answer, and no future is left pending for ever,     *)
(* whichever way the call ends.                                            *)
CallReturns == /\ <>Returned
               /\ \A t \in Jobs : job[t] = "queued" ~> job[t] \in {"done", "cancelled"}
=============================================================================
