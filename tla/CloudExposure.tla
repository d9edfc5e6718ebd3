---------------------------- MODULE CloudExposure ----------------------------
(***************************************************************************)
(* cloud_exposure_check (src/tools/cloud_exposure_tool.py): bucket names   *)
(* are made from the company's name, a bounded pool of threads asks the    *)
(* providers for them, and the answers are collected as they complete.     *)
(*                                                                         *)
(* A bucket name is the sequence of its words; the company's own name may  *)
(* be one of the configured words.  A task is a provider with a name, and  *)
(* the findings are a set of tasks with their status: their order is that  *)
(* of completion and means nothing.                                        *)
(***************************************************************************)
EXTENDS Naturals, FiniteSets

CONSTANTS Suffixes,    \* COMMON_SUFFIXES but for the empty one
          Prefixes,    \* SUBDOMAIN_PREFIXES
          Companies,   \* what a company may be called
          Providers,   \* of "AWS S3", "GCP" and "AZURE", those that are asked
          MaxWorkers   \* max_workers of the pool

CloudAssumption == /\ IsFiniteSet(Suffixes) /\ IsFiniteSet(Prefixes)
                   /\ Providers \subseteq {"AWS S3", "GCP", "AZURE"}
                   /\ MaxWorkers \in Nat \ {0}

VARIABLES pc,       \* control state of the calling thread
          buckets,  \* the tasks that were submitted
          reply,    \* reply[t]: what the request of task t came to
          findings, \* the findings collected
          totals    \* the counts of the result

vars == <<pc, buckets, reply, findings, totals>>

(* The separators of the S3 and GCP names tell suffixes from prefixes;     *)
(* Azure names have none, so a company called like a prefix that is also a *)
(* suffix makes one name twice, and dict.fromkeys keeps one of them.       *)
BucketNames(provider, c) ==
  {<<c>>} \cup (IF provider = "AZURE"
                THEN {<<c, s>> : s \in Suffixes} \cup {<<p, c>> : p \in Prefixes}
                ELSE {<<c, "-", s>> : s \in Suffixes} \cup {<<p, ".", c>> : p \in Prefixes})

Tasks(c) == UNION {{p} \X BucketNames(p, c) : p \in Providers}

AllTasks == UNION {Tasks(c) : c \in Companies}

(* other: any other status, such as 429 or 503.                            *)
Replies == {"200", "403", "404", "other", "raises"}

Init == /\ pc = "called" /\ buckets = {}
        /\ reply = [t \in AllTasks |-> "new"]
        /\ findings = {}
        /\ totals = [s \in {"checked", "PUBLIC", "EXISTS_PRIVATE", "NOT_FOUND"} |-> 0]

Reject == /\ pc = "called"
          /\ pc' = "failed"
          /\ UNCHANGED <<buckets, reply, findings, totals>>

Submit == /\ pc = "called"
          /\ \E c \in Companies : buckets' = Tasks(c)
          /\ reply' = [t \in AllTasks |-> IF t \in buckets' THEN "queued" ELSE "new"]
          /\ pc' = "collect"
          /\ UNCHANGED <<findings, totals>>

Running == {t \in AllTasks : reply[t] = "running"}

(* Nothing depends on which queued task a worker takes next, so it may be  *)
(* any.                                                                    *)
Take(t) == /\ reply[t] = "queued"
           /\ Cardinality(Running) < MaxWorkers
           /\ reply' = [reply EXCEPT ![t] = "running"]
           /\ UNCHANGED <<pc, buckets, findings, totals>>

Answer(t) == /\ reply[t] = "running"
             /\ \E r \in Replies : reply' = [reply EXCEPT ![t] = r]
             /\ UNCHANGED <<pc, buckets, findings, totals>>

(* Mutant: a request that raises looks like a bucket that is not there.    *)
StatusNegative(r) == CASE r = "200" -> "PUBLIC"
                       [] r = "403" -> "EXISTS_PRIVATE"
                       [] OTHER     -> "NOT_FOUND"

(* url_response: a status it does not know gets the verdict of 404, with   *)
(* another note.                                                           *)
Status(r) == CASE r = "200"    -> "PUBLIC"
               [] r = "403"    -> "EXISTS_PRIVATE"
               [] r = "raises" -> "ERROR"
               [] OTHER        -> "NOT_FOUND"

Found == {f[1] : f \in findings}

(* The loop over as_completed takes any future that is done.               *)
Collect(t) == /\ pc = "collect"
              /\ reply[t] \in Replies /\ t \notin Found
              /\ findings' = findings \cup {<<t, Status(reply[t])>>}
              /\ UNCHANGED <<pc, buckets, reply, totals>>

WithStatus(s) == {f \in findings : f[2] = s}

(* The pool is left and the totals are counted; errors are in none.        *)
Return == /\ pc = "collect"
          /\ Found = buckets
          /\ totals' = [s \in DOMAIN totals |->
                          IF s = "checked" THEN Cardinality(buckets)
                          ELSE Cardinality(WithStatus(s))]
          /\ pc' = "done"
          /\ UNCHANGED <<buckets, reply, findings>>

Ended == pc \in {"failed", "done"}

Next == \/ Reject \/ Submit \/ Return
        \/ \E t \in AllTasks : Take(t) \/ Answer(t) \/ Collect(t)

-----------------------------------------------------------------------------
TypeOK == /\ pc \in {"called", "failed", "collect", "done"}
          /\ buckets \subseteq AllTasks
          /\ reply \in [AllTasks -> {"new", "queued", "running"} \cup Replies]
          /\ findings \subseteq AllTasks \X
               {"PUBLIC", "EXISTS_PRIVATE", "NOT_FOUND", "ERROR"}
          /\ \A s \in DOMAIN totals : totals[s] \in Nat

(* In whatever order the threads finish, the answer has one finding for    *)
(* each bucket of each provider, made from that bucket's own reply: public *)
(* and private are said exactly of the buckets whose provider said so, an  *)
(* error exactly of those whose request failed, and NOT_FOUND of all the   *)
(* others, which takes in statuses that say nothing of the bucket; and     *)
(* what the totals leave out of the buckets checked are the failed ones.   *)
FindingsAreReplies ==
  pc = "done" =>
    /\ \A t \in buckets : \E s \in {"PUBLIC", "EXISTS_PRIVATE", "NOT_FOUND", "ERROR"} :
         /\ {f \in findings : f[1] = t} = {<<t, s>>}
         /\ s = "ERROR" <=> reply[t] = "raises"
         /\ s = "PUBLIC" <=> reply[t] = "200"
         /\ s = "EXISTS_PRIVATE" <=> reply[t] = "403"
         /\ s = "NOT_FOUND" <=> reply[t] \in {"404", "other"}
    /\ totals["checked"] = totals["PUBLIC"] + totals["EXISTS_PRIVATE"] + totals["NOT_FOUND"]
                             + Cardinality({t \in AllTasks : reply[t] = "raises"})
    /\ \A p \in Providers : \E c \in Companies :
         {f[1][2] : f \in {g \in findings : g[1][1] = p}} = BucketNames(p, c)
=============================================================================
