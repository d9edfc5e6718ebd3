------------------------------ MODULE FullRecon ------------------------------
(***************************************************************************)
(* One call of full_recon (src/tools/fullrecon_tool.py): the main thread   *)
(* walks the tool registry wave by wave, one worker thread per submitted   *)
(* tool writes its result into the shared dictionary `results`, and the    *)
(* main thread builds the report from it.                                  *)
(*                                                                         *)
(* What the tools compute is abstracted to what the scheduler looks at: a  *)
(* result is a success, an error or a skip, and only asn and dns carry the *)
(* address that extract_ip reads.                                          *)
(*                                                                         *)
(* A thread pool is created with max_workers = len(tools), so a submitted  *)
(* tool never queues behind another: "submitted" and "running" are one     *)
(* state here.                                                             *)
(***************************************************************************)
EXTENDS Naturals, FiniteSets

CONSTANTS Tools,      \* the names in TOOL_REGISTRY
          Wave,       \* Wave[t]: the wave a tool is registered in
          Position,   \* Position[t]: the tool's place in the registry
          Gated,      \* the tools registered with should_run and args
                      \* that call extract_ip
          Asn, Dns,   \* the two tools extract_ip reads
          IPs,        \* addresses
          None        \* Python's None

ASSUME RegistryAssumption ==
  /\ IsFiniteSet(Tools)
  /\ {Asn, Dns} \subseteq Tools
  /\ Gated \subseteq Tools
  /\ Wave \in [Tools -> Nat \ {0}]
  /\ Position \in [Tools -> Nat]
  /\ \A t, u \in Tools : Position[t] = Position[u] => t = u
  /\ None \notin IPs

LastWave == 3

(***************************************************************************)
(* What the registry must satisfy for the code to be right; the shipped    *)
(* one does.  A registry that does not is accepted by the code all the     *)
(* same.                                                                   *)
(***************************************************************************)
RegistrySound == /\ \A t \in Tools : Wave[t] <= LastWave
                 /\ \A t \in Gated : Wave[Asn] < Wave[t] /\ Wave[Dns] < Wave[t]

VARIABLES pc,        \* control state of the main thread
          wave,      \* the argument of the current execute_wave
          task,      \* task[t]: what the main thread and the pool did with t
          arg,       \* arg[t]: the address a gated tool was submitted with
          results,   \* the shared dictionary
          coverage   \* the tool_coverage table of the report

vars == <<pc, wave, task, arg, results, coverage>>

(***************************************************************************)
(* The entries of the dictionary.                                          *)
(***************************************************************************)
Entry   == [kind : {"none", "success", "error", "skipped"}, ip : IPs \cup {None}]
Absent  == [kind |-> "none",    ip |-> None]
Errored == [kind |-> "error",   ip |-> None]
Skipped == [kind |-> "skipped", ip |-> None]

(* An asn success carries the resolved address; a dns success may have an  *)
(* empty list of A records; extract_ip reads no other tool.                *)
Successes(t) == [kind : {"success"},
                 ip : IF t = Asn THEN IPs
                      ELSE IF t = Dns THEN IPs \cup {None} ELSE {None}]

(* The values should_run and args see, read from the live dictionary.      *)
ExtractIp == IF results[Asn].kind = "success" /\ results[Asn].ip # None
             THEN results[Asn].ip
             ELSE IF results[Dns].kind = "success" THEN results[Dns].ip ELSE None

(* Mutant: the branch for failed tools is missing.                         *)
CoveredNoError(r) == CASE r.kind = "success" -> "success"
                       [] r.kind = "skipped" -> "skipped"
                       [] OTHER              -> "no result"

(* The line of tool_coverage for a dictionary entry.                       *)
Covered(r) == CASE r.kind = "success" -> "success"
                [] r.kind = "skipped" -> "skipped"
                [] r.kind = "error"   -> "failed"
                [] OTHER              -> "no result"

Coverage == [t \in Tools |-> Covered(results[t])]

(* tools_summary: how many tools have one line of coverage.                *)
Count(c) == Cardinality({t \in Tools : coverage[t] = c})

Running == {t \in Tools : task[t] = "running"}

(* The tool the loop of execute_wave has reached: the first of this wave,  *)
(* in registry order, that it has not looked at.                           *)
AtTool(t) == /\ Wave[t] = wave
             /\ task[t] = "idle"
             /\ \A u \in Tools : Wave[u] = wave /\ Position[u] < Position[t]
                                   => task[u] # "idle"

(* The loop of execute_wave is over.                                       *)
LoopOver == pc = "loop" /\ \A t \in Tools : Wave[t] = wave => task[t] # "idle"

(* On to the next wave, or to the report after the last.                   *)
Advance(last) == IF wave < last THEN wave' = wave + 1 /\ pc' = pc
                                ELSE pc' = "report" /\ wave' = wave

-----------------------------------------------------------------------------
(* Mutants of the actions below.                                           *)
others == <<task, arg, results, coverage>>

(* The pool is not waited for.                                             *)
EndWaveNoJoin == LoopOver /\ Advance(LastWave) /\ UNCHANGED others
(* execute_wave(3) is missing, or execute_wave(4) is there.                *)
EndWaveTooFew  == LoopOver /\ Running = {} /\ Advance(LastWave - 1) /\ UNCHANGED others
EndWaveTooMany == LoopOver /\ Running = {} /\ Advance(LastWave + 1) /\ UNCHANGED others
(* The same wave is executed again and again.                              *)
EndWaveStuck == LoopOver /\ Running = {} /\ UNCHANGED vars
(* The exception does not wait for the pool.                               *)
UnwindAtOnce == pc = "unwinding" /\ pc' = "crashed" /\ UNCHANGED <<wave, others>>
(* should_run does not fall back to the dns result.                        *)
SkipWithoutAsn(t) == /\ pc = "loop" /\ AtTool(t) /\ t \in Gated
                     /\ results[Asn].kind = "error"
                     /\ task' = [task EXCEPT ![t] = "skipped"]
                     /\ results' = [results EXCEPT ![t] = Skipped]
                     /\ UNCHANGED <<pc, wave, arg, coverage>>
(* The continue after the skip result is missing.                          *)
SkipFallsThrough(t) == /\ pc = "loop" /\ AtTool(t) /\ t \in Gated
                       /\ results[Asn] # Absent /\ ExtractIp = None
                       /\ task' = [task EXCEPT ![t] = "admitted"] /\ pc' = "args"
                       /\ results' = [results EXCEPT ![t] = Skipped]
                       /\ UNCHANGED <<wave, arg, coverage>>

-----------------------------------------------------------------------------
Init == /\ pc = "called"
        /\ wave = 1
        /\ task = [t \in Tools |-> "idle"]
        /\ arg = [t \in Tools |-> None]
        /\ results = [t \in Tools |-> Absent]
        /\ coverage = [t \in Tools |-> "unset"]

(* is_valid_domain is false: an error is returned at once.                 *)
Reject == /\ pc = "called"
          /\ pc' = "rejected"
          /\ UNCHANGED <<wave, task, arg, results, coverage>>

Accept == /\ pc = "called"
          /\ pc' = "loop"
          /\ UNCHANGED <<wave, task, arg, results, coverage>>

(* should_run is false: the main thread itself writes the result.          *)
Skip(t) == /\ pc = "loop" /\ AtTool(t)
           /\ t \in Gated
           /\ results[Asn] # Absent
           /\ ExtractIp = None
           /\ task' = [task EXCEPT ![t] = "skipped"]
           /\ results' = [results EXCEPT ![t] = Skipped]
           /\ UNCHANGED <<pc, wave, arg, coverage>>

(* should_run is absent or true.                                           *)
Admit(t) == /\ pc = "loop" /\ AtTool(t)
            /\ t \in Gated => results[Asn] # Absent /\ ExtractIp # None
            /\ task' = [task EXCEPT ![t] = "admitted"]
            /\ pc' = "args"
            /\ UNCHANGED <<wave, arg, results, coverage>>

(* extract_ip calls a method of results.get("asn"): without an entry that  *)
(* is None, and the exception leaves the with block, which first waits for *)
(* the threads already started.                                            *)
GateRaises(t) == /\ pc = "loop" /\ AtTool(t)
                 /\ t \in Gated
                 /\ results[Asn] = Absent
                 /\ pc' = "unwinding"
                 /\ UNCHANGED <<wave, task, arg, results, coverage>>

Unwind == /\ pc = "unwinding" /\ Running = {}
          /\ pc' = "crashed"
          /\ UNCHANGED <<wave, task, arg, results, coverage>>

(* The arguments are computed from the dictionary a second time, and the   *)
(* tool is submitted.                                                      *)
Submit(t) == /\ pc = "args" /\ task[t] = "admitted"
             /\ task' = [task EXCEPT ![t] = "running"]
             /\ arg' = [arg EXCEPT ![t] = IF t \in Gated THEN ExtractIp ELSE None]
             /\ pc' = "loop"
             /\ UNCHANGED <<wave, results, coverage>>

(* The with block ends when the loop is over and every thread has ended.   *)
EndWave == /\ LoopOver
           /\ Running = {}
           /\ Advance(LastWave)
           /\ UNCHANGED <<task, arg, results, coverage>>

(* A worker: the tool returns a success or an error, or raises, which run  *)
(* turns into the same error result.                                       *)
Finish(t) == /\ task[t] = "running"
             /\ \E r \in Successes(t) \cup {Errored} :
                  results' = [results EXCEPT ![t] = r]
             /\ task' = [task EXCEPT ![t] = "finished"]
             /\ UNCHANGED <<pc, wave, arg, coverage>>

BuildCoverage == /\ pc = "report"
                 /\ coverage' = Coverage
                 /\ pc' = "signals"
                 /\ UNCHANGED <<wave, task, arg, results>>

(* extract_signals hands results.get(name) to each extractor; each begins  *)
(* with a method call on it and raises on None.                            *)
ExtractSignals == /\ pc = "signals"
                  /\ pc' = IF \E t \in Tools : results[t] = Absent
                           THEN "crashed" ELSE "done"
                  /\ UNCHANGED <<wave, task, arg, results, coverage>>

Ended == pc \in {"done", "rejected", "crashed"}

Terminated == Ended /\ UNCHANGED vars

Main == \/ Reject \/ Accept \/ Unwind \/ EndWave \/ BuildCoverage \/ ExtractSignals
        \/ \E t \in Tools : Skip(t) \/ Admit(t) \/ GateRaises(t) \/ Submit(t)

Next == Main \/ (\E t \in Tools : Finish(t)) \/ Terminated

(* The main thread is not starved.  Nothing is assumed of the tools: the   *)
(* socket of asn_lookup and the HTTP requests of others have a timeout for *)
(* each read only, so no bound of the code makes a tool return.            *)
Fairness == WF_vars(Main)

Spec == Init /\ [][Next]_vars /\ Fairness

-----------------------------------------------------------------------------
TypeOK ==
  /\ pc \in {"called", "rejected", "loop", "args", "unwinding", "report",
             "signals", "done", "crashed"}
  /\ wave \in 1..LastWave
  /\ task \in [Tools -> {"idle", "skipped", "admitted", "running", "finished"}]
  /\ arg \in [Tools -> IPs \cup {None}]
  /\ results \in [Tools -> Entry]
  /\ coverage \in [Tools -> {"unset", "success", "skipped", "failed", "no result"}]

(* No thread of a wave survives it: a tool has been looked at only if      *)
(* every tool of the earlier waves has its final result (the with block    *)
(* and the wait of execute_wave).                                          *)
WaveBarrier ==
  \A t, u \in Tools :
     task[t] # "idle" /\ Wave[u] < Wave[t] => results[u] # Absent /\ u \notin Running

(* The address decision is never stale: when the report is out, a gated    *)
(* tool was skipped exactly if the final results hold no address, and      *)
(* otherwise it was run on the address the final results yield, although   *)
(* extract_ip was evaluated twice on the live dictionary.                  *)
GateNotStale ==
  pc \in {"report", "signals", "done"} =>
     \A t \in Gated : /\ (task[t] = "skipped") <=> (ExtractIp = None)
                      /\ task[t] = "finished" => arg[t] = ExtractIp

(* The report is complete and final: no tool is still running, the table   *)
(* shows what the dictionary holds, and succeeded, skipped and failed of   *)
(* tools_summary add up to total, so no tool is left as "no result".       *)
ReportComplete ==
  pc = "done" =>
     /\ Running = {}
     /\ coverage = Coverage
     /\ Count("success") + Count("skipped") + Count("failed") = Cardinality(Tools)

(* full_recon raises nothing: neither should_run nor an extractor meets a  *)
(* missing entry.                                                          *)
NeverCrashes == pc \notin {"unwinding", "crashed"}

(* No thread outlives the call: when full_recon has returned or raised, no *)
(* tool is running, in particular not behind an exception of should_run.   *)
NoThreadSurvives == Ended => Running = {}

(* The entry of a tool is written once: a skipped tool is not also run,    *)
(* and no worker overwrites what the main thread has read.                 *)
ResultWrittenOnce ==
  [][\A t \in Tools : results[t] # Absent => results'[t] = results[t]]_vars

(* The call waits for its tools and for nothing else: if no tool runs for  *)
(* ever, it comes to an end, also when it ends by an exception.  (A tool   *)
(* that never returns blocks the report: execute_wave has no timeout.)     *)
CallEnds == (\A t \in Tools : []<>(t \notin Running)) => <>Ended

-----------------------------------------------------------------------------
(* Each entry of the dictionary is a decided tool.                         *)
Promise == INSTANCE ReconPromise WITH
  outcome   <- [t \in Tools |-> IF results[t] = Absent THEN "pending"
                                ELSE Covered(results[t])],
  status    <- CASE pc = "done"     -> "report"
                 [] pc = "rejected" -> "refused"
                 [] OTHER           -> "waiting",
  published <- [t \in Tools |-> IF coverage[t] \in {"unset", "no result"}
                                THEN "pending" ELSE coverage[t]]

(* full_recon implements the promise.                                      *)
PromiseKept == Promise!Spec
=============================================================================
