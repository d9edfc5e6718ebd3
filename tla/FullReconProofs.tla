--------------------------- MODULE FullReconProofs ---------------------------
(***************************************************************************)
(* Proofs about FullRecon, for every registry, every set of addresses and  *)
(* every outcome of the tools.                                             *)
(*                                                                         *)
(* The argument: a task is decided (skipped or finished) exactly when its  *)
(* tool has an entry in the dictionary; the tools of the earlier waves are *)
(* all decided and those of the later waves are all idle.  So nothing      *)
(* extract_ip reads can change once a gated tool is looked at, provided    *)
(* asn and dns are in earlier waves.                                       *)
(***************************************************************************)
EXTENDS FullRecon, FiniteSetTheorems, WellFoundedInduction, TLAPS

Decided(t) == task[t] \in {"skipped", "finished"}

Past == pc \in {"report", "signals", "done"}

(* The dictionary holds an entry for exactly the decided tools.            *)
DictionaryMatches ==
  \A t \in Tools : /\ results[t].kind = "none" => results[t] = Absent
                   /\ Decided(t) <=> results[t] # Absent

(* Waves before the current one are decided, waves after it are idle.      *)
WavesInOrder ==
  \A t \in Tools : /\ Wave[t] < wave => Decided(t)
                   /\ Wave[t] > wave => task[t] = "idle"
                   /\ Past => wave = LastWave /\ (Wave[t] <= wave => Decided(t))

(* The main thread admits one tool at a time.                              *)
OneAdmitted ==
  /\ \A t \in Tools : task[t] = "admitted" => pc = "args"
  /\ \A t, u \in Tools : task[t] = "admitted" /\ task[u] = "admitted" => t = u

(* Before the first wave nothing is started; a crashed call has waited.    *)
QuietEnds ==
  /\ pc \in {"called", "rejected"} => \A t \in Tools : task[t] = "idle"
  /\ pc = "crashed" => Running = {}

(* The table is the dictionary's from the moment it is built.              *)
TableBuilt == /\ pc \in {"signals", "done"} => coverage = Coverage
              /\ pc = "done" => \A t \in Tools : results[t] # Absent

ScheduleInv == /\ TypeOK
               /\ DictionaryMatches
               /\ WavesInOrder
               /\ OneAdmitted
               /\ QuietEnds
               /\ TableBuilt

-----------------------------------------------------------------------------
LEMMA EntriesTyped ==
  /\ Absent \in Entry /\ Errored \in Entry /\ Skipped \in Entry
  /\ \A t \in Tools : Successes(t) \subseteq Entry
  /\ \A t \in Tools : \A r \in Successes(t) : r.kind = "success" /\ r # Absent
  /\ Errored # Absent /\ Skipped # Absent
  /\ Errored.kind = "error" /\ Skipped.kind = "skipped" /\ Absent.kind = "none"
BY DEF Absent, Errored, Skipped, Entry, Successes

LEMMA ExtractIpTyped == TypeOK => ExtractIp \in IPs \cup {None}
BY RegistryAssumption DEF TypeOK, ExtractIp, Entry

LEMMA CoveredTyped ==
  ASSUME TypeOK
  PROVE  Coverage \in [Tools -> {"unset", "success", "skipped", "failed", "no result"}]
BY DEF Coverage, Covered

(* Every state of full_recon satisfies TypeOK: the main thread and the     *)
(* workers only ever store values of the declared kinds.                   *)
LEMMA InitSchedule == Init => ScheduleInv
<1> SUFFICES ASSUME Init PROVE ScheduleInv
  OBVIOUS
<1> USE DEF Init
<1>1. TypeOK
  BY EntriesTyped DEF TypeOK, LastWave
<1>2. DictionaryMatches
  BY EntriesTyped DEF DictionaryMatches, Decided
<1>3. WavesInOrder
  BY RegistryAssumption DEF WavesInOrder, Past
<1>4. OneAdmitted /\ QuietEnds /\ TableBuilt
  BY DEF OneAdmitted, QuietEnds, TableBuilt
<1> QED
  BY <1>1, <1>2, <1>3, <1>4 DEF ScheduleInv

LEMMA WavesTyped ==
  /\ \A t \in Tools : Wave[t] \in Nat /\ Wave[t] > 0
  /\ TypeOK => wave \in Nat /\ wave > 0 /\ wave <= LastWave
<1>1. \A t \in Tools : Wave[t] \in Nat \ {0}
  BY RegistryAssumption
<1>2. \A t \in Tools : Wave[t] \in Nat /\ Wave[t] > 0
  BY <1>1
<1>3. ASSUME TypeOK PROVE wave \in 1..3
  BY <1>3 DEF TypeOK, LastWave
<1>4. TypeOK => wave \in Nat /\ wave > 0 /\ wave <= LastWave
  BY <1>3 DEF LastWave
<1> QED
  BY <1>2, <1>4

(* A tool that is under way belongs to the current wave.                   *)
LEMMA UnderWay ==
  ASSUME ScheduleInv, NEW t \in Tools, task[t] \in {"admitted", "running"}
  PROVE  /\ Wave[t] = wave
         /\ ~Past /\ pc \notin {"called", "rejected"}
         /\ task[t] = "running" => pc # "crashed"
<1>1. Wave[t] \in Nat /\ wave \in Nat /\ wave <= LastWave
  BY WavesTyped DEF ScheduleInv
<1>2. ~Decided(t) /\ task[t] # "idle"
  BY DEF Decided
<1>3. Wave[t] = wave
  BY <1>1, <1>2 DEF ScheduleInv, WavesInOrder
<1>4. ~Past
  BY <1>1, <1>2, <1>3 DEF ScheduleInv, WavesInOrder
<1>5. pc \notin {"called", "rejected"} /\ (task[t] = "running" => pc # "crashed")
  BY <1>2 DEF ScheduleInv, QuietEnds, Running
<1> QED
  BY <1>3, <1>4, <1>5

LEMMA NextSchedule == ScheduleInv /\ [Next]_vars => ScheduleInv'
<1> SUFFICES ASSUME ScheduleInv, [Next]_vars PROVE ScheduleInv'
  OBVIOUS
<1> USE DEF ScheduleInv
<1>0. /\ \A t \in Tools : Wave[t] \in Nat /\ Wave[t] > 0
      /\ wave \in Nat /\ wave <= LastWave
  BY WavesTyped
<1>1. CASE Reject
  BY <1>1 DEF Reject, TypeOK, DictionaryMatches, WavesInOrder, OneAdmitted, QuietEnds,
              TableBuilt, Decided, Past, Coverage
<1>2. CASE Accept
  BY <1>2 DEF Accept, TypeOK, DictionaryMatches, WavesInOrder, OneAdmitted, QuietEnds,
              TableBuilt, Decided, Past, Coverage
<1>3. CASE Unwind
  BY <1>3 DEF Unwind, TypeOK, DictionaryMatches, WavesInOrder, OneAdmitted, QuietEnds,
              TableBuilt, Decided, Past, Coverage, Running
<1>4. CASE EndWave
  <2>1. \A t \in Tools : Wave[t] = wave => Decided(t)
    BY <1>4 DEF EndWave, LoopOver, Advance, TypeOK, OneAdmitted, Decided, Running
  <2>2. TypeOK'
    <3>1. wave' \in 1..3 /\ pc' \in {"loop", "report"}
      BY <1>0, <1>4 DEF EndWave, LoopOver, Advance, LastWave
    <3> QED
      BY <1>4, <3>1 DEF EndWave, LoopOver, Advance, TypeOK, LastWave
  <2>3. DictionaryMatches' /\ OneAdmitted'
    BY <1>4 DEF EndWave, LoopOver, Advance, DictionaryMatches, OneAdmitted, Decided
  <2>4. ASSUME wave < LastWave PROVE WavesInOrder'
    BY <1>0, <1>4, <2>1, <2>4 DEF EndWave, LoopOver, Advance, WavesInOrder, Decided, Past
  <2>5. ASSUME ~(wave < LastWave) PROVE WavesInOrder'
    BY <1>0, <1>4, <2>1, <2>5 DEF EndWave, LoopOver, Advance, WavesInOrder, Decided, Past, LastWave
  <2>6. QuietEnds' /\ TableBuilt'
    BY <1>4 DEF EndWave, LoopOver, Advance, QuietEnds, TableBuilt, Coverage
  <2> QED
    BY <2>2, <2>3, <2>4, <2>5, <2>6
<1>5. CASE BuildCoverage
  <2>1. TypeOK'
    BY <1>5, CoveredTyped DEF BuildCoverage, TypeOK
  <2> QED
    BY <1>5, <2>1 DEF BuildCoverage, DictionaryMatches, WavesInOrder, OneAdmitted,
                      QuietEnds, TableBuilt, Decided, Past, Coverage
<1>6. CASE ExtractSignals
  <2>1. Running = {}
    BY <1>6, UnderWay DEF ExtractSignals, Past, Running
  <2>2. TypeOK' /\ DictionaryMatches' /\ OneAdmitted'
    BY <1>6 DEF ExtractSignals, TypeOK, DictionaryMatches, OneAdmitted, Decided
  <2>3. WavesInOrder'
    BY <1>6 DEF ExtractSignals, WavesInOrder, Decided, Past
  <2>4. QuietEnds' /\ TableBuilt'
    BY <1>6, <2>1 DEF ExtractSignals, QuietEnds, TableBuilt, Coverage, Running
  <2> QED
    BY <2>2, <2>3, <2>4
<1>7. ASSUME NEW t \in Tools, Skip(t) PROVE ScheduleInv'
  BY <1>0, <1>7, EntriesTyped
  DEF Skip, AtTool, TypeOK, DictionaryMatches, WavesInOrder, OneAdmitted,
      QuietEnds, TableBuilt, Decided, Past, Coverage
<1>8. ASSUME NEW t \in Tools, Admit(t) PROVE ScheduleInv'
  BY <1>0, <1>8
  DEF Admit, AtTool, TypeOK, DictionaryMatches, WavesInOrder, OneAdmitted,
      QuietEnds, TableBuilt, Decided, Past, Coverage
<1>9. ASSUME NEW t \in Tools, GateRaises(t) PROVE ScheduleInv'
  BY <1>9
  DEF GateRaises, TypeOK, DictionaryMatches, WavesInOrder, OneAdmitted,
      QuietEnds, TableBuilt, Decided, Past, Coverage
<1>10. ASSUME NEW t \in Tools, Submit(t) PROVE ScheduleInv'
  BY <1>0, <1>10, ExtractIpTyped, UnderWay
  DEF Submit, TypeOK, DictionaryMatches, WavesInOrder, OneAdmitted,
      QuietEnds, TableBuilt, Decided, Past, Coverage
<1>11. ASSUME NEW t \in Tools, Finish(t) PROVE ScheduleInv'
  <2>1. PICK r \in Successes(t) \cup {Errored} : results' = [results EXCEPT ![t] = r]
    BY <1>11 DEF Finish
  <2>2. r \in Entry /\ r # Absent /\ r.kind # "none"
    BY <2>1, EntriesTyped
  <2>3. Wave[t] = wave /\ ~Past /\ pc \notin {"called", "rejected", "crashed"}
    BY <1>11, UnderWay DEF Finish
  <2>4. TypeOK'
    BY <1>11, <2>1, <2>2 DEF Finish, TypeOK
  <2>5. DictionaryMatches'
    BY <1>11, <2>1, <2>2 DEF Finish, TypeOK, DictionaryMatches, Decided
  <2>6. WavesInOrder'
    BY <1>0, <1>11, <2>3 DEF Finish, TypeOK, WavesInOrder, Decided, Past
  <2>7. OneAdmitted' /\ QuietEnds' /\ TableBuilt'
    BY <1>11, <2>3 DEF Finish, TypeOK, OneAdmitted, QuietEnds, TableBuilt, Past, Running
  <2> QED
    BY <2>4, <2>5, <2>6, <2>7
<1>12. CASE Terminated \/ UNCHANGED vars
  <2>1. UNCHANGED vars
    BY <1>12 DEF Terminated
  <2>2. TypeOK' /\ DictionaryMatches' /\ WavesInOrder' /\ OneAdmitted'
    BY <2>1 DEF vars, TypeOK, DictionaryMatches, WavesInOrder, OneAdmitted, Decided, Past
  <2>3. QuietEnds' /\ TableBuilt'
    BY <2>1 DEF vars, QuietEnds, TableBuilt, Coverage, Running
  <2> QED
    BY <2>2, <2>3
<1> QED
  BY <1>1, <1>2, <1>3, <1>4, <1>5, <1>6, <1>7, <1>8, <1>9, <1>10, <1>11, <1>12
  DEF Next, Main

LEMMA ScheduleInvariant == Spec => []ScheduleInv
BY InitSchedule, NextSchedule, PTL DEF Spec

-----------------------------------------------------------------------------
(* Every state of a call has the declared types; in particular the main    *)
(* thread and the workers store only results of the four kinds.            *)
THEOREM TypeCorrect == Spec => []TypeOK
<1>1. ScheduleInv => TypeOK
  BY DEF ScheduleInv
<1> QED
  BY <1>1, ScheduleInvariant, PTL

(* execute_wave is a barrier for every registry: no tool of a wave is      *)
(* looked at before the tools of the earlier waves have their results.     *)
THEOREM BarrierHolds == Spec => []WaveBarrier
<1>1. ScheduleInv => WaveBarrier
  <2> SUFFICES ASSUME ScheduleInv, NEW t \in Tools, NEW u \in Tools,
                      task[t] # "idle", Wave[u] < Wave[t]
               PROVE  results[u] # Absent /\ u \notin Running
    BY DEF WaveBarrier
  <2>1. Wave[u] < wave
    BY WavesTyped DEF ScheduleInv, WavesInOrder
  <2>2. Decided(u)
    BY <2>1 DEF ScheduleInv, WavesInOrder
  <2> QED
    BY <2>2 DEF ScheduleInv, DictionaryMatches, Decided, Running
<1> QED
  BY <1>1, ScheduleInvariant, PTL

(* Whether full_recon returns, refuses or raises, no thread is left.       *)
THEOREM ThreadsEnd == Spec => []NoThreadSurvives
<1>1. ScheduleInv => NoThreadSurvives
  BY UnderWay DEF ScheduleInv, NoThreadSurvives, Ended, Running, Past
<1> QED
  BY <1>1, ScheduleInvariant, PTL

LEMMA ThreeWayCount ==
  ASSUME NEW S, IsFiniteSet(S), NEW A, NEW B, NEW C,
         S = A \cup B \cup C, A \cap B = {}, A \cap C = {}, B \cap C = {}
  PROVE  Cardinality(A) + Cardinality(B) + Cardinality(C) = Cardinality(S)
<1>1. IsFiniteSet(A) /\ IsFiniteSet(B) /\ IsFiniteSet(C)
  BY FS_Subset
<1>2. Cardinality({}) = 0
  BY FS_EmptySet
<1>3. /\ IsFiniteSet(A \cup B)
      /\ Cardinality(A \cup B) = Cardinality(A) + Cardinality(B) - 0
  BY <1>1, <1>2, FS_Union
<1>4. (A \cup B) \cap C = {}
  OBVIOUS
<1>5. Cardinality((A \cup B) \cup C) = Cardinality(A \cup B) + Cardinality(C) - 0
  BY <1>1, <1>2, <1>3, <1>4, FS_Union
<1>6. Cardinality(A) \in Nat /\ Cardinality(B) \in Nat /\ Cardinality(C) \in Nat
  BY <1>1, FS_CardinalityType
<1>7. Cardinality(S) = (Cardinality(A) + Cardinality(B) - 0) + Cardinality(C) - 0
  BY <1>3, <1>5
<1> QED
  BY <1>6, <1>7

(* A report that is returned is complete and final, and its summary adds   *)
(* up, for every registry.                                                 *)
THEOREM ReportsAreComplete == Spec => []ReportComplete
<1>1. ScheduleInv => ReportComplete
  <2> SUFFICES ASSUME ScheduleInv, pc = "done" PROVE ReportComplete!2
    BY DEF ReportComplete
  <2>1. Running = {}
    BY UnderWay DEF Running, Past
  <2>2. coverage = Coverage /\ \A t \in Tools : results[t] # Absent
    BY DEF ScheduleInv, TableBuilt
  <2>3. \A t \in Tools : results[t].kind \in {"success", "error", "skipped"}
    BY <2>2 DEF ScheduleInv, DictionaryMatches, TypeOK, Entry
  <2>4. \A t \in Tools : coverage[t] \in {"success", "skipped", "failed"}
    BY <2>2, <2>3 DEF Coverage, Covered
  <2>5. Count("success") + Count("skipped") + Count("failed") = Cardinality(Tools)
    <3> DEFINE S(c) == {t \in Tools : coverage[t] = c}
    <3>1. Tools = S("success") \cup S("skipped") \cup S("failed")
      BY <2>4
    <3>2. /\ S("success") \cap S("skipped") = {}
          /\ S("success") \cap S("failed") = {}
          /\ S("skipped") \cap S("failed") = {}
      OBVIOUS
    <3> QED
      BY <3>1, <3>2, ThreeWayCount, RegistryAssumption DEF Count
  <2> QED
    BY <2>1, <2>2, <2>5
<1> QED
  BY <1>1, ScheduleInvariant, PTL

(* No entry of the dictionary is ever overwritten, for every registry.     *)
THEOREM EntriesWrittenOnce == Spec => ResultWrittenOnce
<1> DEFINE Kept == \A t \in Tools : results[t] # Absent => results'[t] = results[t]
<1>1. ASSUME ScheduleInv, [Next]_vars PROVE [Kept]_vars
  <2> SUFFICES ASSUME NEW t \in Tools, results[t] # Absent, Next
               PROVE  results'[t] = results[t]
    BY <1>1
  <2>1. Decided(t)
    BY <1>1 DEF ScheduleInv, DictionaryMatches
  <2>2. ASSUME NEW u \in Tools, Skip(u) \/ Finish(u) PROVE results'[t] = results[t]
    BY <1>1, <2>1, <2>2 DEF Skip, AtTool, Finish, Decided, ScheduleInv, TypeOK
  <2> QED
    BY <2>2 DEF Next, Main, Reject, Accept, Unwind, EndWave, BuildCoverage,
                ExtractSignals, Admit, GateRaises, Submit, Terminated, vars
<1>2. ResultWrittenOnce <=> [][Kept]_vars
  BY PTL DEF ResultWrittenOnce
<1> QED
  BY <1>1, <1>2, ScheduleInvariant, PTL DEF Spec

-----------------------------------------------------------------------------
(***************************************************************************)
(* The gate.  With asn and dns in waves before every gated tool, both have *)
(* their entries when the gate is evaluated, and entries do not change.    *)
(***************************************************************************)
GateInv ==
  /\ \A t \in Gated :
        /\ task[t] = "skipped" => ExtractIp = None
        /\ task[t] = "admitted" => ExtractIp # None
        /\ task[t] \in {"running", "finished"} => ExtractIp # None /\ arg[t] = ExtractIp
  /\ pc \notin {"unwinding", "crashed"}

SoundInv == ScheduleInv /\ GateInv

LEMMA SourcesSettled ==
  ASSUME RegistrySound, ScheduleInv, NEW t \in Gated,
         task[t] # "idle" \/ AtTool(t)
  PROVE  Decided(Asn) /\ Decided(Dns)
<1>1. t \in Tools /\ Asn \in Tools /\ Dns \in Tools
  BY RegistryAssumption
<1>2. Wave[Asn] < Wave[t] /\ Wave[Dns] < Wave[t] /\ Wave[t] <= wave
  BY <1>1, WavesTyped DEF RegistrySound, ScheduleInv, WavesInOrder, AtTool
<1> QED
  BY <1>1, <1>2, WavesTyped DEF ScheduleInv, WavesInOrder

LEMMA InitGate == Init => GateInv
BY RegistryAssumption DEF Init, GateInv

LEMMA NextGate ==
  ASSUME RegistrySound, SoundInv, [Next]_vars
  PROVE  GateInv'
<1> USE DEF SoundInv
<1>0. Asn \in Tools /\ Dns \in Tools /\ Gated \subseteq Tools
  BY RegistryAssumption
<1>1. CASE UNCHANGED <<task, arg, results>> /\ pc' \notin {"unwinding", "crashed"}
  BY <1>1 DEF GateInv, ExtractIp
<1>2. ASSUME Reject \/ Accept \/ Unwind \/ EndWave \/ BuildCoverage PROVE GateInv'
  BY <1>1, <1>2 DEF Reject, Accept, Unwind, EndWave, LoopOver, Advance, BuildCoverage, GateInv
<1>3. CASE ExtractSignals
  <2>1. \A t \in Tools : Wave[t] <= wave => Decided(t)
    BY <1>3 DEF ExtractSignals, ScheduleInv, WavesInOrder, Past
  <2>2. wave = LastWave
    BY <1>0, <1>3 DEF ExtractSignals, ScheduleInv, WavesInOrder, Past
  <2>3. \A t \in Tools : results[t] # Absent
    BY <2>1, <2>2 DEF RegistrySound, ScheduleInv, DictionaryMatches
  <2> QED
    BY <1>1, <1>3, <2>3 DEF ExtractSignals
<1>4. ASSUME NEW t \in Tools, Skip(t) PROVE GateInv'
  <2>1. Decided(Asn) /\ Decided(Dns) /\ t # Asn /\ t # Dns
    BY <1>4, SourcesSettled DEF Skip, AtTool, Decided
  <2>2. ExtractIp' = ExtractIp
    BY <1>0, <1>4, <2>1 DEF Skip, ExtractIp, ScheduleInv, TypeOK
  <2> QED
    BY <1>0, <1>4, <2>2 DEF Skip, GateInv, ScheduleInv, TypeOK
<1>5. ASSUME NEW t \in Tools, Admit(t) PROVE GateInv'
  <2>1. ExtractIp' = ExtractIp
    BY <1>5 DEF Admit, ExtractIp
  <2> QED
    BY <1>0, <1>5, <2>1 DEF Admit, AtTool, GateInv, ScheduleInv, TypeOK
<1>6. ASSUME NEW t \in Tools, GateRaises(t) PROVE GateInv'
  <2>1. results[Asn] # Absent
    BY <1>0, <1>6, SourcesSettled DEF GateRaises, ScheduleInv, DictionaryMatches
  <2> QED
    BY <1>6, <2>1 DEF GateRaises
<1>7. ASSUME NEW t \in Tools, Submit(t) PROVE GateInv'
  <2>1. ExtractIp' = ExtractIp
    BY <1>7 DEF Submit, ExtractIp
  <2> QED
    BY <1>0, <1>7, <2>1 DEF Submit, GateInv, ScheduleInv, TypeOK
<1>8. ASSUME NEW t \in Tools, Finish(t) PROVE GateInv'
  <2>1. ASSUME NEW g \in Gated, task[g] # "idle" PROVE ExtractIp' = ExtractIp
    <3>1. Decided(Asn) /\ Decided(Dns)
      BY <2>1, SourcesSettled
    <3>2. t # Asn /\ t # Dns
      BY <1>8, <3>1 DEF Finish, Decided
    <3> QED
      BY <1>0, <1>8, <3>2 DEF Finish, ExtractIp, ScheduleInv, TypeOK
  <2>2. \A g \in Gated : task'[g] # "idle" => task[g] # "idle"
    BY <1>0, <1>8 DEF Finish, ScheduleInv, TypeOK
  <2> QED
    BY <1>0, <1>8, <2>1, <2>2 DEF Finish, GateInv, ScheduleInv, TypeOK
<1>9. ASSUME Terminated \/ UNCHANGED vars PROVE GateInv'
  BY <1>1, <1>9 DEF Terminated, vars, GateInv
<1> QED
  BY <1>2, <1>3, <1>4, <1>5, <1>6, <1>7, <1>8, <1>9 DEF Next, Main

LEMMA SoundInvariant == ASSUME RegistrySound PROVE Spec => []SoundInv
<1>1. Init => SoundInv
  BY InitSchedule, InitGate DEF SoundInv
<1>2. SoundInv /\ [Next]_vars => SoundInv'
  BY NextSchedule, NextGate DEF SoundInv
<1> QED
  BY <1>1, <1>2, PTL DEF Spec

(* With a sound registry full_recon never raises.                          *)
THEOREM NoCrash == ASSUME RegistrySound PROVE Spec => []NeverCrashes
<1>1. SoundInv => NeverCrashes
  BY DEF SoundInv, GateInv, NeverCrashes
<1> QED
  BY <1>1, SoundInvariant, PTL

(* With a sound registry a gated tool is skipped exactly if the final      *)
(* results hold no address, and runs on the address they yield.            *)
THEOREM GateIsFresh == ASSUME RegistrySound PROVE Spec => []GateNotStale
<1>1. SoundInv => GateNotStale
  <2> SUFFICES ASSUME SoundInv, Past, NEW t \in Gated
               PROVE  /\ (task[t] = "skipped") <=> (ExtractIp = None)
                      /\ task[t] = "finished" => arg[t] = ExtractIp
    BY DEF GateNotStale, Past
  <2>1. t \in Tools /\ Wave[t] <= LastWave
    BY RegistryAssumption DEF RegistrySound
  <2>2. Decided(t)
    BY <2>1 DEF SoundInv, ScheduleInv, WavesInOrder
  <2> QED
    BY <2>2 DEF SoundInv, GateInv, Decided
<1> QED
  BY <1>1, SoundInvariant, PTL

-----------------------------------------------------------------------------
(***************************************************************************)
(* full_recon implements ReconPromise: Skip and Finish decide a tool,      *)
(* BuildCoverage publishes, ExtractSignals delivers, Reject refuses, and   *)
(* every other step leaves the promise's variables alone.                  *)
(***************************************************************************)
Verdict(t) == IF results[t] = Absent THEN "pending" ELSE Covered(results[t])

Outcome == [t \in Tools |-> Verdict(t)]

Status == CASE pc = "done" -> "report" [] pc = "rejected" -> "refused"
            [] OTHER -> "waiting"

Published == [t \in Tools |-> IF coverage[t] \in {"unset", "no result"}
                              THEN "pending" ELSE coverage[t]]

(* The safety part of PromiseKept.                                         *)
PromiseSafety == Promise!Init /\ [][Promise!Next]_(Promise!vars)

(* A verdict is decided for exactly the decided tools, and a skip only for *)
(* gated ones.                                                             *)
LEMMA VerdictDecided ==
  ASSUME ScheduleInv, NEW t \in Tools
  PROVE  /\ Decided(t) <=> Verdict(t) # "pending"
         /\ Verdict(t) \in {"pending", "success", "failed", "skipped"}
BY DEF ScheduleInv, TypeOK, Entry, DictionaryMatches, Verdict, Covered

LEMMA StepDecides ==
  ASSUME ScheduleInv, NEW t \in Tools, AtTool(t) \/ task[t] = "running",
         pc \in {"loop", "args", "unwinding"}, UNCHANGED <<pc, coverage>>,
         NEW r \in Entry, r # Absent, results' = [results EXCEPT ![t] = r],
         r.kind \in {"success", "error"} \/ (r.kind = "skipped" /\ t \in Gated)
  PROVE  Promise!Decide(t)
<1>1. task[t] # "skipped" /\ task[t] # "finished" /\ Wave[t] = wave
  BY UnderWay DEF AtTool
<1>2. results[t] = Absent
  BY <1>1 DEF ScheduleInv, DictionaryMatches, Decided
<1>3. \A u \in Tools : Wave[u] < Wave[t] => Verdict(u) # "pending"
  BY <1>1, VerdictDecided DEF ScheduleInv, WavesInOrder
<1>4. Outcome' = [Outcome EXCEPT ![t] = Covered(r)]
  BY DEF Outcome, Verdict, ScheduleInv, TypeOK
<1>5. Covered(r) \in Promise!Verdicts(t)
  BY DEF Covered, Promise!Verdicts
<1>6. Status = "waiting" /\ UNCHANGED <<Status, Published>>
  BY DEF Status, Published
<1> QED
  BY <1>2, <1>3, <1>4, <1>5, <1>6
  DEF Promise!Decide, Promise!Pending, Outcome, Verdict, Status, Published

LEMMA PromiseStep ==
  ASSUME RegistrySound, SoundInv, [Next]_vars
  PROVE  [Promise!Next]_(Promise!vars)
<1> USE DEF SoundInv
<1>1. ASSUME UNCHANGED <<results, coverage>>,
             pc' = pc \/ {pc, pc'} \cap {"done", "rejected"} = {}
      PROVE  UNCHANGED Promise!vars
  BY <1>1 DEF Promise!vars, Covered
<1>2. ASSUME Accept \/ Unwind \/ EndWave \/ Terminated \/ UNCHANGED vars
             \/ (\E t \in Tools : Admit(t) \/ GateRaises(t) \/ Submit(t))
      PROVE  UNCHANGED Promise!vars
  BY <1>1, <1>2 DEF Accept, Unwind, EndWave, LoopOver, Advance, Terminated, vars, Admit, GateRaises, Submit
<1>3. CASE Reject
  <2>1. \A t \in Tools : Verdict(t) = "pending"
    BY <1>3, VerdictDecided DEF Reject, ScheduleInv, QuietEnds, Decided
  <2> QED
    BY <1>3, <2>1 DEF Reject, Promise!Next, Promise!Refuse, Promise!Pending, Verdict, Covered
<1>4. CASE BuildCoverage
  <2>1. \A t \in Tools : Decided(t)
    BY <1>4, WavesTyped DEF BuildCoverage, RegistrySound, ScheduleInv, WavesInOrder, Past
  <2>2. \A t \in Tools : Verdict(t) # "pending" /\ results[t] # Absent
    BY <2>1, VerdictDecided DEF ScheduleInv, DictionaryMatches
  <2>3. \A t \in Tools : Covered(results[t]) \in {"success", "failed", "skipped"}
    BY <2>2, VerdictDecided DEF Verdict
  <2>4. UNCHANGED <<Outcome, Status>> /\ Status = "waiting"
    BY <1>4 DEF BuildCoverage, Outcome, Verdict, Status
  <2>5. Published' = Outcome
    BY <1>4, <2>2, <2>3 DEF BuildCoverage, Coverage, Published, Outcome, Verdict
  <2> QED
    BY <2>2, <2>4, <2>5
    DEF Promise!Next, Promise!Publish, Promise!Pending, Outcome, Status, Published, Verdict
<1>5. CASE ExtractSignals
  <2>1. coverage = Coverage
    BY <1>5 DEF ExtractSignals, ScheduleInv, TableBuilt
  <2>2. \A t \in Tools : Decided(t)
    BY <1>5, WavesTyped DEF ExtractSignals, RegistrySound, ScheduleInv, WavesInOrder, Past
  <2>3. \A t \in Tools : Verdict(t) # "pending" /\ results[t] # Absent
    BY <2>2, VerdictDecided DEF ScheduleInv, DictionaryMatches
  <2>4. \A t \in Tools : coverage[t] \in {"success", "failed", "skipped"}
    BY <2>1, <2>3, VerdictDecided DEF Coverage, Verdict
  <2>5. Published = Outcome /\ UNCHANGED <<Outcome, Published>>
    BY <1>5, <2>1, <2>3, <2>4 DEF ExtractSignals, Coverage, Published, Outcome, Verdict
  <2>6. Status = "waiting" /\ Status' = "report"
    BY <1>5, <2>3 DEF ExtractSignals, Status
  <2> QED
    BY <2>3, <2>4, <2>5, <2>6
    DEF Promise!Next, Promise!Deliver, Promise!Pending, Outcome, Status, Published, Verdict
<1>6. ASSUME NEW t \in Tools, Skip(t) PROVE Promise!Next
  BY <1>6, EntriesTyped, StepDecides DEF Skip, Promise!Next
<1>7. ASSUME NEW t \in Tools, Finish(t) PROVE Promise!Next
  <2>1. PICK r \in Successes(t) \cup {Errored} : results' = [results EXCEPT ![t] = r]
    BY <1>7 DEF Finish
  <2>2. r \in Entry /\ r # Absent /\ r.kind \in {"success", "error"}
    BY <2>1, EntriesTyped
  <2>3. pc \in {"loop", "args", "unwinding"}
    BY <1>7, UnderWay DEF Finish, ScheduleInv, TypeOK, Past
  <2>4. task[t] = "running" /\ UNCHANGED <<pc, coverage>>
    BY <1>7 DEF Finish
  <2>5. Promise!Decide(t)
    BY <2>1, <2>2, <2>3, <2>4, StepDecides
  <2> QED
    BY <2>5 DEF Promise!Next
<1> QED
  BY <1>2, <1>3, <1>4, <1>5, <1>6, <1>7 DEF Next, Main

(* With a sound registry every step of full_recon is a step of the promise *)
(* or changes nothing a caller sees.                                       *)
THEOREM ImplementsPromise == ASSUME RegistrySound PROVE Spec => PromiseSafety
<1>1. Init => Promise!Init
  BY DEF Init, Promise!Init, Promise!Pending, Covered
<1>2. SoundInv /\ [Next]_vars => [Promise!Next]_(Promise!vars)
  BY PromiseStep
<1> QED
  BY <1>1, <1>2, SoundInvariant, PTL DEF Spec, PromiseSafety

-----------------------------------------------------------------------------
(* What is still to come: each tool goes through at most three stages, the *)
(* main thread through at most six.                                        *)
Stage(t) == CASE task[t] = "idle"     -> 0
              [] task[t] = "admitted" -> 1
              [] task[t] \in {"skipped", "running"} -> 2
              [] OTHER                -> 3

Todo == {m \in Tools \X (1..3) : Stage(m[1]) < m[2]}

MainLeft == CASE pc = "called"                -> LastWave + 3
              [] pc \in {"loop", "args"}      -> LastWave + 3 - wave
              [] pc \in {"unwinding", "report"} -> 2
              [] pc = "signals"               -> 1
              [] OTHER                        -> 0

StepsLeft == Cardinality(Todo) + MainLeft

StepsRunOut == [][StepsLeft' < StepsLeft]_vars

LEMMA TodoBounded == IsFiniteSet(Todo) /\ Cardinality(Todo) \in 0..(3 * Cardinality(Tools))
<1>0. \A n \in Nat \ {0} : IsFiniteSet(1..n) /\ Cardinality(1..n) = n
  BY FS_Interval
<1>1. IsFiniteSet(1..3) /\ Cardinality(1..3) = 3
  <2>1. 3 \in Nat \ {0}
    OBVIOUS
  <2>2. (\A n \in Nat \ {0} : IsFiniteSet(1..n) /\ Cardinality(1..n) = n)
          => IsFiniteSet(1..3) /\ Cardinality(1..3) = 3
    BY <2>1, Zenon
  <2> QED
    BY <1>0, <2>2
<1>2. /\ IsFiniteSet(Tools \X (1..3))
      /\ Cardinality(Tools \X (1..3)) = Cardinality(Tools) * 3
  BY <1>1, FS_Product, RegistryAssumption
<1>3. Todo \subseteq Tools \X (1..3)
  BY DEF Todo
<1>4. Cardinality(Tools) \in Nat /\ Cardinality(Todo) \in Nat
      /\ Cardinality(Todo) <= Cardinality(Tools \X (1..3))
  BY <1>2, <1>3, FS_Subset, FS_CardinalityType, RegistryAssumption
<1> QED
  BY <1>2, <1>3, <1>4, FS_Subset

LEMMA MainBounded == TypeOK => MainLeft \in 0..(LastWave + 3)
<1> SUFFICES ASSUME TypeOK PROVE MainLeft \in 0..(LastWave + 3)
  OBVIOUS
<1>1. wave \in 1..3
  BY DEF TypeOK, LastWave
<1>2. CASE pc \in {"loop", "args"}
  <2>1. MainLeft = LastWave + 3 - wave
    BY <1>2 DEF MainLeft
  <2> QED
    BY <1>1, <2>1 DEF LastWave
<1>3. CASE pc \notin {"loop", "args"}
  BY <1>3 DEF MainLeft, LastWave
<1> QED
  BY <1>2, <1>3

(* A tool that goes up a stage leaves less to do.                          *)
LEMMA TodoShrinks ==
  ASSUME NEW t \in Tools, NEW s, Stage(t) < Stage(t)',
         task \in [Tools -> {"idle", "skipped", "admitted", "running", "finished"}],
         task' = [task EXCEPT ![t] = s]
  PROVE  Cardinality(Todo') \in Nat /\ Cardinality(Todo') < Cardinality(Todo)
<1>1. /\ Stage(t) \in 0..3 /\ Stage(t)' \in 0..3
      /\ \A u \in Tools : u # t => Stage(u)' = Stage(u)
  BY DEF Stage
<1>2. Todo' \subseteq Todo
  BY <1>1 DEF Todo
<1>3. PICK m \in Tools \X (1..3) : m[1] = t /\ m[2] = Stage(t)'
  <2>1. <<t, Stage(t)'>> \in Tools \X (1..3)
    BY <1>1
  <2> QED
    BY <2>1
<1>4. m \in Todo /\ m \notin Todo'
  BY <1>1, <1>3 DEF Todo
<1>5. /\ IsFiniteSet(Todo') /\ Cardinality(Todo') <= Cardinality(Todo)
      /\ Cardinality(Todo') # Cardinality(Todo)
  BY <1>2, <1>4, TodoBounded, FS_Subset
<1>6. Cardinality(Todo') \in Nat /\ Cardinality(Todo) \in Nat
  BY <1>5, TodoBounded, FS_CardinalityType
<1> QED
  BY <1>5, <1>6

LEMMA StepsRun == ScheduleInv /\ ScheduleInv' /\ [Next]_vars => [StepsLeft' < StepsLeft]_vars
<1> SUFFICES ASSUME ScheduleInv, ScheduleInv', Next, ~UNCHANGED vars
             PROVE  StepsLeft' < StepsLeft
  BY DEF Next, Terminated
<1>1. MainLeft \in Nat
  BY MainBounded DEF ScheduleInv, LastWave
<1>2. Cardinality(Todo) \in Nat
  BY TodoBounded
<1>3. CASE Reject \/ Accept \/ Unwind \/ EndWave \/ BuildCoverage \/ ExtractSignals
           \/ \E t \in Tools : GateRaises(t)
  <2>1. task' = task
    BY <1>3 DEF Reject, Accept, Unwind, EndWave, BuildCoverage, ExtractSignals, GateRaises
  <2>2. Todo' = Todo
    BY <2>1 DEF Todo, Stage
  <2>3. /\ wave \in 1..LastWave /\ wave' \in 1..LastWave
        /\ \/ pc = "called" /\ pc' \in {"rejected", "loop"} 
           \/ pc = "unwinding" /\ pc' = "crashed"
           \/ pc = "loop" /\ pc' = "loop" /\ wave' = wave + 1
           \/ pc = "loop" /\ pc' \in {"report", "unwinding"}
           \/ pc = "report" /\ pc' = "signals"
           \/ pc = "signals" /\ pc' \in {"crashed", "done"}
    BY <1>3 DEF Reject, Accept, Unwind, EndWave, BuildCoverage, ExtractSignals, GateRaises,
                LoopOver, Advance, ScheduleInv, TypeOK
  <2>4. MainLeft' \in Nat /\ MainLeft' < MainLeft
    <3>1. wave \in {1, 2, 3} /\ wave' \in {1, 2, 3}
      BY <2>3 DEF LastWave
    <3> QED
      BY <2>3, <3>1 DEF MainLeft, LastWave
  <2> HIDE DEF MainLeft, Todo
  <2> QED
    BY <1>1, <1>2, <2>2, <2>4 DEF StepsLeft
<1>4. ASSUME NEW t \in Tools, Skip(t) \/ Admit(t) \/ Submit(t) \/ Finish(t)
      PROVE  StepsLeft' < StepsLeft
  <2>1. MainLeft' = MainLeft
    BY <1>4 DEF Skip, Admit, Submit, Finish, MainLeft
  <2>2. task \in [Tools -> {"idle", "skipped", "admitted", "running", "finished"}]
    BY DEF ScheduleInv, TypeOK
  <2>3. \/ task[t] = "idle" /\ task' = [task EXCEPT ![t] = "skipped"]
        \/ task[t] = "idle" /\ task' = [task EXCEPT ![t] = "admitted"]
        \/ task[t] = "admitted" /\ task' = [task EXCEPT ![t] = "running"]
        \/ task[t] = "running" /\ task' = [task EXCEPT ![t] = "finished"]
    BY <1>4 DEF Skip, Admit, Submit, Finish, AtTool
  <2>4. PICK s : task' = [task EXCEPT ![t] = s] /\ Stage(t) < Stage(t)'
    BY <2>2, <2>3 DEF Stage
  <2>5. Cardinality(Todo') \in Nat /\ Cardinality(Todo') < Cardinality(Todo)
    BY <2>2, <2>4, TodoShrinks
  <2> HIDE DEF MainLeft, Todo
  <2> QED
    BY <1>1, <1>2, <2>1, <2>5 DEF StepsLeft
<1> QED
  BY <1>3, <1>4 DEF Next, Main, Terminated

(* A call of full_recon is finite, whatever the tools do and however the   *)
(* threads interleave: each step leaves fewer to come, of at most three    *)
(* for each tool and six of the main thread.                               *)
THEOREM CallsRunOut ==
  Spec => [](StepsLeft \in 0..(3 * Cardinality(Tools) + LastWave + 3)) /\ StepsRunOut
<1>1. TypeOK => StepsLeft \in 0..(3 * Cardinality(Tools) + LastWave + 3)
  <2> HIDE DEF Todo, MainLeft
  <2>1. Cardinality(Tools) \in Nat /\ LastWave \in Nat
    BY RegistryAssumption, FS_CardinalityType DEF LastWave
  <2> QED
    BY <2>1, TodoBounded, MainBounded DEF StepsLeft
<1> QED
  BY <1>1, ScheduleInvariant, TypeCorrect, StepsRun, PTL DEF Spec, StepsRunOut

-----------------------------------------------------------------------------
(* What the main thread can do next: each line is the guard of one or more *)
(* of its actions.                                                         *)
MainReady ==
  \/ pc \in {"called", "report", "signals"}
  \/ pc = "loop" /\ \E t \in Tools : AtTool(t)
  \/ pc = "args" /\ \E t \in Tools : task[t] = "admitted"
  \/ LoopOver /\ Running = {}
  \/ pc = "unwinding" /\ Running = {}

CanGoOn == ~Ended => Running # {} \/ MainReady

ArgsForOne == pc = "args" => \E t \in Tools : task[t] = "admitted"

LEMMA ArgsInvariant == Spec => []ArgsForOne
<1>1. Init => ArgsForOne
  BY DEF Init, ArgsForOne
<1>2. TypeOK /\ ArgsForOne /\ [Next]_vars => ArgsForOne'
  <2> SUFFICES ASSUME TypeOK, ArgsForOne, [Next]_vars, pc' = "args"
               PROVE  \E t \in Tools : task'[t] = "admitted"
    BY DEF ArgsForOne
  <2>1. ASSUME NEW t \in Tools, Admit(t) PROVE task'[t] = "admitted"
    BY <2>1 DEF Admit, TypeOK
  <2>2. ASSUME NEW t \in Tools, Finish(t) PROVE \E u \in Tools : task'[u] = "admitted"
    BY <2>2 DEF Finish, TypeOK, ArgsForOne
  <2>3. CASE UNCHANGED vars
    BY <2>3 DEF vars, ArgsForOne
  <2> QED
    BY <2>1, <2>2, <2>3 DEF Next, Main, Terminated, Reject, Accept, Unwind, EndWave, LoopOver,
         Advance, BuildCoverage, ExtractSignals, Skip, GateRaises, Submit
<1> QED
  BY <1>1, <1>2, TypeCorrect, PTL DEF Spec

(* Of the tools a wave has not looked at, one comes first in the registry. *)
LEMMA LoopHasNext ==
  ASSUME TypeOK, pc = "loop", ~LoopOver
  PROVE  \E t \in Tools : AtTool(t)
<1> DEFINE R == {ss \in Nat \X Nat : ss[1] < ss[2]}
           Idle == {t \in Tools : Wave[t] = wave /\ task[t] = "idle"}
           Places == {Position[t] : t \in Idle}
<1>1. IsWellFoundedOn(R, Nat)
  BY NatLessThanWellFounded DEF OpToRel
<1>2. Places \subseteq Nat /\ Places # {}
  BY RegistryAssumption DEF LoopOver
<1> HIDE DEF R, Places
<1>3. PICK n \in Places : \A m \in Places : <<m, n>> \notin R
  BY <1>1, <1>2, WFMin
<1>4. PICK t \in Idle : n = Position[t]
  BY <1>3 DEF Places
<1>5. ASSUME NEW u \in Tools, Wave[u] = wave, Position[u] < Position[t] PROVE task[u] # "idle"
  <2>1. Position[u] \in Nat /\ Position[t] \in Nat
    BY RegistryAssumption
  <2>2. <<Position[u], Position[t]>> \in R
    BY <1>5, <2>1 DEF R
  <2> QED
    BY <1>3, <1>4, <1>5, <2>2 DEF Places
<1> QED
  BY <1>4, <1>5 DEF AtTool

(* The call is never stuck, whatever the registry: until it has ended a    *)
(* tool is running or the main thread can go on, so the waits of           *)
(* execute_wave and of an exception for the pool never last for ever.      *)
THEOREM NeverStuck == Spec => []CanGoOn
<1>1. TypeOK /\ ArgsForOne => CanGoOn
  <2> SUFFICES ASSUME TypeOK, ArgsForOne, ~Ended, Running = {} PROVE MainReady
    BY DEF CanGoOn
  <2>1. pc \in {"called", "loop", "args", "unwinding", "report", "signals"}
    BY DEF TypeOK, Ended
  <2>2. pc = "loop" => LoopOver \/ \E t \in Tools : AtTool(t)
    BY LoopHasNext
  <2> QED
    BY <2>1, <2>2 DEF MainReady, ArgsForOne
<1> QED
  BY <1>1, TypeCorrect, ArgsInvariant, PTL
=============================================================================
