---------------------------- MODULE RunScanProofs ----------------------------
(***************************************************************************)
(* Theorems about RunScan, for every set of names, scope, answer of the    *)
(* DNS, depth and limit.                                                   *)
(*                                                                         *)
(* The properties that matter speak of the exited run.  The invariant      *)
(* follows the run to that point: Due is what the accepted targets still   *)
(* wait for, and without a signal every other accepted target has exactly  *)
(* one result (Scans); in-scope names are looked up or still in nextNames  *)
(* (Closed), which is empty whenever the run can go to the flush (Idle).   *)
(***************************************************************************)
EXTENDS RunScan, FiniteSetTheorems, TLAPS

Scoped ==
  /\ ScopeIsKept
  /\ nextNames \subseteq Scope
  /\ found \subseteq Scope

\* The accepted targets that have not been scanned yet.
Due ==
  IF pc \in {"options", "prepare", "open", "failures", "wave"} THEN wave \ emitted
  ELSE IF pc = "pivot" THEN pivoted
  ELSE {}

Scans ==
  /\ \A t \in Targets : scanned[t] <= 1
  /\ \A t \in Targets : t \in Due \/ t \notin seen => scanned[t] = 0
  /\ ~signal /\ exit \notin {"1", "2"} => \A t \in seen \ Due : scanned[t] = 1
  /\ pc \in {"options", "prepare", "open", "failures"} => emitted = {} /\ outcome = "none" /\ wave = seen
  /\ pc = "wave" /\ outcome = "nil" /\ ~signal => emitted = wave
  /\ pc \in {"options", "prepare", "open", "failures", "wave"} => pivoted = {}

Seeded ==
  /\ \A i \in 1 .. next : Seeds[i] \in tried
  /\ pc \in {"options", "prepare"} => failures <= next
  /\ pc \notin {"options", "prepare"} /\ exit \notin {"1", "2"} => next = Len(Seeds)

Closed == discovered < MaxDiscovery => found \subseteq tried \cup nextNames

Idle ==
  /\ pc \in {"options", "prepare", "open", "failures", "flush"} \/ exit \in {"0", "3", "130"} => nextNames = {}
  /\ pc = "pivot" => depth < PivotDepth
  /\ depth >= PivotDepth => nextNames = {}

Ending ==
  /\ pc = "exited" <=> exit # "none"
  /\ exit \in {"0", "3"} => ~signal
  /\ exit = "3" => auditFail
  /\ exit = "0" => ~auditFail
  /\ outcome = "emit" => pc \in {"wave", "exited"} /\ exit \in {"none", "1"}
  /\ behind # {} => exit = "1" \/ (pc = "wave" /\ outcome = "emit")
  /\ exit \in {"0", "3", "130"} => ~pending
  /\ FileIsSafe

IInv == TypeOK /\ Scoped /\ Scans /\ Seeded /\ Closed /\ Idle /\ Ending

-----------------------------------------------------------------------------
LEMMA InitIInv == Init => IInv
<1> SUFFICES ASSUME Init PROVE IInv
  OBVIOUS
<1> USE RunAssumption DEF Init
<1>1. Len(Seeds) \in Nat
  OBVIOUS
<1>2. TypeOK
  <2>1. scanned \in [Targets -> Nat]
    OBVIOUS
  <2>2. next \in 0 .. Len(Seeds) /\ failures \in 0 .. Len(Seeds) /\ depth \in 0 .. PivotDepth
        /\ discovered \in 0 .. MaxDiscovery
    BY <1>1
  <2>3. QED
    BY <2>1, <2>2 DEF TypeOK
<1>3. Scoped /\ Scans /\ Seeded /\ Closed /\ Idle /\ Ending
  BY DEF Scoped, ScopeIsKept, Scans, Due, Seeded, Closed, Idle, Ending, FileIsSafe
<1>4. QED
  BY <1>2, <1>3 DEF IInv

(* What resolving gives: addresses of answers, or the missing address.       *)
LEMMA LookupsType == \A addresses \in Lookups : addresses \subseteq Addresses \cup {NoAddress}
<1> SUFFICES ASSUME NEW answer \in Answers
             PROVE  Resolved(answer) \subseteq Addresses \cup {NoAddress}
  BY DEF Lookups
<1>1. answer \in Seq(Addresses)
  BY RunAssumption
<1>2. \A i \in DOMAIN answer : answer[i] \in Addresses
  BY <1>1
<1>3. QED
  BY <1>2 DEF Resolved

(* A refused write: stdout is behind, as the last destination.               *)
LEMMA RefusedBehind ==
  ASSUME Out!Refused, behind \subseteq {"file", "stdout"}
  PROVE  behind' \subseteq {"file", "stdout"} /\ "stdout" \in behind'
<1>1. PICK i \in 1 .. Len(Out!Destinations) :
        behind' = behind \cup {Out!Destinations[j] : j \in i .. Len(Out!Destinations)}
  BY DEF Out!Refused
<1>2. CASE tee
  <2>1. Out!Destinations = <<"file", "stdout">>
    BY <1>2 DEF Out!Destinations
  <2>2. Len(Out!Destinations) = 2 /\ Out!Destinations[1] = "file" /\ Out!Destinations[2] = "stdout"
    BY <2>1
  <2>3. 2 \in i .. 2 /\ \A j \in i .. 2 : j = 1 \/ j = 2
    BY <1>1, <2>2
  <2>4. behind' = behind \cup {Out!Destinations[j] : j \in i .. 2}
    BY <1>1, <2>2
  <2>5. "stdout" \in behind'
    BY <2>2, <2>3, <2>4
  <2>6. ASSUME NEW d \in behind' PROVE d \in {"file", "stdout"}
    BY <2>2, <2>3, <2>4
  <2>7. QED
    BY <2>5, <2>6
<1>3. CASE ~tee
  <2>1. Out!Destinations = <<"stdout">>
    BY <1>3 DEF Out!Destinations
  <2>2. Len(Out!Destinations) = 1 /\ Out!Destinations[1] = "stdout"
    BY <2>1
  <2>3. 1 \in i .. 1 /\ \A j \in i .. 1 : j = 1
    BY <1>1, <2>2
  <2>4. behind' = behind \cup {Out!Destinations[j] : j \in i .. 1}
    BY <1>1, <2>2
  <2>5. "stdout" \in behind'
    BY <2>2, <2>3, <2>4
  <2>6. ASSUME NEW d \in behind' PROVE d \in {"file", "stdout"}
    BY <2>2, <2>3, <2>4
  <2>7. QED
    BY <2>5, <2>6
<1>4. QED
  BY <1>2, <1>3

(* What a write or a flush does to the sink.                                 *)
LEMMA SinkStep ==
  ASSUME TypeOK
  PROVE  /\ Out!Write \/ Out!Flush => pending' \in BOOLEAN /\ behind' = behind
         /\ Out!Flush => pending' = FALSE
         /\ Out!WriteFails \/ Out!FlushFails =>
              pending' \in BOOLEAN /\ behind' \subseteq {"file", "stdout"} /\ "stdout" \in behind'
<1>1. pending \in BOOLEAN /\ behind \subseteq {"file", "stdout"}
  BY DEF TypeOK
<1>2. Out!Write \/ Out!Flush => pending' \in BOOLEAN /\ behind' = behind
  BY DEF Out!Write, Out!Flush, Out!Taken
<1>3. Out!Flush => pending' = FALSE
  BY DEF Out!Flush
<1>4. Out!WriteFails => pending' \in BOOLEAN /\ Out!Refused
  BY DEF Out!WriteFails
<1>5. Out!FlushFails => pending' \in BOOLEAN /\ Out!Refused
  BY <1>1 DEF Out!FlushFails
<1>6. QED
  BY <1>1, <1>2, <1>3, <1>4, <1>5, RefusedBehind

(* The options and the opening of the output accept no target.               *)
LEMMA SetupStep ==
  ASSUME IInv, RefuseOptions \/ ReadFails \/ OptionsAccepted \/ RefuseConfig \/ CreateFails
               \/ OpenOutput
  PROVE  IInv'
<1> USE RunAssumption DEF IInv
<1>1. /\ UNCHANGED <<next, failures, seen, wave, emitted, outcome, signal, depth, nextNames,
                     pivoted, discovered, auditFail, pending, behind, scanned, found, tried,
                     mode, tee>>
      /\ pc \in {"options", "open"}
      /\ \/ pc' = "exited" /\ exit' \in {"1", "2"}
         \/ pc = "options" /\ pc' = "prepare" /\ exit' = exit
         \/ pc = "open" /\ pc' = "failures" /\ exit' = exit
      /\ created' = created \/ (pc = "open" /\ created' = tee)
  <2>1. UNCHANGED nothing /\ UNCHANGED <<mode, tee>>
    BY DEF RefuseOptions, ReadFails, OptionsAccepted, RefuseConfig, CreateFails, OpenOutput, setup
  <2>2. pc \in {"options", "open"}
    BY DEF RefuseOptions, ReadFails, OptionsAccepted, RefuseConfig, CreateFails, OpenOutput
  <2>3. \/ pc' = "exited" /\ exit' \in {"1", "2"}
        \/ pc = "options" /\ pc' = "prepare" /\ exit' = exit
        \/ pc = "open" /\ pc' = "failures" /\ exit' = exit
    BY DEF RefuseOptions, ReadFails, OptionsAccepted, RefuseConfig, CreateFails, OpenOutput, Exit
  <2>4. created' = created \/ (pc = "open" /\ created' = tee)
    BY DEF RefuseOptions, ReadFails, OptionsAccepted, RefuseConfig, CreateFails, OpenOutput, setup
  <2>5. QED
    BY <2>1, <2>2, <2>3, <2>4 DEF nothing, waveVars, sink, history
<1>2. exit = "none"
  BY <1>1 DEF Ending
<1>3. created' \in BOOLEAN /\ tee' \in BOOLEAN /\ mode' \in Modes
  BY <1>1 DEF TypeOK
<1>4. TypeOK'
  BY <1>1, <1>2, <1>3 DEF TypeOK
<1>5. Scoped' /\ Closed'
  BY <1>1 DEF Scoped, ScopeIsKept, Closed
<1>6. Scans'
  BY <1>1, <1>2 DEF Scans, Due
<1>7. Seeded'
  BY <1>1, <1>2 DEF Seeded
<1>8. Idle'
  BY <1>1, <1>2 DEF Idle
<1>9. FileIsSafe'
  <2>1. SeedNames \subseteq tried \/ pc # "open"
    BY <1>1, <1>2 DEF Seeded, SeedNames
  <2>2. "file" \in behind => "stdout" \in behind
    BY DEF Ending, FileIsSafe
  <2>3. created => tee /\ SeedNames \subseteq tried
    BY DEF Ending, FileIsSafe
  <2>4. created' => tee' /\ SeedNames \subseteq tried'
    BY <1>1, <2>1, <2>3
  <2>5. QED
    BY <1>1, <2>2, <2>4 DEF FileIsSafe
<1>10. Ending'
  BY <1>1, <1>2, <1>9 DEF Ending
<1>11. QED
  BY <1>4, <1>5, <1>6, <1>7, <1>8, <1>10

(* Adding the targets of one name.                                           *)
LEMMA TargetsOfType ==
  ASSUME NEW name \in Names, NEW addresses \in Lookups
  PROVE  /\ TargetsOf(name, addresses) \subseteq Targets
         /\ \A t \in TargetsOf(name, addresses) : t[1] = name
  BY LookupsType DEF TargetsOf, Targets

(* A step of prepareTargets on a seed.                                       *)
LEMMA PrepareSeedStep ==
  ASSUME IInv, NEW addresses \in Lookups, PrepareSeed(addresses)
  PROVE  IInv'
<1> DEFINE name == Seeds[next + 1]
<1> USE RunAssumption DEF IInv, PrepareSeed, setup, sink
<1>1. Len(Seeds) \in Nat /\ next \in Nat /\ next + 1 \in 1 .. Len(Seeds) /\ next' = next + 1
  BY DEF TypeOK
<1>2. name \in Names /\ name \in SeedNames
  BY <1>1 DEF SeedNames
<1>3. /\ TargetsOf(name, addresses) \subseteq Targets
      /\ \A t \in TargetsOf(name, addresses) : t[1] = name
  BY <1>2, TargetsOfType
<1>4. seen' = seen \cup TargetsOf(name, addresses) /\ wave' = seen' /\ tried' = tried \cup {name}
  OBVIOUS
<1> HIDE DEF name
<1>5. pc = "prepare" /\ failures' \in Nat /\ failures' <= next'
  BY <1>1 DEF TypeOK, Seeded
<1>6. TypeOK'
  BY <1>1, <1>2, <1>3, <1>4, <1>5 DEF TypeOK, Scans
<1>7. Scoped'
  BY <1>2, <1>3, <1>4 DEF Scoped, ScopeIsKept
<1>8. Scans'
  BY <1>4 DEF Scans, Due, TypeOK, Ending
<1>9. Seeded'
  <2>1. \A i \in 1 .. next' : Seeds[i] \in tried'
    BY <1>1, <1>4 DEF Seeded, name
  <2>2. QED
    BY <1>5, <2>1 DEF Seeded
<1>10. Closed' /\ Idle' /\ Ending'
  BY <1>4, <1>5 DEF Closed, Idle, Ending, FileIsSafe, TypeOK
<1>11. QED
  BY <1>6, <1>7, <1>8, <1>9, <1>10

(* The steps before the first wave that accept no target.                    *)
LEMMA PrepareStep ==
  ASSUME IInv, RefuseSeed \/ SeedsPrepared \/ WriteFailure \/ FailuresWritten
  PROVE  IInv'
<1> USE RunAssumption DEF IInv
<1>1. CASE RefuseSeed
  BY <1>1 DEF RefuseSeed, Exit, setup, waveVars, sink, history, TypeOK, Scoped, ScopeIsKept, Scans, Due,
     Seeded, Closed, Idle, Ending, FileIsSafe
<1>2. CASE SeedsPrepared
  BY <1>2 DEF SeedsPrepared, setup, waveVars, sink, history, TypeOK, Scoped, ScopeIsKept, Scans, Due,
     Seeded, Closed, Idle, Ending, FileIsSafe
<1>3. CASE WriteFailure
  <2>1. /\ UNCHANGED <<next, seen, wave, emitted, outcome, signal, depth, nextNames, pivoted,
                       discovered, auditFail, scanned, found, tried, mode, tee, created>>
        /\ pc = "failures" /\ exit = "none"
        /\ \/ pc' = pc /\ exit' = exit /\ behind' = behind
           \/ pc' = "exited" /\ exit' = "1" /\ "stdout" \in behind'
    <3>1. pc = "failures" /\ exit = "none"
      BY <1>3 DEF WriteFailure, Ending
    <3>2. UNCHANGED <<next, seen, wave, emitted, outcome, signal, depth, nextNames, pivoted,
                      discovered, auditFail, scanned, found, tried, mode, tee, created>>
      BY <1>3 DEF WriteFailure, waveVars, history, setup
    <3>3. \/ pc' = pc /\ exit' = exit /\ behind' = behind
          \/ pc' = "exited" /\ exit' = "1" /\ "stdout" \in behind'
      <4>1. (Out!Write /\ UNCHANGED <<pc, exit>>) \/ (Out!WriteFails /\ Exit("1"))
        BY <1>3 DEF WriteFailure
      <4>2. QED
        BY <4>1, SinkStep DEF Exit
    <3>4. QED
      BY <3>1, <3>2, <3>3
  <2>2. failures' \in 0 .. Len(Seeds) /\ pending' \in BOOLEAN /\ behind' \subseteq {"file", "stdout"}
    <3>1. Len(Seeds) \in Nat /\ failures \in 0 .. Len(Seeds) /\ failures > 0
      BY <1>3 DEF WriteFailure, TypeOK
    <3>2. failures' = failures - 1 \/ failures' = failures
      BY <1>3 DEF WriteFailure
    <3>3. pending' \in BOOLEAN /\ behind' \subseteq {"file", "stdout"}
      <4>1. Out!Write \/ Out!WriteFails
        BY <1>3 DEF WriteFailure
      <4>2. QED
        BY <4>1, SinkStep DEF TypeOK
    <3>4. QED
      BY <3>1, <3>2, <3>3
  <2>3. TypeOK'
    BY <2>1, <2>2 DEF TypeOK
  <2>4. Scoped' /\ Scans' /\ Seeded'
    BY <2>1 DEF Scoped, ScopeIsKept, Scans, Due, Seeded
  <2>5. Closed' /\ Idle' /\ Ending'
    BY <2>1 DEF Closed, Idle, Ending, FileIsSafe
  <2>6. QED
    BY <2>3, <2>4, <2>5
<1>4. CASE FailuresWritten
  BY <1>4 DEF FailuresWritten, setup, waveVars, sink, history, TypeOK, Scoped, ScopeIsKept, Scans, Due,
     Seeded, Closed, Idle, Ending, FileIsSafe
<1>5. QED
  BY <1>1, <1>2, <1>3, <1>4

(* One emit: the target leaves Due and has its one result.                   *)
LEMMA EmitStep ==
  ASSUME IInv, NEW t \in wave, NEW names \in SUBSET Names,
         EmitResult(t, names) \/ EmitFails(t, names)
  PROVE  IInv'
<1> USE RunAssumption DEF IInv
<1>1. /\ pc = "wave" /\ pc' = pc /\ outcome = "none" /\ t \notin emitted
      /\ emitted' = emitted \cup {t} /\ outcome' \in {"none", "emit"}
      /\ UNCHANGED <<wave, signal, next, failures, seen, depth, pivoted, discovered, exit, tried,
                     mode, tee, created>>
  BY DEF EmitResult, EmitFails, W!Emit, W!EmitFails, setup
<1>2. /\ scanned' = [scanned EXCEPT ![t] = @ + 1]
      /\ auditFail' \in BOOLEAN
      /\ \/ depth < PivotDepth /\ nextNames' = nextNames \cup (names \cap Scope)
                               /\ found' = found \cup (names \cap Scope)
         \/ UNCHANGED <<nextNames, found>>
  BY DEF EmitResult, EmitFails, Collect, Collects, InScope, TypeOK
<1>3. /\ pending' \in BOOLEAN /\ behind' \subseteq {"file", "stdout"}
      /\ behind' = behind \/ (outcome' = "emit" /\ "stdout" \in behind')
  <2>1. Out!Write \/ (Out!WriteFails /\ outcome' = "emit")
    BY DEF EmitResult, EmitFails, W!EmitFails
  <2>2. QED
    BY <2>1, SinkStep DEF TypeOK
<1>4. t \in Targets /\ t \in Due /\ t \in seen /\ exit = "none"
  BY <1>1 DEF TypeOK, Due, Ending
<1>5. /\ scanned' \in [Targets -> Nat] /\ scanned'[t] = 1
      /\ \A u \in Targets : u # t => scanned'[u] = scanned[u]
  BY <1>2, <1>4 DEF TypeOK, Scans
<1>6. TypeOK'
  BY <1>1, <1>2, <1>3, <1>5 DEF TypeOK
<1>7. Scoped'
  BY <1>1, <1>2 DEF Scoped, ScopeIsKept
<1>8. Scans'
  <2>1. Due' = Due \ {t}
    BY <1>1 DEF Due
  <2>2. QED
    BY <1>1, <1>4, <1>5, <2>1 DEF Scans, TypeOK
<1>9. Seeded' /\ Closed'
  BY <1>1, <1>2 DEF Seeded, Closed
<1>10. Idle'
  BY <1>1, <1>2, <1>4 DEF Idle, TypeOK
<1>11. Ending'
  BY <1>1, <1>2, <1>3, <1>4 DEF Ending, FileIsSafe
<1>12. QED
  BY <1>6, <1>7, <1>8, <1>9, <1>10, <1>11

(* The end of a wave.                                                        *)
LEMMA WaveEndStep ==
  ASSUME IInv, WaveReturns \/ WaveFailed \/ WaveDone
  PROVE  IInv'
<1> USE RunAssumption DEF IInv
<1>1. CASE WaveReturns
  <2>1. /\ pc = "wave" /\ outcome' \in {"nil", "ctx"}
        /\ outcome' = "nil" => emitted = wave \/ signal
        /\ UNCHANGED <<pc, next, failures, seen, wave, emitted, signal, depth, nextNames, pivoted,
                       discovered, auditFail, pending, behind, exit, scanned, found, tried,
                       mode, tee, created>>
    BY <1>1 DEF WaveReturns, W!ReturnNil, W!ReturnCanceled, sink, history, setup
  <2>2. TypeOK'
    BY <2>1 DEF TypeOK
  <2>3. Scoped' /\ Seeded' /\ Closed'
    BY <2>1 DEF Scoped, ScopeIsKept, Seeded, Closed
  <2>4. Scans'
    BY <2>1 DEF Scans, Due
  <2>5. Idle'
    BY <2>1 DEF Idle
  <2>6. outcome # "emit" /\ behind = {}
    <3>1. outcome = "none"
      BY <1>1 DEF WaveReturns, W!ReturnNil, W!ReturnCanceled
    <3>2. exit = "none"
      BY <2>1 DEF Ending
    <3>3. QED
      BY <3>1, <3>2 DEF Ending
  <2>7. Ending'
    BY <2>1, <2>6 DEF Ending, FileIsSafe
  <2>8. QED
    BY <2>2, <2>3, <2>4, <2>5, <2>7
<1>2. CASE WaveFailed
  <2>1. /\ pc = "wave" /\ pc' = "exited" /\ exit' = "1" /\ exit = "none"
        /\ UNCHANGED <<next, failures, seen, wave, emitted, outcome, signal, depth, nextNames,
                       pivoted, discovered, auditFail, pending, behind, scanned, found, tried,
                       mode, tee, created>>
    BY <1>2 DEF WaveFailed, Exit, waveVars, sink, history, setup, Ending
  <2>2. TypeOK'
    BY <2>1 DEF TypeOK
  <2>3. Scoped' /\ Seeded' /\ Closed'
    BY <2>1 DEF Scoped, ScopeIsKept, Seeded, Closed
  <2>4. Scans'
    BY <2>1 DEF Scans, Due
  <2>5. Idle' /\ Ending'
    BY <2>1 DEF Idle, Ending, FileIsSafe
  <2>6. QED
    BY <2>2, <2>3, <2>4, <2>5
<1>3. CASE WaveDone
  <2>1. /\ pc = "wave" /\ outcome = "nil" /\ pc' \in {"flush", "pivot"}
        /\ pc' = "flush" => depth >= PivotDepth
        /\ pc' = "pivot" => depth < PivotDepth
        /\ UNCHANGED <<next, failures, seen, wave, emitted, outcome, signal, depth, nextNames,
                       pivoted, discovered, auditFail, pending, behind, exit, scanned, found, tried,
                       mode, tee, created>>
    BY <1>3 DEF WaveDone, waveVars, sink, history, setup, TypeOK
  <2>2. TypeOK' /\ Scoped' /\ Seeded' /\ Closed'
    BY <2>1 DEF TypeOK, Scoped, ScopeIsKept, Seeded, Closed
  <2>3. Scans'
    BY <2>1 DEF Scans, Due, TypeOK
  <2>4. Idle' /\ Ending'
    BY <2>1 DEF Idle, Ending, FileIsSafe
  <2>5. QED
    BY <2>2, <2>3, <2>4
<1>4. QED
  BY <1>1, <1>2, <1>3

(* A collected name is looked up: its new targets are due, its old ones are  *)
(* not scanned again.                                                        *)
LEMMA PivotNameStep ==
  ASSUME IInv, NEW name \in nextNames, NEW addresses \in Lookups, PivotName(name, addresses)
  PROVE  IInv'
<1> DEFINE new == TargetsOf(name, addresses) \ seen
<1> USE RunAssumption DEF IInv
<1>1. name \in Names /\ name \in Scope
  BY DEF TypeOK, Scoped
<1>2. new \subseteq Targets /\ \A t \in new : t[1] = name
  BY <1>1, TargetsOfType
<1>3. /\ pc = "pivot" /\ discovered < MaxDiscovery
      /\ nextNames' = nextNames \ {name} /\ tried' = tried \cup {name}
      /\ seen' = seen \cup new /\ pivoted' = pivoted \cup new
      /\ discovered' \in {discovered, discovered + 1}
      /\ UNCHANGED <<pc, next, failures, wave, emitted, outcome, signal, depth, auditFail,
                     pending, behind, exit, scanned, found, mode, tee, created>>
  BY DEF PivotName, MayDiscover, NewTargets, waveVars, sink, setup
<1>4. new \cap seen = {}
  OBVIOUS
<1> HIDE DEF new
<1>5. TypeOK'
  BY <1>2, <1>3 DEF TypeOK
<1>6. Scoped'
  BY <1>1, <1>2, <1>3 DEF Scoped, ScopeIsKept
<1>7. Scans'
  <2>1. Due' = Due \cup new
    BY <1>3 DEF Due
  <2>2. QED
    BY <1>2, <1>3, <1>4, <2>1 DEF Scans, TypeOK, Due
<1>8. Seeded' /\ Idle'
  BY <1>3 DEF Seeded, Idle, Ending
<1>9. Closed'
  BY <1>3 DEF Closed, TypeOK
<1>10. Ending'
  BY <1>3 DEF Ending, FileIsSafe
<1>11. QED
  BY <1>5, <1>6, <1>7, <1>8, <1>9, <1>10

LEMMA PivotFailStep ==
  ASSUME IInv, NEW name \in nextNames, PivotLookupFails(name)
  PROVE  IInv'
<1> USE RunAssumption DEF IInv
<1>1. name \in Names /\ name \in Scope
  BY DEF TypeOK, Scoped
<1>2. /\ pc = "pivot" /\ exit = "none"
      /\ nextNames' = nextNames \ {name} /\ tried' = tried \cup {name}
      /\ \/ pc' = pc /\ exit' = exit /\ behind' = behind
         \/ pc' = "exited" /\ exit' = "1" /\ "stdout" \in behind'
      /\ UNCHANGED <<next, failures, seen, wave, emitted, outcome, signal, depth, pivoted,
                     discovered, auditFail, scanned, found, mode, tee, created>>
  <2>1. pc = "pivot" /\ exit = "none"
    BY DEF PivotLookupFails, Ending
  <2>2. \/ pc' = pc /\ exit' = exit /\ behind' = behind
        \/ pc' = "exited" /\ exit' = "1" /\ "stdout" \in behind'
    <3>1. (Out!Write /\ UNCHANGED <<pc, exit>>) \/ (Out!WriteFails /\ Exit("1"))
      BY DEF PivotLookupFails
    <3>2. QED
      BY <3>1, SinkStep DEF Exit
  <2>3. /\ nextNames' = nextNames \ {name} /\ tried' = tried \cup {name}
        /\ UNCHANGED <<next, failures, seen, wave, emitted, outcome, signal, depth, pivoted,
                       discovered, auditFail, scanned, found, mode, tee, created>>
    BY DEF PivotLookupFails, waveVars, setup
  <2>4. QED
    BY <2>1, <2>2, <2>3
<1>3. pending' \in BOOLEAN /\ behind' \subseteq {"file", "stdout"}
  <2>1. Out!Write \/ Out!WriteFails
    BY DEF PivotLookupFails
  <2>2. QED
    BY <2>1, SinkStep DEF TypeOK
<1>4. TypeOK' /\ Scoped'
  BY <1>1, <1>2, <1>3 DEF TypeOK, Scoped, ScopeIsKept
<1>5. Scans'
  BY <1>2 DEF Scans, Due, TypeOK
<1>6. Seeded' /\ Closed' /\ Idle' /\ Ending'
  BY <1>2 DEF Seeded, Closed, Idle, Ending, FileIsSafe
<1>7. QED
  BY <1>4, <1>5, <1>6

(* The next wave consists of what is due.                                    *)
LEMMA PivotDoneStep ==
  ASSUME IInv, PivotDone
  PROVE  IInv'
<1> USE RunAssumption DEF IInv
<1>1. /\ pc = "pivot" /\ exit = "none" /\ depth < PivotDepth
      /\ nextNames = {} \/ ~(discovered < MaxDiscovery)
      /\ nextNames' = {} /\ depth' = depth + 1 /\ wave' = pivoted /\ emitted' = {}
      /\ outcome' = "none" /\ pivoted' = {}
      /\ (pc' = "flush" /\ pivoted = {}) \/ pc' = "wave"
      /\ UNCHANGED <<next, failures, seen, discovered, auditFail, pending, behind, signal, exit,
                     scanned, found, tried, mode, tee, created>>
  BY DEF PivotDone, PivotOver, MayDiscover, sink, history, setup, Idle, Ending
<1>2. TypeOK'
  BY <1>1 DEF TypeOK
<1>3. Scoped' /\ Seeded'
  BY <1>1 DEF Scoped, ScopeIsKept, Seeded
<1>4. Scans'
  <2>1. Due' = Due
    BY <1>1 DEF Due
  <2>2. QED
    BY <1>1, <2>1 DEF Scans, TypeOK
<1>5. Closed' /\ Idle' /\ Ending'
  BY <1>1 DEF Closed, Idle, Ending, FileIsSafe
<1>6. QED
  BY <1>2, <1>3, <1>4, <1>5

LEMMA FlushStep ==
  ASSUME IInv, Flush
  PROVE  IInv'
<1> USE RunAssumption DEF IInv
<1>1. /\ pc = "flush" /\ pc' = "exited" /\ exit = "none"
      /\ UNCHANGED <<next, failures, seen, wave, emitted, outcome, signal, depth, nextNames,
                     pivoted, discovered, auditFail, scanned, found, tried, mode, tee, created>>
  <2>1. pc = "flush" /\ exit = "none"
    BY DEF Flush, Ending
  <2>2. pc' = "exited"
    BY DEF Flush, Exit
  <2>3. QED
    BY <2>1, <2>2 DEF Flush, waveVars, history, setup
<1>2. \/ exit' = "1" /\ "stdout" \in behind'
      \/ exit' = ExitCode /\ pending' = FALSE /\ behind' = behind
  <2>1. (Out!Flush /\ Exit(ExitCode)) \/ (Out!FlushFails /\ Exit("1"))
    BY DEF Flush
  <2>2. QED
    BY <2>1, SinkStep DEF Exit
<1>3. pending' \in BOOLEAN /\ behind' \subseteq {"file", "stdout"}
  <2>1. Out!Flush \/ Out!FlushFails
    BY DEF Flush
  <2>2. QED
    BY <2>1, SinkStep DEF TypeOK
<1>4. ExitCode \in {"0", "3", "130"} /\ (ExitCode \in {"0", "3"} => ~signal)
      /\ (ExitCode = "0" => ~auditFail) /\ (ExitCode = "3" => auditFail)
  BY DEF ExitCode, TypeOK
<1>5. TypeOK'
  BY <1>1, <1>2, <1>3, <1>4 DEF TypeOK
<1>6. Scoped' /\ Seeded' /\ Closed'
  BY <1>1, <1>2, <1>4 DEF Scoped, ScopeIsKept, Seeded, Closed
<1>7. Scans'
  BY <1>1, <1>2, <1>4 DEF Scans, Due
<1>8. Idle'
  BY <1>1, <1>2, <1>4 DEF Idle
<1>9. Ending'
  BY <1>1, <1>2, <1>4 DEF Ending, FileIsSafe
<1>10. QED
  BY <1>5, <1>6, <1>7, <1>8, <1>9

LEMMA SurroundingsStep ==
  ASSUME IInv, Signal \/ UNCHANGED vars
  PROVE  IInv'
<1>1. /\ UNCHANGED <<pc, next, failures, seen, wave, emitted, outcome, depth, nextNames, pivoted,
                     discovered, auditFail, pending, behind, exit, scanned, found, tried, mode,
                     tee, created>>
      /\ signal => signal'
      /\ signal' \in BOOLEAN
      /\ exit # "none" => signal' = signal
  BY DEF Signal, vars, waveVars, sink, history, setup, IInv, TypeOK, Ending
<1>2. TypeOK' /\ Scoped' /\ Seeded' /\ Closed' /\ Idle'
  BY <1>1 DEF IInv, TypeOK, Scoped, ScopeIsKept, Seeded, Closed, Idle
<1>3. Scans'
  BY <1>1 DEF IInv, Scans, Due
<1>4. Ending'
  BY <1>1 DEF IInv, Ending, FileIsSafe
<1>5. QED
  BY <1>2, <1>3, <1>4 DEF IInv

LEMMA StepIInv == IInv /\ [Next]_vars => IInv'
  BY SetupStep, PrepareSeedStep, PrepareStep, EmitStep, WaveEndStep, PivotNameStep, PivotFailStep,
     PivotDoneStep, FlushStep, SurroundingsStep DEF Next, Run

LEMMA Invariance == Spec => []IInv
  BY InitIInv, StepIInv, PTL DEF Spec

-----------------------------------------------------------------------------
(* The discoveries are counted: a name outside the seeds is in seen only if   *)
(* the counter was increased for it.                                          *)

NewNames == {t[1] : t \in seen} \ SeedNames

Counted == IsFiniteSet(NewNames) /\ Cardinality(NewNames) <= discovered

LEMMA InitCounted == Init => Counted
<1> SUFFICES ASSUME Init PROVE Counted
  OBVIOUS
<1>1. NewNames = {}
  BY DEF Init, NewNames
<1>2. QED
  BY <1>1, FS_EmptySet DEF Counted, Init

LEMMA StepCounted == IInv /\ IInv' /\ Counted /\ [Next]_vars => Counted'
<1> SUFFICES ASSUME IInv, IInv', Counted, [Next]_vars PROVE Counted'
  OBVIOUS
<1>1. CASE UNCHANGED <<seen, discovered>>
  <2>1. NewNames' = NewNames
    BY <1>1 DEF NewNames
  <2>2. QED
    BY <1>1, <2>1 DEF Counted
<1>2. ASSUME NEW addresses \in Lookups, PrepareSeed(addresses) PROVE Counted'
  <2>1. Seeds[next + 1] \in SeedNames
    <3>1. Len(Seeds) \in Nat /\ next \in Nat /\ next < Len(Seeds)
      BY <1>2, RunAssumption DEF PrepareSeed, IInv, TypeOK
    <3>2. QED
      BY <3>1 DEF SeedNames
  <2>2. \A t \in TargetsOf(Seeds[next + 1], addresses) : t[1] = Seeds[next + 1]
    BY DEF TargetsOf
  <2>3. seen' = seen \cup TargetsOf(Seeds[next + 1], addresses) /\ discovered' = discovered
    BY <1>2 DEF PrepareSeed
  <2>4. NewNames' = NewNames
    BY <2>1, <2>2, <2>3 DEF NewNames, SeedNames
  <2>5. QED
    BY <2>3, <2>4 DEF Counted
<1>3. ASSUME NEW name \in nextNames, NEW addresses \in Lookups, PivotName(name, addresses)
      PROVE  Counted'
  <2>1. seen' = seen \cup NewTargets(name, addresses)
    BY <1>3 DEF PivotName
  <2>2. discovered \in Nat /\ Cardinality(NewNames) \in Nat
    BY FS_CardinalityType, RunAssumption DEF IInv, TypeOK, Counted
  <2>3. CASE NewTargets(name, addresses) = {}
    <3>1. seen' = seen /\ discovered' = discovered
      BY <1>3, <2>1, <2>3 DEF PivotName
    <3>2. NewNames' = NewNames
      BY <3>1 DEF NewNames
    <3>3. QED
      BY <3>1, <3>2 DEF Counted
  <2>4. CASE NewTargets(name, addresses) # {}
    <3>1. discovered' = discovered + 1
      BY <1>3, <2>4 DEF PivotName
    <3>2. \A t \in NewTargets(name, addresses) : t[1] = name
      BY DEF NewTargets, TargetsOf
    <3>3. NewNames' \subseteq NewNames \cup {name}
      BY <2>1, <3>2 DEF NewNames, SeedNames
    <3>4. /\ IsFiniteSet(NewNames \cup {name})
          /\ Cardinality(NewNames \cup {name}) <= Cardinality(NewNames) + 1
          /\ Cardinality(NewNames \cup {name}) \in Nat
      <4>1. IsFiniteSet(NewNames)
        BY DEF Counted
      <4>2. IsFiniteSet(NewNames \cup {name})
        BY <4>1, FS_AddElement
      <4>3. Cardinality(NewNames \cup {name}) \in {Cardinality(NewNames), Cardinality(NewNames) + 1}
        BY <4>1, FS_AddElement
      <4>4. QED
        BY <2>2, <4>2, <4>3
    <3>5. /\ IsFiniteSet(NewNames')
          /\ Cardinality(NewNames') <= Cardinality(NewNames \cup {name})
          /\ Cardinality(NewNames') \in Nat
      <4>1. IsFiniteSet(NewNames') /\ Cardinality(NewNames') <= Cardinality(NewNames \cup {name})
        BY <3>3, <3>4, FS_Subset
      <4>2. QED
        BY <4>1, FS_CardinalityType
    <3>6. QED
      BY <2>2, <3>1, <3>4, <3>5 DEF Counted
  <2>5. QED
    BY <2>3, <2>4
<1>4. CASE \/ RefuseOptions \/ ReadFails \/ OptionsAccepted \/ RefuseConfig \/ CreateFails
           \/ OpenOutput \/ RefuseSeed \/ SeedsPrepared \/ WriteFailure \/ FailuresWritten
  BY <1>1, <1>4 DEF RefuseOptions, ReadFails, OptionsAccepted, RefuseConfig, CreateFails, OpenOutput,
     nothing, RefuseSeed, SeedsPrepared, WriteFailure, FailuresWritten
<1>5. CASE \E t \in wave, names \in SUBSET Names : EmitResult(t, names) \/ EmitFails(t, names)
  BY <1>1, <1>5 DEF EmitResult, EmitFails
<1>6. CASE WaveReturns \/ WaveFailed \/ WaveDone
  BY <1>1, <1>6 DEF WaveReturns, WaveFailed, WaveDone
<1>7. CASE \E name \in nextNames : PivotLookupFails(name)
  BY <1>1, <1>7 DEF PivotLookupFails
<1>8. CASE PivotDone \/ Flush \/ Signal \/ UNCHANGED vars
  BY <1>1, <1>8 DEF PivotDone, Flush, Signal, vars
<1>9. QED
  BY <1>2, <1>3, <1>4, <1>5, <1>6, <1>7, <1>8 DEF Next, Run

\* However many names the certificates carry, no more than --max-discovery names are
\* added and none below --pivot-depth (cli.go:335, 357, 373).
THEOREM RunBoundsDiscovery == Spec => []DiscoveryBounded
<1>1. Spec => []Counted
  BY InitIInv, StepIInv, InitCounted, StepCounted, PTL DEF Spec
<1>2. IInv /\ Counted => DiscoveryBounded
  BY RunAssumption DEF IInv, TypeOK, Counted, NewNames, DiscoveryBounded
<1>3. QED
  BY <1>1, <1>2, Invariance, PTL

-----------------------------------------------------------------------------
(* What the invariant says of the exited run. *)

LEMMA ExitedComplete == IInv => SuccessIsComplete
<1> SUFFICES ASSUME IInv, exit \in {"0", "3"} PROVE SuccessIsComplete
  BY DEF SuccessIsComplete
<1>1. ~signal /\ pc = "exited" /\ next = Len(Seeds)
  BY DEF IInv, Ending, Seeded
<1>2. SeedNames \subseteq tried
  BY <1>1 DEF SeedNames, IInv, Seeded
<1>3. \A t \in seen : scanned[t] = 1
  BY <1>1 DEF IInv, Scans, Due
<1>4. exit = IF auditFail THEN "3" ELSE "0"
  BY DEF IInv, Ending
<1>5. QED
  BY <1>1, <1>2, <1>3, <1>4 DEF SuccessIsComplete

LEMMA ExitedClosed == IInv => PivotIsClosed
  BY DEF IInv, Closed, Idle, PivotIsClosed

LEMMA ExitedOnce == IInv => ScannedOnce
  BY DEF IInv, Scans, ScannedOnce

\* The types of the run: every target of a wave was accepted before, the depth and
\* the discoveries stay within their limits (cli.go:317-384).
THEOREM RunTypeCorrect == Spec => []TypeOK
  BY Invariance, PTL DEF IInv

\* Whatever the DNS answers and the certificates name, only the names of the user
\* and names in scope are looked up and scanned (cli.go:337, 355-376).
THEOREM RunKeepsScope == Spec => []ScopeIsKept
  BY Invariance, PTL DEF IInv, Scoped

\* No target is scanned twice, over all waves and depths (cli.go:368-371, 562-569).
THEOREM RunScansOnce == Spec => []ScannedOnce
  BY Invariance, ExitedOnce, PTL

\* Exit codes 0 and 3 mean that the run was not interrupted and that every target
\* it accepted was scanned; which of the two is the verdict of the audit
\* (cli.go:343-352, 387-404).
THEOREM RunSuccessIsComplete == Spec => []SuccessIsComplete
  BY Invariance, ExitedComplete, PTL

\* No in-scope name is forgotten between two waves (cli.go:354-385).
THEOREM RunPivotIsClosed == Spec => []PivotIsClosed
  BY Invariance, ExitedClosed, PTL

\* No exit code but 1 and 2 hides a record that was not written (cli.go:387-391).
THEOREM RunDeliversRecords == Spec => []RecordsDelivered
<1>1. IInv => RecordsDelivered
  BY DEF IInv, Ending, RecordsDelivered
<1>2. QED
  BY <1>1, Invariance, PTL

\* Whichever destination fails, and when, the file misses nothing that stdout got;
\* and it is created only for a run whose targets are all accepted (cli.go:287-299).
THEOREM RunKeepsFile == Spec => []FileIsSafe
  BY Invariance, PTL DEF IInv, Ending
=============================================================================
