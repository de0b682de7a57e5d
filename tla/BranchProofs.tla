----------------------------- MODULE BranchProofs -----------------------------
(***************************************************************************)
(* Theorems about the two branches of runWave that do not use a            *)
(* ScanStream, for every concurrency and number of targets: OrderedWave    *)
(* and, as A, AuditWave.                                                   *)
(***************************************************************************)
EXTENDS OrderedWave, Sequences, TLAPS

VARIABLES sent, recvd, resClosed, cpc, failed, ctxDone      \* of AuditWave

A == INSTANCE AuditWave

-----------------------------------------------------------------------------
(* --ordered.  The slots are written in no particular order, so the          *)
(* invariant follows each handed index: it is in a worker's hands or its     *)
(* slot is written (Accounted), a worker leaves only after the channel was   *)
(* closed and empty-handed (Left), and the join leaves no hands.             *)

InHand(i) == \E w \in Workers : wpc[w] = "work" /\ item[w] = i

Accounted == \A i \in 1 .. handed : i \in filled \/ InHand(i)

Left ==
  /\ \A w \in Workers : wpc[w] = "work" => item[w] \in 1 .. handed
  /\ \A w \in Workers : wpc[w] = "done" => jobsClosed

Progress ==
  /\ jobsClosed <=> mpc # "feed"
  /\ mpc = "feed" => err = "nil"
  /\ mpc # "feed" /\ err # "ctx" => handed = NumTargets
  /\ mpc = "emit" => err = "nil"
  /\ mpc = "join" => err # "emit"
  /\ mpc \in {"feed", "join"} \/ err = "ctx" => out = 0
  /\ mpc = "returned" /\ err = "nil" => out = NumTargets
  /\ err = "ctx" => signal

WritersGone == mpc \in {"emit", "returned"} => \A w \in Workers : wpc[w] = "done"

IInv == TypeOK /\ Accounted /\ Left /\ Progress /\ WritersGone

LEMMA InitIInv == Init => IInv
<1> SUFFICES ASSUME Init PROVE IInv
  OBVIOUS
<1>1. TypeOK
  <2>1. wpc \in [Workers -> {"recv", "work", "done"}] /\ item \in [Workers -> 0 .. NumTargets]
    BY OrderedAssumption DEF Init
  <2>2. handed \in 0 .. NumTargets /\ out \in 0 .. NumTargets
    BY OrderedAssumption DEF Init
  <2>3. QED
    BY <2>1, <2>2 DEF Init, TypeOK
<1>2. Accounted /\ Left /\ Progress /\ WritersGone
  BY DEF Init, Accounted, Left, Progress, WritersGone
<1>3. QED
  BY <1>1, <1>2 DEF IInv

LEMMA HandStep ==
  ASSUME IInv, NEW u \in Workers, HandIndex(u)
  PROVE  IInv'
<1> USE OrderedAssumption DEF IInv, HandIndex, MoreTargets
<1>1. TypeOK'
  BY DEF TypeOK
<1>2. Accounted'
  <2> SUFFICES ASSUME NEW i \in 1 .. handed' PROVE i \in filled \/ InHand(i)'
    BY DEF Accounted
  <2>1. CASE i = handed + 1
    BY <2>1 DEF InHand, TypeOK
  <2>2. CASE i \in 1 .. handed
    BY <2>2 DEF Accounted, InHand, TypeOK
  <2>3. QED
    BY <2>1, <2>2 DEF TypeOK
<1>3. Left' /\ Progress' /\ WritersGone'
  BY DEF Left, Progress, WritersGone, TypeOK
<1>4. QED
  BY <1>1, <1>2, <1>3

LEMMA RecordStep ==
  ASSUME IInv, NEW u \in Workers, Record(u)
  PROVE  IInv'
<1> USE OrderedAssumption DEF IInv, Record
<1>1. TypeOK'
  <2>1. item[u] \in Targets
    BY DEF TypeOK, Left, Targets
  <2>2. filled' \subseteq Targets
    BY <2>1 DEF TypeOK
  <2>3. wpc' \in [Workers -> {"recv", "work", "done"}] /\ item' \in [Workers -> 0 .. NumTargets]
    BY DEF TypeOK
  <2>4. QED
    BY <2>2, <2>3 DEF TypeOK
<1>2. Accounted'
  BY DEF Accounted, InHand, TypeOK
<1>3. Left' /\ Progress' /\ WritersGone'
  BY DEF Left, Progress, WritersGone, TypeOK
<1>4. QED
  BY <1>1, <1>2, <1>3

LEMMA LeaveStep ==
  ASSUME IInv, NEW u \in Workers, Leave(u)
  PROVE  IInv'
<1> USE DEF IInv, Leave
<1>1. TypeOK'
  BY DEF TypeOK
<1>2. Accounted' /\ Left' /\ Progress' /\ WritersGone'
  BY DEF Accounted, InHand, Left, Progress, WritersGone, TypeOK
<1>3. QED
  BY <1>1, <1>2

(* The steps that move no index between runWave and its workers.             *)
LEMMA MainStep ==
  ASSUME IInv, FeedDone \/ FeedCanceled \/ Joined \/ EmitSlot \/ EmitFails \/ EmitDone \/ Signal
  PROVE  IInv'
<1> USE OrderedAssumption
    DEF IInv, FeedDone, FeedCanceled, Joined, EmitSlot, EmitFails, EmitDone, Signal
<1>1. TypeOK'
  <2>1. out' \in 0 .. NumTargets
    BY DEF TypeOK
  <2>2. UNCHANGED <<handed, wpc, item, filled>>
    OBVIOUS
  <2>3. mpc' \in {"feed", "join", "emit", "returned"} /\ err' \in {"nil", "ctx", "emit"}
        /\ jobsClosed' \in BOOLEAN /\ signal' \in BOOLEAN
    BY DEF TypeOK
  <2>4. QED
    BY <2>1, <2>2, <2>3 DEF TypeOK
<1>2. Accounted' /\ Left'
  BY DEF Accounted, InHand, Left
<1>3. Progress' /\ WritersGone'
  BY DEF Progress, WritersGone, WorkersDone, MoreTargets, TypeOK
<1>4. QED
  BY <1>1, <1>2, <1>3

LEMMA StepIInv == IInv /\ [Next]_vars => IInv'
<1> SUFFICES ASSUME IInv, [Next]_vars PROVE IInv'
  OBVIOUS
<1>1. CASE UNCHANGED vars
  BY <1>1 DEF vars, IInv, TypeOK, Accounted, InHand, Left, Progress, WritersGone
<1>2. CASE Next
  BY <1>2, HandStep, RecordStep, LeaveStep, MainStep DEF Next, Main, Worker
<1>3. QED
  BY <1>1, <1>2

LEMMA Invariance == Spec => []IInv
  BY InitIInv, StepIInv, PTL DEF Spec

(* After the join every handed index has its slot written.                   *)
LEMMA AllWritten == IInv /\ mpc \in {"emit", "returned"} => 1 .. handed \subseteq filled
  BY DEF IInv, Accounted, InHand, WritersGone

-----------------------------------------------------------------------------
(* The types of the branch's state.                                          *)
THEOREM OrderedTypeCorrect == Spec => []TypeOK
<1>1. IInv => TypeOK
  BY DEF IInv
<1>2. QED
  BY <1>1, Invariance, PTL

(* runWave reads the slots only when every worker has returned, so the reads *)
(* of cli.go:437 race with no write of cli.go:419 or 421, and every slot     *)
(* that is emitted was written by a worker.                                  *)
THEOREM OrderedSlotsAreSafe == Spec => []SlotsAreSafe
<1>1. IInv => 1 .. out \subseteq filled
  <2> SUFFICES ASSUME IInv, NEW i \in 1 .. out PROVE i \in filled
    OBVIOUS
  <2>1. mpc \in {"emit", "returned"} /\ err # "ctx"
    BY OrderedAssumption DEF IInv, Progress, TypeOK
  <2>2. handed = NumTargets
    BY <2>1 DEF IInv, Progress
  <2>3. QED
    BY <2>1, <2>2, AllWritten, OrderedAssumption DEF IInv, TypeOK
<1>2. IInv => SlotsAreSafe
  BY <1>1 DEF IInv, WritersGone, SlotsAreSafe
<1>3. QED
  BY <1>2, Invariance, PTL

(* The ordered branch keeps the promise of Wave: emits are distinct and stop *)
(* at the first error, nil means every target was emitted, and a canceled    *)
(* wave emitted nothing.                                                     *)
THEOREM OrderedKeepsWave == Spec => KeepsWave
<1> DEFINE oc == IF mpc = "returned" THEN err ELSE "none"
<1>1. Init => Promise!Init
  BY DEF Init, Promise!Init
<1>2. IInv /\ [Next]_vars => [Promise!Next]_(Promise!vars)
  <2> SUFFICES ASSUME IInv, [Next]_vars PROVE [Promise!Next]_(Promise!vars)
    OBVIOUS
  <2> USE OrderedAssumption DEF Promise!Next, Promise!vars
  <2>1. out \in Nat /\ out <= NumTargets
    BY DEF IInv, TypeOK
  <2>2. CASE EmitSlot
    <3>1. 1 .. out' = (1 .. out) \cup {out'} /\ out' \in 1 .. NumTargets /\ out' \notin 1 .. out
      BY <2>1, <2>2 DEF EmitSlot
    <3>2. Promise!Emit(out')
      BY <2>2, <3>1 DEF EmitSlot, Promise!Emit
    <3>3. QED
      BY <3>1, <3>2
  <2>3. CASE EmitFails
    <3>1. 1 .. out' = (1 .. out) \cup {out'} /\ out' \in 1 .. NumTargets /\ out' \notin 1 .. out
      BY <2>1, <2>3 DEF EmitFails
    <3>2. Promise!EmitFails(out')
      BY <2>3, <3>1 DEF EmitFails, Promise!EmitFails
    <3>3. QED
      BY <3>1, <3>2
  <2>4. CASE EmitDone
    <3>1. Promise!ReturnNil
      BY <2>4 DEF EmitDone, Promise!ReturnNil, IInv, Progress
    <3>2. QED
      BY <3>1
  <2>5. CASE Joined
    <3>1. CASE err = "nil"
      BY <2>5, <3>1 DEF Joined
    <3>2. CASE err # "nil"
      <4>1. err = "ctx" /\ signal /\ out = 0
        BY <2>5, <3>2 DEF Joined, IInv, Progress, TypeOK
      <4>2. Promise!ReturnCanceled
        BY <2>5, <3>2, <4>1 DEF Joined, Promise!ReturnCanceled
      <4>3. QED
        BY <4>2
    <3>3. QED
      BY <3>1, <3>2
  <2>6. CASE Signal
    BY <2>6 DEF Signal, Promise!Interrupt
  <2>7. CASE \/ FeedDone \/ FeedCanceled \/ UNCHANGED vars
             \/ \E w \in Workers : HandIndex(w) \/ Worker(w)
    BY <2>7 DEF FeedDone, FeedCanceled, HandIndex, Worker, Record, Leave, vars
  <2>8. QED
    BY <2>2, <2>3, <2>4, <2>5, <2>6, <2>7 DEF Next, Main
<1>3. QED
  BY <1>1, <1>2, Invariance, PTL DEF Spec, KeepsWave, Promise!Spec

-----------------------------------------------------------------------------
(* --audit.  AuditInv says where a handed target is (Held, Sent,             *)
(* Whereabouts), that a worker has left only after the feeder closed the     *)
(* jobs or the context ended (LeftWhy), and why the context ended (Ended).   *)

Busy(w) == wpc[w] \in {"audit", "send"}

Held ==
  /\ \A w \in A!Workers : Busy(w) => item[w] \in 1 .. handed
  /\ \A v, w \in A!Workers : Busy(v) /\ Busy(w) /\ item[v] = item[w] => v = w

Sent ==
  /\ \A i \in 1 .. Len(sent) : sent[i] \in 1 .. handed
  /\ \A i, j \in 1 .. Len(sent) : sent[i] = sent[j] => i = j
  /\ \A w \in A!Workers, i \in 1 .. Len(sent) : Busy(w) => sent[i] # item[w]

LeftWhy == \A w \in A!Workers : wpc[w] = "done" => jobsClosed \/ ctxDone

OnChannel(t) == \E i \in 1 .. Len(sent) : sent[i] = t

Holds(t) == \E w \in A!Workers : Busy(w) /\ item[w] = t

Whereabouts == ~ctxDone => \A t \in 1 .. handed : OnChannel(t) \/ Holds(t)

Ended ==
  /\ ctxDone => signal \/ cpc = "returned"
  /\ jobsClosed => handed = NumTargets \/ ctxDone
  /\ cpc = "range" => ~failed

AuditInv == A!TypeOK /\ Held /\ Sent /\ LeftWhy /\ Whereabouts /\ Ended /\ A!NoSendOnClosed

LEMMA AppendFacts ==
  ASSUME NEW S, NEW s \in Seq(S), NEW x \in S
  PROVE  /\ Append(s, x) \in Seq(S)
         /\ Len(Append(s, x)) = Len(s) + 1
         /\ Len(s) \in Nat
         /\ \A i \in 1 .. Len(s) : Append(s, x)[i] = s[i]
         /\ Append(s, x)[Len(s) + 1] = x
  OBVIOUS

LEMMA ElementOf ==
  ASSUME NEW S, NEW s \in Seq(S), NEW i \in 1 .. Len(s)
  PROVE  s[i] \in S
  OBVIOUS

LEMMA AuditInitInv == A!Init => AuditInv
<1> SUFFICES ASSUME A!Init PROVE AuditInv
  OBVIOUS
<1> USE OrderedAssumption DEF A!Init
<1>1. sent \in Seq(1 .. NumTargets) /\ Len(sent) = 0
  OBVIOUS
<1>2. A!TypeOK
  <2>1. /\ wpc \in [A!Workers -> {"recv", "audit", "send", "done"}]
        /\ item \in [A!Workers -> 0 .. NumTargets]
    OBVIOUS
  <2>2. handed \in 0 .. NumTargets /\ recvd \in 0 .. Len(sent) /\ Len(sent) - recvd <= Concurrency
    BY <1>1
  <2>3. QED
    BY <1>1, <2>1, <2>2 DEF A!TypeOK
<1>3. Held /\ Sent /\ LeftWhy /\ Whereabouts /\ Ended /\ A!NoSendOnClosed
  BY <1>1 DEF Held, Sent, LeftWhy, Whereabouts, Ended, A!NoSendOnClosed, Busy
<1>4. QED
  BY <1>2, <1>3 DEF AuditInv

LEMMA AuditHandStep ==
  ASSUME AuditInv, NEW u \in A!Workers, A!HandTarget(u)
  PROVE  AuditInv'
<1> USE OrderedAssumption DEF AuditInv, A!HandTarget, A!main
<1>1. A!TypeOK'
  <2>1. /\ wpc' \in [A!Workers -> {"recv", "audit", "send", "done"}]
        /\ item' \in [A!Workers -> 0 .. NumTargets]
    BY DEF A!TypeOK
  <2>2. handed' \in 0 .. NumTargets
    BY DEF A!TypeOK
  <2>3. QED
    BY <2>1, <2>2 DEF A!TypeOK
<1>2. /\ Busy(u)' /\ item'[u] = handed + 1
      /\ \A w \in A!Workers : w # u => (Busy(w)' <=> Busy(w)) /\ item'[w] = item[w]
      /\ ~Busy(u)
  BY DEF A!TypeOK, Busy
<1>3. Held'
  BY <1>2 DEF Held, A!TypeOK
<1>4. Sent'
  BY <1>2 DEF Sent, A!TypeOK
<1>5. Whereabouts'
  <2> SUFFICES ASSUME ~ctxDone, NEW t \in 1 .. handed' PROVE OnChannel(t) \/ Holds(t)'
    BY DEF Whereabouts, OnChannel
  <2>1. CASE t = handed + 1
    BY <1>2, <2>1 DEF Holds
  <2>2. CASE t \in 1 .. handed
    <3>1. OnChannel(t) \/ Holds(t)
      BY <2>2 DEF Whereabouts
    <3>2. Holds(t) => Holds(t)'
      BY <1>2 DEF Holds
    <3>3. QED
      BY <3>1, <3>2
  <2>3. QED
    BY <2>1, <2>2 DEF A!TypeOK
<1>6. LeftWhy' /\ Ended' /\ A!NoSendOnClosed'
  BY DEF LeftWhy, Ended, A!NoSendOnClosed, A!TypeOK
<1>7. QED
  BY <1>1, <1>3, <1>4, <1>5, <1>6

LEMMA AuditSendStep ==
  ASSUME AuditInv, NEW u \in A!Workers, A!SendResult(u)
  PROVE  AuditInv'
<1> USE OrderedAssumption DEF AuditInv, A!SendResult, A!main
<1>1. Busy(u) /\ item[u] \in 1 .. handed /\ item[u] \in 1 .. NumTargets
  BY DEF Busy, Held, A!TypeOK
<1>2. /\ sent' \in Seq(1 .. NumTargets)
      /\ Len(sent') = Len(sent) + 1 /\ Len(sent) \in Nat
      /\ \A i \in 1 .. Len(sent) : sent'[i] = sent[i]
      /\ sent'[Len(sent) + 1] = item[u]
  BY <1>1, AppendFacts DEF A!TypeOK
<1>3. A!TypeOK'
  <2>1. /\ wpc' \in [A!Workers -> {"recv", "audit", "send", "done"}]
        /\ item' \in [A!Workers -> 0 .. NumTargets]
    BY DEF A!TypeOK
  <2>2. recvd' \in 0 .. Len(sent') /\ Len(sent') - recvd' <= Concurrency
    BY <1>2 DEF A!TypeOK, A!RoomForResult
  <2>3. QED
    BY <1>2, <2>1, <2>2 DEF A!TypeOK
<1>4. ~Busy(u)' /\ \A w \in A!Workers : w # u => (Busy(w)' <=> Busy(w)) /\ item'[w] = item[w]
  BY DEF A!TypeOK, Busy
<1>5. Held'
  BY <1>4 DEF Held
<1>6. Sent'
  BY <1>1, <1>2, <1>4 DEF Sent, Held
<1>7. Whereabouts'
  <2> SUFFICES ASSUME ~ctxDone, NEW t \in 1 .. handed PROVE OnChannel(t)' \/ Holds(t)'
    BY DEF Whereabouts
  <2>1. OnChannel(t) => OnChannel(t)'
    BY <1>2 DEF OnChannel
  <2>2. Holds(t) => Holds(t)' \/ OnChannel(t)'
    BY <1>2, <1>4 DEF Holds, OnChannel
  <2>3. QED
    BY <2>1, <2>2 DEF Whereabouts
<1>8. LeftWhy' /\ Ended' /\ A!NoSendOnClosed'
  BY DEF LeftWhy, Ended, A!NoSendOnClosed, A!TypeOK
<1>9. QED
  BY <1>3, <1>5, <1>6, <1>7, <1>8

(* The worker steps that move no result.                                     *)
LEMMA AuditWorkerStep ==
  ASSUME AuditInv, NEW u \in A!Workers, A!AuditReturns(u) \/ A!DropResult(u) \/ A!JobsEnd(u)
  PROVE  AuditInv'
<1> USE DEF AuditInv, A!AuditReturns, A!DropResult, A!JobsEnd, A!main
<1>1. A!TypeOK'
  <2>1. /\ wpc' \in [A!Workers -> {"recv", "audit", "send", "done"}]
        /\ item' \in [A!Workers -> 0 .. NumTargets]
    BY OrderedAssumption DEF A!TypeOK
  <2>2. QED
    BY <2>1 DEF A!TypeOK
<1>2. \A w \in A!Workers : Busy(w)' => Busy(w) /\ item'[w] = item[w]
  BY DEF A!TypeOK, Busy
<1>3. Held' /\ Sent'
  BY <1>2 DEF Held, Sent
<1>4. Whereabouts'
  <2>1. ~ctxDone => \A w \in A!Workers : Busy(w) => Busy(w)' /\ item'[w] = item[w]
    BY DEF A!TypeOK, Busy
  <2>2. QED
    BY <2>1 DEF Whereabouts, OnChannel, Holds
<1>5. LeftWhy' /\ Ended' /\ A!NoSendOnClosed'
  BY DEF LeftWhy, Ended, A!NoSendOnClosed, A!TypeOK
<1>6. QED
  BY <1>1, <1>3, <1>4, <1>5

LEMMA AuditOthersStep ==
  ASSUME AuditInv, A!FeederStops \/ A!CloseResults \/ A!Collector \/ A!Signal
  PROVE  AuditInv'
<1> USE DEF AuditInv
<1>1. UNCHANGED <<handed, wpc, item, sent>> /\ \A w \in A!Workers : Busy(w)' <=> Busy(w)
  BY DEF A!FeederStops, A!CloseResults, A!Collector, A!EmitResult, A!EmitFails, A!RangeEnds,
     A!Return, A!Signal, A!pool, A!main, Busy
<1>2. Len(sent) \in Nat
  BY DEF A!TypeOK
<1>3. recvd' \in 0 .. Len(sent) /\ recvd' >= recvd
  BY <1>2 DEF A!TypeOK, A!FeederStops, A!CloseResults, A!Collector, A!EmitResult, A!EmitFails,
     A!RangeEnds, A!Return, A!Signal, A!main
<1>4. /\ cpc' \in {"range", "return", "returned"} /\ failed' \in BOOLEAN /\ signal' \in BOOLEAN
      /\ ctxDone' \in BOOLEAN /\ jobsClosed' \in BOOLEAN /\ resClosed' \in BOOLEAN
  BY DEF A!TypeOK, A!FeederStops, A!CloseResults, A!Collector, A!EmitResult, A!EmitFails,
     A!RangeEnds, A!Return, A!Signal, A!main, A!pool
<1>5. A!TypeOK'
  BY <1>1, <1>2, <1>3, <1>4, OrderedAssumption DEF A!TypeOK
<1>6. /\ ctxDone => ctxDone'
      /\ jobsClosed => jobsClosed'
      /\ resClosed' => resClosed \/ \A w \in A!Workers : wpc[w] = "done"
  BY DEF A!FeederStops, A!CloseResults, A!CloserMayClose, A!Collector, A!EmitResult, A!EmitFails,
     A!RangeEnds, A!Return, A!Signal, A!main, A!pool
<1>7. Held' /\ Sent' /\ LeftWhy' /\ A!NoSendOnClosed'
  BY <1>1, <1>6 DEF Held, Sent, LeftWhy, A!NoSendOnClosed
<1>8. Whereabouts'
  BY <1>1, <1>6 DEF Whereabouts, OnChannel, Holds
<1>9. Ended'
  <2>1. (ctxDone => signal \/ cpc = "returned")'
    BY DEF Ended, A!FeederStops, A!CloseResults, A!Collector, A!EmitResult, A!EmitFails,
       A!RangeEnds, A!Return, A!Signal, A!main, A!pool
  <2>2. (jobsClosed => handed = NumTargets \/ ctxDone)'
    BY <1>1, <1>6 DEF Ended, A!FeederStops, A!FeederMayStop, A!CloseResults, A!Collector,
       A!EmitResult, A!EmitFails, A!RangeEnds, A!Return, A!Signal, A!main, A!pool
  <2>3. CASE A!EmitFails
    BY <2>1, <2>2, <2>3 DEF A!EmitFails, Ended
  <2>4. CASE ~A!EmitFails
    <3>1. failed' = failed /\ (cpc' = "range" => cpc = "range")
      BY <2>4 DEF A!FeederStops, A!CloseResults, A!Collector, A!EmitResult, A!RangeEnds, A!Return,
         A!Signal, A!main
    <3>2. QED
      BY <2>1, <2>2, <3>1 DEF Ended
  <2>5. QED
    BY <2>3, <2>4
<1>10. QED
  BY <1>5, <1>7, <1>8, <1>9

LEMMA AuditStepInv == AuditInv /\ [A!Next]_(A!vars) => AuditInv'
<1> SUFFICES ASSUME AuditInv, [A!Next]_(A!vars) PROVE AuditInv'
  OBVIOUS
<1>1. CASE UNCHANGED A!vars
  BY <1>1 DEF A!vars, AuditInv, A!TypeOK, Held, Sent, LeftWhy, Whereabouts, OnChannel, Holds,
     Busy, Ended, A!NoSendOnClosed
<1>2. CASE A!Next
  BY <1>2, AuditHandStep, AuditSendStep, AuditWorkerStep, AuditOthersStep DEF A!Next, A!Feeder,
     A!Worker
<1>3. QED
  BY <1>1, <1>2

LEMMA AuditInvariance == A!Spec => []AuditInv
  BY AuditInitInv, AuditStepInv, PTL DEF A!Spec

-----------------------------------------------------------------------------
(* The range ends and no signal came: every target was emitted.              *)
LEMMA EndComplete ==
  ASSUME AuditInv, A!RangeEnds, ~signal
  PROVE  A!Emitted = 1 .. NumTargets
<1> USE DEF AuditInv
<1>1. resClosed /\ recvd = Len(sent) /\ ~ctxDone
  BY DEF A!RangeEnds, Ended
<1>2. \A w \in A!Workers : wpc[w] = "done"
  BY <1>1 DEF A!NoSendOnClosed
<1>3. 1 \in A!Workers
  BY OrderedAssumption DEF A!Workers
<1>4. handed = NumTargets
  BY <1>1, <1>2, <1>3 DEF LeftWhy, Ended
<1>5. \A t \in 1 .. NumTargets : \E i \in 1 .. Len(sent) : sent[i] = t
  BY <1>1, <1>2, <1>4 DEF Whereabouts, OnChannel, Holds, Busy
<1>6. \A i \in 1 .. Len(sent) : sent[i] \in 1 .. NumTargets
  BY <1>4 DEF Sent
<1>7. QED
  BY <1>1, <1>5, <1>6 DEF A!Emitted

(* What an emit adds was not emitted before.                                 *)
LEMMA EmitsNew ==
  ASSUME AuditInv, recvd < Len(sent), recvd' = recvd + 1, sent' = sent
  PROVE  \E t \in 1 .. NumTargets : t \notin A!Emitted /\ A!Emitted' = A!Emitted \cup {t}
<1> DEFINE t == sent[recvd + 1]
<1>1. recvd \in Nat /\ Len(sent) \in Nat /\ sent \in Seq(1 .. NumTargets)
  BY DEF AuditInv, A!TypeOK
<1>2. recvd + 1 \in 1 .. Len(sent)
  BY <1>1
<1>3. t \in 1 .. NumTargets
  BY <1>1, <1>2, ElementOf
<1>4. \A i \in 1 .. recvd : sent[i] # t
  BY <1>1 DEF AuditInv, Sent
<1>5. 1 .. recvd' = (1 .. recvd) \cup {recvd + 1}
  BY <1>1
<1>6. A!Emitted' = A!Emitted \cup {t}
  BY <1>5 DEF A!Emitted
<1>7. t \notin A!Emitted
  BY <1>4 DEF A!Emitted
<1>8. QED
  BY <1>3, <1>6, <1>7

(* No other step changes what was emitted: the log only grows at its end.    *)
LEMMA NothingElseEmits ==
  ASSUME AuditInv, [A!Next]_(A!vars), ~A!EmitResult, ~A!EmitFails
  PROVE  A!Emitted' = A!Emitted
<1>1. recvd' = recvd /\ (sent' = sent \/ \E w \in A!Workers : A!SendResult(w))
  BY DEF A!Next, A!Feeder, A!FeederStops, A!HandTarget, A!Worker, A!AuditReturns, A!DropResult,
     A!JobsEnd, A!SendResult, A!CloseResults, A!Collector, A!RangeEnds, A!Return, A!Signal,
     A!main, A!pool, A!vars
<1>2. \A i \in 1 .. recvd : sent'[i] = sent[i]
  <2>1. CASE \E w \in A!Workers : A!SendResult(w)
    <3> PICK w \in A!Workers : A!SendResult(w)
      BY <2>1
    <3>1. sent \in Seq(1 .. NumTargets) /\ item[w] \in 1 .. NumTargets /\ recvd \in 0 .. Len(sent)
      BY DEF AuditInv, A!TypeOK, Held, Busy, A!SendResult
    <3>2. QED
      BY <3>1, AppendFacts DEF A!SendResult
  <2>2. QED
    BY <1>1, <2>1
<1>3. QED
  BY <1>1, <1>2 DEF A!Emitted

LEMMA AuditPromiseStep == AuditInv /\ [A!Next]_(A!vars) => [A!Promise!Next]_(A!Promise!vars)
<1> SUFFICES ASSUME AuditInv, [A!Next]_(A!vars) PROVE [A!Promise!Next]_(A!Promise!vars)
  OBVIOUS
<1> USE DEF A!Promise!Next, A!Promise!vars
<1>1. CASE A!EmitResult
  <2>1. PICK t \in 1 .. NumTargets : t \notin A!Emitted /\ A!Emitted' = A!Emitted \cup {t}
    BY <1>1, EmitsNew DEF A!EmitResult, A!pool
  <2>2. A!Promise!Emit(t)
    BY <1>1, <2>1 DEF A!EmitResult, A!Promise!Emit
  <2>3. QED
    BY <2>2
<1>2. CASE A!EmitFails
  <2>1. PICK t \in 1 .. NumTargets : t \notin A!Emitted /\ A!Emitted' = A!Emitted \cup {t}
    BY <1>2, EmitsNew DEF A!EmitFails, A!pool
  <2>2. A!Promise!EmitFails(t)
    BY <1>2, <2>1 DEF A!EmitFails, A!Promise!EmitFails
  <2>3. QED
    BY <2>2
<1>3. CASE ~A!EmitResult /\ ~A!EmitFails
  <2>1. A!Emitted' = A!Emitted
    BY <1>3, NothingElseEmits
  <2>2. CASE A!RangeEnds
    <3>1. cpc = "range" /\ cpc' = "return" /\ ~failed /\ failed' = failed /\ signal' = signal
      BY <2>2 DEF A!RangeEnds, AuditInv, Ended
    <3>2. A!Emitted = 1 .. NumTargets \/ signal
      BY <2>2, EndComplete
    <3>3. A!Promise!ReturnNil
      BY <2>1, <3>1, <3>2 DEF A!Promise!ReturnNil
    <3>4. QED
      BY <3>3
  <2>3. CASE A!Signal
    BY <2>1, <2>3 DEF A!Signal, A!Promise!Interrupt
  <2>4. CASE \/ A!Feeder \/ A!Return \/ A!CloseResults \/ UNCHANGED A!vars
             \/ \E w \in A!Workers : A!Worker(w)
    BY <2>1, <2>4 DEF A!Feeder, A!FeederStops, A!HandTarget, A!Return, A!Worker, A!AuditReturns,
       A!SendResult, A!DropResult, A!JobsEnd, A!CloseResults, A!main, A!vars
  <2>5. QED
    BY <1>3, <2>2, <2>3, <2>4 DEF A!Next, A!Collector
<1>4. QED
  BY <1>1, <1>2, <1>3

-----------------------------------------------------------------------------
(* The cursors stay within the capacity of the result channel (cli.go:466).  *)
THEOREM AuditTypeCorrect == A!Spec => []A!TypeOK
<1>1. AuditInv => A!TypeOK
  BY DEF AuditInv
<1>2. QED
  BY <1>1, AuditInvariance, PTL

(* The result channel is closed only when no worker is left (cli.go:492-495). *)
THEOREM AuditNeverSendsOnClosed == A!Spec => []A!NoSendOnClosed
<1>1. AuditInv => A!NoSendOnClosed
  BY DEF AuditInv
<1>2. QED
  BY <1>1, AuditInvariance, PTL

(* The audit branch of runWave implements Wave (cli.go:465-501).             *)
THEOREM AuditKeepsWave == A!Spec => A!KeepsWave
<1>1. A!Init => A!Promise!Init
  BY DEF A!Init, A!Promise!Init, A!Emitted
<1>2. QED
  BY <1>1, AuditPromiseStep, AuditInvariance, PTL DEF A!Spec, A!KeepsWave, A!Promise!Spec
==============================================================================
