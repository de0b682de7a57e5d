---------------------------- MODULE RunWaveProofs ----------------------------
(***************************************************************************)
(* Theorems about RunWave.  A wave is a ScanStream with a particular       *)
(* caller, so the invariant of ScanStreamProofs carries over; what is new  *)
(* is what the caller knows (CallerInv).                                   *)
(***************************************************************************)
EXTENDS RunWave, TLAPS

P == INSTANCE ScanStreamProofs WITH InCap <- Concurrency

LEMMA SameInit == Stream!Init <=> P!Init
  BY DEF Stream!Init, P!Init, Stream!Workers, P!Workers

LEMMA SameWorker == \A w : Stream!Worker(w) <=> P!Worker(w)
  BY DEF Stream!Worker, P!Worker, Stream!TakeTarget, P!TakeTarget, Stream!StopReceiving,
   P!StopReceiving, Stream!ScanReturns, P!ScanReturns, Stream!SendResult, P!SendResult,
   Stream!DropResult, P!DropResult, Stream!InputExhausted, P!InputExhausted,
   Stream!RoomForResult, P!RoomForResult, Stream!MayDropResult, P!MayDropResult,
   Stream!chans, P!chans

LEMMA SameNext == Stream!Next <=> P!Next
  BY SameWorker DEF Stream!Next, P!Next, Stream!Workers, P!Workers, Stream!CloseResults,
   P!CloseResults, Stream!WorkersDone, P!WorkersDone, Stream!Caller, P!Caller,
   Stream!CallerSend, P!CallerSend, Stream!CallerClose, P!CallerClose,
   Stream!CallerReceive, P!CallerReceive, Stream!CallerSeesEnd, P!CallerSeesEnd,
   Stream!CallerCancel, P!CallerCancel, Stream!chans, P!chans

LEMMA SameTypeOK == Stream!TypeOK <=> P!TypeOK
  BY DEF Stream!TypeOK, P!TypeOK, Stream!Workers, P!Workers

LEMMA StreamInit == P!Init => P!IInv
  BY P!InitIInv, WaveAssumption DEF P!StreamAssumption

LEMMA StreamStep == P!IInv /\ [P!Next]_(P!vars) => P!IInv'
  BY P!StepIInv, WaveAssumption DEF P!StreamAssumption

-----------------------------------------------------------------------------
(* What runWave and its feeder know of the stream they drive.  Before the    *)
(* deferred cancel only a signal cancels, and the feeder closes the channel  *)
(* early only if it saw that.                                                *)
CallerInv ==
  /\ cpc \in {"range", "return", "returned"}
  /\ failed \in BOOLEAN
  /\ signal \in BOOLEAN
  /\ ctxDone => signal \/ cpc = "returned"
  /\ inClosed => fed = NumTargets \/ ctxDone
  /\ cpc = "range" => ~failed

WInv == P!IInv /\ CallerInv

(* Every step of the wave is a step of the stream it uses. *)
LEMMA WaveStepIsStreamStep ==
  ASSUME [Next]_vars, Stream!TypeOK
  PROVE  [Stream!Next]_(Stream!vars)
<1> USE DEF Stream!Next, Stream!vars, Stream!Caller
<1>1. CASE Feeder
  BY <1>1 DEF Feeder, FeedTarget, FeederStops
<1>2. CASE EmitResult \/ EmitFails \/ RangeEnds
  BY <1>2 DEF EmitResult, EmitFails, RangeEnds
<1>3. CASE Return \/ Signal
  <2>1. CASE ctxDone
    BY <1>3, <2>1 DEF Return, Signal
  <2>2. CASE ~ctxDone
    BY <1>3, <2>2 DEF Return, Signal, Stream!CallerCancel, Stream!chans
  <2>3. QED
    BY <2>1, <2>2
<1>4. CASE Goroutines
  BY <1>4 DEF Goroutines
<1>5. CASE UNCHANGED vars
  BY <1>5 DEF vars, streamVars
<1>6. QED
  BY <1>1, <1>2, <1>3, <1>4, <1>5 DEF Next, Collector

LEMMA WaveIInvStep == P!IInv /\ [Next]_vars => P!IInv'
<1> SUFFICES ASSUME P!IInv, [Next]_vars PROVE P!IInv'
  OBVIOUS
<1>1. Stream!TypeOK
  BY SameTypeOK DEF P!IInv
<1>2. [Stream!Next]_(Stream!vars)
  BY <1>1, WaveStepIsStreamStep
<1>3. [P!Next]_(P!vars)
  BY <1>2, SameNext DEF Stream!vars, P!vars
<1>4. QED
  BY <1>3, StreamStep

LEMMA InitWInv == Init => WInv
<1> SUFFICES ASSUME Init PROVE WInv
  OBVIOUS
<1>1. P!IInv
  BY SameInit, StreamInit DEF Init
<1>2. CallerInv
  BY DEF Init, CallerInv, Stream!Init
<1>3. QED
  BY <1>1, <1>2 DEF WInv

LEMMA CallerStep == WInv /\ [Next]_vars => CallerInv'
<1> SUFFICES ASSUME WInv, [Next]_vars PROVE CallerInv'
  OBVIOUS
<1> USE DEF WInv, CallerInv
<1>1. CASE FeedTarget \/ FeederStops
  BY <1>1 DEF FeedTarget, FeederStops, FeederMayStop, Stream!CallerSend, Stream!CallerClose
<1>2. CASE EmitResult \/ EmitFails \/ RangeEnds
  <2>1. UNCHANGED <<fed, inClosed, ctxDone, signal>> /\ cpc = "range"
    BY <1>2 DEF EmitResult, EmitFails, RangeEnds, Stream!CallerReceive, Stream!CallerSeesEnd
  <2>2. CASE EmitResult
    BY <2>1, <2>2 DEF EmitResult
  <2>3. CASE EmitFails
    BY <2>1, <2>3 DEF EmitFails
  <2>4. CASE RangeEnds
    BY <2>1, <2>4 DEF RangeEnds
  <2>5. QED
    BY <1>2, <2>2, <2>3, <2>4
<1>3. CASE Return \/ Signal
  <2>1. UNCHANGED <<fed, inClosed, failed>> /\ ctxDone' = TRUE
    BY <1>3 DEF Return, Signal
  <2>2. CASE Return
    BY <2>1, <2>2 DEF Return
  <2>3. CASE Signal
    BY <2>1, <2>3 DEF Signal
  <2>4. QED
    BY <1>3, <2>2, <2>3
<1>4. CASE Goroutines
  <2>1. UNCHANGED <<fed, inClosed, eof, ctxDone, cpc, failed, signal>>
    BY <1>4 DEF Goroutines, Stream!Worker, Stream!TakeTarget, Stream!StopReceiving,
       Stream!ScanReturns, Stream!SendResult, Stream!DropResult, Stream!CloseResults,
       Stream!chans
  <2>2. QED
    BY <2>1
<1>5. CASE UNCHANGED vars
  BY <1>5 DEF vars, streamVars
<1>6. QED
  BY <1>1, <1>2, <1>3, <1>4, <1>5 DEF Next, Feeder, Collector

LEMMA WaveInvariance == Spec => []WInv
<1>1. WInv /\ [Next]_vars => WInv'
  BY WaveIInvStep, CallerStep DEF WInv
<1>2. QED
  BY InitWInv, <1>1, PTL DEF Spec

-----------------------------------------------------------------------------
(* The step that matters: the range ends and no signal came.  The stream has *)
(* ended, so its log holds a result for every target the feeder sent, and    *)
(* the feeder sent them all.                                                 *)
LEMMA EndComplete ==
  ASSUME WInv, RangeEnds, ~signal
  PROVE  Emitted = 1 .. NumTargets
<1> USE DEF WInv, CallerInv
<1>1. resClosed /\ recvd = Len(sent) /\ ~ctxDone
  BY DEF RangeEnds, Stream!CallerSeesEnd
<1>2. \A w \in P!Workers : wpc[w] = "done"
  BY <1>1 DEF P!IInv, P!NoSendOnClosed
<1>3. 1 \in P!Workers
  BY WaveAssumption DEF P!Workers
<1>4. inClosed /\ fed = taken /\ fed = NumTargets
  BY <1>1, <1>2, <1>3 DEF P!IInv, P!Left, P!InputExhausted
<1>5. \A t \in 1 .. NumTargets : ~P!InHand(t)
  BY <1>2 DEF P!InHand, P!Busy
<1>6. \A t \in 1 .. NumTargets : \E i \in 1 .. Len(sent) : sent[i] = t
  BY <1>1, <1>4, <1>5 DEF P!IInv, P!Accounted, P!OnChannel
<1>7. \A i \in 1 .. Len(sent) : sent[i] \in 1 .. NumTargets
  BY <1>4 DEF P!IInv, P!Sent
<1>8. QED
  BY <1>1, <1>6, <1>7 DEF Emitted

LEMMA ElementOf ==
  ASSUME NEW S, NEW s \in Seq(S), NEW i \in 1 .. Len(s)
  PROVE  s[i] \in S
  OBVIOUS

(* What an emit adds was not emitted before.                                 *)
LEMMA EmitsNew ==
  ASSUME WInv, Stream!CallerReceive
  PROVE  \E t \in 1 .. NumTargets : t \notin Emitted /\ Emitted' = Emitted \cup {t}
<1> DEFINE t == sent[recvd + 1]
<1>1. recvd \in Nat /\ recvd < Len(sent) /\ Len(sent) \in Nat /\ sent \in Seq(1 .. NumTargets)
  BY DEF WInv, P!IInv, P!TypeOK, Stream!CallerReceive
<1>2. recvd' = recvd + 1 /\ sent' = sent
  BY DEF Stream!CallerReceive
<1>3. t \in 1 .. NumTargets
  <2>1. recvd + 1 \in 1 .. Len(sent)
    BY <1>1
  <2>2. QED
    BY <1>1, <2>1, ElementOf
<1>4. \A i \in 1 .. recvd : sent[i] # t
  BY <1>1 DEF WInv, P!IInv, P!Sent
<1>5. 1 .. recvd' = (1 .. recvd) \cup {recvd + 1}
  BY <1>1, <1>2
<1>6. Emitted' = Emitted \cup {t}
  BY <1>2, <1>5 DEF Emitted
<1>7. t \notin Emitted
  BY <1>4 DEF Emitted
<1>8. QED
  BY <1>3, <1>6, <1>7

(* No other step changes what was emitted: the log only grows at its end.    *)
LEMMA NothingElseEmits ==
  ASSUME WInv, [Next]_vars, ~EmitResult, ~EmitFails
  PROVE  Emitted' = Emitted
<1>1. recvd' = recvd /\ (sent' = sent \/ \E w \in P!Workers : P!SendResult(w))
  <2>1. CASE Goroutines
    BY <2>1, SameWorker DEF Goroutines, Stream!Workers, P!Workers, P!Worker, P!TakeTarget,
       P!StopReceiving, P!ScanReturns, P!SendResult, P!DropResult, P!chans,
       Stream!CloseResults
  <2>2. CASE Feeder \/ RangeEnds \/ Return \/ Signal \/ UNCHANGED vars
    BY <2>2 DEF Feeder, FeedTarget, FeederStops, RangeEnds, Return, Signal, vars, streamVars,
       Stream!CallerSend, Stream!CallerClose, Stream!CallerSeesEnd
  <2>3. QED
    BY <2>1, <2>2 DEF Next, Collector
<1>2. \A i \in 1 .. recvd : sent'[i] = sent[i]
  <2>1. CASE \E w \in P!Workers : P!SendResult(w)
    <3> PICK w \in P!Workers : P!SendResult(w)
      BY <2>1
    <3>1. sent \in Seq(1 .. NumTargets) /\ item[w] \in 1 .. NumTargets /\ recvd \in 0 .. Len(sent)
      BY DEF WInv, P!IInv, P!TypeOK, P!Held, P!Busy, P!SendResult
    <3>2. QED
      BY <3>1, P!AppendFacts DEF P!SendResult
  <2>2. QED
    BY <1>1, <2>1
<1>3. QED
  BY <1>1, <1>2 DEF Emitted

LEMMA PromiseStep == WInv /\ [Next]_vars => [Promise!Next]_(Promise!vars)
<1> SUFFICES ASSUME WInv, [Next]_vars PROVE [Promise!Next]_(Promise!vars)
  OBVIOUS
<1> USE DEF Promise!Next, Promise!vars
<1>1. CASE EmitResult
  <2>1. PICK t \in 1 .. NumTargets : t \notin Emitted /\ Emitted' = Emitted \cup {t}
    BY <1>1, EmitsNew DEF EmitResult
  <2>2. Promise!Emit(t)
    BY <1>1, <2>1 DEF EmitResult, Promise!Emit
  <2>3. QED
    BY <2>2
<1>2. CASE EmitFails
  <2>1. PICK t \in 1 .. NumTargets : t \notin Emitted /\ Emitted' = Emitted \cup {t}
    BY <1>2, EmitsNew DEF EmitFails
  <2>2. Promise!EmitFails(t)
    BY <1>2, <2>1 DEF EmitFails, Promise!EmitFails
  <2>3. QED
    BY <2>2
<1>3. CASE ~EmitResult /\ ~EmitFails
  <2>1. Emitted' = Emitted
    BY <1>3, NothingElseEmits
  <2>2. CASE RangeEnds
    <3>1. cpc = "range" /\ cpc' = "return" /\ ~failed /\ failed' = failed /\ signal' = signal
      BY <2>2 DEF RangeEnds, WInv, CallerInv
    <3>2. Emitted = 1 .. NumTargets \/ signal
      BY <2>2, EndComplete
    <3>3. Promise!ReturnNil
      BY <2>1, <3>1, <3>2 DEF Promise!ReturnNil
    <3>4. QED
      BY <3>3
  <2>3. CASE Signal
    BY <2>1, <2>3 DEF Signal, Promise!Interrupt
  <2>4. CASE Feeder \/ Return \/ Goroutines \/ UNCHANGED vars
    BY <2>1, <2>4 DEF Feeder, FeedTarget, FeederStops, Return, Goroutines, vars
  <2>5. QED
    BY <1>3, <2>2, <2>3, <2>4 DEF Next, Collector
<1>4. QED
  BY <1>1, <1>2, <1>3

-----------------------------------------------------------------------------
(* The stream keeps its types, and runWave its own.                          *)
THEOREM WaveTypeCorrect == Spec => []TypeOK
<1>1. WInv => TypeOK
  BY SameTypeOK DEF WInv, CallerInv, P!IInv, TypeOK
<1>2. QED
  BY <1>1, WaveInvariance, PTL

(* The unordered scan branch of runWave implements Wave (cli.go:445-463).    *)
THEOREM WaveKeepsPromise == Spec => KeepsWave
<1>1. Init => Promise!Init
  BY DEF Init, Promise!Init, Emitted, Stream!Init
<1>2. QED
  BY <1>1, PromiseStep, WaveInvariance, PTL DEF Spec, KeepsWave, Promise!Spec
=============================================================================
