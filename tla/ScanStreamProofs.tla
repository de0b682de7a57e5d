-------------------------- MODULE ScanStreamProofs --------------------------
(***************************************************************************)
(* Theorems about ScanStream, for every Concurrency, InCap and NumTargets. *)
(*                                                                         *)
(* The invariants of the runs are not inductive.  IInv adds where a target *)
(* can be (Sent, Held), what a worker that has returned knows of the input *)
(* (Left), and that a target taken from the input is either in a worker's  *)
(* hands or on the result channel as long as nobody canceled (Accounted).  *)
(***************************************************************************)
EXTENDS ScanStream, TLAPS

Held ==
  /\ \A w \in Workers : Busy(w) => item[w] \in 1 .. taken
  /\ \A v, w \in Workers : Busy(v) /\ Busy(w) /\ item[v] = item[w] => v = w

Sent ==
  /\ \A i \in 1 .. Len(sent) : sent[i] \in 1 .. taken
  /\ \A i, j \in 1 .. Len(sent) : sent[i] = sent[j] => i = j
  /\ \A w \in Workers, i \in 1 .. Len(sent) : Busy(w) => sent[i] # item[w]

Left == \A w \in Workers : wpc[w] = "done" => ctxDone \/ InputExhausted

OnChannel(t) == \E i \in 1 .. Len(sent) : sent[i] = t

InHand(t) == \E w \in Workers : Busy(w) /\ item[w] = t

Accounted == ~ctxDone => \A t \in 1 .. taken : OnChannel(t) \/ InHand(t)

AtEnd == eof => resClosed /\ recvd = Len(sent)

IInv ==
  /\ TypeOK
  /\ AtEnd
  /\ NoSendOnClosed
  /\ Held
  /\ Sent
  /\ Left
  /\ Accounted

-----------------------------------------------------------------------------
(* What appending one result does to the log of the result channel. *)
LEMMA AppendFacts ==
  ASSUME NEW S, NEW s \in Seq(S), NEW x \in S
  PROVE  /\ Append(s, x) \in Seq(S)
         /\ Len(Append(s, x)) = Len(s) + 1
         /\ Len(s) \in Nat
         /\ \A i \in 1 .. Len(s) : Append(s, x)[i] = s[i]
         /\ Append(s, x)[Len(s) + 1] = x
  OBVIOUS

LEMMA InitIInv == Init => IInv
<1> SUFFICES ASSUME Init PROVE IInv
  OBVIOUS
<1> USE StreamAssumption DEF Init, Workers
<1>1. sent \in Seq(1 .. NumTargets) /\ Len(sent) = 0
  OBVIOUS
<1>2. TypeOK
  <2>1. wpc \in [Workers -> {"recv", "scan", "send", "done"}]
    OBVIOUS
  <2>2. item \in [Workers -> 0 .. NumTargets]
    OBVIOUS
  <2>3. /\ fed \in 0 .. NumTargets /\ taken \in 0 .. fed /\ fed - taken <= InCap
        /\ recvd \in 0 .. Len(sent) /\ Len(sent) - recvd <= Concurrency
    BY <1>1
  <2>4. QED
    BY <1>1, <2>1, <2>2, <2>3 DEF TypeOK
<1>3. NoSendOnClosed /\ Held /\ Sent /\ Left /\ Accounted /\ AtEnd
  BY <1>1 DEF AtEnd, NoSendOnClosed, Held, Sent, Left, Accounted, Busy
<1>4. QED
  BY <1>2, <1>3 DEF IInv

-----------------------------------------------------------------------------
(* One lemma for each action that moves a target. *)

LEMMA TakeTargetStep ==
  ASSUME IInv, NEW u \in Workers, TakeTarget(u)
  PROVE  IInv'
<1> USE StreamAssumption DEF IInv, TakeTarget
<1>1. TypeOK'
  BY DEF TypeOK, Workers
<1>2. NoSendOnClosed' /\ AtEnd'
  BY DEF AtEnd, NoSendOnClosed, WorkersDone, TypeOK
<1>3. /\ taken' = taken + 1 /\ taken \in Nat
      /\ item'[u] = taken + 1 /\ wpc'[u] = "scan"
      /\ \A w \in Workers \ {u} : item'[w] = item[w] /\ wpc'[w] = wpc[w]
  BY DEF TypeOK
<1>4. Held'
  BY <1>3 DEF Held, Busy
<1>5. Sent'
  BY <1>3 DEF Sent, Busy, TypeOK
<1>6. Left'
  BY <1>3 DEF Left, InputExhausted
<1>7. Accounted'
  <2> SUFFICES ASSUME ~ctxDone, NEW t \in 1 .. taken + 1
               PROVE  OnChannel(t)' \/ InHand(t)'
    BY <1>3 DEF Accounted
  <2>1. CASE t = taken + 1
    BY <2>1, <1>3 DEF InHand, Busy
  <2>2. CASE t \in 1 .. taken
    <3>1. OnChannel(t) \/ InHand(t)
      BY <2>2 DEF Accounted
    <3>2. QED
      BY <3>1, <1>3 DEF OnChannel, InHand, Busy
  <2>3. QED
    BY <2>1, <2>2, <1>3
<1>8. QED
  BY <1>1, <1>2, <1>4, <1>5, <1>6, <1>7

LEMMA SendResultStep ==
  ASSUME IInv, NEW u \in Workers, SendResult(u)
  PROVE  IInv'
<1> USE StreamAssumption DEF IInv, SendResult
<1>1. item[u] \in 1 .. taken /\ item[u] \in 1 .. NumTargets /\ Busy(u)
  BY DEF Held, Busy, TypeOK
<1>2. /\ sent' \in Seq(1 .. NumTargets)
      /\ Len(sent) \in Nat /\ Len(sent') = Len(sent) + 1
      /\ \A i \in 1 .. Len(sent) : sent'[i] = sent[i]
      /\ sent'[Len(sent) + 1] = item[u]
  BY <1>1, AppendFacts DEF TypeOK
<1>3. /\ wpc'[u] = "recv"
      /\ \A w \in Workers \ {u} : item'[w] = item[w] /\ wpc'[w] = wpc[w]
  BY DEF TypeOK
<1>4. TypeOK'
  BY <1>2 DEF TypeOK, Workers, RoomForResult
<1>5. NoSendOnClosed' /\ AtEnd'
  BY DEF AtEnd, NoSendOnClosed, WorkersDone
<1>6. Held'
  BY <1>3 DEF Held, Busy
<1>7. Sent'
  <2>1. (\A i \in 1 .. Len(sent) : sent[i] \in 1 .. taken)'
    BY <1>1, <1>2 DEF Sent
  <2>2. \A i \in 1 .. Len(sent) : sent[i] # item[u]
    BY <1>1 DEF Sent
  <2>3. (\A i, j \in 1 .. Len(sent) : sent[i] = sent[j] => i = j)'
    BY <1>2, <2>2 DEF Sent
  <2>4. (\A w \in Workers, i \in 1 .. Len(sent) : Busy(w) => sent[i] # item[w])'
    <3> SUFFICES ASSUME NEW w \in Workers, NEW i \in 1 .. Len(sent'), Busy(w)'
                 PROVE  sent'[i] # item'[w]
      OBVIOUS
    <3>1. w # u /\ item'[w] = item[w] /\ Busy(w)
      BY <1>3 DEF Busy
    <3>2. CASE i = Len(sent) + 1
      BY <1>1, <1>2, <3>1, <3>2 DEF Held
    <3>3. CASE i \in 1 .. Len(sent)
      BY <1>2, <3>1, <3>3 DEF Sent
    <3>4. QED
      BY <1>2, <3>2, <3>3
  <2>5. QED
    BY <2>1, <2>3, <2>4 DEF Sent
<1>8. Left'
  BY <1>3 DEF Left, InputExhausted
<1>9. Accounted'
  <2> SUFFICES ASSUME ~ctxDone, NEW t \in 1 .. taken
               PROVE  OnChannel(t)' \/ InHand(t)'
    BY DEF Accounted
  <2>1. OnChannel(t) \/ InHand(t)
    BY DEF Accounted
  <2>2. CASE OnChannel(t)
    BY <1>2, <2>2 DEF OnChannel
  <2>3. CASE InHand(t)
    <3>1. PICK w \in Workers : Busy(w) /\ item[w] = t
      BY <2>3 DEF InHand
    <3>2. CASE w = u
      BY <1>2, <3>1, <3>2 DEF OnChannel
    <3>3. CASE w # u
      BY <1>3, <3>1, <3>3 DEF InHand, Busy
    <3>4. QED
      BY <3>2, <3>3
  <2>4. QED
    BY <2>1, <2>2, <2>3
<1>10. QED
  BY <1>4, <1>5, <1>6, <1>7, <1>8, <1>9

LEMMA DropResultStep ==
  ASSUME IInv, NEW u \in Workers, DropResult(u)
  PROVE  IInv'
<1> USE DEF IInv, DropResult, chans
<1>1. /\ wpc'[u] = "done" /\ ctxDone
      /\ \A w \in Workers \ {u} : item'[w] = item[w] /\ wpc'[w] = wpc[w]
  BY DEF TypeOK, MayDropResult
<1>2. TypeOK'
  BY StreamAssumption DEF TypeOK
<1>3. NoSendOnClosed' /\ AtEnd'
  BY DEF AtEnd, NoSendOnClosed, WorkersDone
<1>4. Held' /\ Sent' /\ Left' /\ Accounted'
  BY <1>1 DEF Held, Sent, Left, Accounted, Busy
<1>5. QED
  BY <1>2, <1>3, <1>4

LEMMA StopReceivingStep ==
  ASSUME IInv, NEW u \in Workers, StopReceiving(u)
  PROVE  IInv'
<1> USE DEF IInv, StopReceiving, chans
<1>1. /\ wpc[u] = "recv" /\ wpc'[u] = "done"
      /\ \A w \in Workers \ {u} : wpc'[w] = wpc[w]
      /\ \A w \in Workers : Busy(w)' <=> Busy(w)
  BY DEF TypeOK, Busy
<1>2. TypeOK'
  BY DEF TypeOK
<1>3. NoSendOnClosed' /\ Left' /\ AtEnd'
  BY <1>1 DEF AtEnd, NoSendOnClosed, WorkersDone, Left, InputExhausted
<1>4. Held' /\ Sent' /\ Accounted'
  BY <1>1 DEF Held, Sent, Accounted, OnChannel, InHand
<1>5. QED
  BY <1>2, <1>3, <1>4

LEMMA ScanReturnsStep ==
  ASSUME IInv, NEW u \in Workers, ScanReturns(u)
  PROVE  IInv'
<1> USE DEF IInv, ScanReturns, chans
<1>1. /\ wpc[u] = "scan" /\ wpc'[u] = "send"
      /\ \A w \in Workers \ {u} : wpc'[w] = wpc[w]
      /\ \A w \in Workers : Busy(w)' <=> Busy(w)
  BY DEF TypeOK, Busy
<1>2. TypeOK'
  BY DEF TypeOK
<1>3. NoSendOnClosed' /\ Left' /\ AtEnd'
  BY <1>1 DEF AtEnd, NoSendOnClosed, WorkersDone, Left, InputExhausted
<1>4. Held' /\ Sent' /\ Accounted'
  BY <1>1 DEF Held, Sent, Accounted, OnChannel, InHand
<1>5. QED
  BY <1>2, <1>3, <1>4

(* The closer and the caller move no target between workers. *)
LEMMA OthersStep ==
  ASSUME IInv, CloseResults \/ Caller
  PROVE  IInv'
<1> USE DEF IInv
<1>1. UNCHANGED <<taken, wpc, item, sent>> /\ (\A w \in Workers : Busy(w)' <=> Busy(w))
  BY DEF CloseResults, Caller, CallerSend, CallerClose, CallerReceive,
         CallerSeesEnd, CallerCancel, chans, Busy
<1>2. TypeOK'
  <2> USE StreamAssumption DEF TypeOK
  <2>1. Len(sent) \in Nat
    OBVIOUS
  <2>2. CASE CallerSend
    BY <2>1, <2>2 DEF CallerSend
  <2>3. CASE CallerReceive
    BY <2>1, <2>3 DEF CallerReceive
  <2>4. CASE CloseResults \/ CallerClose \/ CallerSeesEnd \/ CallerCancel
    BY <2>4 DEF CloseResults, CallerClose, CallerSeesEnd, CallerCancel, chans
  <2>5. QED
    BY <2>2, <2>3, <2>4 DEF Caller
<1>3. NoSendOnClosed' /\ AtEnd'
  BY <1>1 DEF AtEnd, TypeOK, NoSendOnClosed, WorkersDone, CloseResults, Caller, CallerSend,
     CallerClose, CallerReceive, CallerSeesEnd, CallerCancel, chans
<1>4. Held' /\ Sent'
  BY <1>1 DEF Held, Sent
<1>5. Left'
  BY <1>1 DEF Left, InputExhausted, CloseResults, Caller, CallerSend, CallerClose,
     CallerReceive, CallerSeesEnd, CallerCancel, chans
<1>6. Accounted'
  BY <1>1 DEF Accounted, OnChannel, InHand, CloseResults, Caller, CallerSend,
     CallerClose, CallerReceive, CallerSeesEnd, CallerCancel, chans
<1>7. QED
  BY <1>2, <1>3, <1>4, <1>5, <1>6

(* IInv is inductive. *)
LEMMA StepIInv == IInv /\ [Next]_vars => IInv'
<1> SUFFICES ASSUME IInv, [Next]_vars PROVE IInv'
  OBVIOUS
<1>1. ASSUME NEW w \in Workers, Worker(w) PROVE IInv'
  BY <1>1, TakeTargetStep, SendResultStep, DropResultStep, StopReceivingStep,
     ScanReturnsStep DEF Worker
<1>2. CASE CloseResults \/ Caller
  BY <1>2, OthersStep
<1>3. CASE UNCHANGED vars
  BY <1>3 DEF vars, IInv, TypeOK, AtEnd, NoSendOnClosed, WorkersDone, Held, Sent, Left,
     InputExhausted, Accounted, OnChannel, InHand, Busy
<1>4. QED
  BY <1>1, <1>2, <1>3 DEF Next

LEMMA Invariance == Spec => []IInv
  BY InitIInv, StepIInv, PTL DEF Spec

-----------------------------------------------------------------------------
(* The channels of scanner.go:325 and :351 stay within their capacity and    *)
(* every read cursor stays behind its write cursor.                          *)
THEOREM TypeCorrect == Spec => []TypeOK
<1>1. IInv => TypeOK
  BY DEF IInv
<1>2. QED
  BY <1>1, Invariance, PTL

(* The result channel is closed only after every worker has returned, so no  *)
(* worker ever sends on it afterwards (scanner.go:349-352).                  *)
THEOREM NeverSendsOnClosed == Spec => []NoSendOnClosed
<1>1. IInv => NoSendOnClosed
  BY DEF IInv
<1>2. QED
  BY <1>1, Invariance, PTL

(* No target is scanned twice: workers that race for the input channel never *)
(* hold the same target, nor one whose result was already sent.              *)
THEOREM EachTargetOnce == Spec => []ResultsUnique
<1>1. IInv => ResultsUnique
  BY DEF IInv, Held, Sent, ResultsUnique
<1>2. QED
  BY <1>1, Invariance, PTL

(* A stream that was not canceled closes only when it has a result for every *)
(* target the caller sent.                                                   *)
THEOREM NothingLost == Spec => []CompleteUnlessCanceled
<1>1. IInv => CompleteUnlessCanceled
  <2> SUFFICES ASSUME IInv, resClosed, ~ctxDone, NEW t \in 1 .. fed
               PROVE  OnChannel(t)
    BY DEF CompleteUnlessCanceled, OnChannel
  <2>1. \A w \in Workers : wpc[w] = "done"
    BY DEF IInv, NoSendOnClosed, WorkersDone
  <2>2. 1 \in Workers
    BY StreamAssumption DEF Workers
  <2>3. fed = taken
    BY <2>1, <2>2 DEF IInv, Left, InputExhausted
  <2>4. ~InHand(t)
    BY <2>1 DEF InHand, Busy
  <2>5. QED
    BY <2>3, <2>4 DEF IInv, Accounted
<1>2. QED
  BY <1>1, Invariance, PTL

-----------------------------------------------------------------------------
(* Every step of the stream is a step of ResultStream or changes nothing the *)
(* caller can see: CallerReceive delivers a target that was offered and not  *)
(* delivered before, and the end is seen only when nothing is outstanding or *)
(* the context was canceled.                                                 *)
LEMMA PromiseStep == IInv /\ IInv' /\ [Next]_vars => [Promise!Next]_(Promise!vars)
<1> SUFFICES ASSUME IInv, IInv', [Next]_vars
             PROVE  [Promise!Next]_(Promise!vars)
  OBVIOUS
<1> DEFINE Stutter == UNCHANGED <<fed, inClosed, ctxDone, Delivered, eof>>
<1>1. Stutter => Promise!vars' = Promise!vars
  BY DEF Promise!vars
<1>2. (\A i \in 1 .. recvd : sent'[i] = sent[i]) /\ recvd' = recvd => Delivered' = Delivered
  BY DEF Delivered
<1>3. CASE \E w \in Workers : Worker(w)
  <2> PICK w \in Workers : Worker(w)
    BY <1>3
  <2>1. CASE SendResult(w)
    <3>1. item[w] \in 1 .. NumTargets
      BY <2>1 DEF IInv, Held, TypeOK, SendResult, Busy
    <3>2. \A i \in 1 .. recvd : sent'[i] = sent[i]
      BY <2>1, <3>1, AppendFacts DEF IInv, TypeOK, SendResult
    <3>3. QED
      BY <1>1, <1>2, <2>1, <3>2 DEF SendResult
  <2>2. CASE TakeTarget(w) \/ StopReceiving(w) \/ ScanReturns(w) \/ DropResult(w)
    <3>1. UNCHANGED <<fed, inClosed, ctxDone, eof, sent, recvd>>
      BY <2>2 DEF TakeTarget, StopReceiving, ScanReturns, DropResult, chans
    <3>2. QED
      BY <1>1, <3>1 DEF Delivered
  <2>3. QED
    BY <2>1, <2>2 DEF Worker
<1>4. CASE CloseResults
  <2>1. UNCHANGED <<fed, inClosed, ctxDone, eof, sent, recvd>>
    BY <1>4 DEF CloseResults
  <2>2. QED
    BY <1>1, <2>1 DEF Delivered
<1>5. CASE CallerSend
  <2>1. Promise!Offer
    BY <1>5 DEF CallerSend, Promise!Offer, Delivered
  <2>2. QED
    BY <2>1 DEF Promise!Next
<1>6. CASE CallerClose
  <2>1. Promise!CloseInput
    BY <1>6 DEF CallerClose, Promise!CloseInput, Delivered
  <2>2. QED
    BY <2>1 DEF Promise!Next
<1>7. CASE CallerCancel
  <2>1. Promise!Cancel
    BY <1>7 DEF CallerCancel, chans, Promise!Cancel, Delivered
  <2>2. QED
    BY <2>1 DEF Promise!Next
<1>8. CASE CallerReceive
  <2> DEFINE t == sent[recvd + 1]
  <2>1. /\ recvd + 1 \in 1 .. Len(sent) /\ recvd \in Nat /\ Len(sent) \in Nat
        /\ t \in 1 .. fed
    BY <1>8 DEF CallerReceive, IInv, TypeOK, Sent
  <2>2. t \notin Delivered
    BY <2>1 DEF Delivered, IInv, Sent
  <2>3. Delivered' = Delivered \cup {t}
    BY <1>8, <2>1 DEF Delivered, CallerReceive
  <2>4. ~eof
    BY <1>8 DEF IInv, AtEnd, CallerReceive
  <2>5. Promise!Deliver(t)
    BY <1>8, <2>2, <2>3, <2>4 DEF CallerReceive, Promise!Deliver
  <2>6. QED
    BY <2>1, <2>5 DEF Promise!Next
<1>9. CASE CallerSeesEnd
  <2>1. ctxDone \/ (inClosed /\ Delivered = 1 .. fed)
    <3> SUFFICES ASSUME ~ctxDone PROVE inClosed /\ Delivered = 1 .. fed
      OBVIOUS
    <3>1. \A w \in Workers : wpc[w] = "done"
      BY <1>9 DEF CallerSeesEnd, IInv, NoSendOnClosed, WorkersDone
    <3>2. 1 \in Workers
      BY StreamAssumption DEF Workers
    <3>3. inClosed /\ fed = taken
      BY <3>1, <3>2 DEF IInv, Left, InputExhausted
    <3>4. \A u \in 1 .. fed : OnChannel(u)
      BY <3>1, <3>3 DEF IInv, Accounted, InHand, Busy
    <3>5. recvd = Len(sent)
      BY <1>9 DEF CallerSeesEnd
    <3>6. QED
      BY <3>3, <3>4, <3>5 DEF OnChannel, Delivered, IInv, Sent
  <2>2. Promise!End
    BY <1>9, <2>1 DEF CallerSeesEnd, Promise!End, Delivered
  <2>3. QED
    BY <2>2 DEF Promise!Next
<1>10. CASE UNCHANGED vars
  BY <1>10, <1>1 DEF vars, Delivered
<1>11. QED
  BY <1>3, <1>4, <1>5, <1>6, <1>7, <1>8, <1>9, <1>10 DEF Next, Caller

(* ScanStream implements what its comment promises (scanner.go:321-323).     *)
THEOREM StreamKeepsPromise == Spec => KeepsPromise
<1>1. Init => Promise!Init
  BY DEF Init, Promise!Init, Delivered
<1>2. QED
  BY <1>1, Invariance, PromiseStep, PTL DEF Spec, KeepsPromise, Promise!Spec
=============================================================================
