----------------------------- MODULE ScanStream -----------------------------
(***************************************************************************)
(* Scanner.ScanStream (pkg/ctscan/scanner.go:321-354): Concurrency worker  *)
(* goroutines read targets from the caller's channel, scan them and send   *)
(* the results on a channel of capacity Concurrency; one more goroutine    *)
(* waits for the workers and closes that channel.  The caller is any       *)
(* program: it may send, close, receive and cancel in any order it likes,  *)
(* and it may stop receiving.                                              *)
(*                                                                         *)
(* A channel is an immutable log with a read index.  The input channel     *)
(* carries 1, 2, ... in order, so its two cursors are all of its state:    *)
(* it holds taken+1 .. fed.  The result channel holds sent[recvd+1 ..].    *)
(*                                                                         *)
(* Scanner.Scan is one step here (ScanReturns); module Scan opens it up.   *)
(***************************************************************************)
EXTENDS Integers, Sequences

CONSTANTS
  Concurrency,            \* workers, and the capacity of the result channel
  InCap,                  \* capacity of the caller's target channel
  NumTargets              \* bound: targets the caller ever sends

ASSUME StreamAssumption ==
  /\ Concurrency \in Nat \ {0}
  /\ InCap \in Nat \ {0}
  /\ NumTargets \in Nat

Workers == 1 .. Concurrency

VARIABLES
  fed,                    \* targets sent on the input channel
  taken,                  \* targets received from it by workers
  inClosed,               \* the input channel is closed
  wpc,                    \* worker -> where it is in its loop
  item,                   \* worker -> the target it holds, 0 for none
  sent,                   \* every result ever sent, in order
  recvd,                  \* how many of them the caller received
  resClosed,              \* the result channel is closed
  eof,                    \* the caller saw that it is closed and empty
  ctxDone                 \* ctx.Done() is ready

chans == <<fed, taken, inClosed, sent, recvd, resClosed, eof>>
vars == <<fed, taken, inClosed, wpc, item, sent, recvd, resClosed, eof, ctxDone>>

Busy(w) == wpc[w] \in {"scan", "send"}

TypeOK ==
  /\ fed \in 0 .. NumTargets
  /\ taken \in 0 .. fed
  /\ fed - taken <= InCap
  /\ inClosed \in BOOLEAN
  /\ wpc \in [Workers -> {"recv", "scan", "send", "done"}]
  /\ item \in [Workers -> 0 .. NumTargets]
  /\ sent \in Seq(1 .. NumTargets)
  /\ recvd \in 0 .. Len(sent)
  /\ Len(sent) - recvd <= Concurrency
  /\ resClosed \in BOOLEAN
  /\ eof \in BOOLEAN
  /\ ctxDone \in BOOLEAN

Init ==
  /\ fed = 0
  /\ taken = 0
  /\ inClosed = FALSE
  /\ wpc = [w \in Workers |-> "recv"]
  /\ item = [w \in Workers |-> 0]
  /\ sent = <<>>
  /\ recvd = 0
  /\ resClosed = FALSE
  /\ eof = FALSE
  /\ ctxDone = FALSE

-----------------------------------------------------------------------------
(* Guards of the workers, and faulty forms of them. *)

RoomForResult == Len(sent) - recvd < Concurrency

InputExhausted == inClosed /\ fed = taken

\* Fault: the send has no ctx.Done() alternative.
NeverDropResult == FALSE

\* Fault: the send gives up when the channel is full.
DropWhenFull == ctxDone \/ Len(sent) - recvd = Concurrency

MayDropResult == ctxDone

\* Fault: the closer waits for one worker instead of all of them.
SomeWorkerDone == \E w \in Workers : wpc[w] = "done"

WorkersDone == \A w \in Workers : wpc[w] = "done"

-----------------------------------------------------------------------------
(* The worker goroutine. *)

TakeTarget(w) ==
  /\ wpc[w] = "recv"
  /\ taken < fed
  /\ taken' = taken + 1
  /\ item' = [item EXCEPT ![w] = taken + 1]
  /\ wpc' = [wpc EXCEPT ![w] = "scan"]
  /\ UNCHANGED <<fed, inClosed, sent, recvd, resClosed, eof, ctxDone>>

\* Both returns of the first select: a closed, drained input or a done context.
StopReceiving(w) ==
  /\ wpc[w] = "recv"
  /\ InputExhausted \/ ctxDone
  /\ wpc' = [wpc EXCEPT ![w] = "done"]
  /\ UNCHANGED <<chans, item, ctxDone>>

ScanReturns(w) ==
  /\ wpc[w] = "scan"
  /\ wpc' = [wpc EXCEPT ![w] = "send"]
  /\ UNCHANGED <<chans, item, ctxDone>>

SendResult(w) ==
  /\ wpc[w] = "send"
  /\ RoomForResult
  /\ sent' = Append(sent, item[w])
  /\ wpc' = [wpc EXCEPT ![w] = "recv"]
  /\ item' = [item EXCEPT ![w] = 0]
  /\ UNCHANGED <<fed, taken, inClosed, recvd, resClosed, eof, ctxDone>>

\* The second select may pick ctx.Done() although the channel has room.
DropResult(w) ==
  /\ wpc[w] = "send"
  /\ MayDropResult
  /\ wpc' = [wpc EXCEPT ![w] = "done"]
  /\ item' = [item EXCEPT ![w] = 0]
  /\ UNCHANGED <<chans, ctxDone>>

Worker(w) ==
  \/ TakeTarget(w)
  \/ StopReceiving(w)
  \/ ScanReturns(w)
  \/ SendResult(w)
  \/ DropResult(w)

(* The goroutine that runs workers.Wait(); close(results). *)
CloseResults ==
  /\ WorkersDone
  /\ ~resClosed
  /\ resClosed' = TRUE
  /\ UNCHANGED <<fed, taken, inClosed, wpc, item, sent, recvd, eof, ctxDone>>

-----------------------------------------------------------------------------
(* The caller. *)

CallerSend ==
  /\ ~inClosed
  /\ fed < NumTargets
  /\ fed - taken < InCap
  /\ fed' = fed + 1
  /\ UNCHANGED <<taken, inClosed, wpc, item, sent, recvd, resClosed, eof, ctxDone>>

CallerClose ==
  /\ ~inClosed
  /\ inClosed' = TRUE
  /\ UNCHANGED <<fed, taken, wpc, item, sent, recvd, resClosed, eof, ctxDone>>

CallerReceive ==
  /\ recvd < Len(sent)
  /\ recvd' = recvd + 1
  /\ UNCHANGED <<fed, taken, inClosed, wpc, item, sent, resClosed, eof, ctxDone>>

CallerSeesEnd ==
  /\ resClosed
  /\ recvd = Len(sent)
  /\ eof' = TRUE
  /\ UNCHANGED <<fed, taken, inClosed, wpc, item, sent, recvd, resClosed, ctxDone>>

CallerCancel ==
  /\ ~ctxDone
  /\ ctxDone' = TRUE
  /\ UNCHANGED <<chans, wpc, item>>

Caller == CallerSend \/ CallerClose \/ CallerReceive \/ CallerSeesEnd \/ CallerCancel

Next ==
  \/ \E w \in Workers : Worker(w)
  \/ CloseResults
  \/ Caller

\* The Go scheduler runs every goroutine that can run; the caller promises nothing.
Fairness ==
  /\ \A w \in Workers : WF_vars(Worker(w))
  /\ WF_vars(CloseResults)

Spec == Init /\ [][Next]_vars /\ Fairness

-----------------------------------------------------------------------------
(* Properties. *)

Delivered == {sent[i] : i \in 1 .. recvd}

\* No worker can send after the channel was closed (a send on a closed channel
\* panics): the close happens only once every worker has left its loop, whatever
\* way each of them left it.
NoSendOnClosed == resClosed => \A w \in Workers : wpc[w] = "done"

\* A target is handed to one worker only: no two results on the channel, and no
\* result and a busy worker, stand for the same target.
ResultsUnique ==
  /\ \A i, j \in 1 .. Len(sent) : sent[i] = sent[j] => i = j
  /\ \A v, w \in Workers : Busy(v) /\ Busy(w) /\ item[v] = item[w] => v = w
  /\ \A w \in Workers, i \in 1 .. Len(sent) : Busy(w) => sent[i] # item[w]

\* Without cancellation nothing is lost between the two channels: when the result
\* channel closes, every target the caller sent has its result on it.
CompleteUnlessCanceled ==
  resClosed /\ ~ctxDone => \A t \in 1 .. fed : \E i \in 1 .. Len(sent) : sent[i] = t

\* A canceled stream closes even if the caller neither closes its input nor
\* receives another result: no worker stays behind on a full result channel.
CancelCloses == ctxDone ~> resClosed

\* The stream keeps the promise of ResultStream.
Promise ==
  INSTANCE ResultStream WITH
    offered <- fed, inputClosed <- inClosed, canceled <- ctxDone,
    delivered <- Delivered, ended <- eof

KeepsPromise == Promise!Spec
=============================================================================
