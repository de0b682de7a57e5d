----------------------------- MODULE OrderedWave -----------------------------
(***************************************************************************)
(* The --ordered branch of runWave (internal/cli/cli.go:409-443): runWave  *)
(* hands indexes to workers over an unbuffered channel, each worker writes *)
(* its result into the slot of its index, and after the join runWave emits *)
(* the slots in order.  A signal during the feed discards the wave.        *)
(*                                                                         *)
(* Scan and ScanAudit are one step (Record).  No goroutine of this branch  *)
(* can be alive when runWave returns, so the deferred cancel is not a step *)
(* of its own and the signal is the only thing that ends the context.      *)
(***************************************************************************)
EXTENDS Integers

CONSTANTS
  Concurrency,            \* --concurrency
  NumTargets              \* targets of the wave

ASSUME OrderedAssumption ==
  /\ Concurrency \in Nat \ {0}
  /\ NumTargets \in Nat

Workers == 1 .. Concurrency
Targets == 1 .. NumTargets

VARIABLES
  mpc,                    \* runWave: "feed", "join", "emit", "returned"
  err,                    \* what it will return: "nil", "ctx", "emit"
  handed,                 \* indexes handed to workers
  jobsClosed,             \* the jobs channel is closed
  wpc,                    \* worker -> where it is
  item,                   \* worker -> the index it holds, 0 for none
  filled,                 \* the slots of results that a worker has written
  out,                    \* slots emitted so far, the last failing one included
  signal                  \* the context is canceled

vars == <<mpc, err, handed, jobsClosed, wpc, item, filled, out, signal>>

TypeOK ==
  /\ mpc \in {"feed", "join", "emit", "returned"}
  /\ err \in {"nil", "ctx", "emit"}
  /\ handed \in 0 .. NumTargets
  /\ jobsClosed \in BOOLEAN
  /\ wpc \in [Workers -> {"recv", "work", "done"}]
  /\ item \in [Workers -> 0 .. NumTargets]
  /\ filled \subseteq Targets
  /\ out \in 0 .. NumTargets
  /\ signal \in BOOLEAN

Init ==
  /\ mpc = "feed"
  /\ err = "nil"
  /\ handed = 0
  /\ jobsClosed = FALSE
  /\ wpc = [w \in Workers |-> "recv"]
  /\ item = [w \in Workers |-> 0]
  /\ filled = {}
  /\ out = 0
  /\ signal = FALSE

-----------------------------------------------------------------------------
(* runWave. *)

MoreTargets == handed < NumTargets

\* The send and a worker's receive are one event.
HandIndex(w) ==
  /\ mpc = "feed"
  /\ MoreTargets
  /\ wpc[w] = "recv"
  /\ handed' = handed + 1
  /\ item' = [item EXCEPT ![w] = handed + 1]
  /\ wpc' = [wpc EXCEPT ![w] = "work"]
  /\ UNCHANGED <<mpc, err, jobsClosed, filled, out, signal>>

FeedDone ==
  /\ mpc = "feed"
  /\ ~MoreTargets
  /\ jobsClosed' = TRUE
  /\ mpc' = "join"
  /\ UNCHANGED <<err, handed, wpc, item, filled, out, signal>>

\* Fault: the early return joins the workers without closing the channel.
FeedCanceledOpen ==
  /\ mpc = "feed"
  /\ MoreTargets
  /\ signal
  /\ mpc' = "join"
  /\ err' = "ctx"
  /\ UNCHANGED <<handed, jobsClosed, wpc, item, filled, out, signal>>

FeedCanceled ==
  /\ mpc = "feed"
  /\ MoreTargets
  /\ signal
  /\ jobsClosed' = TRUE
  /\ mpc' = "join"
  /\ err' = "ctx"
  /\ UNCHANGED <<handed, wpc, item, filled, out, signal>>

\* Fault: workers.Wait is left out.
NoWait == TRUE

WorkersDone == \A w \in Workers : wpc[w] = "done"

Joined ==
  /\ mpc = "join"
  /\ WorkersDone
  /\ \/ err = "nil" /\ mpc' = "emit"
     \/ err # "nil" /\ mpc' = "returned"
  /\ UNCHANGED <<err, handed, jobsClosed, wpc, item, filled, out, signal>>

EmitSlot ==
  /\ mpc = "emit"
  /\ out < NumTargets
  /\ out' = out + 1
  /\ UNCHANGED <<mpc, err, handed, jobsClosed, wpc, item, filled, signal>>

EmitFails ==
  /\ mpc = "emit"
  /\ out < NumTargets
  /\ out' = out + 1
  /\ err' = "emit"
  /\ mpc' = "returned"
  /\ UNCHANGED <<handed, jobsClosed, wpc, item, filled, signal>>

\* Fault: the last slot is not emitted.
LastSlotLost ==
  /\ mpc = "emit"
  /\ out + 1 >= NumTargets
  /\ mpc' = "returned"
  /\ UNCHANGED <<err, handed, jobsClosed, wpc, item, filled, out, signal>>

EmitDone ==
  /\ mpc = "emit"
  /\ out = NumTargets
  /\ mpc' = "returned"
  /\ UNCHANGED <<err, handed, jobsClosed, wpc, item, filled, out, signal>>

-----------------------------------------------------------------------------
(* A worker: results[index] = Scan or ScanAudit, while the channel is open. *)

Record(w) ==
  /\ wpc[w] = "work"
  /\ filled' = filled \cup {item[w]}
  /\ wpc' = [wpc EXCEPT ![w] = "recv"]
  /\ item' = [item EXCEPT ![w] = 0]
  /\ UNCHANGED <<mpc, err, handed, jobsClosed, out, signal>>

Leave(w) ==
  /\ wpc[w] = "recv"
  /\ jobsClosed
  /\ wpc' = [wpc EXCEPT ![w] = "done"]
  /\ UNCHANGED <<mpc, err, handed, jobsClosed, item, filled, out, signal>>

Signal ==
  /\ ~signal
  /\ signal' = TRUE
  /\ UNCHANGED <<mpc, err, handed, jobsClosed, wpc, item, filled, out>>

Main ==
  \/ \E w \in Workers : HandIndex(w)
  \/ FeedDone \/ FeedCanceled \/ Joined
  \/ EmitSlot \/ EmitFails \/ EmitDone

Worker(w) == Record(w) \/ Leave(w)

Next == Main \/ (\E w \in Workers : Worker(w)) \/ Signal

Fairness == WF_vars(Main) /\ \A w \in Workers : WF_vars(Worker(w))

Spec == Init /\ [][Next]_vars /\ Fairness

-----------------------------------------------------------------------------
(* Properties. *)

\* The slots are plain memory: runWave reads them only when no worker is left that
\* could write one, so the emits race with nothing, and no worker outlives runWave;
\* no unwritten slot, a Result without status, is emitted, not even after a cancel.
SlotsAreSafe ==
  /\ mpc \in {"emit", "returned"} => \A w \in Workers : wpc[w] = "done"
  /\ 1 .. out \subseteq filled

\* runWave returns, whatever emit and the signals do.
OrderedReturns == <>(mpc = "returned")

Promise ==
  INSTANCE Wave WITH
    targets <- 1 .. NumTargets,
    emitted <- 1 .. out,
    outcome <- IF mpc = "returned" THEN err ELSE "none",
    interrupted <- signal

\* The branch keeps the promise of Wave; the slots go out in target order.
KeepsWave == Promise!Spec
=============================================================================
