------------------------------- MODULE RunScan -------------------------------
(***************************************************************************)
(* runScan from its options to its exit code (internal/cli/cli.go:         *)
(* 185-404) with prepareTargets (540-574) and Resolve (internal/input/     *)
(* input.go:282-306): resolve the raw targets, open the output, write the  *)
(* failed lookups, scan wave after wave, pivot through the names of the    *)
(* certificates, flush and exit.                                           *)
(*                                                                         *)
(* A wave is the abstract Wave that the three branches of runWave          *)
(* implement, with the callback of runScan (cli.go:323-342) inside its     *)
(* emits.  Names are numbers in the order of slices.Sort; a target is a    *)
(* name with the address a lookup gave it (ports, SNI and STARTTLS are the *)
(* same for all names and not told apart here).  A lookup may fail and may *)
(* answer differently every time; so may a certificate.  What is written   *)
(* goes through a Writer.  --help, which exits 0 at once, is left out.     *)
(***************************************************************************)
EXTENDS Naturals, Sequences, FiniteSets

CONSTANTS
  NumNames,               \* DNS names are 1 .. NumNames
  Addresses,              \* what names resolve to
  Answers,                \* the outcomes of a lookup: lists of addresses, <<>> fails
  Modes,                  \* "all" with --scan-all-ips, "remote" behind socks5h, "first"
  Seeds,                  \* the raw targets, in order
  Scope,                  \* the names that --scope covers
  PivotDepth,             \* --pivot-depth, 0 stands for no --pivot
  MaxDiscovery            \* --max-discovery

Names == 1 .. NumNames

ASSUME RunAssumption ==
  /\ NumNames \in Nat
  /\ Answers \subseteq Seq(Addresses)
  /\ Seeds \in Seq(Names)
  /\ Scope \subseteq Names
  /\ PivotDepth \in Nat
  /\ MaxDiscovery \in Nat \ {0}

\* A target whose name the proxy resolves has no address.
NoAddress == ""

Targets == Names \X (Addresses \cup {NoAddress})
SeedNames == {Seeds[i] : i \in 1 .. Len(Seeds)}

VARIABLES
  mode, tee,              \* of this run: how names become addresses, whether -o is given
  created,                \* the file of -o was created, and truncated
  pc,                     \* "options", "prepare", "open", "failures", "wave", "pivot",
                          \* "flush", "exited"
  next,                   \* seeds prepared, in "prepare"
  failures,               \* failed lookups of the seeds still to be written
  seen,                   \* the targets of all waves so far
  wave, emitted, outcome, \* the running wave (module Wave)
  depth,
  nextNames,              \* in-scope names of this wave's certificates
  pivoted,                \* targets found for the next wave
  discovered,             \* names that gave a new target
  auditFail,              \* a result failed its audit
  pending, behind,        \* of the result writer (module Writer)
  signal,                 \* the context is canceled
  exit,                   \* exit code, "none" before
  scanned,                \* history: target -> results written for it
  found,                  \* history: in-scope names seen above the last depth
  tried                   \* history: names looked up

waveVars == <<wave, emitted, outcome, signal>>
setup == <<mode, tee, created>>
sink == <<pending, behind>>
history == <<scanned, found, tried>>
vars == <<mode, tee, created, pc, next, failures, seen, wave, emitted, outcome, depth, nextNames, pivoted,
          discovered, auditFail, pending, behind, signal, exit, scanned, found, tried>>

W == INSTANCE Wave WITH targets <- wave, interrupted <- signal
Out == INSTANCE Writer

TypeOK ==
  /\ mode \in Modes
  /\ tee \in BOOLEAN
  /\ created \in BOOLEAN
  /\ pc \in {"options", "prepare", "open", "failures", "wave", "pivot", "flush", "exited"}
  /\ next \in 0 .. Len(Seeds)
  /\ failures \in 0 .. Len(Seeds)
  /\ seen \subseteq Targets
  /\ wave \subseteq seen
  /\ emitted \subseteq wave
  /\ outcome \in {"none", "nil", "ctx", "emit"}
  /\ depth \in 0 .. PivotDepth
  /\ nextNames \subseteq Names
  /\ pivoted \subseteq seen
  /\ discovered \in 0 .. MaxDiscovery
  /\ auditFail \in BOOLEAN
  /\ pending \in BOOLEAN
  /\ behind \subseteq {"file", "stdout"}
  /\ signal \in BOOLEAN
  /\ exit \in {"none", "0", "1", "2", "3", "130"}
  /\ scanned \in [Targets -> Nat]
  /\ found \subseteq Names
  /\ tried \subseteq Names

Init ==
  /\ mode \in Modes
  /\ tee \in BOOLEAN
  /\ created = FALSE
  /\ pc = "options"
  /\ next = 0
  /\ failures = 0
  /\ seen = {}
  /\ wave = {}
  /\ emitted = {}
  /\ outcome = "none"
  /\ depth = 0
  /\ nextNames = {}
  /\ pivoted = {}
  /\ discovered = 0
  /\ auditFail = FALSE
  /\ pending = FALSE
  /\ behind = {}
  /\ signal = FALSE
  /\ exit = "none"
  /\ scanned = [t \in Targets |-> 0]
  /\ found = {}
  /\ tried = {}

-----------------------------------------------------------------------------
Exit(code) ==
  /\ pc' = "exited"
  /\ exit' = code

(* The options: flags, scopes, ports, TLS versions; the CA file and the lists *)
(* of SNI names and targets; the resolver.                                    *)

nothing == <<next, failures, seen, waveVars, depth, nextNames, pivoted, discovered,
             auditFail, sink, history>>

RefuseOptions ==
  /\ pc = "options"
  /\ Exit("2")
  /\ UNCHANGED <<nothing, setup>>

ReadFails ==
  /\ pc = "options"
  /\ Exit("1")
  /\ UNCHANGED <<nothing, setup>>

OptionsAccepted ==
  /\ pc = "options"
  /\ Seeds # <<>>
  /\ pc' = "prepare"
  /\ UNCHANGED <<nothing, setup, exit>>

-----------------------------------------------------------------------------
(* prepareTargets over the seeds, then the records of their failures.  The    *)
(* keys of one call are deduplicated in it, so they are a set here.           *)

\* The addresses that Resolve takes from the answer; without a lookup behind socks5h.
Resolved(answer) ==
  IF mode = "remote" THEN {NoAddress}
  ELSE {answer[i] : i \in IF mode = "all" THEN DOMAIN answer ELSE DOMAIN answer \cap {1}}

Lookups == {Resolved(answer) : answer \in Answers}

TargetsOf(name, addresses) == {name} \X addresses

PrepareSeed(addresses) ==
  /\ pc = "prepare"
  /\ next < Len(Seeds)
  /\ next' = next + 1
  /\ tried' = tried \cup {Seeds[next + 1]}
  /\ seen' = seen \cup TargetsOf(Seeds[next + 1], addresses)
  /\ wave' = seen'
  /\ failures' = IF addresses = {} THEN failures + 1 ELSE failures
  /\ UNCHANGED <<pc, emitted, outcome, depth, nextNames, pivoted, discovered, auditFail,
                 setup, sink, signal, exit, scanned, found>>

\* A seed that ParseTarget refuses ends the run.
RefuseSeed ==
  /\ pc = "prepare"
  /\ next < Len(Seeds)
  /\ Exit("2")
  /\ UNCHANGED <<next, failures, seen, waveVars, depth, nextNames, pivoted, discovered,
                 auditFail, sink, history, setup>>

SeedsPrepared ==
  /\ pc = "prepare"
  /\ next = Len(Seeds)
  /\ pc' = "open"
  /\ UNCHANGED <<next, failures, seen, waveVars, depth, nextNames, pivoted, discovered,
                 auditFail, sink, exit, history, setup>>

\* NewScanner refuses the configuration.
RefuseConfig ==
  /\ pc = "open"
  /\ Exit("2")
  /\ UNCHANGED <<nothing, setup>>

CreateFails ==
  /\ pc = "open"
  /\ tee
  /\ Exit("1")
  /\ UNCHANGED <<nothing, setup>>

\* os.Create truncates the file before output.New looks at the format.
OpenOutput ==
  /\ pc = "open"
  /\ created' = tee
  /\ \/ pc' = "failures" /\ UNCHANGED exit
     \/ Exit("2")
  /\ UNCHANGED <<nothing, mode, tee>>

WriteFailure ==
  /\ pc = "failures"
  /\ failures > 0
  /\ \/ Out!Write /\ failures' = failures - 1 /\ UNCHANGED <<pc, exit>>
     \/ Out!WriteFails /\ Exit("1") /\ UNCHANGED failures
  /\ UNCHANGED <<next, seen, waveVars, depth, nextNames, pivoted, discovered, auditFail,
                 history, setup>>

FailuresWritten ==
  /\ pc = "failures"
  /\ failures = 0
  /\ pc' = IF wave = {} THEN "flush" ELSE "wave"
  /\ UNCHANGED <<next, failures, seen, waveVars, depth, nextNames, pivoted, discovered,
                 auditFail, sink, exit, history, setup>>

-----------------------------------------------------------------------------
(* A wave, seen from its callback. *)

\* Fault: the names are not held against the scope.
AllNames(names) == names

InScope(names) == names \cap Scope

Collects == depth < PivotDepth

\* The callback: count the result, collect its names if the next depth is allowed.
Collect(t, names) ==
  /\ scanned' = [scanned EXCEPT ![t] = @ + 1]
  /\ auditFail' \in {auditFail, TRUE}
  /\ \/ /\ Collects
        /\ nextNames' = nextNames \cup InScope(names)
        /\ found' = found \cup (names \cap Scope)
     \/ ~Collects /\ UNCHANGED <<nextNames, found>>

EmitResult(t, names) ==
  /\ pc = "wave"
  /\ W!Emit(t)
  /\ Collect(t, names)
  /\ Out!Write
  /\ UNCHANGED <<pc, next, failures, seen, depth, pivoted, discovered, exit, tried, setup>>

EmitFails(t, names) ==
  /\ pc = "wave"
  /\ W!EmitFails(t)
  /\ Collect(t, names)
  /\ Out!WriteFails
  /\ UNCHANGED <<pc, next, failures, seen, depth, pivoted, discovered, exit, tried, setup>>

WaveReturns ==
  /\ pc = "wave"
  /\ W!ReturnNil \/ W!ReturnCanceled
  /\ UNCHANGED <<pc, next, failures, seen, depth, nextNames, pivoted, discovered, auditFail,
                 sink, exit, history, setup>>

WaveFailed ==
  /\ pc = "wave"
  /\ outcome \in {"emit", "ctx"}
  /\ Exit("1")
  /\ UNCHANGED <<next, failures, seen, waveVars, depth, nextNames, pivoted, discovered,
                 auditFail, sink, history, setup>>

WaveDone ==
  /\ pc = "wave"
  /\ outcome = "nil"
  /\ pc' = IF depth >= PivotDepth THEN "flush" ELSE "pivot"
  /\ UNCHANGED <<next, failures, seen, waveVars, depth, nextNames, pivoted, discovered,
                 auditFail, sink, exit, history, setup>>

-----------------------------------------------------------------------------
(* The pivot: the collected names in order, each looked up while the limit    *)
(* leaves room.  Names come from NormalizeDNSName, which ParseTarget applies  *)
(* again, so it never refuses one (the continue of cli.go:361).               *)

Smallest(name) == name \in nextNames /\ \A n \in nextNames : name <= n

\* Fault: the limit is tested after the name was added.
OneNameMore == discovered <= MaxDiscovery

MayDiscover == discovered < MaxDiscovery

NewTargets(name, addresses) == TargetsOf(name, addresses) \ seen

PivotName(name, addresses) ==
  /\ pc = "pivot"
  /\ MayDiscover
  /\ Smallest(name)
  /\ addresses # {}
  /\ nextNames' = nextNames \ {name}
  /\ tried' = tried \cup {name}
  /\ seen' = seen \cup NewTargets(name, addresses)
  /\ pivoted' = pivoted \cup NewTargets(name, addresses)
  /\ discovered' = IF NewTargets(name, addresses) = {} THEN discovered ELSE discovered + 1
  /\ UNCHANGED <<pc, next, failures, waveVars, depth, auditFail, sink, exit, scanned, found, setup>>

\* Fault: a failed lookup ends the loop over the names.
FailureEndsPivot(name) ==
  /\ pc = "pivot"
  /\ MayDiscover
  /\ Smallest(name)
  /\ nextNames' = {}
  /\ tried' = tried \cup {name}
  /\ Out!Write
  /\ UNCHANGED <<pc, next, failures, seen, waveVars, depth, pivoted, discovered, auditFail,
                 exit, scanned, found, setup>>

\* The lookup failed: its record is written at once.
PivotLookupFails(name) ==
  /\ pc = "pivot"
  /\ MayDiscover
  /\ Smallest(name)
  /\ {} \in Lookups
  /\ nextNames' = nextNames \ {name}
  /\ tried' = tried \cup {name}
  /\ \/ Out!Write /\ UNCHANGED <<pc, exit>>
     \/ Out!WriteFails /\ Exit("1")
  /\ UNCHANGED <<next, failures, seen, waveVars, depth, pivoted, discovered, auditFail,
                 scanned, found, setup>>

\* Fault: the loop waits for the names past the limit.
NoNamesLeft == nextNames = {}

PivotOver == nextNames = {} \/ ~MayDiscover

\* The names are used up, or the limit is reached: the next wave, if there is one.
PivotDone ==
  /\ pc = "pivot"
  /\ PivotOver
  /\ nextNames' = {}
  /\ depth' = depth + 1
  /\ wave' = pivoted
  /\ emitted' = {}
  /\ outcome' = "none"
  /\ pivoted' = {}
  /\ pc' = IF pivoted = {} THEN "flush" ELSE "wave"
  /\ UNCHANGED <<next, failures, seen, discovered, auditFail, sink, signal, exit, history, setup>>

-----------------------------------------------------------------------------
(* The end of the run. *)

\* Fault: the audit verdict goes before the interrupt.
AuditFirst == IF auditFail THEN "3" ELSE IF signal THEN "130" ELSE "0"

ExitCode == IF signal THEN "130" ELSE IF auditFail THEN "3" ELSE "0"

\* Fault: the error of Flush is ignored.
FlushUnchecked ==
  /\ pc = "flush"
  /\ Exit(ExitCode)
  /\ Out!Flush \/ Out!FlushFails
  /\ UNCHANGED <<next, failures, seen, waveVars, depth, nextNames, pivoted, discovered,
                 auditFail, history, setup>>

Flush ==
  /\ pc = "flush"
  /\ \/ Out!Flush /\ Exit(ExitCode)
     \/ Out!FlushFails /\ Exit("1")
  /\ UNCHANGED <<next, failures, seen, waveVars, depth, nextNames, pivoted, discovered,
                 auditFail, history, setup>>

Signal ==
  /\ pc # "exited"
  /\ ~signal
  /\ signal' = TRUE
  /\ UNCHANGED <<pc, next, failures, seen, wave, emitted, outcome, depth, nextNames, pivoted,
                 discovered, auditFail, sink, exit, history, setup>>

Run ==
  \/ RefuseOptions \/ ReadFails \/ OptionsAccepted
  \/ \E addresses \in Lookups : PrepareSeed(addresses)
  \/ RefuseSeed \/ SeedsPrepared \/ RefuseConfig \/ CreateFails \/ OpenOutput
  \/ WriteFailure \/ FailuresWritten
  \/ \E t \in wave, names \in SUBSET Names : EmitResult(t, names) \/ EmitFails(t, names)
  \/ WaveReturns \/ WaveFailed \/ WaveDone
  \/ \E name \in nextNames, addresses \in Lookups : PivotName(name, addresses)
  \/ \E name \in nextNames : PivotLookupFails(name)
  \/ PivotDone
  \/ Flush

Next == Run \/ Signal

\* Lookups, waves and writes end: waves by the liveness of their three branches.
Fairness == WF_vars(Run)

Spec == Init /\ [][Next]_vars /\ Fairness

-----------------------------------------------------------------------------
(* Properties. *)

\* "names outside exact scope or its subdomains are never probed" (README.md:81):
\* beyond the targets of the user only names in scope are looked up or scanned.
ScopeIsKept ==
  /\ tried \subseteq SeedNames \cup Scope
  /\ \A t \in seen : t[1] \in SeedNames \cup Scope

\* No target is scanned twice, in one wave or over all of them.
ScannedOnce == \A t \in Targets : scanned[t] <= 1

\* The names that pivoting adds are no more than --max-discovery, and a name is
\* collected for a wave no deeper than --pivot-depth.
DiscoveryBounded ==
  /\ discovered <= MaxDiscovery
  /\ Cardinality({t[1] : t \in seen} \ SeedNames) <= discovered
  /\ depth <= PivotDepth

\* A run that exits 0 or 3 was not interrupted, looked up every seed and scanned
\* every target it ever accepted; and "Audit exits with status 3 when a high or
\* critical policy finding is present" (README.md:89), 3 telling it from 0.
SuccessIsComplete ==
  exit \in {"0", "3"} =>
    /\ exit = IF auditFail THEN "3" ELSE "0"
    /\ ~signal
    /\ SeedNames \subseteq tried
    /\ \A t \in seen : scanned[t] = 1

\* The pivot is closed: in such a run every in-scope name of a certificate above
\* the last depth was looked up, unless the discovery limit was reached.
PivotIsClosed ==
  exit \in {"0", "3"} /\ discovered < MaxDiscovery => found \subseteq tried

\* An exit code other than 1 and 2 promises that every record was delivered: no error
\* of a write or of the last flush is lost, and none waits in the buffer (cli.go:310,
\* 343, 387).  The error of closing the file is discarded (296) and left out.
RecordsDelivered == exit \in {"0", "3", "130"} => ~pending /\ behind = {}

\* "Persist first so a downstream broken pipe cannot leave -o incomplete"
\* (cli.go:297): the file never misses what stdout was given; and the file of an
\* earlier run is truncated only when every target was accepted and looked up.
FileIsSafe ==
  /\ "file" \in behind => "stdout" \in behind
  /\ created => tee /\ SeedNames \subseteq tried

\* The run ends: the waves get fewer by depth, and each is finite.
RunEnds == <>(pc = "exited")
=============================================================================
