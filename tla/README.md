# ctscan in TLA+

`ctscan` (Go) connects to TLS endpoints, records what their handshakes show, and
can audit protocols and ciphers, pivot through certificate names, search
Certificate Transparency logs and compare saved scans. This directory holds a
TLA+ development of its control: what runs concurrently, what is retried, what
stops on a signal or an error, and what is promised when the program returns.

To check a module: `tlc -workers 2 -config MCScanStream.cfg MCScanStream`; to
check proofs: `tlapm ScanStreamProofs.tla`.

## Inventory

| Part | Source | State | Operations | Hard behaviour |
|---|---|---|---|---|
| Result stream | `pkg/ctscan/scanner.go` `ScanStream` | input and result channels, wait group | worker loop, closer | close versus send, cancel with a full channel, a caller that stops receiving |
| Single scan | `scanner.go` `Scan`, `waitRate`, `classifyError`, `isRetryable` | attempt number, last error, ticker | rate wait, backoff, attempt, classification | `break` inside `select`, cancel versus timer, retry of permanent errors |
| Attempt | `scanner.go` `scanOnceWithTLS`, `makeDialer`, `dialHTTPProxy`, `negotiateStartTLS` | connection, deadline | dial, proxy CONNECT, STARTTLS, handshake | which wait is bounded by which deadline |
| Audit | `pkg/ctscan/audit.go` `ScanAudit` | probe list, cipher pool | baseline scan, version probes, cipher pool, compliance | probes that fail versus are refused |
| Certificate analysis | `scanner.go` `certificateInfo`, `validateCertificate`, `certificateFindings` | none | validity, host name, trust, findings | rounding of days, durations that saturate |
| Waves | `internal/cli/cli.go` `runWave` | job and result channels, result slots | three branches: ordered, scan, audit | signal or emit error while goroutines block |
| Run | `cli.go` `runScan`, `prepareTargets` | `seen`, `discovered`, `wave`, `stats` | check options, prepare, open, waves, pivot, flush, exit code | pivot closure and its limits, exit code versus what was written |
| CT search | `cli.go` `runCT`, `internal/transparency` | `seenNames`, `seenRecords`, retry count | request with retry, two providers, merge | retry/cancel, deduplication over domains |
| Snapshots | `internal/snapshot/diff.go` | two maps by identity | read, diff, sort | map order, records that share an identity |
| Input | `internal/input/input.go` | none | target, port, CIDR, name and scope parsing, lookup | wrap of addresses and ports, spellings of one name |
| Output | `internal/output/output.go`, `cli.go` `runScan` | buffered writer over file and stdout | write, flush | which destination misses what after an error |

Components call each other as follows. `runScan` prepares targets (input, DNS),
then calls `runWave` once per pivot depth with a callback that counts, collects
certificate names and writes the result. `runWave` drives `ScanStream`, `Scan` or
`ScanAudit` from goroutines; all of them share one context that SIGINT and
SIGTERM cancel, and one rate ticker. `runCT` and `runDiff` are separate commands.

What makes each part correct, in short: the stream delivers each result once,
closes exactly when nothing more can come, and frees its goroutines after a cancel;
a scan reports what happened and retries only what may succeed; an attempt holds no
connection and no more time than it was given; an audit reports what the server
does, no less and no more; a wave emits every target once or says why not; a run
stays in scope, scans what it accepted once, and its exit code is true; the ct
command writes what it found once; which changes a diff reports depends
on the snapshots only; an argument stands for exactly the targets it names.

## Modules

| Module | Models | State and actions in terms of the code |
|---|---|---|
| `ResultStream` | the promise of `ScanStream`'s comment | abstract: offered targets, delivered results, end |
| `ScanStream` | `scanner.go:321-354` and any caller of it | a channel is the log of its values and a read index; one action per step of a worker, the closer and the caller |
| `Wave` | what `runWave` promises `runScan` | abstract: emitted targets, outcome, interrupt |
| `RunWave` | the unordered scan branch (`cli.go:445-463`) | `ScanStream` instantiated with the feeder and the collector as its caller |
| `OrderedWave` | the `--ordered` branch (409-443) | index channel, slots as the set of written ones, join, emits in order |
| `AuditWave` | the audit branch (465-501) | feeder, workers, closer and collector of this branch |
| `Scan` | `scanner.go:175-233`, 500-540 | one call: `start`, `rate`, `backoff`, `attempt`, `done`; an error is a record of the traits the code asks for; the ticker's channel holds one tick, which other scans may take |
| `Attempt` | `scanner.go:83-172`, 239-319, 557-722 | one connection with a clock; proxies and STARTTLS dialogues as sequences of waits, with every error path and the close it makes or leaves to the `defer`; a STARTTLS server as a process of its own |
| `AuditProbes` | `audit.go:36-167` | version probes in a loop, then feeder, pool, closer, collection, verdict; a server is the set of pairs it accepts, with its leaf |
| `Certificate` | `scanner.go:389`, 420-485 | operators on a leaf and the time, used by `AuditProbes`; times are ticks, a day is `Day` of them |
| `RunScan` | `cli.go:185-404`, 540-573, `input.go:282-306` | a run from its options to its exit code; a wave is an instance of `Wave`, its output one of `Writer`, a target is a name with an address |
| `Writer` | `output.go:20-76`, `cli.go:287-304` | what waits in the buffer, and which destinations miss something |
| `CTSearch` | `cli.go:659-711`, `transparency.go` | domain after domain, page after page, retries, then the records through the buffer |
| `Snapshot` | `cli.go:743-770`, `diff.go` | lines into maps, maps in any order into changes, sorted place by place with ties in any order, printed |
| `DNSNames` | `input.go:192-211`, 331-343 | operators on names as sequences of labels, used by `CTSearch` and `Targets` |
| `Targets` | `input.go:27-251` | ports, then the argument, then the walk over a network, address by address; an address is a sequence of bytes, a mask what it leaves open of each |
| `*Proofs` | | inductive invariants and theorems of the module they are named after; `BranchProofs` is about `OrderedWave` and `AuditWave`, `CommandProofs` about `CTSearch`, `Targets` and `Snapshot` |
| `MC*` | | instances for TLC, with their bounds in the `.cfg` |

How they fit together: `RunScan` uses `Wave` in place of `runWave`, and `RunWave`,
`OrderedWave` and `AuditWave` are each shown to implement `Wave`; `RunWave` uses
`ScanStream`, shown to implement `ResultStream`. Inside `ScanStream` a call of `Scan`
is one step; `Scan` opens it and takes an attempt as one step; `Attempt` opens that,
and its `ReasonIsTrue` is what `Scan` assumes of the errors it gets. `AuditProbes`
takes its baseline scan and every probe as a step likewise, and judges the leaf by
`Certificate`. `RunScan` writes through `Writer`, `CTSearch` has a buffer of its own.

The operators commented "Fault:" are not part of the model. Each is a bug that the
code might have had, in the place of the definition below it; with it, TLC refutes
the property that `PROJECT.json` pairs it with.

## Runs

| Run | Bounds | What it shows |
|---|---|---|
| `scan_stream` | 2 workers, 3 targets, input capacity 2 | any caller, also one that stops receiving or never closes its channel: the stream implements `ResultStream`, never sends on the closed channel, and closes after a cancel |
| `run_wave` | 2 workers, 4 targets | errors of emit and signals anywhere: implements `Wave`, no goroutine outlives it |
| `ordered_wave` | 3 workers, 4 targets | implements `Wave`; slots are read only when written and when no worker is left; returns |
| `audit_wave` | 2 workers, 4 targets | implements `Wave`; returns and leaves no goroutine |
| `scan` | 2 retries, 15 kinds of error | kinds, advice and retries agree with what happened; every attempt took a tick of its own; returns after a cancel |
| `attempt` | timeout 3, replies of 2 lines, all proxies and protocols | which clock ends which wait; every error path closes its connection, once; an error names what came first, the cancel or the deadline; client and server of a STARTTLS dialogue never wait on each other |
| `attempt_proxy` | the same, HTTP proxies | violation, see below |
| `audit_probes` | 2 workers, 4 pairs (one a default suite below TLS 1.2), 3 servers, 7 leaves | what an audit says is true, complete if nothing disturbed it, and a pass is deserved by the leaf |
| `run_scan` | 2 seeds, 4 names, 2 addresses, depth 2, limit 2, 3 modes of lookup, with and without `-o` | scope, limits, completeness, pivot closure, delivery to both destinations, exit codes |
| `ct_search` | lists of 2 or 3 domains, 2 pages each, one list of pages a circle, 2 retries | what was found is written, once, by every exit; the command ends |
| `snapshot` | all pairs of files of up to 2 lines, 2 endpoints | which changes are reported depends on the snapshots only, sorted by endpoint and kind; the exit code tells whether there is any |
| `targets` | 3 bytes of 2 bits, every prefix, limit 8, ports to 9, names in 2 or 3 spellings, empty ones and a dot | exactly the targets asked for, or a refusal for a stated reason |

Why the bounds are enough. In the channel models there are more targets than workers
and than slots, so that every channel is full, empty and in between while someone is
blocked on it; a third worker adds no new kind of wait (`ordered_wave` has one). Two
retries reach the first, a middle and the last attempt. A timeout of three units
separates answers before, at and after each deadline. Two levels of pivot and a limit
of two discoveries reach both limits, with a name left over and a seed that comes
back under another address. Small bytes wrap and carry as large ones do, and the
networks at the end of the address space wrap whole. A scaled limit of eight is the
size of one of the networks. A day of two ticks puts the end of a leaf half a day before and
after the limits of 7 and 30 days; one leaf outlives the longest duration. A lookup that
answers in either order, and differently every time, makes the first address of a name change.

Bounds that are guards of a model: `Attempt` stops its clock at `Horizon` while a
proxy keeps silent or does not end its refusal, `Targets` stops the walk of a network once it has passed every
address.

Fairness. Weak fairness of each goroutine: the Go scheduler runs what can run. No
caller of `ScanStream` has to do anything, no peer has to answer, no signal has to
come. Where a step stands for a wait, something in the code bounds it: an attempt is
bounded by its timeout (`Attempt` shows when), a lookup by the resolver, an HTTP
request by the client's timeout (positive, as it is by default), a delay by its timer. An attempt
through a silent HTTP proxy is the exception: every liveness property of the other modules
is about runs without one.

## Proofs

| Module | What is proved, for every value of the constants | The argument |
|---|---|---|
| `ScanStreamProofs` | no send on the closed channel, no target twice, nothing lost without a cancel, refinement of `ResultStream` | where a target can be: untaken, in one worker's hands, or once on the log |
| `RunWaveProofs` | refinement of `Wave` | the stream's invariant carries over, as every step of the wave is one of the stream or leaves it alone; what the collector knows is added |
| `BranchProofs` | ordered: no race on slots, no unwritten slot, refinement of `Wave`; audit: no send on the closed channel, refinement of `Wave` | ordered: every handed index is in a worker's hands or written, and after the join no hands are left; audit: as for the stream, with the feeder's position |
| `ScanProofs` | budget, justified retries, a tick for every attempt, truth of kinds and advice | what the loop knows of the last error before it returns, for any set of errors with the traits named in `ScanAssumption`; ticks taken less attempts made is one at most |
| `AttemptProofs` | time limits, cancel, no leak, truth of the reason, client and server of a dialogue meet | each wait is tied to the clock that ends it; who holds the connection at each stage, the path that returns or the `defer` (`Holds`); what dialCtx's first error was (`FirstCause`); for each protocol the places the two sides can be at together (`Meets`) |
| `RunScanProofs` | scope, once-only scans, discovery bound, completeness and verdict, pivot closure, delivery, safety of the file | what accepted targets still wait for (`Due`), which names are looked up or still listed; a destination misses nothing before the exit with 1 |
| `AuditProbesProofs` | no false alarm, nothing missed, a pass is earned, for every server, leaf and number of workers | what was found was answered by the server (`Honest`); until a fault or a cancel, each pair of the server is with the feeder, in hands, on the channel or collected (`Whereabouts`), and each version passed is reported (`Passed`); `complianceFor` is monotone in the findings; whole days judge a leaf as its ticks do |
| `CommandProofs`, ct | what was found is written, nothing is printed twice or out of scope, normalizing twice is normalizing once | what was seen was printed unless the buffer is stuck; what a domain keeps is seen or still in `records`; every domain before is stood for by what was seen up to it |
| `CommandProofs`, targets | exactly the targets asked for, in order and once, or a refusal for a stated reason | addresses are ordered by their first different byte and the next one is the least above; a network is convex in that order, so that the walk leaves it only behind its last address (`Walked`); place `k` of the product is its quotient and rest |
| `CommandProofs`, diff | the report has each expected change once, sorted by endpoint and kind, and the exit code tells whether there is any | a map holds the last results of the lines read (`IsMap`); the changes list what the visited endpoints give, each once and in any order; a change that has its place is preceded by none behind it (`Placed`) |

The assumptions are those named in the modules: positive sizes, finite sets where they
are counted, and in `Scan` the traits of Go's errors (a deadline is a timeout, an
operation error is a network error), in `AuditProbes` that a suite is weak unless it is an
AEAD, which the versions before TLS 1.2 lack (`AeadAssumption`), in `Targets` that a mask keeps
a prefix of the bits and that there are more addresses than `Limit`. An invariant of a run is seldom
inductive: it speaks of the end, or of the channel alone, so that each proof module adds conjuncts
that say where everything is at the steps between. The prover has no induction over data: where the walk
of `Targets` or the ranks of sorted names would need one, the proof takes the least
number for which the claim fails (`LeastNumber`), which the well-founded order of finite
subsets provides, or counts (`AscendingLists`).

Every safety property of a passing run is a theorem, the refinements included. What TLC alone
checks is liveness, out of the prover's reach: `CancelCloses`, `NoOrphans`, `OrderedReturns`,
`AuditEnds`, `CancelReturns`, `AttemptEnds`, `RunEnds`, `SearchEnds`, `ParseEnds`. The induction
that a fold or a recursive definition needs does not come up: no model has one.

## Divergences seen

`attempt_proxy` is checked: `dialHTTPProxy` writes its CONNECT and waits for the answer with
neither deadline nor context, so a silent proxy holds the attempt, its worker and the wave
for ever, also after a signal. So does one that refuses and never ends the body of its
answer, which `Body.Close` (`scanner.go:167`) reads.

The others came up while modelling. The models do what the code does, and the
properties are stated so that they hold of it:

- a STARTTLS attempt may take two timeouts (`TimeLimit`), though `cli.go:144` says "per-attempt timeout";
- an audit probes a version with default ciphers only, and a cipher accepted at an old version does not list that version (`NothingMissed`), though `audit.go:22` says "enumerates protocol versions";
- a probe that got no answer counts as refused, so that a disturbed audit may pass a weak server (`NoFalseAlarm` is the half that holds), though `CONTRIBUTING.md:23` asks to "distinguish an unreachable check from a confirmed failure";
- a certificate shared by two domains of `ctscan ct` is written for the first one only (`FindingsAreWritten`);
- the network of all addresses with `--allow-large-range` is walked for ever (`ParseEnds`);
- failed lookups are not deduplicated, though `README.md:122` says inputs are;
- one argument that does not parse ends the run, though `CONTRIBUTING.md:18` says failures of targets should not;
- in a diff, an endpoint whose scan failed is `asset_removed`, "absent from the new snapshot": a failed result has no address and so another identity;
- `--ordered` discards finished results on a signal and the run exits 1, the other branches keep them and exit 130; `ctscan ct` exits 1 on a signal;
- after an error of stdout the run exits with 1 and flushes no more, so that the file of `-o` ends early and maybe within a record, though `cli.go:297` says "a downstream broken pipe cannot leave -o incomplete"; that it never has less than stdout is the half that holds (`FileIsSafe`);
- `-o` truncates an existing file before an unknown `--format` is refused (`cli.go:291`, 301);
- the bytes behind a proxy's answer stay in the reader of `dialHTTPProxy` (`scanner.go:161`): a greeting that comes with them is lost and its STARTTLS dialogue waits for its timeout (`DialoguesMesh` says where);
- the pages of Cert Spotter may be linked in a circle, which `ctscan ct` follows until a signal (`SearchEnds`);
- a tick is taken before the backoff, so that several calls can wait with one each and dial at once, though `cli.go:146` says "maximum connection attempts per second"; that every attempt took its own tick is the half that holds (`AttemptsPaid`);
- `example.com..` is accepted as a target, as two functions trim one dot each (`input.go:180`, 193), but refused as `--scope`, `--sni` or domain of `ctscan ct`;
- two spellings of one name in `--sni` give each target twice (`ParseIsExact`); `prepareTargets` removes the second;
- an empty entry of `--sni` is accepted (`input.go:129`, 230) and stands for targets without SNI (`ParseIsExact`), although a scan of a name then sends the name after all (`scanner.go:264-267`); a lone dot is refused;
- changes of one endpoint and one kind, as several `san_added`, may come in another order from run to run: they are collected from a map, `slices.SortFunc` is not stable, and it compares identity and kind only (`diff.go:75-80`; `DiffIsExact` allows every order of them);
- through a SOCKS5 proxy an attempt ended by a cancel may report an I/O timeout, as the dialer moves the deadline of the connection to stop it (`ReasonIsTrue` says so);
- the error of `outputHandle.Close` (`cli.go:296`) is discarded: a failure that shows only there changes no exit code. It is not modelled (`RecordsDelivered` is about the errors of Write and Flush).

## Not modelled

X.509 and TLS themselves: chains, names, signatures, handshakes and the bytes of the dialogues
are given by their outcomes. The copied fields of results and the texts of findings, changes and
statistics. Which values of flags are refused, usage, version and completion; the syntax of hosts
and URLs (`splitTarget`), the lines of lists, the settings of a resolver. They are straight-line
code without state. The length of a tick, and so the rate that several scans reach together.
The keys of targets are a name and an address: port, SNI and STARTTLS multiply them and change
nothing of what waits for what.

## Plan

The order so far was: the stream and its wave, the single scan, the other waves, the
run, the attempt, the audit's probes, the separate commands, with the proofs beside them; then
the servers of dialogues, the writer and its destinations, the options and lookups of a run, the
certificate, the names. What is left:

1. the rate limit with several scans and a clock, and with it a bound on the burst after backoffs;
2. the step from `Scan` to `Attempt` as a refinement: `Scan` takes an attempt as one step and assumes of its
   errors what `ReasonIsTrue` says.
