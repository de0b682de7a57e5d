------------------------------ MODULE Snapshot ------------------------------
(***************************************************************************)
(* The diff command (internal/cli/cli.go:743-770) with                     *)
(* internal/snapshot/diff.go: it reads two files of results into maps, the *)
(* last result of an endpoint wins, walks the maps in whatever order Go    *)
(* chooses, sorts the changes and prints them.                             *)
(*                                                                         *)
(* A line of a file is a result, blank or bad (no JSON, or too long).  An  *)
(* endpoint stands for host, address, port and SNI, a number that gives    *)
(* its place in the order of strings; names are numbers alike.  A result   *)
(* without a certificate has fingerprint "" and no names.                  *)
(***************************************************************************)
EXTENDS Integers, Sequences, FiniteSets, SequencesExt

CONSTANTS
  Files,                  \* the possible files, sequences of lines
  Results                 \* the results they may have

BlankLine == [kind |-> "blank"]
BadLine == [kind |-> "bad"]
Endpoints == {r.endpoint : r \in Results}
Severities == {"info", "low", "medium", "high", "critical"}

ASSUME SnapshotAssumption ==
  /\ Files \subseteq Seq(Results \cup {BlankLine, BadLine})
  /\ \A r \in Results :
       /\ r.kind = "result"
       /\ r.endpoint \in Nat
       /\ r.names \subseteq Nat /\ IsFiniteSet(r.names)
       /\ r.fingerprint = "" => r.names = {}
       /\ r.audit \in {"", "pass", "warn", "fail"}
       /\ r.findings \subseteq Severities

VARIABLES
  files, outputFormat, failOnChange,   \* of this command
  phase,                  \* "read", "compare", "removed", "write", "exited"
  file, line,             \* what it reads next
  maps,                   \* the two maps: endpoint -> result
  todo,                   \* endpoints the loop over a map has not visited
  changes,                \* a sequence of changes
  sorted,                 \* how many of them have their place
  printed,                \* how many of them it has printed, or tried to
  stdoutFails,            \* stdout takes no more data
  status                  \* the exit code

flags == <<files, outputFormat, failOnChange>>
diffVars == <<flags, phase, file, line, maps, todo, changes, sorted, printed, stdoutFails, status>>

NoMap == [e \in {} |-> BlankLine]

DiffInit ==
  /\ files \in Files \X Files
  /\ outputFormat \in {"text", "jsonl", "other"}
  /\ failOnChange \in BOOLEAN
  /\ phase = "read"
  /\ file = 1
  /\ line = 1
  /\ maps = <<NoMap, NoMap>>
  /\ todo = {}
  /\ changes = <<>>
  /\ sorted = 0
  /\ printed = 0
  /\ stdoutFails \in BOOLEAN
  /\ status = "none"

Exit(code) ==
  /\ phase' = "exited"
  /\ status' = code
  /\ UNCHANGED <<flags, file, line, maps, todo, changes, sorted, printed, stdoutFails>>

-----------------------------------------------------------------------------
(* Read.                                                                      *)

AtLine(kind) == phase = "read" /\ line <= Len(files[file]) /\ files[file][line].kind = kind

\* Fault: the first result of an endpoint wins.
FirstWins(map, result) ==
  [e \in DOMAIN map \cup {result.endpoint} |-> IF e \in DOMAIN map THEN map[e] ELSE result]

Store(map, result) ==
  [e \in DOMAIN map \cup {result.endpoint} |-> IF e = result.endpoint THEN result ELSE map[e]]

ReadResult ==
  /\ AtLine("result")
  /\ maps' = [maps EXCEPT ![file] = Store(@, files[file][line])]
  /\ line' = line + 1
  /\ UNCHANGED <<flags, phase, file, todo, changes, sorted, printed, stdoutFails, status>>

ReadBlank ==
  /\ AtLine("blank")
  /\ line' = line + 1
  /\ UNCHANGED <<flags, phase, file, maps, todo, changes, sorted, printed, stdoutFails, status>>

ReadBad == AtLine("bad") /\ Exit("1")

ReadEnd ==
  /\ phase = "read" /\ line > Len(files[file])
  /\ line' = 1
  /\ IF file = 1 THEN file' = 2 /\ UNCHANGED <<phase, todo>>
     ELSE phase' = "compare" /\ todo' = DOMAIN maps[2] /\ UNCHANGED file
  /\ UNCHANGED <<flags, maps, changes, sorted, printed, stdoutFails, status>>

-----------------------------------------------------------------------------
(* Diff.                                                                      *)

compliance(r) ==
  IF r.audit # "" THEN r.audit
  ELSE IF r.findings \cap {"critical", "high"} # {} THEN "fail"
  ELSE IF r.findings # {} THEN "warn"
  ELSE "pass"

complianceRank(value) == IF value = "fail" THEN 2 ELSE IF value = "warn" THEN 1 ELSE 0

Change(kind, e, detail) == [endpoint |-> e, kind |-> kind, detail |-> detail]

\* The numbers of a set in ascending order.
Ascending(S) ==
  [i \in 1 .. Cardinality(S) |-> CHOOSE n \in S : Cardinality({m \in S : m < n}) = i - 1]

\* The changes of one kind that give the names left has and right has not.
difference(kind, e, left, right) ==
  LET names == Ascending(left.names \ right.names)
  IN [i \in DOMAIN names |-> Change(kind, e, {names[i]})]

When(condition, change) == IF condition THEN <<change>> ELSE <<>>

ChangesOf(e, previous, current) ==
  When(previous.fingerprint # current.fingerprint, Change("certificate_changed", e, {}))
    \o difference("san_added", e, current, previous)
    \o difference("san_removed", e, previous, current)
    \o When(complianceRank(compliance(current)) > complianceRank(compliance(previous)),
            Change("security_regression", e, {}))

CompareEndpoint(e) ==
  /\ phase = "compare"
  /\ changes' = changes \o
       IF e \in DOMAIN maps[1] THEN ChangesOf(e, maps[1][e], maps[2][e])
       ELSE <<Change("asset_added", e, {})>>
  /\ todo' = todo \ {e}
  /\ UNCHANGED <<flags, phase, file, line, maps, sorted, printed, stdoutFails, status>>

Compared ==
  /\ phase = "compare" /\ todo = {}
  /\ phase' = "removed"
  /\ todo' = DOMAIN maps[1]
  /\ UNCHANGED <<flags, file, line, maps, changes, sorted, printed, stdoutFails, status>>

FindRemoved(e) ==
  /\ phase = "removed"
  /\ changes' = changes \o When(e \notin DOMAIN maps[2], Change("asset_removed", e, {}))
  /\ todo' = todo \ {e}
  /\ UNCHANGED <<flags, phase, file, line, maps, sorted, printed, stdoutFails, status>>

KindOrder == <<"asset_added", "asset_removed", "certificate_changed", "san_added", "san_removed",
               "security_regression">>
Place(kind) == CHOOSE i \in DOMAIN KindOrder : KindOrder[i] = kind

Precedes(a, b) ==
  \/ a.endpoint < b.endpoint
  \/ a.endpoint = b.endpoint /\ Place(a.kind) < Place(b.kind)

\* SortFunc orders by endpoint and kind only and is not stable: which of several names of
\* one kind comes first is open.  The next place goes to any change that none precedes.
Sort(i) ==
  /\ phase = "removed" /\ todo = {}
  /\ \A j \in sorted + 1 .. Len(changes) : ~Precedes(changes[j], changes[i])
  /\ changes' = [changes EXCEPT ![sorted + 1] = changes[i], ![i] = changes[sorted + 1]]
  /\ sorted' = sorted + 1
  /\ UNCHANGED <<flags, phase, file, line, maps, todo, printed, stdoutFails, status>>

Sorted ==
  /\ phase = "removed" /\ todo = {} /\ sorted = Len(changes)
  /\ phase' = "write"
  /\ UNCHANGED <<flags, file, line, maps, todo, changes, sorted, printed, stdoutFails, status>>

-----------------------------------------------------------------------------
(* runDiff.  stdout is not buffered; for text its errors are ignored.         *)

PrintChange ==
  /\ phase = "write" /\ printed < Len(changes)
  /\ outputFormat = "text" \/ (outputFormat = "jsonl" /\ ~stdoutFails)
  /\ printed' = printed + 1
  /\ UNCHANGED <<flags, phase, file, line, maps, todo, changes, sorted, stdoutFails, status>>

ChangeRefused ==
  /\ phase = "write" /\ printed < Len(changes)
  /\ \/ outputFormat = "jsonl" /\ stdoutFails /\ Exit("1")
     \/ outputFormat = "other" /\ Exit("2")

EndDiff ==
  /\ phase = "write" /\ printed = Len(changes)
  /\ Exit(IF failOnChange /\ changes # <<>> THEN "3" ELSE "0")

DiffNext ==
  \/ ReadResult \/ ReadBlank \/ ReadBad \/ ReadEnd
  \/ \E e \in todo : CompareEndpoint(e) \/ FindRemoved(e)
  \/ Compared
  \/ (\E i \in sorted + 1 .. Len(changes) : Sort(i)) \/ Sorted
  \/ PrintChange \/ ChangeRefused \/ EndDiff

DiffSpec == DiffInit /\ [][DiffNext]_diffVars

-----------------------------------------------------------------------------
(* Properties.                                                                *)

\* The lines of a file about an endpoint, and the endpoints of a file.
About(f, e) == {i \in DOMAIN files[f] : files[f][i].kind = "result" /\ files[f][i].endpoint = e}
InFile(f) == {e \in Endpoints : About(f, e) # {}}
LastResult(f, e) == files[f][CHOOSE i \in About(f, e) : \A j \in About(f, e) : j <= i]

\* What the documented comparison of two snapshots has to report (README.md:20, "new
\* assets, SAN changes, certificate rotation, and security regressions").
ExpectedAt(e, old, new) ==
  {c \in {Change("certificate_changed", e, {})} : old.fingerprint # new.fingerprint}
    \cup {Change("san_added", e, {n}) : n \in new.names \ old.names}
    \cup {Change("san_removed", e, {n}) : n \in old.names \ new.names}
    \cup {c \in {Change("security_regression", e, {})} :
            <<compliance(old), compliance(new)>> \in
              {<<"pass", "warn">>, <<"pass", "fail">>, <<"warn", "fail">>}}

Expected ==
  {Change("asset_added", e, {}) : e \in InFile(2) \ InFile(1)}
    \cup {Change("asset_removed", e, {}) : e \in InFile(1) \ InFile(2)}
    \cup UNION {ExpectedAt(e, LastResult(1, e), LastResult(2, e)) : e \in InFile(1) \cap InFile(2)}

\* Which changes are reported depends on the two snapshots only, not on the order of
\* lines of other endpoints or of Go's maps: each expected change once, sorted by
\* endpoint and kind, and exit code 3 or, with --fail-on-change, 0 tells whether there is
\* any.  Changes of one endpoint and kind, as several added names, may come in any order:
\* the sort is not stable and does not compare more (diff.go:75-80).
DiffIsExact ==
  /\ phase = "write" =>
       /\ ToSet(changes) = Expected
       /\ Len(changes) = Cardinality(Expected)
       /\ \A i, j \in DOMAIN changes : i < j => ~Precedes(changes[j], changes[i])
  /\ status = "3" => failOnChange /\ Expected # {}
  /\ status = "0" /\ failOnChange => Expected = {}
=============================================================================
