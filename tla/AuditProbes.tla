----------------------------- MODULE AuditProbes -----------------------------
(***************************************************************************)
(* Scanner.ScanAudit after its successful baseline scan                    *)
(* (pkg/ctscan/audit.go:36-167): one probe per TLS version, then a pool of *)
(* workers that try every configurable cipher suite, then the verdict.     *)
(*                                                                         *)
(* A server is the set of <<version, cipher>> pairs it accepts.  A         *)
(* handshake succeeds if the server accepts a pair that it offers, unless  *)
(* it is disturbed: a timeout, a reset, a full backlog.  crypto/tls offers *)
(* its default ciphers when a probe names none.  A rate limit delays and,  *)
(* on a done context, ends the loops of the probes.  The probes go out in  *)
(* a fixed order, which makes no difference here.  The leaf that the       *)
(* baseline saw brings the findings of Certificate into the verdict.       *)
(***************************************************************************)
EXTENDS Integers, Sequences, FiniteSets, Certificate

CONSTANTS
  Ciphers,                \* the names of the cipher suites
  Default,                \* those that crypto/tls offers by default
  Configurable,           \* the pairs up to TLS 1.2 that it lets a client choose
  Weak,                   \* cipher -> severity of its finding, or "none"
  Servers,                \* the servers to audit
  Leaves,                 \* the leaves of their certificates
  CipherConcurrency,      \* AuditConfig.CipherConcurrency
  Modern                  \* AuditConfig.Profile is "modern"

Versions == 10 .. 13
Severities == {"none", "low", "medium", "high", "critical"}

ASSUME ProbesAssumption ==
  /\ Default \subseteq Ciphers
  /\ Configurable \subseteq (10 .. 12) \X Ciphers
  /\ Weak \in [Ciphers -> Severities]
  /\ Leaves \subseteq Leaf
  /\ Servers \subseteq SUBSET (Configurable \cup {13} \X Ciphers)
  /\ CipherConcurrency \in Nat \ {0}
  /\ Modern \in BOOLEAN

\* What auditFindings does not flag is an AEAD suite, and TLS 1.2 is the first with those.
ASSUME AeadAssumption == \A p \in Configurable : p[1] < 12 => Weak[p[2]] # "none"

Workers == 1 .. CipherConcurrency
Now == 0
NoProbe == <<>>

VARIABLES
  server, limited,        \* of this audit
  leaf,                   \* that the baseline saw
  pc,                     \* ScanAudit: "versions", "ciphers", "done"
  version,                \* the version it probes, 14 after the last
  supported,              \* audit.SupportedVersions
  negotiated,             \* the ciphers found so far
  left,                   \* pairs the feeder has not handed out
  jobsClosed,
  wpc, item,              \* worker -> where it is, the pair it holds
  accepted,               \* the channel of accepted ciphers
  closed,
  ended,                  \* the context is done
  disturbed,              \* history: a probe got no answer on a live context
  compliance              \* "none" before the verdict

vars == <<server, limited, leaf, pc, version, supported, negotiated, left, jobsClosed,
          wpc, item, accepted, closed, ended, disturbed, compliance>>
setting == <<server, limited, leaf>>
pool == <<left, jobsClosed, wpc, item, accepted, closed>>
main == <<pc, version, supported, compliance>>

TypeOK ==
  /\ server \in Servers
  /\ limited \in BOOLEAN
  /\ leaf \in Leaves
  /\ pc \in {"versions", "ciphers", "done"}
  /\ version \in 10 .. 14
  /\ supported \subseteq Versions
  /\ negotiated \subseteq Ciphers
  /\ left \subseteq Configurable
  /\ jobsClosed \in BOOLEAN
  /\ wpc \in [Workers -> {"recv", "probe", "send", "done"}]
  /\ item \in [Workers -> Configurable \cup {NoProbe}]
  /\ accepted \in Seq(Ciphers)
  /\ Len(accepted) <= CipherConcurrency
  /\ closed \in BOOLEAN
  /\ ended \in BOOLEAN
  /\ disturbed \in BOOLEAN
  /\ compliance \in {"none", "pass", "warn", "fail"}

Init ==
  /\ server \in Servers
  /\ limited \in BOOLEAN
  /\ leaf \in Leaves
  /\ pc = "versions"
  /\ version = 10
  /\ supported = {}
  /\ negotiated = {}
  /\ left = Configurable
  /\ jobsClosed = FALSE
  /\ wpc = [w \in Workers |-> "recv"]
  /\ item = [w \in Workers |-> NoProbe]
  /\ accepted = <<>>
  /\ closed = FALSE
  /\ ended = FALSE
  /\ disturbed = FALSE
  /\ compliance = "none"

-----------------------------------------------------------------------------
(* The probes of the versions, one after the other.                           *)

\* What the server answers to a version with the default ciphers.
Offers(v) == {c \in Default : <<v, c>> \in server}

NextVersion ==
  /\ version' = version + 1
  /\ pc' = IF version = 13 THEN "ciphers" ELSE "versions"

VersionSupported(c) ==
  /\ pc = "versions"
  /\ ~ended
  /\ c \in Offers(version)
  /\ supported' = supported \cup {version}
  /\ negotiated' = negotiated \cup {c}
  /\ NextVersion
  /\ UNCHANGED <<setting, pool, ended, disturbed, compliance>>

\* Fault: a probe that returned counts, whether it succeeded or not.
RefusalCounts ==
  /\ pc = "versions"
  /\ Offers(version) = {} \/ ended
  /\ supported' = supported \cup {version}
  /\ NextVersion
  /\ UNCHANGED <<setting, negotiated, pool, ended, disturbed, compliance>>

VersionRefused ==
  /\ pc = "versions"
  /\ Offers(version) = {} \/ ended
  /\ NextVersion
  /\ UNCHANGED <<setting, supported, negotiated, pool, ended, disturbed, compliance>>

VersionDisturbed ==
  /\ pc = "versions"
  /\ disturbed' = TRUE
  /\ NextVersion
  /\ UNCHANGED <<setting, supported, negotiated, pool, ended, compliance>>

\* waitRate fails: the other versions are left out.
VersionsCut ==
  /\ pc = "versions"
  /\ limited /\ ended
  /\ pc' = "ciphers"
  /\ UNCHANGED <<setting, version, supported, negotiated, pool, ended, disturbed, compliance>>

-----------------------------------------------------------------------------
(* The feeder.  It and the pool start after the versions.                     *)

HandProbe(w, p) ==
  /\ pc # "versions"
  /\ ~jobsClosed
  /\ wpc[w] = "recv"
  /\ left' = left \ {p}
  /\ item' = [item EXCEPT ![w] = p]
  /\ wpc' = [wpc EXCEPT ![w] = "probe"]
  /\ UNCHANGED <<setting, main, negotiated, jobsClosed, accepted, closed, ended, disturbed>>

\* Fault: the select has no ctx.Done(), the feeder waits for workers that are gone.
FeederIgnoresContext == left = {}

\* Fault: the last probe is not handed out.
FeederStopsEarly == Cardinality(left) <= 1 \/ ended

FeederMayStop == left = {} \/ ended

FeederStops ==
  /\ pc # "versions"
  /\ ~jobsClosed
  /\ FeederMayStop
  /\ jobsClosed' = TRUE
  /\ UNCHANGED <<setting, main, negotiated, left, wpc, item, accepted, closed, ended, disturbed>>

-----------------------------------------------------------------------------
(* A worker.                                                                  *)

ProbeAccepted(w) ==
  /\ wpc[w] = "probe"
  /\ ~ended
  /\ item[w] \in server
  /\ wpc' = [wpc EXCEPT ![w] = "send"]
  /\ UNCHANGED <<setting, main, negotiated, left, jobsClosed, item, accepted, closed, ended,
                 disturbed>>

ProbeFails(w) ==
  /\ wpc[w] = "probe"
  /\ \/ (item[w] \notin server \/ ended) /\ UNCHANGED disturbed
     \/ disturbed' = TRUE
  /\ wpc' = [wpc EXCEPT ![w] = "recv"]
  /\ item' = [item EXCEPT ![w] = NoProbe]
  /\ UNCHANGED <<setting, main, negotiated, left, jobsClosed, accepted, closed, ended>>

\* waitRate fails, or the select of the send sees the context: the worker returns.
WorkerCanceled(w) ==
  /\ \/ wpc[w] = "probe" /\ limited
     \/ wpc[w] = "send"
  /\ ended
  /\ wpc' = [wpc EXCEPT ![w] = "done"]
  /\ item' = [item EXCEPT ![w] = NoProbe]
  /\ UNCHANGED <<setting, main, negotiated, left, jobsClosed, accepted, closed, ended, disturbed>>

RoomForCipher == Len(accepted) < CipherConcurrency

SendCipher(w) ==
  /\ wpc[w] = "send"
  /\ RoomForCipher
  /\ accepted' = Append(accepted, item[w][2])
  /\ wpc' = [wpc EXCEPT ![w] = "recv"]
  /\ item' = [item EXCEPT ![w] = NoProbe]
  /\ UNCHANGED <<setting, main, negotiated, left, jobsClosed, closed, ended, disturbed>>

ProbesEnd(w) ==
  /\ wpc[w] = "recv"
  /\ jobsClosed
  /\ wpc' = [wpc EXCEPT ![w] = "done"]
  /\ UNCHANGED <<setting, main, negotiated, left, jobsClosed, item, accepted, closed, ended,
                 disturbed>>

Worker(w) ==
  ProbeAccepted(w) \/ ProbeFails(w) \/ WorkerCanceled(w) \/ SendCipher(w) \/ ProbesEnd(w)

CloserMayClose == \A w \in Workers : wpc[w] = "done"

CloseAccepted ==
  /\ ~closed
  /\ CloserMayClose
  /\ closed' = TRUE
  /\ UNCHANGED <<setting, main, negotiated, left, jobsClosed, wpc, item, accepted, ended, disturbed>>

-----------------------------------------------------------------------------
(* The collection and the verdict.                                            *)

CollectCipher ==
  /\ pc = "ciphers"
  /\ accepted # <<>>
  /\ negotiated' = negotiated \cup {Head(accepted)}
  /\ accepted' = Tail(accepted)
  /\ UNCHANGED <<setting, main, left, jobsClosed, wpc, item, closed, ended, disturbed>>

\* auditFindings: the severities of the findings of versions and ciphers.
Findings(versions, ciphers) ==
  {"high" : v \in versions \cap {10, 11}}
    \cup {"medium" : v \in IF Modern THEN versions \cap {12} ELSE {}}
    \cup ({Weak[c] : c \in ciphers} \ {"none"})

complianceFor(severities) ==
  IF severities \cap {"critical", "high"} # {} THEN "fail"
  ELSE IF severities \cap {"medium", "low"} # {} THEN "warn"
  ELSE "pass"

Conclude ==
  /\ pc = "ciphers"
  /\ closed
  /\ accepted = <<>>
  /\ compliance' =
       complianceFor(certificateFindings(leaf, Now) \cup Findings(supported, negotiated))
  /\ pc' = "done"
  /\ UNCHANGED <<setting, version, supported, negotiated, pool, ended, disturbed>>

ContextEnds ==
  /\ ~ended
  /\ ended' = TRUE
  /\ UNCHANGED <<setting, main, negotiated, pool, disturbed>>

Audit ==
  \/ \E c \in Ciphers : VersionSupported(c)
  \/ VersionRefused \/ VersionDisturbed \/ VersionsCut
  \/ CollectCipher \/ Conclude

Feeder == FeederStops \/ \E w \in Workers, p \in left : HandProbe(w, p)

Next == Audit \/ Feeder \/ (\E w \in Workers : Worker(w)) \/ CloseAccepted \/ ContextEnds

\* Every probe is an attempt with a timeout, the rate ticker keeps ticking.
Fairness ==
  /\ WF_vars(Audit)
  /\ WF_vars(Feeder)
  /\ WF_vars(CloseAccepted)
  /\ \A w \in Workers : WF_vars(Worker(w))

Spec == Init /\ [][Next]_vars /\ Fairness

-----------------------------------------------------------------------------
(* Properties.                                                                *)

Rank == [pass |-> 0, warn |-> 1, fail |-> 2]

\* What a leaf deserves, by the time it has left and not by whole days.
Urgent(c) ==
  \/ c.notAfter < Now + 7 * Day \/ c.notBefore > Now
  \/ ~(c.named /\ c.strongKey /\ c.strongSignature)
Doubtful(c) == c.notAfter < Now + 30 * Day \/ c.selfSigned \/ ~c.anchored
Deserved(c) == IF Urgent(c) THEN {"high"} ELSE IF Doubtful(c) THEN {"medium"} ELSE {}

\* The verdict of an audit that knows all about the server.
TrueVerdict ==
  complianceFor(Deserved(leaf) \cup Findings({p[1] : p \in server}, {p[2] : p \in server}))

\* No false alarm: what an audit reports the server does support, and its verdict is
\* never worse than the server deserves, however many probes failed or were cut off.
NoFalseAlarm ==
  /\ supported \subseteq {p[1] : p \in server}
  /\ negotiated \subseteq {p[2] : p \in server}
  /\ pc = "done" => Rank[compliance] <= Rank[TrueVerdict]

\* Nothing is missed: an audit that no fault and no cancel touched reports every
\* configurable cipher of the server, at whatever version it is accepted, and every
\* version that takes a default cipher.
NothingMissed ==
  pc = "done" /\ ~ended /\ ~disturbed =>
    /\ {p[2] : p \in server \cap Configurable} \subseteq negotiated
    /\ {v \in Versions : Offers(v) # {}} \subseteq supported

\* A pass is earned: the leaf has 30 days left to the tick and nothing against it, and
\* unless a fault or a cancel touched the audit, the server accepts no weak cipher
\* that can be chosen and none below TLS 1.2.
PassIsEarned ==
  compliance = "pass" =>
    /\ ~Urgent(leaf) /\ ~Doubtful(leaf)
    /\ ~ended /\ ~disturbed =>
         \A p \in server \cap Configurable : p[1] >= 12 /\ Weak[p[2]] = "none"

\* ScanAudit returns, and its feeder, workers and closer end, a done context or not.
AllGone ==
  /\ pc = "done"
  /\ jobsClosed
  /\ \A w \in Workers : wpc[w] = "done"
  /\ closed
AuditEnds == <>[]AllGone
=============================================================================
