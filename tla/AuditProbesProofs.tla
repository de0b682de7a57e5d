-------------------------- MODULE AuditProbesProofs --------------------------
(***************************************************************************)
(* Theorems about AuditProbes, for every server, leaf, list of ciphers and *)
(* number of workers.  What an audit reports is found by probes that the   *)
(* server answered (Honest).  What the server takes is not lost on the     *)
(* way: until a fault or a cancel, a pair of the server waits with the     *)
(* feeder, is in a worker's hands, or its cipher is on the channel or was  *)
(* collected (Whereabouts), and a version that was passed is reported      *)
(* (Passed).  The verdict is that of what was found (Judged); it relates   *)
(* to the truth because complianceFor is monotone and the whole days of    *)
(* the certificate judge as the ticks do.                                  *)
(***************************************************************************)
EXTENDS AuditProbes, TLAPS

Taken == {p[2] : p \in server}
Spoken == {p[1] : p \in server}

Busy(w) == wpc[w] \in {"probe", "send"}

Held == \A w \in Workers :
  /\ Busy(w) => item[w] \in Configurable
  /\ wpc[w] = "send" => item[w] \in server

Honest ==
  /\ supported \subseteq Spoken
  /\ negotiated \subseteq Taken
  /\ \A i \in 1 .. Len(accepted) : accepted[i] \in Taken

Left ==
  /\ \A w \in Workers : wpc[w] = "done" => jobsClosed \/ ended
  /\ jobsClosed => left = {} \/ ended
  /\ closed => \A w \in Workers : wpc[w] = "done"

InHand(p) == \E w \in Workers : Busy(w) /\ item[w] = p
OnChannel(c) == \E i \in 1 .. Len(accepted) : accepted[i] = c
Known(p) == p \in left \/ InHand(p) \/ OnChannel(p[2]) \/ p[2] \in negotiated

Calm == ~ended /\ ~disturbed

Whereabouts == Calm => \A p \in server \cap Configurable : Known(p)

Passed ==
  /\ pc = "versions" => version <= 13
  /\ pc # "versions" /\ ~ended => version = 14
  /\ Calm => \A v \in Versions : v < version /\ Offers(v) # {} => v \in supported

Reported == certificateFindings(leaf, Now) \cup Findings(supported, negotiated)

Judged ==
  /\ pc # "done" => compliance = "none"
  /\ pc = "done" => closed /\ accepted = <<>> /\ compliance = complianceFor(Reported)

IInv == TypeOK /\ Held /\ Honest /\ Left /\ Whereabouts /\ Passed /\ Judged

-----------------------------------------------------------------------------
(* Facts about the channel and about the pairs.                              *)

LEMMA AppendFacts ==
  ASSUME NEW S, NEW s \in Seq(S), NEW x \in S
  PROVE  /\ Append(s, x) \in Seq(S)
         /\ Len(Append(s, x)) = Len(s) + 1
         /\ Len(s) \in Nat
         /\ \A i \in 1 .. Len(s) : Append(s, x)[i] = s[i]
         /\ Append(s, x)[Len(s) + 1] = x
  OBVIOUS

LEMMA TailFacts ==
  ASSUME NEW S, NEW s \in Seq(S), s # <<>>
  PROVE  /\ Len(s) \in Nat /\ Len(s) > 0
         /\ Head(s) = s[1] /\ Head(s) \in S
         /\ Tail(s) \in Seq(S)
         /\ Len(Tail(s)) = Len(s) - 1
         /\ \A i \in 1 .. Len(s) - 1 : Tail(s)[i] = s[i + 1]
  OBVIOUS

LEMMA PairFacts ==
  ASSUME server \in Servers
  PROVE  /\ \A p \in Configurable : p[1] \in 10 .. 12 /\ p[2] \in Ciphers
         /\ \A p \in server : p[1] \in Versions /\ p[2] \in Ciphers
<1>1. \A p \in Configurable : p[1] \in 10 .. 12 /\ p[2] \in Ciphers
  BY ProbesAssumption
<1>2. ASSUME NEW p \in server PROVE p[1] \in Versions /\ p[2] \in Ciphers
  <2>1. p \in Configurable \/ p \in {13} \X Ciphers
    BY ProbesAssumption
  <2>2. CASE p \in Configurable
    BY <1>1, <2>2 DEF Versions
  <2>3. CASE p \in {13} \X Ciphers
    BY <2>3 DEF Versions
  <2>4. QED
    BY <2>1, <2>2, <2>3
<1>3. QED
  BY <1>1, <1>2

-----------------------------------------------------------------------------
(* The invariant.                                                            *)

LEMMA InitIInv == Init => IInv
<1> SUFFICES ASSUME Init PROVE IInv
  OBVIOUS
<1> USE ProbesAssumption DEF Init
<1>1. accepted \in Seq(Ciphers) /\ Len(accepted) = 0
  OBVIOUS
<1>2. TypeOK
  <2>1. /\ wpc \in [Workers -> {"recv", "probe", "send", "done"}]
        /\ item \in [Workers -> Configurable \cup {NoProbe}]
    OBVIOUS
  <2>2. Len(accepted) <= CipherConcurrency
    BY <1>1
  <2>3. version \in 10 .. 14
    OBVIOUS
  <2>4. QED
    BY <1>1, <2>1, <2>2, <2>3 DEF TypeOK
<1>3. Held /\ Honest /\ Left
  BY <1>1 DEF Held, Honest, Left, Busy
<1>4. Whereabouts /\ Passed /\ Judged
  BY DEF Whereabouts, Known, Passed, Judged, Versions
<1>5. QED
  BY <1>2, <1>3, <1>4 DEF IInv

(* A probe of a version, or the end of them.                                 *)
LEMMA VersionStep ==
  ASSUME IInv,
         (\E c \in Ciphers : VersionSupported(c)) \/ VersionRefused \/ VersionDisturbed \/ VersionsCut
  PROVE  IInv'
<1> USE DEF IInv
<1>1. /\ UNCHANGED <<server, leaf, limited>> /\ UNCHANGED pool
      /\ pc = "versions" /\ ended' = ended /\ compliance' = compliance
      /\ disturbed => disturbed'
      /\ disturbed' \in BOOLEAN
      /\ negotiated \subseteq negotiated' /\ supported \subseteq supported'
  BY DEF VersionSupported, VersionRefused, VersionDisturbed, VersionsCut, NextVersion, setting,
     TypeOK
<1>2. version \in 10 .. 13
  BY <1>1 DEF Passed, TypeOK
<1>3. /\ version' \in 10 .. 14 /\ pc' \in {"versions", "ciphers"}
      /\ pc' = "versions" => version' <= 13
      /\ pc' # "versions" /\ ~ended => version' = 14
      /\ ~ended => version' = version + 1
  BY <1>1, <1>2
     DEF VersionSupported, VersionRefused, VersionDisturbed, VersionsCut, NextVersion
<1>4. supported' \subseteq Spoken /\ negotiated' \subseteq Taken
  <2>1. CASE \E c \in Ciphers : VersionSupported(c)
    <3> PICK c \in Ciphers : VersionSupported(c)
      BY <2>1
    <3>1. <<version, c>> \in server
      BY DEF VersionSupported, Offers
    <3>2. version \in Spoken /\ c \in Taken
      BY <3>1 DEF Spoken, Taken
    <3>3. QED
      BY <3>2 DEF VersionSupported, Honest
  <2>2. QED
    BY <2>1 DEF VersionRefused, VersionDisturbed, VersionsCut, Honest
<1>5. TypeOK'
  <2>1. supported' \subseteq Versions /\ negotiated' \subseteq Ciphers
    BY <1>4, PairFacts DEF Spoken, Taken, TypeOK
  <2>2. QED
    BY <1>1, <1>3, <2>1 DEF TypeOK, pool
<1>6. Held' /\ Left' /\ Honest'
  BY <1>1, <1>4 DEF Held, Left, Honest, Busy, Spoken, Taken, pool
<1>7. Whereabouts'
  BY <1>1 DEF Whereabouts, Calm, Known, InHand, OnChannel, Busy, pool
<1>8. Passed'
  <2> SUFFICES ASSUME Calm', NEW v \in Versions, v < version', Offers(v) # {}
               PROVE  v \in supported'
    BY <1>1, <1>3 DEF Passed, Offers
  <2>1. Calm /\ version' = version + 1
    BY <1>1, <1>3 DEF Calm
  <2>2. CASE v < version
    BY <1>1, <2>1, <2>2 DEF Passed
  <2>3. CASE v = version
    BY <1>1, <2>1, <2>3
       DEF Calm, VersionSupported, VersionRefused, VersionDisturbed, VersionsCut
  <2>4. QED
    BY <1>2, <2>1, <2>2, <2>3 DEF Versions
<1>9. Judged'
  BY <1>1, <1>3 DEF Judged
<1>10. QED
  BY <1>5, <1>6, <1>7, <1>8, <1>9

LEMMA HandStep ==
  ASSUME IInv, NEW u \in Workers, NEW q \in left, HandProbe(u, q)
  PROVE  IInv'
<1> USE DEF IInv, HandProbe
<1>1. UNCHANGED <<server, leaf, limited>> /\ UNCHANGED main
  BY DEF setting
<1>2. q \in Configurable
  BY DEF TypeOK
<1>3. TypeOK'
  <2>1. /\ wpc' \in [Workers -> {"recv", "probe", "send", "done"}]
        /\ item' \in [Workers -> Configurable \cup {NoProbe}]
    BY <1>2 DEF TypeOK
  <2>2. QED
    BY <1>1, <2>1 DEF TypeOK, main
<1>4. /\ Busy(u)' /\ wpc'[u] = "probe" /\ item'[u] = q /\ ~Busy(u)
      /\ \A w \in Workers : w # u => wpc'[w] = wpc[w] /\ item'[w] = item[w]
  BY DEF TypeOK, Busy
<1>5. Held' /\ Left'
  BY <1>1, <1>2, <1>4 DEF Held, Left, Busy
<1>6. Whereabouts'
  <2> SUFFICES ASSUME Calm, NEW p \in server \cap Configurable PROVE Known(p)'
    BY <1>1 DEF Whereabouts, Calm
  <2>1. Known(p)
    BY DEF Whereabouts
  <2>2. InHand(p) => InHand(p)'
    BY <1>4 DEF InHand, Busy
  <2>3. p \in left => p \in left' \/ InHand(p)'
    BY <1>4 DEF InHand
  <2>4. QED
    BY <2>1, <2>2, <2>3 DEF Known, OnChannel
<1>7. Honest' /\ Passed' /\ Judged'
  BY <1>1 DEF Honest, Passed, Judged, Calm, Offers, Reported, Spoken, Taken, main
<1>8. QED
  BY <1>3, <1>5, <1>6, <1>7

(* The worker steps that move no cipher.                                     *)
LEMMA WorkerStep ==
  ASSUME IInv, NEW u \in Workers,
         ProbeAccepted(u) \/ ProbeFails(u) \/ WorkerCanceled(u) \/ ProbesEnd(u)
  PROVE  IInv'
<1> USE DEF IInv, ProbeAccepted, ProbeFails, WorkerCanceled, ProbesEnd
<1>1. /\ UNCHANGED <<server, leaf, limited>> /\ UNCHANGED main
      /\ UNCHANGED <<negotiated, left, jobsClosed, accepted, closed, ended>>
      /\ disturbed => disturbed'
      /\ disturbed' \in BOOLEAN
      /\ wpc[u] # "done"
  BY DEF setting, TypeOK
<1>2. TypeOK'
  <2>1. /\ wpc' \in [Workers -> {"recv", "probe", "send", "done"}]
        /\ item' \in [Workers -> Configurable \cup {NoProbe}]
    BY DEF TypeOK
  <2>2. QED
    BY <1>1, <2>1 DEF TypeOK, main
<1>3. \A w \in Workers : w # u => wpc'[w] = wpc[w] /\ item'[w] = item[w]
  BY DEF TypeOK
<1>4. Held'
  <2>1. Busy(u)' => Busy(u) /\ item'[u] = item[u] /\ (wpc'[u] = "send" => item[u] \in server)
    BY DEF TypeOK, Busy
  <2>2. QED
    BY <1>1, <1>3, <2>1 DEF Held, Busy
<1>5. Left'
  <2>1. wpc'[u] = "done" => jobsClosed \/ ended
    BY DEF TypeOK
  <2>2. ~closed
    BY <1>1 DEF Left
  <2>3. QED
    BY <1>1, <1>3, <2>1, <2>2 DEF Left
<1>6. Whereabouts'
  <2> SUFFICES ASSUME Calm', NEW p \in server \cap Configurable PROVE Known(p)'
    BY <1>1 DEF Whereabouts
  <2>1. Calm /\ Known(p)
    BY <1>1 DEF Whereabouts, Calm
  <2>2. InHand(p) => InHand(p)'
    <3> SUFFICES ASSUME NEW w \in Workers, Busy(w), item[w] = p PROVE InHand(p)'
      BY DEF InHand
    <3>1. CASE w = u
      <4>1. ProbeAccepted(u)
        BY <2>1, <3>1 DEF Busy, Calm
      <4>2. QED
        BY <3>1, <4>1 DEF InHand, Busy, TypeOK
    <3>2. CASE w # u
      BY <1>3, <3>2 DEF InHand, Busy
    <3>3. QED
      BY <3>1, <3>2
  <2>3. QED
    BY <1>1, <2>1, <2>2 DEF Known, OnChannel
<1>7. Honest' /\ Passed' /\ Judged'
  BY <1>1 DEF Honest, Passed, Judged, Calm, Offers, Reported, Spoken, Taken, main
<1>8. QED
  BY <1>2, <1>4, <1>5, <1>6, <1>7

LEMMA SendStep ==
  ASSUME IInv, NEW u \in Workers, SendCipher(u)
  PROVE  IInv'
<1> USE DEF IInv, SendCipher
<1>1. UNCHANGED <<server, leaf, limited>> /\ UNCHANGED main
  BY DEF setting
<1>2. item[u] \in Configurable /\ item[u] \in server /\ item[u][2] \in Ciphers
  BY PairFacts DEF Held, Busy, TypeOK
<1>3. item[u][2] \in Taken
  BY <1>2 DEF Taken
<1>4. /\ accepted' \in Seq(Ciphers)
      /\ Len(accepted') = Len(accepted) + 1 /\ Len(accepted) \in Nat
      /\ \A i \in 1 .. Len(accepted) : accepted'[i] = accepted[i]
      /\ accepted'[Len(accepted) + 1] = item[u][2]
  BY <1>2, AppendFacts DEF TypeOK
<1>5. TypeOK'
  <2>1. /\ wpc' \in [Workers -> {"recv", "probe", "send", "done"}]
        /\ item' \in [Workers -> Configurable \cup {NoProbe}]
    BY DEF TypeOK
  <2>2. Len(accepted') <= CipherConcurrency
    BY <1>4, ProbesAssumption DEF RoomForCipher
  <2>3. QED
    BY <1>1, <1>4, <2>1, <2>2 DEF TypeOK, main
<1>6. /\ wpc'[u] = "recv" /\ ~Busy(u)' /\ wpc[u] = "send"
      /\ \A w \in Workers : w # u => wpc'[w] = wpc[w] /\ item'[w] = item[w]
  BY DEF TypeOK, Busy
<1>7. Held'
  BY <1>1, <1>6 DEF Held, Busy
<1>8. Left' /\ ~closed
  BY <1>1, <1>6 DEF Left
<1>9. Honest'
  <2>1. \A i \in 1 .. Len(accepted') : accepted'[i] \in Taken
    BY <1>3, <1>4 DEF Honest
  <2>2. QED
    BY <1>1, <2>1 DEF Honest, Spoken, Taken, main
<1>10. Whereabouts'
  <2> SUFFICES ASSUME Calm, NEW p \in server \cap Configurable PROVE Known(p)'
    BY <1>1 DEF Whereabouts, Calm
  <2>1. Known(p)
    BY DEF Whereabouts
  <2>2. OnChannel(p[2]) => OnChannel(p[2])'
    BY <1>4 DEF OnChannel
  <2>3. InHand(p) => InHand(p)' \/ OnChannel(p[2])'
    BY <1>4, <1>6 DEF InHand, OnChannel, Busy
  <2>4. QED
    BY <2>1, <2>2, <2>3 DEF Known
<1>11. Passed' /\ Judged'
  BY <1>1, <1>8 DEF Passed, Judged, Calm, Offers, main
<1>12. QED
  BY <1>5, <1>7, <1>8, <1>9, <1>10, <1>11

LEMMA CollectStep ==
  ASSUME IInv, CollectCipher
  PROVE  IInv'
<1> USE DEF IInv, CollectCipher
<1>1. UNCHANGED <<server, leaf, limited>> /\ UNCHANGED main
  BY DEF setting
<1>2. /\ Len(accepted) \in Nat /\ Len(accepted) > 0
      /\ Head(accepted) = accepted[1] /\ Head(accepted) \in Ciphers
      /\ accepted' \in Seq(Ciphers) /\ Len(accepted') = Len(accepted) - 1
      /\ \A i \in 1 .. Len(accepted) - 1 : accepted'[i] = accepted[i + 1]
  BY TailFacts DEF TypeOK
<1>3. TypeOK'
  <2>1. Len(accepted') <= CipherConcurrency
    BY <1>2, ProbesAssumption DEF TypeOK
  <2>2. QED
    BY <1>1, <1>2, <2>1 DEF TypeOK, main
<1>4. Honest'
  <2>1. negotiated' \subseteq Taken
    BY <1>2 DEF Honest
  <2>2. \A i \in 1 .. Len(accepted') : accepted'[i] \in Taken
    BY <1>2 DEF Honest
  <2>3. QED
    BY <1>1, <2>1, <2>2 DEF Honest, Spoken, Taken, main
<1>5. Whereabouts'
  <2> SUFFICES ASSUME Calm, NEW p \in server \cap Configurable PROVE Known(p)'
    BY <1>1 DEF Whereabouts, Calm
  <2>1. Known(p)
    BY DEF Whereabouts
  <2>2. OnChannel(p[2]) => OnChannel(p[2])' \/ p[2] \in negotiated'
    <3> SUFFICES ASSUME NEW i \in 1 .. Len(accepted), accepted[i] = p[2]
                 PROVE  OnChannel(p[2])' \/ p[2] \in negotiated'
      BY DEF OnChannel
    <3>1. CASE i = 1
      BY <1>2, <3>1
    <3>2. CASE i # 1
      <4>1. i - 1 \in 1 .. Len(accepted') /\ accepted'[i - 1] = p[2]
        BY <1>2, <3>2
      <4>2. QED
        BY <4>1 DEF OnChannel
    <3>3. QED
      BY <3>1, <3>2
  <2>3. InHand(p) => InHand(p)'
    BY DEF InHand, Busy
  <2>4. QED
    BY <2>1, <2>2, <2>3 DEF Known
<1>6. Held' /\ Left' /\ Passed' /\ Judged'
  BY <1>1 DEF Held, Left, Busy, Passed, Judged, Calm, Offers, main
<1>7. QED
  BY <1>3, <1>4, <1>5, <1>6

LEMMA OthersStep ==
  ASSUME IInv, FeederStops \/ CloseAccepted \/ Conclude \/ ContextEnds
  PROVE  IInv'
<1> USE DEF IInv
<1>1. /\ UNCHANGED <<server, leaf, limited>>
      /\ UNCHANGED <<version, supported, negotiated, left, wpc, item, accepted, disturbed>>
      /\ (ended => ended') /\ (jobsClosed => jobsClosed') /\ (closed => closed')
  BY DEF FeederStops, CloseAccepted, Conclude, ContextEnds, setting, main, pool
<1>2. /\ jobsClosed' => jobsClosed \/ left = {} \/ ended
      /\ closed' => closed \/ \A w \in Workers : wpc[w] = "done"
      /\ pc' = "versions" <=> pc = "versions"
  BY DEF FeederStops, FeederMayStop, CloseAccepted, CloserMayClose, Conclude, ContextEnds, main,
     pool
<1>3. TypeOK'
  <2>1. compliance' \in {"none", "pass", "warn", "fail"}
    BY DEF FeederStops, CloseAccepted, Conclude, ContextEnds, complianceFor, main, TypeOK
  <2>2. /\ pc' \in {"versions", "ciphers", "done"}
        /\ jobsClosed' \in BOOLEAN /\ closed' \in BOOLEAN /\ ended' \in BOOLEAN
    BY DEF FeederStops, CloseAccepted, Conclude, ContextEnds, main, pool, TypeOK
  <2>3. QED
    BY <1>1, <2>1, <2>2 DEF TypeOK
<1>4. Held' /\ Honest' /\ Left'
  BY <1>1, <1>2 DEF Held, Honest, Left, Busy, Spoken, Taken
<1>5. Whereabouts' /\ Passed'
  BY <1>1, <1>2 DEF Whereabouts, Calm, Known, InHand, OnChannel, Busy, Passed, Offers
<1>6. Judged'
  <2>1. CASE Conclude
    BY <2>1 DEF Conclude, Judged, Reported, setting, pool
  <2>2. CASE ~Conclude
    <3>1. pc' = pc /\ compliance' = compliance
      BY <2>2 DEF FeederStops, CloseAccepted, ContextEnds, main
    <3>2. Reported' = Reported
      BY <1>1 DEF Reported
    <3>3. QED
      BY <1>1, <3>1, <3>2 DEF Judged
  <2>3. QED
    BY <2>1, <2>2
<1>7. QED
  BY <1>3, <1>4, <1>5, <1>6

LEMMA StepIInv == IInv /\ [Next]_vars => IInv'
<1> SUFFICES ASSUME IInv, [Next]_vars PROVE IInv'
  OBVIOUS
<1>1. CASE UNCHANGED vars
  BY <1>1 DEF vars, IInv, TypeOK, Held, Honest, Left, Whereabouts, Known, InHand, OnChannel, Busy,
     Calm, Passed, Offers, Judged, Reported, Spoken, Taken
<1>2. CASE Audit
  BY <1>2, VersionStep, CollectStep, OthersStep DEF Audit
<1>3. CASE Feeder
  BY <1>3, HandStep, OthersStep DEF Feeder
<1>4. CASE \E w \in Workers : Worker(w)
  BY <1>4, WorkerStep, SendStep DEF Worker
<1>5. CASE CloseAccepted \/ ContextEnds
  BY <1>5, OthersStep
<1>6. QED
  BY <1>1, <1>2, <1>3, <1>4, <1>5 DEF Next

LEMMA Invariance == Spec => []IInv
  BY InitIInv, StepIInv, PTL DEF Spec

-----------------------------------------------------------------------------
(* Whole days and ticks (scanner.go:433, 450-460).  A leaf has less than n   *)
(* whole days left if and only if it ends before n days have passed, up to   *)
(* the 30 days that a Duration certainly holds: neither the fraction that    *)
(* int() drops nor the saturation of Sub changes the finding.                *)

LEMMA WholeDays ==
  ASSUME NEW x \in Nat, NEW n \in Nat
  PROVE  x \div Day < n <=> x < n * Day
<1> USE CertificateAssumption
<1> DEFINE q == x \div Day
<1>1. q \in Nat /\ q * Day <= x /\ x < (q + 1) * Day
  OBVIOUS
<1> HIDE DEF q
<1>2. q < n => x < n * Day
  <2> SUFFICES ASSUME q + 1 <= n PROVE x < n * Day
    BY <1>1
  <2>1. (q + 1) * Day <= n * Day
    BY <1>1
  <2>2. QED
    BY <1>1, <2>1
<1>3. q >= n => x >= n * Day
  <2> SUFFICES ASSUME q >= n PROVE x >= n * Day
    OBVIOUS
  <2>1. q * Day >= n * Day
    BY <1>1
  <2>2. QED
    BY <1>1, <2>1
<1>4. QED
  BY <1>1, <1>2, <1>3 DEF q

LEMMA DaysAreTicks ==
  ASSUME NEW c \in Leaf, NEW n \in 1 .. 30
  PROVE  DaysRemaining(c, Now) < n <=> c.notAfter < n * Day
<1> USE CertificateAssumption
<1> DEFINE d == Sub(c.notAfter, Now)
<1>1. c.notAfter \in Int
  BY DEF Leaf
<1>2. n * Day <= 30 * Day /\ n * Day \in Nat \ {0}
  OBVIOUS
<1>3. d \in Int /\ (d < n * Day <=> c.notAfter < n * Day)
  BY <1>1, <1>2 DEF Sub, Now
<1> HIDE DEF d
<1>4. CASE d >= 0
  BY <1>3, <1>4, WholeDays DEF DaysRemaining, Truncated, d
<1>5. CASE d < 0
  <2>1. (-d) \div Day \in Nat
    BY <1>3, <1>5
  <2>2. Truncated(d) < n
    BY <1>3, <1>5, <2>1 DEF Truncated
  <2>3. QED
    BY <1>2, <1>3, <1>5, <2>2 DEF DaysRemaining, d
<1>6. QED
  BY <1>3, <1>4, <1>5

(* The findings of a leaf are those it deserves, to the tick.                *)
LEMMA CertificateIsJudged ==
  ASSUME NEW c \in Leaf
  PROVE  /\ certificateFindings(c, Now) \subseteq {"high", "medium"}
         /\ "high" \in certificateFindings(c, Now) <=> Urgent(c)
         /\ "medium" \in certificateFindings(c, Now) => Urgent(c) \/ Doubtful(c)
         /\ Doubtful(c) => certificateFindings(c, Now) # {}
<1>1. /\ c.notAfter \in Int /\ c.notBefore \in Int
      /\ c.named \in BOOLEAN /\ c.strongKey \in BOOLEAN /\ c.strongSignature \in BOOLEAN
      /\ c.anchored \in BOOLEAN /\ c.selfSigned \in BOOLEAN
  BY DEF Leaf
<1>2. /\ DaysRemaining(c, Now) < 7 <=> c.notAfter < Now + 7 * Day
      /\ DaysRemaining(c, Now) < 30 <=> c.notAfter < Now + 30 * Day
  BY DaysAreTicks, CertificateAssumption DEF Now
<1>3. Expired(c, Now) => c.notAfter < Now + 7 * Day
  BY <1>1, CertificateAssumption DEF Expired, Now
<1>4. NotYetValid(c, Now) <=> c.notBefore > Now
  BY <1>1 DEF NotYetValid, Now
<1>5. c.notAfter < Now + 7 * Day => c.notAfter < Now + 30 * Day
  BY <1>1, CertificateAssumption DEF Now
<1> HIDE DEF Now
<1>6. /\ ValidityFindings(c, Now) \subseteq {"high", "medium"}
      /\ "high" \in ValidityFindings(c, Now) <=> c.notAfter < Now + 7 * Day \/ c.notBefore > Now
      /\ "medium" \in ValidityFindings(c, Now) => c.notAfter < Now + 30 * Day
      /\ c.notAfter < Now + 30 * Day => ValidityFindings(c, Now) # {}
  BY <1>2, <1>3, <1>4 DEF ValidityFindings
<1> DEFINE checks == {"high" : x \in {c.named, c.strongKey, c.strongSignature} \cap {FALSE}}
<1>7. /\ checks \subseteq {"high"}
      /\ "high" \in checks <=> ~(c.named /\ c.strongKey /\ c.strongSignature)
  BY <1>1
<1> DEFINE trust == IF c.selfSigned \/ ~Trusted(c, Now) THEN {"medium"} ELSE {}
<1>8. /\ trust \subseteq {"medium"}
      /\ trust # {} => Urgent(c) \/ Doubtful(c)
      /\ c.selfSigned \/ ~c.anchored => trust # {}
  BY <1>3, <1>4, <1>5 DEF Trusted, Urgent, Doubtful
<1>9. certificateFindings(c, Now) = ValidityFindings(c, Now) \cup checks \cup trust
  BY DEF certificateFindings
<1> HIDE DEF checks, trust
<1>10. certificateFindings(c, Now) \subseteq {"high", "medium"}
  BY <1>6, <1>7, <1>8, <1>9
<1>11. "high" \in certificateFindings(c, Now) <=> Urgent(c)
  BY <1>6, <1>7, <1>8, <1>9 DEF Urgent
<1>12. "medium" \in certificateFindings(c, Now) => Urgent(c) \/ Doubtful(c)
  BY <1>6, <1>7, <1>8, <1>9 DEF Doubtful
<1>13. Doubtful(c) => certificateFindings(c, Now) # {}
  BY <1>6, <1>8, <1>9 DEF Doubtful
<1>14. QED
  BY <1>10, <1>11, <1>12, <1>13

-----------------------------------------------------------------------------
(* The verdict: more support never gives fewer findings, and findings that   *)
(* are no worse give a verdict that is no worse.                             *)

LEMMA FindingsGrow ==
  ASSUME NEW v, NEW vv, NEW c, NEW cc, v \subseteq vv, c \subseteq cc
  PROVE  Findings(v, c) \subseteq Findings(vv, cc)
<1>1. {"high" : x \in v \cap {10, 11}} \subseteq {"high" : x \in vv \cap {10, 11}}
  OBVIOUS
<1>2. {"medium" : x \in IF Modern THEN v \cap {12} ELSE {}}
        \subseteq {"medium" : x \in IF Modern THEN vv \cap {12} ELSE {}}
  OBVIOUS
<1>3. {Weak[x] : x \in c} \subseteq {Weak[x] : x \in cc}
  OBVIOUS
<1>4. QED
  BY <1>1, <1>2, <1>3 DEF Findings

LEMMA VerdictGrows ==
  ASSUME NEW S, NEW T,
         S \cap {"critical", "high"} # {} => T \cap {"critical", "high"} # {},
         S \cap {"medium", "low"} # {} => T \cap {"critical", "high", "medium", "low"} # {}
  PROVE  Rank[complianceFor(S)] <= Rank[complianceFor(T)]
<1>1. Rank.pass = 0 /\ Rank.warn = 1 /\ Rank.fail = 2
  BY DEF Rank
<1>2. CASE complianceFor(T) = "fail"
  BY <1>1, <1>2 DEF complianceFor
<1>3. CASE complianceFor(T) = "warn"
  BY <1>1, <1>3 DEF complianceFor
<1>4. CASE complianceFor(T) = "pass"
  BY <1>1, <1>4 DEF complianceFor
<1>5. QED
  BY <1>2, <1>3, <1>4 DEF complianceFor

LEMMA NoneInvented == IInv => NoFalseAlarm
<1> SUFFICES ASSUME IInv PROVE NoFalseAlarm
  OBVIOUS
<1>1. supported \subseteq Spoken /\ negotiated \subseteq Taken
  BY DEF IInv, Honest
<1>2. ASSUME pc = "done" PROVE Rank[compliance] <= Rank[TrueVerdict]
  <2> DEFINE cert == certificateFindings(leaf, Now)
             found == Findings(supported, negotiated)
             truth == Deserved(leaf) \cup Findings(Spoken, Taken)
  <2>1. leaf \in Leaf
    BY ProbesAssumption DEF IInv, TypeOK
  <2>2. /\ cert \subseteq {"high", "medium"}
        /\ "high" \in cert => "high" \in Deserved(leaf)
        /\ "medium" \in cert => "high" \in Deserved(leaf) \/ "medium" \in Deserved(leaf)
    BY <2>1, CertificateIsJudged DEF Deserved
  <2>3. found \subseteq Findings(Spoken, Taken)
    BY <1>1, FindingsGrow
  <2>4. compliance = complianceFor(cert \cup found) /\ TrueVerdict = complianceFor(truth)
    BY <1>2 DEF IInv, Judged, Reported, TrueVerdict, Spoken, Taken
  <2> HIDE DEF cert, found
  <2>5. /\ (cert \cup found) \cap {"critical", "high"} # {} => truth \cap {"critical", "high"} # {}
        /\ (cert \cup found) \cap {"medium", "low"} # {}
             => truth \cap {"critical", "high", "medium", "low"} # {}
    BY <2>2, <2>3
  <2> HIDE DEF truth
  <2>6. QED
    BY <2>4, <2>5, VerdictGrows
<1>3. QED
  BY <1>1, <1>2 DEF NoFalseAlarm, Spoken, Taken

(* At the end nothing is left in the pool.                                   *)
LEMMA NoneForgotten == IInv => NothingMissed
<1> SUFFICES ASSUME IInv, pc = "done", Calm PROVE
      /\ {p[2] : p \in server \cap Configurable} \subseteq negotiated
      /\ {v \in Versions : Offers(v) # {}} \subseteq supported
  BY DEF NothingMissed, Calm
<1> USE DEF IInv
<1>1. closed /\ accepted = <<>> /\ \A w \in Workers : wpc[w] = "done"
  BY DEF Judged, Left
<1>2. 1 \in Workers
  BY ProbesAssumption DEF Workers
<1>3. left = {}
  BY <1>1, <1>2 DEF Left, Calm
<1>4. ASSUME NEW p \in server \cap Configurable PROVE p[2] \in negotiated
  <2>1. ~InHand(p)
    BY <1>1 DEF InHand, Busy
  <2>2. ~OnChannel(p[2])
    BY <1>1 DEF OnChannel
  <2>3. QED
    BY <1>3, <2>1, <2>2 DEF Whereabouts, Known
<1>5. version = 14
  BY DEF Passed, Calm
<1>6. \A v \in Versions : Offers(v) # {} => v \in supported
  BY <1>5 DEF Passed, Versions
<1>7. QED
  BY <1>4, <1>6

LEMMA PassMeansClean ==
  ASSUME IInv, compliance = "pass"
  PROVE  /\ pc = "done"
         /\ Reported \cap {"critical", "high", "medium", "low"} = {}
<1>1. pc = "done" /\ complianceFor(Reported) = "pass"
  BY DEF IInv, Judged
<1>2. QED
  BY <1>1 DEF complianceFor

LEMMA PassEarned == IInv => PassIsEarned
<1> SUFFICES ASSUME IInv, compliance = "pass" PROVE
      /\ ~Urgent(leaf) /\ ~Doubtful(leaf)
      /\ Calm => \A p \in server \cap Configurable : p[1] >= 12 /\ Weak[p[2]] = "none"
  BY DEF PassIsEarned, Calm
<1>1. leaf \in Leaf
  BY ProbesAssumption DEF IInv, TypeOK
<1>2. certificateFindings(leaf, Now) = {}
  BY <1>1, PassMeansClean, CertificateIsJudged DEF Reported
<1>3. ~Urgent(leaf) /\ ~Doubtful(leaf)
  BY <1>1, <1>2, CertificateIsJudged
<1>4. ASSUME Calm, NEW p \in server \cap Configurable PROVE p[1] >= 12 /\ Weak[p[2]] = "none"
  <2>1. p[1] \in 10 .. 12 /\ p[2] \in Ciphers
    BY PairFacts DEF IInv, TypeOK
  <2>2. p[2] \in negotiated
    BY <1>4, PassMeansClean, NoneForgotten DEF NothingMissed, Calm
  <2>3. Weak[p[2]] # "none" => Weak[p[2]] \in Reported
    BY <2>2 DEF Reported, Findings
  <2>4. Weak[p[2]] \in Severities
    BY <2>1, ProbesAssumption
  <2>5. Weak[p[2]] = "none"
    BY <2>3, <2>4, PassMeansClean DEF Severities
  <2>6. QED
    BY <2>1, <2>5, AeadAssumption
<1>5. QED
  BY <1>3, <1>4

-----------------------------------------------------------------------------
(* The types of an audit and the capacity of its channel (audit.go:66).      *)
THEOREM ProbesTypeCorrect == Spec => []TypeOK
<1>1. IInv => TypeOK
  BY DEF IInv
<1>2. QED
  BY <1>1, Invariance, PTL

(* No false alarm: every version and cipher in an audit was accepted by the  *)
(* server, and the verdict of complianceFor (audit.go:156-167) is never      *)
(* worse than the server and its leaf deserve, whatever faults and cancels   *)
(* cut off.                                                                  *)
THEOREM ProbesRaiseNoFalseAlarm == Spec => []NoFalseAlarm
  BY NoneInvented, Invariance, PTL

(* Nothing is missed: an audit that no fault and no cancel touched reports   *)
(* every configurable cipher that the server accepts and every version that  *)
(* takes a default cipher: none is lost between feeder, workers and channel. *)
THEOREM ProbesMissNothing == Spec => []NothingMissed
  BY NoneForgotten, Invariance, PTL

(* A pass is earned: to the tick, the leaf has 30 days left and nothing      *)
(* against it, and after an undisturbed audit the server accepts no weak     *)
(* cipher that can be chosen and none below TLS 1.2.                         *)
THEOREM ProbesEarnPass == Spec => []PassIsEarned
  BY PassEarned, Invariance, PTL
=============================================================================
