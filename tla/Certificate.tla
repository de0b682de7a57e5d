----------------------------- MODULE Certificate -----------------------------
(***************************************************************************)
(* The judgement on the leaf of a handshake (pkg/ctscan/scanner.go:        *)
(* 389, 420-485): its validity, host name and trust, and the findings that *)
(* follow, here by their severities.                                       *)
(*                                                                         *)
(* Times are ticks.  A leaf is what the checks ask of it: its validity, if *)
(* it is for the expected name, if it is signed by itself, if its chain    *)
(* ends at a root, if its key and its signature are strong.                *)
(***************************************************************************)
EXTENDS Integers

CONSTANTS
  Day,                    \* ticks of a day
  MaxDuration             \* the longest time.Duration, 292 years

ASSUME CertificateAssumption ==
  /\ Day \in Nat \ {0}
  /\ MaxDuration \in Nat
  /\ 30 * Day <= MaxDuration

Leaf ==
  [notBefore : Int, notAfter : Int, named : BOOLEAN, selfSigned : BOOLEAN,
   anchored : BOOLEAN, strongKey : BOOLEAN, strongSignature : BOOLEAN]

\* time.Time.Sub does not overflow.
Sub(later, earlier) ==
  LET d == later - earlier IN
  IF d > MaxDuration THEN MaxDuration ELSE IF d < -MaxDuration THEN -MaxDuration ELSE d

\* int() of a float drops the fraction, towards zero.
Truncated(ticks) == IF ticks < 0 THEN -((-ticks) \div Day) ELSE ticks \div Day

\* Fault: the day that has begun counts.
RoundedDays(leaf, now) == (Sub(leaf.notAfter, now) + Day - 1) \div Day

DaysRemaining(leaf, now) == Truncated(Sub(leaf.notAfter, now))

Expired(leaf, now) == now > leaf.notAfter
NotYetValid(leaf, now) == now < leaf.notBefore

\* leaf.Verify: the chain, the validity and the name.
Trusted(leaf, now) ==
  leaf.anchored /\ leaf.named /\ ~Expired(leaf, now) /\ ~NotYetValid(leaf, now)

ValidityFindings(leaf, now) ==
  IF Expired(leaf, now) \/ NotYetValid(leaf, now) \/ DaysRemaining(leaf, now) < 7 THEN {"high"}
  ELSE IF DaysRemaining(leaf, now) < 30 THEN {"medium"}
  ELSE {}

certificateFindings(leaf, now) ==
  ValidityFindings(leaf, now)
    \cup {"high" : x \in {leaf.named, leaf.strongKey, leaf.strongSignature} \cap {FALSE}}
    \cup (IF leaf.selfSigned \/ ~Trusted(leaf, now) THEN {"medium"} ELSE {})
=============================================================================
