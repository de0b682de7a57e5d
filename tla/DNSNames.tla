------------------------------- MODULE DNSNames -------------------------------
(***************************************************************************)
(* The spellings of a DNS name (internal/input/input.go:190-212, 329-343). *)
(*                                                                         *)
(* A name is the sequence of its labels; one that ends with a dot has an   *)
(* empty label at its end: the empty string is <<>>, a dot is <<"">>.      *)
(* Lower case and IDNA map each label to the one that stands for it; a     *)
(* label without an image is refused, as are labels that are empty, too    *)
(* long, or begin or end with a hyphen.  The limit of 253 bytes for the    *)
(* whole name is left out.                                                 *)
(***************************************************************************)
EXTENDS Naturals, Sequences

Ext == INSTANCE SequencesExt

CONSTANT Ascii            \* label -> the label in lower case and ASCII

Dot == ""
Star == "*"

\* What is normal already stays as it is; IDNA refuses a star.
ASSUME NamesAssumption ==
  /\ {Dot, Star} \cap DOMAIN Ascii = {}
  /\ \A label \in DOMAIN Ascii : Ascii[label] \in DOMAIN Ascii /\ Ascii[Ascii[label]] = Ascii[label]

TrimDot(name) ==
  IF Len(name) > 1 /\ name[Len(name)] = Dot THEN SubSeq(name, 1, Len(name) - 1) ELSE name

TrimStar(name) == IF Len(name) > 1 /\ Head(name) = Star THEN Tail(name) ELSE name
Trimmed(name) == TrimStar(TrimDot(name))

Refused(name) == name = <<>> \/ \E i \in DOMAIN Trimmed(name) : Trimmed(name)[i] \notin DOMAIN Ascii

\* For a name that is not refused.
NormalizeDNSName(name) == [i \in DOMAIN Trimmed(name) |-> Ascii[Trimmed(name)[i]]]

\* The name is the scope or ends with a dot and the scope.
Within(name, scope) == Ext!IsSuffix(scope, name)

InScope(name, scopes) ==
  /\ ~Refused(name)
  /\ \E scope \in scopes :
       ~Refused(scope) /\ Within(NormalizeDNSName(name), NormalizeDNSName(scope))
=============================================================================
