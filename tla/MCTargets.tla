------------------------------ MODULE MCTargets ------------------------------
(***************************************************************************)
(* Targets with addresses of three bytes of two bits, networks of every    *)
(* prefix, some at the end of the address space, and port lists with       *)
(* overlaps, reversed and long ranges and ports outside 1 .. 9; names with *)
(* stars, dots and capitals, empty ones and a dot.                         *)
(***************************************************************************)
EXTENDS Targets

SomeLists ==
  {<<>>, <<BlankItem>>, <<BadItem>>, <<<<2, 2>>, <<1, 3>>, <<2, 2>>>>, <<<<0, 2>>>>, <<<<8, 10>>>>,
   <<<<3, 2>>>>, <<<<1, 6>>>>, <<<<5, 9>>, BlankItem>>}

LowerCase == [com |-> "com", www |-> "www", WWW |-> "www"]

Com == <<"com">>
SomeNames ==
  {<<>>, <<Com>>, <<<<"WWW", "com">>, Com>>, <<Com, <<"*", "com", "">>>>, <<Com, <<"*", "*", "com">>>>,
   <<NoName>>, <<Com, NoName>>, <<NoName, <<Dot>>>>}
SomeHosts == {<<"WWW", "com", "", "">>, <<"*", "">>}

\* The networks of an address, by the bits that the mask does not keep.
Span(bits) ==
  [i \in 1 .. 3 |->
     IF bits <= 2 * (3 - i) THEN 1 ELSE IF bits = 2 * (3 - i) + 1 THEN 2 ELSE 4]
NetworksOf(a) ==
  {[first |-> [i \in 1 .. 3 |-> a[i] - (a[i] % s[i])], span |-> s] : s \in {Span(b) : b \in 0 .. 6}}

SomeNetworks == NetworksOf(<<1, 2, 3>>) \cup NetworksOf(<<3, 3, 3>>)
=============================================================================
