----------------------------- MODULE MCRunScan -----------------------------
(***************************************************************************)
(* RunScan over the seeds 1 and 2; 3 is another name in scope, 4 is not.   *)
(* A lookup fails or gives two addresses in either order, differently      *)
(* every time, so that a seed found again may count as a discovery and the *)
(* limit of two is reached with a name left over.                          *)
(***************************************************************************)
EXTENDS RunScan

TwoSeeds == <<1, 2>>
EitherAnswer == {<<>>, <<"a", "b">>, <<"b", "a">>}
=============================================================================
