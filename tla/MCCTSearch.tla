----------------------------- MODULE MCCTSearch -----------------------------
(***************************************************************************)
(* CTSearch with two domains that share certificate 1; the second page of  *)
(* org names certificate 2 again, with another name.  The pages of net are *)
(* circular.  Names of certificates come with stars, dots and capitals,    *)
(* and one is refused; a domain may be given twice in two spellings.       *)
(***************************************************************************)
EXTENDS CTSearch

LowerCase == [com |-> "com", org |-> "org", net |-> "net", www |-> "www", WWW |-> "www",
              other |-> "other", co |-> "co"]

Com == <<"com">>
Org == <<"org">>
Net == <<"net">>
Other == <<"other">>
WwwCom == <<"www", "com">>
AllNames == {Com, Org, Net, Other, WwwCom, <<"*", "com">>, <<"WWW", "com", "">>, <<"*", "*", "com">>}

PagesOf ==
  [d \in {Com, Org, Net} |->
     CASE d = Com -> << {[id |-> 1, names |-> {Com, <<"*", "com">>, Org, Other}], [id |-> 3, names |-> {Other}]},
                        {[id |-> 2, names |-> {Com, WwwCom, <<"WWW", "com", "">>, <<"*", "*", "com">>}]} >>
       [] d = Org -> << {[id |-> 1, names |-> {Com, Org}], [id |-> 2, names |-> {Org}]},
                        {[id |-> 4, names |-> {Org, Other}]} >>
       [] d = Net -> << {[id |-> 1, names |-> {Com, Net}]}, {[id |-> 4, names |-> {Net}]} >>]

Bad == <<"-">>
Lists == {<<Com, <<"*", "com", "">>, Org>>, <<Bad, Org, Com>>, <<Com, <<"co">>>>, <<Com, Net, Org>>}
CircularDomains == {Net}
SuffixNames == {<<"co">>}
=============================================================================
