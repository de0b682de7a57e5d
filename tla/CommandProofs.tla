---------------------------- MODULE CommandProofs ----------------------------
(***************************************************************************)
(* Theorems about what the commands do besides scanning: the search of     *)
(* ctscan ct (CTSearch), the targets of an argument (Targets) and ctscan   *)
(* diff (Snapshot).  The modules share no state; they are together here    *)
(* for the lemmas on sequences and counts that they have in common.        *)
(***************************************************************************)
EXTENDS CTSearch, Targets, Snapshot, FiniteSetTheorems, TLAPS

-----------------------------------------------------------------------------
(***************************************************************************)
(* ctscan ct, for every provider, scope, list of domains and retry budget. *)
(*                                                                         *)
(* The properties speak of lines, the code decides by what it has seen.    *)
(* SearchIInv relates them: what is seen was printed unless the buffer is  *)
(* stuck (Shown, Counted), what a domain keeps is seen or still in records *)
(* (Found, Listed), and every domain before the current one is represented *)
(* by what was seen up to it (Represented).                                *)
(***************************************************************************)

\* Domain j stands for the certificate: its line, or the names it had there, were seen.
StandsFor(j, id) ==
  \E first \in Kept(DomainAt(j)) :
    /\ first.id = id
    /\ format = "dns" => first.names \subseteq seenNames
    /\ format # "dns" /\ ~stuck => <<id, DomainAt(j)>> \in held \cup out

Valid(i) == DomainAt(i) \in Domains /\ ~Refused(inputs[i])

Passed == \A i \in 1 .. at - 1 : Refused(inputs[i]) \/ Valid(i)

Represented ==
  \A i \in Searched : \A row \in Kept(DomainAt(i)) :
    \E j \in Searched : j <= i /\ StandsFor(j, row.id)

\* Where a certificate that was seen comes from.
Known ==
  \A id \in seenRecords : \E j \in 1 .. at :
    /\ j <= Len(inputs)
    /\ Valid(j)
    /\ j = at => pc \in {"write", "exited"}
    /\ StandsFor(j, id)

Found ==
  /\ pc \in {"request", "wait", "write"} => records \subseteq Kept(Domain) /\ Valid(at)
  /\ pc \in {"request", "wait"} =>
       \A k \in 1 .. page - 1 : RecordsOf(Pages[Domain][k]) \subseteq records

Listed ==
  pc = "write" => \A row \in Kept(Domain) : row \in records \/ row.id \in seenRecords

Shown ==
  format = "dns" /\ ~stuck => \A n \in seenNames : <<n>> \in held \cup out

Counted ==
  \A l \in Lines :
    /\ copies[l] <= 1
    /\ copies[l] > 0 /\ format = "dns" => \E n \in seenNames : l = <<n>>
    /\ copies[l] > 0 /\ format # "dns" => \E id \in seenRecords : \E d \in Domains : l = <<id, d>>
    /\ copies[l] > 0 => Printable(l)

Ending ==
  /\ stuck => broken
  /\ pc = "exited" <=> exit # "none"
  /\ pc = "exited" /\ ~stuck => held = {}
  /\ exit = "0" => ~stuck /\ at > Len(inputs)

Delayed == pc = "wait" => attempt < Retries

SearchIInv ==
  /\ TypeOK /\ Passed /\ Represented /\ Known
  /\ Found /\ Listed /\ Shown /\ Counted /\ Ending /\ Delayed

-----------------------------------------------------------------------------
(* What a list, a domain and its pages are.                                  *)

LEMMA RetriesNat == Retries \in Nat
  BY CTAssumption DEF Retries

LEMMA InputFacts ==
  ASSUME TypeOK
  PROVE  /\ Len(inputs) \in Nat
         /\ \A i \in 1 .. Len(inputs) :
              /\ inputs[i] \in Seq(STRING)
              /\ Refused(inputs[i]) \/ DomainAt(i) \in PublicSuffixes \cup Domains
<1>1. inputs \in Inputs /\ inputs \in Seq(Seq(STRING))
  BY CTAssumption DEF TypeOK
<1>2. DOMAIN inputs = 1 .. Len(inputs)
  BY <1>1
<1>3. QED
  BY <1>1, <1>2, CTAssumption DEF DomainAt

LEMMA PageFacts ==
  ASSUME NEW d \in Domains
  PROVE  /\ Len(Pages[d]) \in Nat \ {0}
         /\ DOMAIN Pages[d] = 1 .. Len(Pages[d])
         /\ \A k \in 1 .. Len(Pages[d]) : Pages[d][k] \subseteq Rows
<1>1. Pages[d] \in Seq(SUBSET Rows) /\ Pages[d] # <<>>
  BY CTAssumption
<1>2. QED
  BY <1>1

\* A normal name is normal again: InScope normalizes names that were normalized before
\* (transparency.go:185-186, input.go:332-337), and that changes nothing.
THEOREM NormalIsStable ==
  ASSUME NEW name \in Seq(STRING), ~Refused(name)
  PROVE  /\ ~Refused(NormalizeDNSName(name))
         /\ NormalizeDNSName(NormalizeDNSName(name)) = NormalizeDNSName(name)
<1> DEFINE t == Trimmed(name)
           n == NormalizeDNSName(name)
<1>1. name # <<>> /\ Len(name) \in Nat \ {0}
  BY DEF Refused
<1>2. ASSUME NEW m \in Seq(STRING), Len(m) > 1
      PROVE  SubSeq(m, 1, Len(m) - 1) \in Seq(STRING) /\ Len(SubSeq(m, 1, Len(m) - 1)) = Len(m) - 1
  BY <1>2
<1>3. t \in Seq(STRING) /\ Len(t) \in Nat \ {0}
  <2>1. TrimDot(name) \in Seq(STRING) /\ Len(TrimDot(name)) \in Nat \ {0}
    <3>1. CASE Len(name) > 1 /\ name[Len(name)] = Dot
      BY <1>1, <1>2, <3>1 DEF TrimDot
    <3>2. CASE ~(Len(name) > 1 /\ name[Len(name)] = Dot)
      BY <1>1, <3>2 DEF TrimDot
    <3>3. QED
      BY <3>1, <3>2
  <2> DEFINE m == TrimDot(name)
  <2> HIDE DEF m
  <2>2. m \in Seq(STRING) /\ Len(m) \in Nat \ {0}
    BY <2>1 DEF m
  <2>3. TrimStar(m) \in Seq(STRING) /\ Len(TrimStar(m)) \in Nat \ {0}
    <3>1. CASE Len(m) > 1 /\ Head(m) = Star
      <4>1. Tail(m) \in Seq(STRING) /\ Len(Tail(m)) = Len(m) - 1
        BY <2>2, <3>1
      <4>2. QED
        BY <2>2, <3>1, <4>1 DEF TrimStar
    <3>2. CASE ~(Len(m) > 1 /\ Head(m) = Star)
      BY <2>2, <3>2 DEF TrimStar
    <3>3. QED
      BY <3>1, <3>2
  <2>4. QED
    BY <2>3 DEF m, Trimmed
<1>4. \A i \in 1 .. Len(t) : t[i] \in DOMAIN Ascii
  BY <1>3 DEF Refused
<1>5. n = [i \in 1 .. Len(t) |-> Ascii[t[i]]]
  BY <1>3 DEF NormalizeDNSName
<1>6. /\ n \in Seq(DOMAIN Ascii) /\ Len(n) = Len(t) /\ n # <<>>
      /\ \A i \in 1 .. Len(n) : n[i] \in DOMAIN Ascii /\ Ascii[n[i]] = n[i]
  <2>1. \A i \in 1 .. Len(t) : n[i] \in DOMAIN Ascii /\ Ascii[n[i]] = n[i]
    BY <1>4, <1>5, NamesAssumption
  <2> HIDE DEF t
  <2>2. n \in [1 .. Len(t) -> DOMAIN Ascii]
    BY <1>5, <2>1
  <2>3. n \in Seq(DOMAIN Ascii) /\ Len(n) = Len(t)
    BY <1>3, <2>2
  <2>4. QED
    BY <1>3, <2>1, <2>3
<1> HIDE DEF n
<1>7. n[Len(n)] # Dot /\ n[1] # Star /\ Head(n) = n[1]
  BY <1>3, <1>6, NamesAssumption
<1>8. Trimmed(n) = n
  BY <1>7 DEF Trimmed, TrimDot, TrimStar
<1>9. ~Refused(n)
  BY <1>6, <1>8 DEF Refused
<1>10. NormalizeDNSName(n) = [i \in DOMAIN n |-> n[i]]
  BY <1>6, <1>8 DEF NormalizeDNSName
<1>11. QED
  BY <1>6, <1>9, <1>10 DEF n

\* What a domain keeps of a row is what belongs to it.
LEMMA NamesBelong ==
  ASSUME NEW row \in Rows, NEW raw \in Seq(STRING), ~Refused(raw)
  PROVE  normalizedNames(row.names, NormalizeDNSName(raw))
           = {n \in Names : Belongs(n, row, NormalizeDNSName(raw))}
<1> DEFINE d == NormalizeDNSName(raw)
<1>1. ~Refused(d) /\ NormalizeDNSName(d) = d
  BY NormalIsStable
<1>2. row.names \subseteq RawNames
  BY DEF Rows
<1>3. ASSUME NEW v \in row.names, ~Refused(v)
      PROVE  /\ NormalizeDNSName(v) \in Names
             /\ InScope(NormalizeDNSName(v), {d}) <=> Within(NormalizeDNSName(v), d)
  <2>1. v \in RawNames /\ v \in Seq(STRING)
    BY <1>2, CTAssumption
  <2>2. ~Refused(NormalizeDNSName(v)) /\ NormalizeDNSName(NormalizeDNSName(v)) = NormalizeDNSName(v)
    BY <1>3, <2>1, NormalIsStable
  <2> HIDE DEF d
  <2>3. QED
    BY <1>1, <1>3, <2>1, <2>2 DEF InScope, Names
<1> HIDE DEF d
<1>4. normalizedNames(row.names, d) = {n \in Names : Belongs(n, row, d)}
  BY <1>3 DEF normalizedNames, Belongs
<1>5. QED
  BY <1>4 DEF d

\* What a domain keeps is what its pages give.
LEMMA KeptIsPages ==
  ASSUME TypeOK, at <= Len(inputs), Valid(at)
  PROVE  Kept(Domain) = UNION {RecordsOf(Pages[Domain][k]) : k \in 1 .. Len(Pages[Domain])}
<1>1. Domain \in Domains
  BY DEF Valid, Domain
<1>2. \A row \in Rows : normalizedNames(row.names, Domain) = {n \in Names : Belongs(n, row, Domain)}
  <2>1. inputs[at] \in Seq(STRING) /\ ~Refused(inputs[at])
    BY InputFacts DEF TypeOK, Valid
  <2>2. QED
    BY <2>1, NamesBelong DEF Domain, DomainAt
<1>3. \A k \in 1 .. Len(Pages[Domain]) :
        RecordsOf(Pages[Domain][k]) =
          {[id |-> row.id, names |-> {n \in Names : Belongs(n, row, Domain)}] :
             row \in {r \in Pages[Domain][k] : \E n \in Names : Belongs(n, r, Domain)}}
  BY <1>1, <1>2, PageFacts DEF RecordsOf
<1>4. QED
  BY <1>1, <1>3, PageFacts DEF Kept

LEMMA KeptFacts ==
  ASSUME NEW d \in Domains, NEW row \in Kept(d)
  PROVE  row.id \in Ids /\ row.names \subseteq Names /\ row \in Records
<1>1. PICK r \in UNION {Pages[d][i] : i \in DOMAIN Pages[d]} :
        row = [id |-> r.id, names |-> {n \in Names : Belongs(n, r, d)}]
  BY DEF Kept
<1>2. r \in Rows
  BY <1>1, PageFacts
<1>3. QED
  BY <1>1, <1>2 DEF Rows, Records

-----------------------------------------------------------------------------
(* What most steps keep.                                                      *)

\* What was seen and printed stays so.
Grow ==
  /\ UNCHANGED setting
  /\ seenNames \subseteq seenNames'
  /\ held \cup out \subseteq held' \cup out'
  /\ stuck => stuck'

LEMMA StandsGrows ==
  ASSUME Grow, NEW j, NEW id, StandsFor(j, id)
  PROVE  StandsFor(j, id)'
<1>1. Kept(DomainAt(j))' = Kept(DomainAt(j))
  BY DEF Grow, setting, Kept, DomainAt
<1>2. PICK first \in Kept(DomainAt(j)) :
        /\ first.id = id
        /\ format = "dns" => first.names \subseteq seenNames
        /\ format # "dns" /\ ~stuck => <<id, DomainAt(j)>> \in held \cup out
  BY DEF StandsFor
<1>3. /\ format' = "dns" => first.names \subseteq seenNames'
      /\ format' # "dns" /\ ~stuck' => <<id, DomainAt(j)'>> \in held' \cup out'
  BY <1>2 DEF Grow, setting, DomainAt
<1>4. QED
  BY <1>1, <1>2, <1>3 DEF StandsFor, DomainAt

\* A step that stays with the domain keeps what is known of the ones before.
LEMMA SameDomain ==
  ASSUME SearchIInv, Grow, at' = at
  PROVE  Passed' /\ Represented'
<1>1. UNCHANGED inputs /\ Searched' = Searched
  BY DEF Grow, setting, Searched
<1>2. Passed'
  BY <1>1 DEF SearchIInv, Passed, Valid, DomainAt
<1>3. ASSUME NEW i \in Searched, NEW row \in Kept(DomainAt(i))
      PROVE  \E j \in Searched : j <= i /\ StandsFor(j, row.id)'
  BY <1>3, StandsGrows DEF SearchIInv, Represented
<1>4. Kept(DomainAt(1))' = Kept(DomainAt(1)) /\ \A i : Kept(DomainAt(i))' = Kept(DomainAt(i))
  BY <1>1 DEF Kept, DomainAt
<1>5. QED
  BY <1>1, <1>2, <1>3, <1>4 DEF Represented

\* And of the certificates that were seen before.
LEMMA SeenBefore ==
  ASSUME SearchIInv, Grow, at' = at, pc \in {"write", "exited"} => pc' \in {"write", "exited"},
         NEW id \in seenRecords
  PROVE  \E j \in 1 .. at' :
           /\ j <= Len(inputs')
           /\ Valid(j)'
           /\ j = at' => pc' \in {"write", "exited"}
           /\ StandsFor(j, id)'
<1>1. PICK j \in 1 .. at :
        /\ j <= Len(inputs)
        /\ Valid(j)
        /\ j = at => pc \in {"write", "exited"}
        /\ StandsFor(j, id)
  BY DEF SearchIInv, Known
<1>2. StandsFor(j, id)'
  BY <1>1, StandsGrows
<1>3. Valid(j)' /\ j <= Len(inputs')
  BY <1>1 DEF Valid, Grow, setting, DomainAt
<1>4. QED
  BY <1>1, <1>2, <1>3

\* A step that sees and prints nothing.
Quiet == UNCHANGED <<setting, seen, sink>>

LEMMA QuietKeeps ==
  ASSUME SearchIInv, Quiet
  PROVE  Grow /\ Shown' /\ Counted'
<1>1. Grow
  BY DEF Quiet, Grow, setting, seen, sink
<1>2. Shown'
  BY DEF SearchIInv, Quiet, Shown, setting, seen, sink
<1>3. \A l : Printable(l)' = Printable(l)
  BY DEF Quiet, Printable, setting, Kept, DomainAt
<1>4. Counted'
  BY <1>3 DEF SearchIInv, Counted, Quiet, setting, seen, sink
<1>5. QED
  BY <1>1, <1>2, <1>4

-----------------------------------------------------------------------------
LEMMA SearchInitIInv == SearchInit => SearchIInv
<1> SUFFICES ASSUME SearchInit PROVE SearchIInv
  OBVIOUS
<1>1. Len(inputs) \in Nat
  BY CTAssumption DEF SearchInit
<1>2. TypeOK
  <2>1. copies \in [Lines -> Nat]
    BY DEF SearchInit
  <2>2. at \in 1 .. Len(inputs) + 1 /\ attempt \in 0 .. Retries
    BY <1>1, RetriesNat DEF SearchInit
  <2>3. QED
    BY <2>1, <2>2 DEF SearchInit, TypeOK
<1>3. Passed /\ Represented /\ Known /\ Found /\ Listed /\ Shown
  BY DEF SearchInit, Passed, Represented, Searched, Known, Found, Listed, Shown
<1>4. Counted
  BY DEF SearchInit, Counted
<1>5. Ending /\ Delayed
  BY DEF SearchInit, Ending, Delayed
<1>6. QED
  BY <1>2, <1>3, <1>4, <1>5 DEF SearchIInv

\* The rows a page adds are certificates of the domain.
LEMMA PageAdds ==
  ASSUME SearchIInv, pc = "request"
  PROVE  /\ Domain \in Domains
         /\ Kept(Domain) = UNION {RecordsOf(Pages[Domain][k]) : k \in 1 .. Len(Pages[Domain])}
         /\ RecordsOf(Pages[Domain][page]) \subseteq Kept(Domain)
         /\ Kept(Domain) \subseteq Records
<1>1. Domain \in Domains /\ at <= Len(inputs) /\ page \in 1 .. Len(Pages[Domain])
  BY DEF SearchIInv, TypeOK
<1>2. TypeOK /\ Valid(at)
  BY DEF SearchIInv, Found
<1>3. Kept(Domain) = UNION {RecordsOf(Pages[Domain][k]) : k \in 1 .. Len(Pages[Domain])}
  BY <1>1, <1>2, KeptIsPages
<1>4. Kept(Domain) \subseteq Records
  BY <1>1, KeptFacts
<1>5. QED
  BY <1>1, <1>3, <1>4

LEMMA PageStep == SearchIInv /\ PageArrives => SearchIInv'
<1> SUFFICES ASSUME SearchIInv, PageArrives PROVE SearchIInv'
  OBVIOUS
<1>1. Quiet /\ at' = at /\ seenRecords' = seenRecords /\ inputs' = inputs
  BY DEF PageArrives, Quiet, setting, seen
<1>2. Grow /\ Shown' /\ Counted' /\ Passed' /\ Represented'
  BY <1>1, QuietKeeps, SameDomain
<1>3. Known'
  BY <1>1, <1>2, SeenBefore DEF Known, PageArrives
<1>4. PICK d \in Domains : d = Domain /\ d = Domain' /\ Len(Pages[d]) \in Nat \ {0}
  BY <1>1, PageAdds, PageFacts DEF PageArrives, Domain, DomainAt
<1>5. records' \subseteq Kept(Domain) /\ records' \subseteq Records
  BY <1>1, PageAdds DEF SearchIInv, Found, PageArrives
<1>6. Kept(Domain)' = Kept(Domain) /\ Valid(at)'
  BY <1>1 DEF Kept, SearchIInv, Found, Valid, PageArrives, Domain, DomainAt
<1>7. page \in 1 .. Len(Pages[d]) /\ at <= Len(inputs)
  BY <1>4 DEF SearchIInv, TypeOK, PageArrives
<1>8. TypeOK'
  <2>1. pc' \in {"request", "write"} /\ page' \in 1 .. Len(Pages[d]) /\ attempt' \in 0 .. Retries
    <3>1. CASE page = Len(Pages[d]) /\ d \notin Circular
      BY <1>4, <1>7, <3>1 DEF PageArrives, SearchIInv, TypeOK
    <3>2. CASE ~(page = Len(Pages[d]) /\ d \notin Circular)
      <4>1. page' = IF page = Len(Pages[d]) THEN 1 ELSE page + 1
        BY <1>4, <3>2 DEF PageArrives
      <4>2. pc' = "request" /\ attempt' = 0
        BY <1>4, <3>2 DEF PageArrives
      <4>3. QED
        BY <1>4, <1>7, <4>1, <4>2, RetriesNat
    <3>3. QED
      BY <3>1, <3>2
  <2>2. QED
    BY <1>1, <1>4, <1>5, <1>7, <2>1 DEF PageArrives, SearchIInv, TypeOK, setting, search, seen, sink
<1>9. \A k \in 1 .. page : RecordsOf(Pages[Domain][k]) \subseteq records'
  <2>1. \A k \in 1 .. page - 1 : RecordsOf(Pages[Domain][k]) \subseteq records
    BY DEF SearchIInv, Found, PageArrives
  <2>2. QED
    BY <1>4, <1>7, <2>1 DEF PageArrives
<1>10. \A k : RecordsOf(Pages[Domain][k])' = RecordsOf(Pages[Domain][k])
  BY <1>1 DEF RecordsOf, normalizedNames, Domain, DomainAt
<1>11. CASE ~(page = Len(Pages[d]) /\ d \notin Circular)
  <2>1. pc' = "request" /\ page' = IF page = Len(Pages[d]) THEN 1 ELSE page + 1
    BY <1>4, <1>11 DEF PageArrives
  <2>2. \A k \in 1 .. page' - 1 : RecordsOf(Pages[Domain][k]) \subseteq records'
    BY <1>7, <1>9, <2>1
  <2>3. Found'
    BY <1>1, <1>5, <1>6, <1>10, <2>1, <2>2 DEF Found
  <2>4. Listed' /\ Ending' /\ Delayed'
    BY <1>1, <2>1 DEF Listed, Ending, Delayed, SearchIInv, PageArrives, sink, Quiet
  <2>5. QED
    BY <1>2, <1>3, <1>8, <2>3, <2>4 DEF SearchIInv
<1>12. CASE page = Len(Pages[d]) /\ d \notin Circular
  <2>1. pc' = "write"
    BY <1>4, <1>12 DEF PageArrives
  <2>2. Kept(Domain) \subseteq records'
    BY <1>4, <1>9, <1>12, PageAdds DEF PageArrives
  <2>3. Found' /\ Listed'
    BY <1>1, <1>5, <1>6, <2>1, <2>2 DEF Found, Listed
  <2>4. Ending' /\ Delayed'
    BY <1>1, <2>1 DEF Ending, Delayed, SearchIInv, PageArrives, sink, Quiet
  <2>5. QED
    BY <1>2, <1>3, <1>8, <2>3, <2>4 DEF SearchIInv
<1>13. QED
  BY <1>11, <1>12

LEMMA BeginStep == SearchIInv /\ BeginSearch => SearchIInv'
<1> SUFFICES ASSUME SearchIInv, BeginSearch PROVE SearchIInv'
  OBVIOUS
<1>1. Quiet /\ at' = at /\ seenRecords' = seenRecords /\ inputs' = inputs
  BY DEF BeginSearch, Quiet, setting, seen
<1>2. Grow /\ Shown' /\ Counted' /\ Passed' /\ Represented'
  BY <1>1, QuietKeeps, SameDomain
<1>3. Known'
  BY <1>1, <1>2, SeenBefore DEF Known, BeginSearch
<1>4. at <= Len(inputs) /\ Domain \in Domains /\ Domain' = Domain /\ Valid(at)'
  <2>1. at \in 1 .. Len(inputs) /\ TypeOK
    BY DEF BeginSearch, SearchIInv, TypeOK
  <2>2. Domain \in Domains /\ ~Refused(inputs[at])
    BY <2>1, InputFacts DEF BeginSearch, Domain
  <2>3. QED
    BY <1>1, <2>1, <2>2 DEF Valid, Domain, DomainAt
<1>5. page' = 1 /\ 1 \in 1 .. Len(Pages[Domain])
  BY <1>4, PageFacts DEF BeginSearch
<1>6. TypeOK'
  BY <1>1, <1>4, <1>5, RetriesNat DEF BeginSearch, SearchIInv, TypeOK, setting, seen, sink
<1>7. Found' /\ Listed' /\ Ending' /\ Delayed'
  BY <1>4 DEF Found, Listed, Ending, Delayed, SearchIInv, BeginSearch, sink
<1>8. QED
  BY <1>2, <1>3, <1>6, <1>7 DEF SearchIInv

\* A failed request and its delay, the end of the context and that of stdout leave the
\* search where it is.
LEMMA PauseStep ==
  SearchIInv /\ (RequestFails \/ DelayOver \/ ContextEnds \/ Break) => SearchIInv'
<1> SUFFICES ASSUME SearchIInv, RequestFails \/ DelayOver \/ ContextEnds \/ Break PROVE SearchIInv'
  OBVIOUS
<1>1. Quiet /\ at' = at /\ seenRecords' = seenRecords /\ inputs' = inputs /\ format' = format
  BY DEF RequestFails, DelayOver, ContextEnds, Break, Quiet, setting, seen
<1>2. page' = page /\ records' = records /\ exit' = exit
  BY DEF RequestFails, DelayOver, ContextEnds, Break, search
<1>3. pc' = pc \/ (pc \in {"request", "wait"} /\ pc' \in {"request", "wait"})
  BY DEF RequestFails, DelayOver, ContextEnds, Break
<1>4. Grow /\ Shown' /\ Counted' /\ Passed' /\ Represented'
  BY <1>1, QuietKeeps, SameDomain
<1>5. Known'
  BY <1>1, <1>3, <1>4, SeenBefore DEF Known
<1>6. attempt' \in 0 .. Retries /\ Delayed'
  <2>1. attempt \in 0 .. Retries /\ Delayed /\ Retries \in Nat
    BY RetriesNat DEF SearchIInv, TypeOK
  <2>2. CASE DelayOver
    BY <2>1, <2>2 DEF DelayOver, Delayed
  <2>3. CASE RequestFails \/ ContextEnds \/ Break
    BY <2>1, <2>3 DEF RequestFails, ContextEnds, Break, MoreAttempts, Delayed, search
  <2>4. QED
    BY <2>2, <2>3
<1>7. (broken => broken') /\ broken' \in BOOLEAN /\ ended' \in BOOLEAN
  BY DEF RequestFails, DelayOver, ContextEnds, Break, SearchIInv, TypeOK
<1>8. Domain' = Domain /\ Valid(at)' = Valid(at) /\ Kept(Domain)' = Kept(Domain)
  BY <1>1 DEF Domain, Valid, Kept, DomainAt
<1>9. TypeOK'
  BY <1>1, <1>2, <1>3, <1>6, <1>7, <1>8 DEF SearchIInv, TypeOK, Quiet, seen, sink
<1>10. \A k : RecordsOf(Pages[Domain][k])' = RecordsOf(Pages[Domain][k])
  BY <1>1 DEF RecordsOf, normalizedNames, Domain, DomainAt
<1>11. Found' /\ Listed'
  BY <1>1, <1>2, <1>3, <1>8, <1>10 DEF SearchIInv, Found, Listed
<1>12. Ending'
  BY <1>1, <1>2, <1>3, <1>7 DEF SearchIInv, Ending, Quiet, sink
<1>13. QED
  BY <1>4, <1>5, <1>6, <1>9, <1>11, <1>12 DEF SearchIInv

LEMMA SkipRecordStep ==
  ASSUME NEW row \in records PROVE SearchIInv /\ SkipRecord(row) => SearchIInv'
<1> SUFFICES ASSUME SearchIInv, SkipRecord(row) PROVE SearchIInv'
  OBVIOUS
<1>1. Quiet /\ at' = at /\ seenRecords' = seenRecords /\ inputs' = inputs /\ pc = "write" /\ pc' = pc
  BY DEF SkipRecord, Quiet, setting, seen
<1>2. Grow /\ Shown' /\ Counted' /\ Passed' /\ Represented'
  BY <1>1, QuietKeeps, SameDomain
<1>3. Known'
  BY <1>1, <1>2, SeenBefore DEF Known
<1>4. Domain' = Domain /\ Valid(at)' = Valid(at) /\ Kept(Domain)' = Kept(Domain)
  BY <1>1 DEF Domain, Valid, Kept, DomainAt
<1>5. TypeOK'
  BY <1>1, <1>4 DEF SkipRecord, SearchIInv, TypeOK, setting, seen, sink
<1>6. Found' /\ Listed'
  BY <1>1, <1>4 DEF SkipRecord, SearchIInv, Found, Listed
<1>7. Ending' /\ Delayed'
  BY <1>1 DEF SkipRecord, SearchIInv, Ending, Delayed, sink
<1>8. QED
  BY <1>2, <1>3, <1>5, <1>6, <1>7 DEF SearchIInv

-----------------------------------------------------------------------------
(* The exits.                                                                 *)

LEMMA FlushFacts ==
  ASSUME SearchIInv, DeferredFlush
  PROVE  /\ held' \cup out' = held \cup out
         /\ held' \subseteq Lines /\ out' \subseteq Lines
         /\ copies' = copies
         /\ stuck => stuck'
         /\ stuck' \in BOOLEAN /\ (stuck' => broken)
         /\ ~stuck' => held' = {}
<1>1. TypeOK /\ Ending
  BY DEF SearchIInv
<1>2. CASE FlushOK
  BY <1>1, <1>2 DEF FlushOK, TypeOK, Ending
<1>3. CASE FlushFails
  BY <1>1, <1>3 DEF FlushFails, TypeOK, Ending
<1>4. QED
  BY <1>2, <1>3 DEF DeferredFlush

LEMMA Exits ==
  ASSUME SearchIInv, pc # "exited", pc' = "exited", DeferredFlush,
         UNCHANGED <<setting, at, search, seen, broken, ended>>,
         exit' \in {"0", "1", "2"}, exit' = "0" => ~stuck' /\ at > Len(inputs)
  PROVE  SearchIInv'
<1>1. at' = at /\ seenRecords' = seenRecords /\ inputs' = inputs /\ format' = format
      /\ seenNames' = seenNames
  BY DEF setting, seen
<1>2. Grow
  BY <1>1, FlushFacts DEF Grow, setting
<1>3. Passed' /\ Represented'
  BY <1>1, <1>2, SameDomain
<1>4. Known'
  BY <1>1, <1>2, SeenBefore DEF Known
<1>5. TypeOK'
  BY <1>1, FlushFacts DEF SearchIInv, TypeOK, search
<1>6. Found' /\ Listed' /\ Delayed'
  BY DEF Found, Listed, Delayed
<1>7. Shown'
  BY <1>1, <1>2, FlushFacts DEF SearchIInv, Shown
<1>8. Counted'
  <2>1. \A l : Printable(l)' = Printable(l)
    BY <1>1 DEF Printable, Kept, DomainAt
  <2>2. QED
    BY <1>1, <2>1, FlushFacts DEF SearchIInv, Counted
<1>9. Ending'
  BY <1>1, FlushFacts DEF Ending
<1>10. QED
  BY <1>3, <1>4, <1>5, <1>6, <1>7, <1>8, <1>9 DEF SearchIInv

LEMMA SearchExitStep ==
  ASSUME NEW row
  PROVE  SearchIInv /\ (\/ RefuseSuffix \/ SearchRefused \/ RetriesExhausted
                  \/ DelayCanceled \/ UnknownFormat(row) \/ Finish) => SearchIInv'
<1>1. ASSUME SearchIInv, pc # "exited", ExitEarly("1") \/ ExitEarly("2") PROVE SearchIInv'
  BY <1>1, Exits DEF ExitEarly
<1>2. SearchIInv /\ (\/ RefuseSuffix \/ SearchRefused \/ RetriesExhausted
                \/ DelayCanceled \/ UnknownFormat(row)) => SearchIInv'
  BY <1>1 DEF RefuseSuffix, SearchRefused, RetriesExhausted, DelayCanceled, UnknownFormat
<1>3. ASSUME SearchIInv, Finish PROVE SearchIInv'
  <2>1. DeferredFlush /\ exit' \in {"0", "1"}
    BY <1>3 DEF Finish, DeferredFlush
  <2>2. exit' = "0" => ~stuck' /\ at > Len(inputs)
    BY <1>3 DEF Finish, FlushOK
  <2>3. QED
    BY <1>3, <2>1, <2>2, Exits DEF Finish
<1>4. QED
  BY <1>2, <1>3

-----------------------------------------------------------------------------
(* The next domain.                                                           *)

LEMMA SkipInvalidStep == SearchIInv /\ SkipInvalid => SearchIInv'
<1> SUFFICES ASSUME SearchIInv, SkipInvalid PROVE SearchIInv'
  OBVIOUS
<1>1. Quiet /\ at' = at + 1 /\ inputs' = inputs /\ seenRecords' = seenRecords /\ pc' = "domain"
  BY DEF SkipInvalid, NextDomain, Quiet, setting, seen
<1>2. at \in 1 .. Len(inputs) /\ Len(inputs) \in Nat /\ Refused(inputs[at])
  BY InputFacts DEF SkipInvalid, SearchIInv, TypeOK, Domain
<1>3. Grow /\ Shown' /\ Counted'
  BY <1>1, QuietKeeps
<1>4. Passed'
  BY <1>1, <1>2 DEF SearchIInv, Passed, Valid, DomainAt
<1>5. Searched' = Searched
  BY <1>1, <1>2 DEF Searched
<1>6. Represented'
  <2>1. ASSUME NEW i \in Searched, NEW r \in Kept(DomainAt(i))
        PROVE  \E j \in Searched : j <= i /\ StandsFor(j, r.id)'
    BY <1>3, <2>1, StandsGrows DEF SearchIInv, Represented
  <2>2. \A i : Kept(DomainAt(i))' = Kept(DomainAt(i))
    BY <1>1 DEF Kept, DomainAt
  <2>3. QED
    BY <1>1, <1>5, <2>1, <2>2 DEF Represented
<1>7. Known'
  <2> SUFFICES ASSUME NEW id \in seenRecords
               PROVE  \E j \in 1 .. at' : /\ j <= Len(inputs')
                                          /\ Valid(j)'
                                          /\ j = at' => pc' \in {"write", "exited"}
                                          /\ StandsFor(j, id)'
    BY <1>1 DEF Known
  <2>1. PICK j \in 1 .. at : j <= Len(inputs) /\ Valid(j) /\ StandsFor(j, id)
    BY DEF SearchIInv, Known
  <2>2. StandsFor(j, id)' /\ Valid(j)' /\ j \in 1 .. at' /\ j # at' /\ j <= Len(inputs')
    BY <1>1, <1>2, <1>3, <2>1, StandsGrows DEF Valid, DomainAt
  <2>3. QED
    BY <2>2
<1>8. TypeOK'
  BY <1>1, <1>2 DEF SearchIInv, TypeOK, SkipInvalid, setting, search, seen, sink
<1>9. Found' /\ Listed' /\ Ending' /\ Delayed'
  BY <1>1 DEF Found, Listed, Ending, Delayed, SearchIInv, SkipInvalid, sink
<1>10. QED
  BY <1>3, <1>4, <1>6, <1>7, <1>8, <1>9 DEF SearchIInv

LEMMA RecordsDoneStep == SearchIInv /\ RecordsDone => SearchIInv'
<1> SUFFICES ASSUME SearchIInv, RecordsDone PROVE SearchIInv'
  OBVIOUS
<1>1. /\ Quiet /\ at' = at + 1 /\ inputs' = inputs /\ seenRecords' = seenRecords
      /\ pc = "write" /\ pc' = "domain" /\ records = {}
  BY DEF RecordsDone, NextDomain, Quiet, setting, seen
<1>2. at \in 1 .. Len(inputs) /\ Len(inputs) \in Nat /\ Valid(at)
  BY <1>1, InputFacts DEF SearchIInv, TypeOK, Found
<1>3. Grow /\ Shown' /\ Counted'
  BY <1>1, QuietKeeps
<1>4. Passed'
  BY <1>1, <1>2 DEF SearchIInv, Passed, Valid, DomainAt
<1>5. Searched' = Searched \cup {at}
  BY <1>1, <1>2 DEF Searched, Valid
<1>6. ASSUME NEW id \in seenRecords
      PROVE  \E j \in 1 .. at : j <= Len(inputs) /\ Valid(j) /\ StandsFor(j, id)'
  BY <1>3, <1>6, StandsGrows DEF SearchIInv, Known
<1>7. Represented'
  <2>1. ASSUME NEW i \in Searched, NEW r \in Kept(DomainAt(i))
        PROVE  \E j \in Searched : j <= i /\ StandsFor(j, r.id)'
    BY <1>3, <2>1, StandsGrows DEF SearchIInv, Represented
  <2>2. ASSUME NEW r \in Kept(DomainAt(at))
        PROVE  \E j \in Searched' : j <= at /\ StandsFor(j, r.id)'
    <3>1. r.id \in seenRecords
      BY <1>1, <2>2 DEF SearchIInv, Listed, Domain
    <3>2. PICK j \in 1 .. at : Valid(j) /\ StandsFor(j, r.id)'
      BY <1>6, <3>1
    <3>3. j \in Searched'
      BY <1>1, <1>2, <3>2 DEF Searched, Valid
    <3>4. QED
      BY <3>2, <3>3
  <2>3. \A i : Kept(DomainAt(i))' = Kept(DomainAt(i))
    BY <1>1 DEF Kept, DomainAt
  <2>4. QED
    BY <1>1, <1>5, <2>1, <2>2, <2>3 DEF Represented
<1>8. Known'
  <2> SUFFICES ASSUME NEW id \in seenRecords
               PROVE  \E j \in 1 .. at' : /\ j <= Len(inputs')
                                          /\ Valid(j)'
                                          /\ j = at' => pc' \in {"write", "exited"}
                                          /\ StandsFor(j, id)'
    BY <1>1 DEF Known
  <2>1. PICK j \in 1 .. at : j <= Len(inputs) /\ Valid(j) /\ StandsFor(j, id)'
    BY <1>6
  <2>2. Valid(j)' /\ j \in 1 .. at' /\ j # at' /\ j <= Len(inputs')
    BY <1>1, <1>2, <2>1 DEF Valid, DomainAt
  <2>3. QED
    BY <2>1, <2>2
<1>9. TypeOK'
  BY <1>1, <1>2 DEF SearchIInv, TypeOK, RecordsDone, setting, search, seen, sink
<1>10. Found' /\ Listed' /\ Ending' /\ Delayed'
  BY <1>1 DEF Found, Listed, Ending, Delayed, SearchIInv, RecordsDone, sink
<1>11. QED
  BY <1>3, <1>4, <1>7, <1>8, <1>9, <1>10 DEF SearchIInv

-----------------------------------------------------------------------------
(* A record is written.                                                       *)

\* The row is a certificate of the domain, and so its lines are lines.
LEMMA RowFacts ==
  ASSUME SearchIInv, pc = "write", NEW row \in records
  PROVE  /\ at \in 1 .. Len(inputs) /\ Valid(at) /\ Domain \in Domains
         /\ row \in Kept(Domain)
         /\ row.id \in Ids /\ row.names \subseteq Names
         /\ LinesOf(row) \subseteq Lines
         /\ \A l \in LinesOf(row) : Printable(l)
<1>1. Valid(at) /\ Domain \in Domains /\ row \in Kept(Domain) /\ at \in 1 .. Len(inputs)
  BY DEF SearchIInv, TypeOK, Found
<1>2. row.id \in Ids /\ row.names \subseteq Names
  BY <1>1, KeptFacts
<1>3. LinesOf(row) \subseteq Lines
  BY <1>1, <1>2 DEF LinesOf, NewNames, Lines
<1>4. ASSUME NEW l \in LinesOf(row) PROVE Printable(l)
  <2>1. l \in {<<n>> : n \in row.names} \cup {<<row.id, DomainAt(at)>>}
    BY <1>4 DEF LinesOf, NewNames, Domain
  <2>2. DomainAt(at) \in Domains /\ row \in Kept(DomainAt(at))
    BY <1>1 DEF Domain
  <2>3. QED
    BY <1>1, <2>1, <2>2 DEF Printable, Valid
<1>5. QED
  BY <1>1, <1>2, <1>3, <1>4

\* A line that is about to be printed was not printed before.
LEMMA LinesAreNew ==
  ASSUME SearchIInv, pc = "write", NEW row \in records, row.id \notin seenRecords,
         NEW l \in LinesOf(row)
  PROVE  copies[l] = 0
<1>1. l \in Lines /\ copies[l] \in Nat
  BY RowFacts DEF SearchIInv, TypeOK
<1>2. CASE format = "dns"
  <2>1. PICK n \in row.names \ seenNames : l = <<n>>
    BY <1>2 DEF LinesOf, NewNames
  <2>2. ~ \E m \in seenNames : l = <<m>>
    BY <2>1
  <2>3. QED
    BY <1>1, <1>2, <2>2 DEF SearchIInv, Counted
<1>3. CASE format # "dns"
  <2>1. l = <<row.id, Domain>>
    BY <1>3 DEF LinesOf
  <2>2. ~ \E id \in seenRecords : \E d \in Domains : l = <<id, d>>
    BY <2>1
  <2>3. QED
    BY <1>1, <1>3, <2>2 DEF SearchIInv, Counted
<1>4. QED
  BY <1>2, <1>3

\* What a print does to the buffer, whether it succeeds or not.
LEMMA PrintFacts ==
  ASSUME SearchIInv, NEW lines, lines \subseteq Lines, PrintOK(lines) \/ PrintFails
  PROVE  /\ held \cup out \subseteq held' \cup out'
         /\ held' \subseteq Lines /\ out' \subseteq Lines
         /\ stuck => stuck'
         /\ stuck' \in BOOLEAN /\ (stuck' => broken)
         /\ ~stuck' => lines \subseteq held' \cup out'
         /\ \/ copies' = copies
            \/ copies' = [l \in Lines |-> IF l \in lines THEN copies[l] + 1 ELSE copies[l]]
<1>1. TypeOK /\ Ending
  BY DEF SearchIInv
<1>2. CASE PrintOK(lines)
  BY <1>1, <1>2 DEF PrintOK, TypeOK, Ending
<1>3. CASE PrintFails
  BY <1>1, <1>3 DEF PrintFails, TypeOK, Ending
<1>4. QED
  BY <1>2, <1>3

\* A record that is written, or that could not be encoded, is seen.
LEMMA SeeRecord ==
  ASSUME SearchIInv, pc = "write", NEW row \in records, row.id \notin seenRecords,
         See(row), PrintOK(LinesOf(row)) \/ PrintFails,
         UNCHANGED <<setting, at, page, attempt, broken, ended>>,
         \/ pc' = "write" /\ exit' = exit
         \/ pc' = "exited" /\ exit' = "1" /\ stuck'
  PROVE  SearchIInv'
<1>1. at' = at /\ inputs' = inputs /\ format' = format
  BY DEF setting
<1>2. /\ LinesOf(row) \subseteq Lines /\ at \in 1 .. Len(inputs) /\ Valid(at)
      /\ row \in Kept(Domain) /\ row.id \in Ids /\ row.names \subseteq Names
  BY RowFacts
<1>3. /\ held \cup out \subseteq held' \cup out'
      /\ held' \subseteq Lines /\ out' \subseteq Lines
      /\ stuck => stuck'
      /\ stuck' \in BOOLEAN /\ (stuck' => broken)
      /\ ~stuck' => LinesOf(row) \subseteq held' \cup out'
      /\ \/ copies' = copies
         \/ copies' = [l \in Lines |-> IF l \in LinesOf(row) THEN copies[l] + 1 ELSE copies[l]]
  BY <1>2, PrintFacts
<1>4. /\ records' = records \ {row} /\ seenRecords' = seenRecords \cup {row.id}
      /\ format = "dns" => seenNames' = seenNames \cup row.names
      /\ format # "dns" => seenNames' = seenNames
  BY DEF See
<1>5. Grow
  BY <1>3, <1>4 DEF Grow
<1>6. Passed' /\ Represented'
  BY <1>1, <1>5, SameDomain
<1>7. StandsFor(at, row.id)'
  <2>1. Kept(DomainAt(at))' = Kept(Domain)
    BY <1>1 DEF Kept, Domain, DomainAt
  <2>2. format' = "dns" => row.names \subseteq seenNames'
    BY <1>1, <1>4
  <2>3. format' # "dns" /\ ~stuck' => <<row.id, DomainAt(at)'>> \in held' \cup out'
    BY <1>1, <1>3 DEF LinesOf, Domain, DomainAt
  <2>4. QED
    BY <1>1, <1>2, <2>1, <2>2, <2>3 DEF StandsFor, DomainAt
<1>8. Known'
  <2>1. ASSUME NEW id \in seenRecords
        PROVE  \E j \in 1 .. at' : /\ j <= Len(inputs')
                                   /\ Valid(j)'
                                   /\ j = at' => pc' \in {"write", "exited"}
                                   /\ StandsFor(j, id)'
    BY <1>1, <1>5, SeenBefore
  <2>2. at \in 1 .. at' /\ at <= Len(inputs') /\ Valid(at)' /\ pc' \in {"write", "exited"}
    BY <1>1, <1>2 DEF Valid, DomainAt
  <2>3. QED
    BY <1>4, <1>7, <2>1, <2>2 DEF Known
<1>9. copies' \in [Lines -> Nat]
  BY <1>3 DEF SearchIInv, TypeOK
<1>10. Domain' = Domain /\ Valid(at)' = Valid(at) /\ Kept(Domain)' = Kept(Domain)
  BY <1>1 DEF Domain, Valid, Kept, DomainAt
<1>11. TypeOK'
  BY <1>1, <1>2, <1>3, <1>4, <1>9, <1>10 DEF SearchIInv, TypeOK
<1>12. Found' /\ Listed' /\ Delayed'
  BY <1>4, <1>10 DEF SearchIInv, Found, Listed, Delayed
<1>13. Shown'
  BY <1>1, <1>3, <1>4 DEF SearchIInv, Shown, LinesOf, NewNames
<1>14. Counted'
  <2> SUFFICES ASSUME NEW l \in Lines
               PROVE  /\ copies'[l] <= 1
                      /\ copies'[l] > 0 /\ format = "dns" => \E n \in seenNames' : l = <<n>>
                      /\ copies'[l] > 0 /\ format # "dns" =>
                           \E id \in seenRecords' : \E d \in Domains : l = <<id, d>>
                      /\ copies'[l] > 0 => Printable(l)
    <3>1. \A l : Printable(l)' = Printable(l)
      BY <1>1 DEF Printable, Kept, DomainAt
    <3>2. QED
      BY <1>1, <3>1 DEF Counted
  <2>1. CASE l \in LinesOf(row)
    <3>1. copies'[l] <= 1 /\ Printable(l)
      BY <1>3, <2>1, LinesAreNew, RowFacts
    <3>2. format = "dns" => \E n \in seenNames' : l = <<n>>
      BY <1>4, <2>1 DEF LinesOf, NewNames
    <3>3. format # "dns" => \E id \in seenRecords' : \E d \in Domains : l = <<id, d>>
      BY <1>4, <2>1, RowFacts DEF LinesOf
    <3>4. QED
      BY <3>1, <3>2, <3>3
  <2>2. CASE l \notin LinesOf(row)
    <3>1. copies'[l] = copies[l]
      BY <1>3, <2>2
    <3>2. QED
      BY <1>4, <3>1 DEF SearchIInv, Counted
  <2>3. QED
    BY <2>1, <2>2
<1>15. Ending'
  BY <1>1, <1>3 DEF SearchIInv, Ending
<1>16. QED
  BY <1>6, <1>8, <1>11, <1>12, <1>13, <1>14, <1>15 DEF SearchIInv

LEMMA WriteStep ==
  ASSUME NEW row \in records
  PROVE  SearchIInv /\ (WriteRecord(row) \/ EncodeFails(row)) => SearchIInv'
<1>1. ASSUME SearchIInv, WriteRecord(row) PROVE SearchIInv'
  BY <1>1, SeeRecord DEF WriteRecord
<1>2. ASSUME SearchIInv, EncodeFails(row) PROVE SearchIInv'
  BY <1>2, SeeRecord DEF EncodeFails, PrintFails
<1>3. QED
  BY <1>1, <1>2

-----------------------------------------------------------------------------
LEMMA SearchStutterStep == SearchIInv /\ UNCHANGED searchVars => SearchIInv'
<1> SUFFICES ASSUME SearchIInv, UNCHANGED searchVars PROVE SearchIInv'
  OBVIOUS
<1>1. Quiet /\ UNCHANGED <<inputs, at, pc, page, records, seenRecords, exit, attempt, broken>>
  BY DEF searchVars, Quiet, setting, seen, sink
<1>2. Grow /\ Shown' /\ Counted' /\ Passed' /\ Represented'
  BY <1>1, QuietKeeps, SameDomain
<1>3. Known'
  BY <1>1, <1>2, SeenBefore DEF Known
<1>4. Domain' = Domain /\ Valid(at)' = Valid(at) /\ Kept(Domain)' = Kept(Domain)
  BY <1>1 DEF Domain, Valid, Kept, DomainAt
<1>5. \A k : RecordsOf(Pages[Domain][k])' = RecordsOf(Pages[Domain][k])
  BY <1>1 DEF RecordsOf, normalizedNames, Domain, DomainAt
<1>6. TypeOK'
  BY <1>4 DEF SearchIInv, TypeOK, searchVars
<1>7. Found' /\ Listed' /\ Ending' /\ Delayed'
  BY <1>1, <1>4, <1>5 DEF SearchIInv, Found, Listed, Ending, Delayed, Quiet, sink
<1>8. QED
  BY <1>2, <1>3, <1>6, <1>7 DEF SearchIInv

LEMMA SearchNextIInv == SearchIInv /\ [SearchNext]_searchVars => SearchIInv'
<1>1. SearchIInv /\ Search => SearchIInv'
  BY SkipInvalidStep, BeginStep, PageStep, PauseStep, SearchExitStep DEF Search
<1>2. SearchIInv /\ Write => SearchIInv'
  BY SkipRecordStep, WriteStep, SearchExitStep, RecordsDoneStep DEF Write
<1>3. QED
  BY <1>1, <1>2, PauseStep, SearchStutterStep DEF SearchNext

\* SearchIInv holds in every state of the command.
THEOREM SearchInvariance == SearchSpec => []SearchIInv
  BY SearchInitIInv, SearchNextIInv, PTL DEF SearchSpec

-----------------------------------------------------------------------------
\* Every variable of the command keeps its type.
THEOREM CTTypeCorrect == SearchSpec => []TypeOK
<1>1. SearchIInv => TypeOK
  BY DEF SearchIInv
<1>2. QED
  BY SearchInvariance, <1>1, PTL

\* What the command has found is written, whatever domains the user lists, whatever the
\* provider serves, and wherever the command exits.
THEOREM CTFindingsAreWritten == SearchSpec => []FindingsAreWritten
<1>1. SearchIInv => FindingsAreWritten
  <2> SUFFICES ASSUME SearchIInv, pc = "exited", exit = "0" \/ ~(broken \/ stuck)
               PROVE  /\ exit = "0" => at > Len(inputs)
                      /\ \A i \in Searched : \A row \in Kept(DomainAt(i)) :
                           \E j \in Searched : \E first \in Kept(DomainAt(j)) :
                             /\ j <= i
                             /\ first.id = row.id
                             /\ IF format = "dns" THEN \A n \in first.names : <<n>> \in out
                                ELSE <<row.id, DomainAt(j)>> \in out
    BY DEF FindingsAreWritten
  <2>1. ~stuck /\ held = {} /\ (exit = "0" => at > Len(inputs))
    BY DEF SearchIInv, Ending
  <2>2. ASSUME NEW i \in Searched, NEW row \in Kept(DomainAt(i))
        PROVE  \E j \in Searched : \E first \in Kept(DomainAt(j)) :
                 /\ j <= i
                 /\ first.id = row.id
                 /\ IF format = "dns" THEN \A n \in first.names : <<n>> \in out
                    ELSE <<row.id, DomainAt(j)>> \in out
    <3>1. PICK j \in Searched : j <= i /\ StandsFor(j, row.id)
      BY <2>2 DEF SearchIInv, Represented
    <3>2. PICK first \in Kept(DomainAt(j)) :
            /\ first.id = row.id
            /\ format = "dns" => first.names \subseteq seenNames
            /\ format # "dns" => <<row.id, DomainAt(j)>> \in out
      BY <2>1, <3>1 DEF StandsFor
    <3>3. format = "dns" => \A n \in first.names : <<n>> \in out
      BY <2>1, <3>2 DEF SearchIInv, Shown
    <3>4. QED
      BY <3>1, <3>2, <3>3
  <2>3. QED
    BY <2>1, <2>2
<1>2. QED
  BY SearchInvariance, <1>1, PTL

\* No certificate and no name is printed twice or out of scope.
THEOREM CTPrintedOnce == SearchSpec => []PrintedOnce
<1>1. SearchIInv => PrintedOnce
  BY DEF SearchIInv, Counted, Printable, PrintedOnce
<1>2. QED
  BY SearchInvariance, <1>1, PTL

-----------------------------------------------------------------------------
(***************************************************************************)
(* The targets of an argument, for every byte size, limit, list of ports   *)
(* and names, and network that is a prefix.                                *)
(*                                                                         *)
(* The walk over a network takes one address after the other; nothing in   *)
(* the code says that it meets all of them.  The addresses are ordered by  *)
(* their first different byte, the next one is the least above, and a      *)
(* network is convex in that order, so that the walk leaves it only behind *)
(* its last address (Walked).  What is missing is found as the least that  *)
(* is missing, which stands for the induction over the walk.               *)
(***************************************************************************)

-----------------------------------------------------------------------------
(* Least and last numbers.                                                   *)

LEMMA LeastNumber ==
  ASSUME NEW D, D \subseteq Nat, D # {}
  PROVE  \E m \in D : \A n \in D : m <= n
<1> DEFINE T == {0 .. n : n \in D}
<1>1. T # {} /\ T \subseteq FiniteSubsetsOf(Nat)
  <2>1. \A n \in D : 0 .. n \in SUBSET Nat /\ IsFiniteSet(0 .. n)
    BY FS_Interval
  <2>2. QED
    BY <2>1 DEF FiniteSubsetsOf
<1>2. PICK s \in T : \A t \in T : ~(<<t, s>> \in StrictSubsetOrdering(Nat))
  BY <1>1, FS_StrictSubsetOrderingWellFounded, WFMin
<1>3. PICK m \in D : s = 0 .. m
  OBVIOUS
<1>4. ASSUME NEW n \in D, n < m PROVE FALSE
  <2>1. 0 .. n \subseteq 0 .. m /\ 0 .. n # 0 .. m /\ 0 .. n \in SUBSET Nat /\ 0 .. m \in SUBSET Nat
    <3>1. m \in 0 .. m /\ m \notin 0 .. n
      BY <1>4
    <3>2. QED
      BY <1>4, <3>1
  <2>2. <<0 .. n, 0 .. m>> \in StrictSubsetOrdering(Nat)
    BY <2>1 DEF StrictSubsetOrdering
  <2>3. QED
    BY <1>2, <1>3, <2>2
<1>5. QED
  BY <1>4

LEMMA LastNumber ==
  ASSUME NEW k \in Nat, NEW D, D \subseteq 0 .. k, D # {}
  PROVE  \E m \in D : \A n \in D : n <= m
<1> DEFINE E == {k - n : n \in D}
<1>0. \A n \in D : n \in Nat /\ n \in Int /\ n <= k
  OBVIOUS
<1>1. E \subseteq Nat /\ E # {}
  <2>1. \A n \in D : k - n \in Nat
    BY <1>0
  <2>2. \E n : n \in D
    OBVIOUS
  <2>3. QED
    BY <2>1, <2>2, Zenon
<1>2. PICK e \in E : \A x \in E : e <= x
  BY <1>1, LeastNumber
<1>3. PICK m \in D : e = k - m
  OBVIOUS
<1>4. ASSUME NEW n \in D PROVE n <= m
  <2>1. k - m <= k - n
    BY <1>2, <1>3
  <2>2. n \in Int /\ m \in Int
    BY <1>0
  <2>3. QED
    BY <2>1, <2>2
<1>5. QED
  BY <1>4

-----------------------------------------------------------------------------
(* The order of the addresses.                                               *)

Before(a, b) == \E i \in 1 .. Bytes : a[i] < b[i] /\ \A j \in 1 .. i - 1 : a[j] = b[j]

Full(a) == WrapsFrom(a, 1)

LEMMA AddressFacts ==
  ASSUME NEW a \in Addresses
  PROVE  /\ Bytes \in Nat \ {0} /\ Base \in Nat \ {0}
         /\ \A i \in 1 .. Bytes : a[i] \in 0 .. Base - 1 /\ a[i] \in Nat
         /\ incrementIP(a) \in Addresses
<1> USE TargetsAssumption DEF Addresses
<1>1. \A i \in 1 .. Bytes : a[i] \in 0 .. Base - 1 /\ a[i] \in Nat
  OBVIOUS
<1>2. ASSUME NEW i \in 1 .. Bytes, ~WrapsFrom(a, i), WrapsFrom(a, i + 1)
      PROVE  a[i] + 1 \in 0 .. Base - 1
  <2>1. a[i] # Base - 1
    BY <1>1, <1>2 DEF WrapsFrom
  <2>2. QED
    BY <1>1, <2>1
<1>3. incrementIP(a) \in Addresses
  BY <1>1, <1>2 DEF incrementIP
<1>4. QED
  BY <1>1, <1>3

LEMMA FirstDifference ==
  ASSUME NEW a \in Addresses, NEW b \in Addresses, a # b
  PROVE  \E i \in 1 .. Bytes : a[i] # b[i] /\ \A j \in 1 .. i - 1 : a[j] = b[j]
<1> USE TargetsAssumption DEF Addresses
<1> DEFINE D == {i \in 1 .. Bytes : a[i] # b[i]}
<1>1. D # {}
  <2>1. a = [i \in 1 .. Bytes |-> a[i]] /\ b = [i \in 1 .. Bytes |-> b[i]]
    OBVIOUS
  <2>2. ASSUME \A i \in 1 .. Bytes : a[i] = b[i] PROVE FALSE
    BY <2>1, <2>2, Zenon
  <2>3. QED
    BY <2>2
<1>1a. D \subseteq Nat
  OBVIOUS
<1>2. PICK m \in D : \A n \in D : m <= n
  BY <1>1, <1>1a, LeastNumber
<1>3. \A j \in 1 .. m - 1 : a[j] = b[j]
  BY <1>2
<1>4. QED
  BY <1>3

LEMMA NeverBeforeItself ==
  ASSUME NEW a \in Addresses
  PROVE  ~Before(a, a)
  BY AddressFacts DEF Before

LEMMA BeforeIsTotal ==
  ASSUME NEW a \in Addresses, NEW b \in Addresses, a # b
  PROVE  Before(a, b) \/ Before(b, a)
<1>1. PICK i \in 1 .. Bytes : a[i] # b[i] /\ \A j \in 1 .. i - 1 : a[j] = b[j]
  BY FirstDifference
<1>2. a[i] \in Nat /\ b[i] \in Nat
  BY AddressFacts
<1>3. a[i] < b[i] \/ b[i] < a[i]
  BY <1>1, <1>2
<1>4. QED
  BY <1>1, <1>3 DEF Before

LEMMA BeforeIsTransitive ==
  ASSUME NEW a \in Addresses, NEW b \in Addresses, NEW c \in Addresses,
         Before(a, b), Before(b, c)
  PROVE  Before(a, c)
<1>1. PICK i \in 1 .. Bytes : a[i] < b[i] /\ \A j \in 1 .. i - 1 : a[j] = b[j]
  BY DEF Before
<1>2. PICK k \in 1 .. Bytes : b[k] < c[k] /\ \A j \in 1 .. k - 1 : b[j] = c[j]
  BY DEF Before
<1>3. \A n \in 1 .. Bytes : a[n] \in Nat /\ b[n] \in Nat /\ c[n] \in Nat
  BY AddressFacts
<1>4. Bytes \in Nat
  BY TargetsAssumption
<1>5. CASE i < k
  BY <1>1, <1>2, <1>3, <1>4, <1>5 DEF Before
<1>6. CASE i = k
  BY <1>1, <1>2, <1>3, <1>4, <1>6 DEF Before
<1>7. CASE i > k
  BY <1>1, <1>2, <1>3, <1>4, <1>7 DEF Before
<1>8. QED
  BY <1>4, <1>5, <1>6, <1>7

(* A full address is the last.                                               *)
LEMMA FullIsLast ==
  ASSUME NEW a \in Addresses, Full(a), NEW b \in Addresses, b # a
  PROVE  Before(b, a)
<1>1. \A i \in 1 .. Bytes : a[i] = Base - 1 /\ b[i] \in Nat /\ b[i] <= Base - 1
  BY AddressFacts DEF Full, WrapsFrom
<1>2. ~Before(a, b)
  BY <1>1, TargetsAssumption DEF Before
<1>3. QED
  BY <1>2, BeforeIsTotal

(* The successor of an address that is not full: its last byte that does not *)
(* wrap is one more.                                                         *)
LEMMA Increment ==
  ASSUME NEW a \in Addresses, ~Full(a)
  PROVE  \E m \in 1 .. Bytes :
           /\ a[m] < Base - 1
           /\ \A i \in m + 1 .. Bytes : a[i] = Base - 1 /\ incrementIP(a)[i] = 0
           /\ incrementIP(a)[m] = a[m] + 1
           /\ \A i \in 1 .. m - 1 : incrementIP(a)[i] = a[i]
<1> DEFINE D == {i \in 1 .. Bytes : a[i] # Base - 1}
<1>0. Bytes \in Nat \ {0} /\ Base \in Nat \ {0} /\ \A i \in 1 .. Bytes : a[i] \in 0 .. Base - 1
  BY AddressFacts
<1>1. D # {} /\ D \subseteq 0 .. Bytes
  BY <1>0 DEF Full, WrapsFrom
<1>2. PICK m \in D : \A n \in D : n <= m
  BY <1>0, <1>1, LastNumber
<1>3. \A i \in m + 1 .. Bytes : a[i] = Base - 1
  BY <1>0, <1>2
<1>4. a[m] < Base - 1 /\ m \in 1 .. Bytes
  BY <1>0
<1>5. \A i \in m + 1 .. Bytes : WrapsFrom(a, i)
  BY <1>3 DEF WrapsFrom
<1>6. \A i \in 1 .. m : ~WrapsFrom(a, i)
  BY <1>0, <1>4 DEF WrapsFrom
<1>7. WrapsFrom(a, m + 1)
  BY <1>3 DEF WrapsFrom
<1>8. \A i \in m + 1 .. Bytes : incrementIP(a)[i] = 0
  BY <1>0, <1>4, <1>5 DEF incrementIP
<1>9. incrementIP(a)[m] = a[m] + 1
  BY <1>4, <1>6, <1>7 DEF incrementIP
<1>10. ASSUME NEW i \in 1 .. m - 1 PROVE incrementIP(a)[i] = a[i]
  <2>1. i \in 1 .. Bytes /\ i \in 1 .. m /\ i + 1 \in 1 .. m
    BY <1>0, <1>4
  <2>2. ~WrapsFrom(a, i) /\ ~WrapsFrom(a, i + 1)
    BY <1>6, <2>1
  <2>3. QED
    BY <2>1, <2>2 DEF incrementIP
<1>11. QED
  BY <1>3, <1>4, <1>8, <1>9, <1>10

LEMMA IncrementWraps ==
  ASSUME NEW a \in Addresses, Full(a)
  PROVE  \A i \in 1 .. Bytes : incrementIP(a)[i] = 0
<1>1. \A i \in 1 .. Bytes : WrapsFrom(a, i)
  BY TargetsAssumption DEF Full, WrapsFrom
<1>2. QED
  BY <1>1 DEF incrementIP

LEMMA SuccessorFollows ==
  ASSUME NEW a \in Addresses, ~Full(a), NEW b \in Addresses
  PROVE  Before(b, incrementIP(a)) <=> Before(b, a) \/ b = a
<1> DEFINE s == incrementIP(a)
<1>0. /\ Bytes \in Nat \ {0} /\ Base \in Nat \ {0}
      /\ \A i \in 1 .. Bytes : a[i] \in Nat /\ b[i] \in Nat /\ b[i] <= Base - 1
  BY AddressFacts
<1>1. s \in Addresses /\ \A i \in 1 .. Bytes : s[i] \in Nat
  BY AddressFacts
<1>2. PICK m \in 1 .. Bytes :
           /\ a[m] < Base - 1
           /\ \A i \in m + 1 .. Bytes : a[i] = Base - 1 /\ s[i] = 0
           /\ s[m] = a[m] + 1
           /\ \A i \in 1 .. m - 1 : s[i] = a[i]
  BY Increment
<1> HIDE DEF s
<1>3. Before(a, s)
  BY <1>0, <1>1, <1>2 DEF Before
<1>4. ASSUME Before(b, s), b # a PROVE Before(b, a)
  <2>1. PICK i \in 1 .. Bytes : b[i] < s[i] /\ \A j \in 1 .. i - 1 : b[j] = s[j]
    BY <1>4 DEF Before
  <2>2. i <= m
    BY <1>0, <1>2, <2>1
  <2>3. CASE i < m
    BY <1>0, <1>2, <2>1, <2>3 DEF Before
  <2>4. CASE i = m
    <3>1. b[m] <= a[m] /\ \A j \in 1 .. m - 1 : b[j] = a[j]
      BY <1>0, <1>2, <2>1, <2>4
    <3>2. CASE b[m] < a[m]
      BY <1>2, <3>1, <3>2 DEF Before
    <3>3. CASE b[m] = a[m]
      <4>1. ~Before(a, b)
        <5> SUFFICES ASSUME NEW k \in 1 .. Bytes, a[k] < b[k] PROVE FALSE
          BY DEF Before
        <5>1. CASE k < m
          BY <1>0, <3>1, <5>1
        <5>2. CASE k = m
          BY <1>0, <3>3, <5>2
        <5>3. CASE k > m
          BY <1>0, <1>2, <5>3
        <5>4. QED
          BY <1>0, <5>1, <5>2, <5>3
      <4>2. QED
        BY <1>4, <4>1, BeforeIsTotal
    <3>4. QED
      BY <1>0, <1>2, <3>1, <3>2, <3>3
  <2>5. QED
    BY <1>0, <2>2, <2>3, <2>4
<1>5. Before(b, a) => Before(b, s)
  BY <1>1, <1>3, BeforeIsTransitive
<1>6. QED
  BY <1>3, <1>4, <1>5 DEF s

-----------------------------------------------------------------------------
(* A network is a run of addresses, and its first address is the least.      *)

LEMMA Quotient ==
  ASSUME NEW x \in Nat, NEW d \in Nat \ {0}
  PROVE  /\ x \div d \in Nat
         /\ (x \div d) * d <= x /\ x < (x \div d + 1) * d
         /\ x % d = 0 => x = (x \div d) * d
<1>1. x \div d \in Nat /\ (x \div d) * d <= x /\ x < (x \div d + 1) * d
  OBVIOUS
<1>2. x = d * (x \div d) + (x % d)
  OBVIOUS
<1>3. d * (x \div d) = (x \div d) * d
  BY <1>1
<1>4. QED
  BY <1>1, <1>2, <1>3

LEMMA QuotientIsMonotone ==
  ASSUME NEW x \in Nat, NEW y \in Nat, x <= y, NEW d \in Nat \ {0}
  PROVE  x \div d <= y \div d
<1> DEFINE p == x \div d
           q == y \div d
<1>1. p \in Nat /\ q \in Nat /\ p * d <= x /\ y < (q + 1) * d
  BY Quotient
<1> HIDE DEF p, q
<1>2. ASSUME q + 1 <= p PROVE FALSE
  <2>1. (q + 1) * d <= p * d
    BY <1>1, <1>2
  <2>2. QED
    BY <1>1, <2>1
<1>3. p <= q
  BY <1>1, <1>2
<1>4. QED
  BY <1>3 DEF p, q

LEMMA SmallQuotient ==
  ASSUME NEW d \in Nat \ {0}, NEW x \in 0 .. d - 1
  PROVE  x \div d = 0
<1>1. x \div d \in Nat /\ (x \div d) * d <= x
  BY Quotient
<1>2. ASSUME x \div d >= 1 PROVE FALSE
  <2>1. (x \div d) * d >= d
    BY <1>1, <1>2
  <2>2. QED
    BY <1>1, <2>1
<1>3. QED
  BY <1>1, <1>2

LEMMA NetworkFacts ==
  ASSUME network \in Networks
  PROVE  /\ network.first \in Addresses
         /\ InNetwork(network.first)
         /\ \A i \in 1 .. Bytes : network.span[i] \in 1 .. Base
  BY NetworksAssumption DEF InNetwork, KeptOf

LEMMA FirstIsLeast ==
  ASSUME network \in Networks, NEW a \in Addresses, InNetwork(a)
  PROVE  ~Before(a, network.first)
<1> SUFFICES ASSUME NEW i \in 1 .. Bytes, a[i] < network.first[i]
             PROVE  FALSE
  BY DEF Before
<1> DEFINE d == network.span[i]
           f == network.first[i]
<1>1. d \in Nat \ {0} /\ f \in Nat /\ a[i] \in Nat /\ f % d = 0 /\ a[i] \div d = f \div d
  <2>1. d \in 1 .. Base /\ Base \in Nat
    BY NetworkFacts, TargetsAssumption
  <2>2. f \in Nat /\ a[i] \in Nat
    BY NetworkFacts, AddressFacts
  <2>3. f % d = 0
    BY NetworksAssumption
  <2>4. a[i] \div d = f \div d
    BY DEF InNetwork, KeptOf
  <2>5. QED
    BY <2>1, <2>2, <2>3, <2>4
<1> HIDE DEF d, f
<1>2. f = (f \div d) * d /\ (a[i] \div d) * d <= a[i]
  BY <1>1, Quotient
<1>3. QED
  BY <1>1, <1>2 DEF f

LEMMA NetworkIsConvex ==
  ASSUME network \in Networks, NEW a \in Addresses, NEW b \in Addresses, NEW c \in Addresses,
         InNetwork(a), InNetwork(c), Before(a, b), Before(b, c)
  PROVE  InNetwork(b)
<1> DEFINE W == {i \in 1 .. Bytes : network.span[i] > 1}
<1>1. \A i \in 1 .. Bytes :
        /\ a[i] \in 0 .. Base - 1 /\ b[i] \in 0 .. Base - 1 /\ c[i] \in 0 .. Base - 1
        /\ a[i] \in Nat /\ b[i] \in Nat /\ c[i] \in Nat /\ network.first[i] \in Nat
        /\ network.first[i] \in 0 .. Base - 1
        /\ network.span[i] \in Nat \ {0}
  BY AddressFacts, NetworkFacts
<1>2. Bytes \in Nat \ {0} /\ Base \in Nat \ {0}
  BY TargetsAssumption
<1>3. \A i \in 1 .. Bytes : network.span[i] = 1 => a[i] = c[i] /\ a[i] = network.first[i]
  <2> SUFFICES ASSUME NEW i \in 1 .. Bytes, network.span[i] = 1
               PROVE  a[i] = c[i] /\ a[i] = network.first[i]
    OBVIOUS
  <2>1. a[i] \div 1 = network.first[i] \div 1 /\ c[i] \div 1 = network.first[i] \div 1
    BY DEF InNetwork, KeptOf
  <2>2. QED
    BY <1>1, <2>1
<1>4. PICK p \in 1 .. Bytes : a[p] < b[p] /\ \A j \in 1 .. p - 1 : a[j] = b[j]
  BY DEF Before
<1>5. PICK q \in 1 .. Bytes : b[q] < c[q] /\ \A j \in 1 .. q - 1 : b[j] = c[j]
  BY DEF Before
<1>6. W # {} /\ W \subseteq Nat
  <2>1. ASSUME W = {} PROVE FALSE
    <3>1. \A i \in 1 .. Bytes : a[i] = c[i]
      BY <1>1, <1>3, <2>1
    <3>2. Before(a, c)
      BY BeforeIsTransitive
    <3>3. QED
      BY <1>1, <3>1, <3>2 DEF Before
  <2>2. QED
    BY <1>2, <2>1
<1>7. PICK m \in W : \A n \in W : m <= n
  BY <1>6, LeastNumber
<1>8. m \in 1 .. Bytes /\ network.span[m] > 1
  OBVIOUS
<1>9. \A i \in 1 .. m - 1 : i \in 1 .. Bytes /\ a[i] = c[i] /\ a[i] = network.first[i]
  <2> SUFFICES ASSUME NEW i \in 1 .. m - 1
               PROVE  i \in 1 .. Bytes /\ a[i] = c[i] /\ a[i] = network.first[i]
    OBVIOUS
  <2>1. i \in 1 .. Bytes /\ i \notin W
    BY <1>2, <1>7, <1>8
  <2>2. QED
    BY <1>1, <1>3, <2>1
<1>10. \A i \in m + 1 .. Bytes : network.span[i] = Base
  BY <1>2, <1>8, NetworksAssumption
<1> HIDE DEF W
<1>11. p >= m /\ q >= m
  <2>1. ASSUME p < m PROVE FALSE
    <3>1. a[p] = c[p]
      BY <1>4, <1>8, <1>9, <2>1
    <3>2. CASE p <= q
      BY <1>1, <1>4, <1>5, <3>1, <3>2
    <3>3. CASE q < p
      <4>1. b[q] < c[q] /\ a[q] = b[q] /\ a[q] = c[q]
        BY <1>4, <1>5, <1>8, <1>9, <2>1, <3>3
      <4>2. QED
        BY <1>1, <4>1
    <3>4. QED
      BY <1>4, <1>5, <3>2, <3>3
  <2>2. ASSUME q < m PROVE FALSE
    <3>1. a[q] = c[q]
      BY <1>5, <1>8, <1>9, <2>2
    <3>2. CASE q <= p
      BY <1>1, <1>4, <1>5, <3>1, <3>2
    <3>3. CASE p < q
      <4>1. a[p] < b[p] /\ b[p] = c[p] /\ a[p] = c[p]
        BY <1>4, <1>5, <1>8, <1>9, <2>2, <3>3
      <4>2. QED
        BY <1>1, <4>1
    <3>4. QED
      BY <1>4, <1>5, <3>2, <3>3
  <2>3. QED
    BY <1>4, <1>5, <1>8, <2>1, <2>2
<1>12. \A i \in 1 .. m - 1 : a[i] = b[i]
  BY <1>4, <1>8, <1>11
<1>13. a[m] <= b[m] /\ b[m] <= c[m]
  BY <1>1, <1>4, <1>5, <1>8, <1>11
<1>14. ASSUME NEW i \in 1 .. Bytes PROVE KeptOf(b[i], i) = KeptOf(network.first[i], i)
  <2>1. CASE i < m
    <3>1. i \in 1 .. m - 1
      BY <2>1, <1>8
    <3>2. b[i] = network.first[i]
      BY <1>9, <1>12, <3>1
    <3>3. QED
      BY <3>2
  <2>2. CASE i = m
    <3> DEFINE d == network.span[m]
    <3>1. d \in Nat \ {0} /\ a[m] \in Nat /\ b[m] \in Nat /\ c[m] \in Nat
      BY <1>1, <1>8
    <3>2. a[m] \div d <= b[m] \div d /\ b[m] \div d <= c[m] \div d
      BY <1>13, <3>1, QuotientIsMonotone
    <3>3. a[m] \div d = network.first[m] \div d /\ c[m] \div d = network.first[m] \div d
      BY <1>8 DEF InNetwork, KeptOf
    <3>4. b[m] \div d \in Nat /\ c[m] \div d \in Nat
      BY <3>1, Quotient
    <3> HIDE DEF d
    <3>5. b[m] \div d = network.first[m] \div d
      BY <3>2, <3>3, <3>4
    <3>6. QED
      BY <2>2, <3>5 DEF KeptOf, d
  <2>3. CASE i > m
    <3>1. network.span[i] = Base
      BY <1>8, <1>10, <2>3
    <3>2. b[i] \div Base = 0 /\ network.first[i] \div Base = 0
      BY <1>1, <1>2, SmallQuotient
    <3>3. QED
      BY <3>1, <3>2 DEF KeptOf
  <2>4. QED
    BY <1>8, <2>1, <2>2, <2>3
<1>15. QED
  BY <1>14 DEF InNetwork

-----------------------------------------------------------------------------
(* Sequences without repetition.                                             *)

LEMMA CountOfSequence ==
  ASSUME NEW S, NEW s \in Seq(S), IsInjective(s)
  PROVE  IsFiniteSet(ToSet(s)) /\ Cardinality(ToSet(s)) = Len(s)
<1>1. Len(s) \in Nat /\ DOMAIN s = 1 .. Len(s) /\ s \in [1 .. Len(s) -> ToSet(s)]
  BY DEF ToSet
<1>2. s \in Surjection(1 .. Len(s), ToSet(s)) /\ s \in Injection(1 .. Len(s), ToSet(s))
  BY <1>1 DEF Surjection, Injection, ToSet
<1>3. IsFiniteSet(1 .. Len(s)) /\ Cardinality(1 .. Len(s)) = Len(s)
  BY <1>1, FS_Interval
<1>4. QED
  BY <1>2, <1>3, FS_Surjection

LEMMA AppendFresh ==
  ASSUME NEW S, NEW s \in Seq(S), NEW x \in S
  PROVE  /\ Append(s, x) \in Seq(S)
         /\ Len(Append(s, x)) = Len(s) + 1
         /\ ToSet(Append(s, x)) = ToSet(s) \cup {x}
         /\ IsInjective(s) /\ x \notin ToSet(s) => IsInjective(Append(s, x))
<1>1. /\ Append(s, x) \in Seq(S)
      /\ Len(Append(s, x)) = Len(s) + 1 /\ Len(s) \in Nat
      /\ DOMAIN Append(s, x) = 1 .. Len(s) + 1 /\ DOMAIN s = 1 .. Len(s)
      /\ Append(s, x)[Len(s) + 1] = x
      /\ \A i \in 1 .. Len(s) : Append(s, x)[i] = s[i]
  OBVIOUS
<1>2. ToSet(Append(s, x)) = ToSet(s) \cup {x}
  BY <1>1 DEF ToSet
<1>3. ASSUME IsInjective(s), x \notin ToSet(s) PROVE IsInjective(Append(s, x))
  <2>1. \A i \in 1 .. Len(s) : s[i] # x
    BY <1>1, <1>3 DEF ToSet
  <2>2. QED
    BY <1>1, <1>3, <2>1 DEF IsInjective
<1>4. QED
  BY <1>1, <1>2, <1>3

LEMMA AddressesAreFinite ==
  IsFiniteSet(Addresses)
<1> DEFINE U == (1 .. Bytes) \X (0 .. Base - 1)
           g == [a \in Addresses |-> {<<i, a[i]>> : i \in 1 .. Bytes}]
<1>1. Bytes \in Nat \ {0} /\ Base \in Nat \ {0}
  BY TargetsAssumption
<1>2. IsFiniteSet(SUBSET U)
  <2>1. IsFiniteSet(1 .. Bytes) /\ IsFiniteSet(0 .. Base - 1)
    BY <1>1, FS_Interval
  <2>2. IsFiniteSet(U)
    BY <2>1, FS_Product
  <2> HIDE DEF U
  <2>3. QED
    BY <2>2, FS_SUBSET
<1>3. g \in [Addresses -> SUBSET U]
  BY AddressFacts
<1>4. ASSUME NEW a \in Addresses, NEW b \in Addresses, g[a] = g[b] PROVE a = b
  <2>1. ASSUME NEW i \in 1 .. Bytes PROVE a[i] = b[i]
    <3>1. <<i, a[i]>> \in g[b]
      BY <1>4
    <3>2. QED
      BY <3>1
  <2>2. QED
    BY <2>1, FirstDifference
<1>5. g \in Injection(Addresses, SUBSET U)
  <2> HIDE DEF U, g
  <2>1. QED
    BY <1>3, <1>4 DEF Injection, IsInjective
<1>6. QED
  BY <1>2, <1>5, FS_Injection

-----------------------------------------------------------------------------
(* The product has every host with every port and every name.                *)

LEMMA QuotientAndRest ==
  ASSUME NEW d \in Nat \ {0}, NEW q \in Nat, NEW r \in 0 .. d - 1
  PROVE  (q * d + r) \div d = q /\ (q * d + r) % d = r
<1> DEFINE x == q * d + r
           p == x \div d
<1>1. x \in Nat
  OBVIOUS
<1>2. p \in Nat /\ p * d <= x /\ x < (p + 1) * d
  BY <1>1, Quotient
<1>3. x = d * p + (x % d)
  BY <1>1
<1>4. x >= q * d /\ x < q * d + d
  OBVIOUS
<1> HIDE DEF x, p
<1>5. ASSUME p + 1 <= q PROVE FALSE
  <2>1. (p + 1) * d <= q * d
    BY <1>2, <1>5
  <2>2. QED
    BY <1>1, <1>2, <1>4, <2>1
<1>6. ASSUME q + 1 <= p PROVE FALSE
  <2>1. (q + 1) * d <= p * d
    BY <1>2, <1>6
  <2>2. QED
    BY <1>1, <1>2, <1>4, <2>1
<1>7. p = q
  BY <1>2, <1>5, <1>6
<1>8. x % d = r
  BY <1>1, <1>3, <1>7 DEF x
<1>9. QED
  BY <1>7, <1>8 DEF x, p

\* The number of three digits, the last two of bases p and n.
Number(a, b, c, p, n) == (a * p + b) * n + c

\* s is a sequence of its elements.
IsList(s) == Len(s) \in Nat /\ DOMAIN s = 1 .. Len(s)

LEMMA Shifted ==
  ASSUME NEW s, IsList(s)
  PROVE  ToSet(s) = {s[a + 1] : a \in 0 .. Len(s) - 1}
<1> DEFINE n == Len(s)
<1>1. n \in Nat /\ ToSet(s) = {s[i] : i \in 1 .. n}
  BY DEF IsList, ToSet
<1> HIDE DEF n
<1>2. ASSUME NEW i \in 1 .. n PROVE s[i] \in {s[a + 1] : a \in 0 .. n - 1}
  <2>1. i - 1 \in 0 .. n - 1 /\ (i - 1) + 1 = i
    BY <1>1
  <2>2. QED
    BY <2>1
<1>3. \A a \in 0 .. n - 1 : a + 1 \in 1 .. n
  BY <1>1
<1>4. QED
  BY <1>1, <1>2, <1>3 DEF n

LEMMA ProductIsExact ==
  ASSUME NEW H, NEW P, NEW N, IsList(H), IsList(P), IsList(N), Len(P) # 0, Len(N) # 0
  PROVE  /\ ToSet(Product(H, P, N)) = ToSet(H) \X ToSet(P) \X ToSet(N)
         /\ IsInjective(H) /\ IsInjective(P) /\ IsInjective(N) => IsInjective(Product(H, P, N))
<1> DEFINE R == Product(H, P, N)
           At(a, b, c) == <<H[a + 1], P[b + 1], N[c + 1]>>
<1>0. PICK h \in Nat, p \in Nat \ {0}, n \in Nat \ {0} : h = Len(H) /\ p = Len(P) /\ n = Len(N)
  BY DEF IsList
<1>1. ASSUME NEW a \in 0 .. h - 1, NEW b \in 0 .. p - 1, NEW c \in 0 .. n - 1,
             NEW x \in Nat, x = Number(a, b, c, p, n)
      PROVE  /\ x \in 0 .. h * (p * n) - 1
             /\ x \div (p * n) = a
             /\ (x \div n) % p = b
             /\ x % n = c
  <2>0. x = (a * p + b) * n + c
    BY <1>1 DEF Number
  <2>1. x \div n = a * p + b /\ x % n = c
    <3>1. a * p + b \in Nat
      OBVIOUS
    <3>2. QED
      BY <2>0, <3>1, QuotientAndRest
  <2>2. (x \div n) % p = b
    <3>1. (a * p + b) % p = b
      BY QuotientAndRest
    <3>2. QED
      BY <2>1, <3>1
  <2>3. p * n \in Nat \ {0}
    OBVIOUS
  <2>4. b * n + c \in 0 .. (p * n) - 1
    <3>1. (b + 1) * n <= p * n
      OBVIOUS
    <3>2. QED
      BY <3>1
  <2>5. x = a * (p * n) + (b * n + c)
    BY <2>0
  <2>6. x \div (p * n) = a
    BY <2>3, <2>4, <2>5, QuotientAndRest
  <2>7. x < h * (p * n)
    <3> DEFINE m == p * n
    <3>1. x < a * m + m
      BY <2>3, <2>4, <2>5
    <3> HIDE DEF m
    <3>2. (a + 1) * m <= h * m
      BY <2>3 DEF m
    <3>3. QED
      BY <2>3, <3>1, <3>2 DEF m
  <2>8. QED
    BY <2>1, <2>2, <2>3, <2>4, <2>5, <2>6, <2>7
<1>2. ASSUME NEW x \in 0 .. h * (p * n) - 1
      PROVE  \E a \in 0 .. h - 1, b \in 0 .. p - 1, c \in 0 .. n - 1 : x = Number(a, b, c, p, n)
  <2> DEFINE y == x \div n
             c == x % n
             a == y \div p
             b == y % p
  <2>0. p * n \in Nat \ {0} /\ h * (p * n) \in Nat /\ x \in Nat /\ x < h * (p * n)
    OBVIOUS
  <2>1. y \in Nat /\ c \in 0 .. n - 1 /\ x = n * y + c
    BY <2>0, Quotient
  <2> HIDE DEF y, c
  <2>2. a \in Nat /\ b \in 0 .. p - 1 /\ y = p * a + b
    BY <2>1, Quotient
  <2> HIDE DEF a, b
  <2>3. x = (a * p + b) * n + c
    BY <2>1, <2>2
  <2>4. ASSUME h <= a PROVE FALSE
    <3> DEFINE m == p * n
    <3>1. m \in Nat \ {0} /\ x \in Nat /\ x < h * m
      BY <2>0
    <3>2. x = a * m + (b * n + c) /\ b * n + c \in Nat
      BY <2>1, <2>2, <2>3
    <3> HIDE DEF m
    <3>3. h * m <= a * m /\ h * m \in Nat /\ a * m \in Nat
      BY <2>2, <2>4, <3>1
    <3>4. QED
      BY <3>1, <3>2, <3>3
  <2>5. a \in 0 .. h - 1
    BY <2>2, <2>4
  <2>6. x = Number(a, b, c, p, n)
    BY <2>3 DEF Number
  <2>7. QED
    BY <2>1, <2>2, <2>5, <2>6
<1>3. /\ DOMAIN R = 1 .. h * (p * n)
      /\ \A k \in DOMAIN R :
           R[k] = At((k - 1) \div (p * n), ((k - 1) \div n) % p, (k - 1) % n)
  BY <1>0 DEF Product
<1> HIDE DEF R
<1>4. ASSUME NEW a \in 0 .. h - 1, NEW b \in 0 .. p - 1, NEW c \in 0 .. n - 1,
             NEW x \in Nat, x = Number(a, b, c, p, n)
      PROVE  x + 1 \in DOMAIN R /\ R[x + 1] = At(a, b, c)
  <2>1. /\ x \in 0 .. h * (p * n) - 1
        /\ x \div (p * n) = a
        /\ (x \div n) % p = b
        /\ x % n = c
    BY <1>4, <1>1
  <2>2. h * (p * n) \in Nat
    OBVIOUS
  <2>3. x + 1 \in 1 .. h * (p * n) /\ (x + 1) - 1 = x
    BY <2>1, <2>2
  <2>4. QED
    BY <1>3, <2>1, <2>3
<1>5. ASSUME NEW k \in DOMAIN R
      PROVE  \E a \in 0 .. h - 1, b \in 0 .. p - 1, c \in 0 .. n - 1 :
               k - 1 = Number(a, b, c, p, n) /\ k - 1 \in Nat
  <2>1. PICK x \in 0 .. h * (p * n) - 1 : x = k - 1
    <3>1. h * (p * n) \in Nat
      OBVIOUS
    <3>2. QED
      BY <1>3, <3>1
  <2>2. \E a \in 0 .. h - 1, b \in 0 .. p - 1, c \in 0 .. n - 1 : x = Number(a, b, c, p, n)
    BY <1>2
  <2>3. x \in Nat
    BY <2>1
  <2>4. QED
    BY <2>1, <2>2, <2>3
<1>6. ToSet(R) = {At(a, b, c) : a \in 0 .. h - 1, b \in 0 .. p - 1, c \in 0 .. n - 1}
  <2>1. ASSUME NEW k \in DOMAIN R
        PROVE  R[k] \in {At(a, b, c) : a \in 0 .. h - 1, b \in 0 .. p - 1, c \in 0 .. n - 1}
    <3>1. PICK a \in 0 .. h - 1, b \in 0 .. p - 1, c \in 0 .. n - 1 :
                 k - 1 = Number(a, b, c, p, n) /\ k - 1 \in Nat
      BY <1>5
    <3>2. (k - 1) + 1 \in DOMAIN R /\ R[(k - 1) + 1] = At(a, b, c)
      BY <1>4, <3>1
    <3>3. (k - 1) + 1 = k
      BY <1>3
    <3> HIDE DEF At
    <3>4. QED
      BY <3>2, <3>3
  <2>2. ASSUME NEW a \in 0 .. h - 1, NEW b \in 0 .. p - 1, NEW c \in 0 .. n - 1
        PROVE  At(a, b, c) \in {R[k] : k \in DOMAIN R}
    <3>1. PICK x \in Nat : x = Number(a, b, c, p, n)
      BY DEF Number
    <3>2. x + 1 \in DOMAIN R /\ R[x + 1] = At(a, b, c)
      BY <1>4, <3>1
    <3> HIDE DEF At
    <3>3. QED
      BY <3>2
  <2> HIDE DEF At
  <2>3. QED
    BY <2>1, <2>2 DEF ToSet
<1>7. /\ ToSet(H) = {H[a + 1] : a \in 0 .. h - 1}
      /\ ToSet(P) = {P[b + 1] : b \in 0 .. p - 1}
      /\ ToSet(N) = {N[c + 1] : c \in 0 .. n - 1}
  BY <1>0, Shifted
<1>8. ToSet(R) = ToSet(H) \X ToSet(P) \X ToSet(N)
  <2>1. ASSUME NEW u \in ToSet(H), NEW v \in ToSet(P), NEW w \in ToSet(N)
        PROVE  <<u, v, w>> \in ToSet(R)
    <3>1. PICK a \in 0 .. h - 1 : u = H[a + 1]
      BY <1>7
    <3>2. PICK b \in 0 .. p - 1 : v = P[b + 1]
      BY <1>7
    <3>3. PICK c \in 0 .. n - 1 : w = N[c + 1]
      BY <1>7
    <3>4. QED
      BY <1>6, <3>1, <3>2, <3>3
  <2>2. ASSUME NEW t \in ToSet(R)
        PROVE  t \in ToSet(H) \X ToSet(P) \X ToSet(N)
    <3>1. PICK a \in 0 .. h - 1, b \in 0 .. p - 1, c \in 0 .. n - 1 : t = At(a, b, c)
      BY <1>6
    <3>2. H[a + 1] \in ToSet(H) /\ P[b + 1] \in ToSet(P) /\ N[c + 1] \in ToSet(N)
      BY <1>7
    <3>3. QED
      BY <3>1, <3>2
  <2>3. QED
    BY <2>1, <2>2
<1>9. ASSUME IsInjective(H), IsInjective(P), IsInjective(N), NEW k \in DOMAIN R, NEW l \in DOMAIN R,
             R[k] = R[l]
      PROVE  k = l
  <2>1. PICK a \in 0 .. h - 1, b \in 0 .. p - 1, c \in 0 .. n - 1 :
               k - 1 = Number(a, b, c, p, n) /\ k - 1 \in Nat
    BY <1>5
  <2>2. PICK d \in 0 .. h - 1, e \in 0 .. p - 1, f \in 0 .. n - 1 :
               l - 1 = Number(d, e, f, p, n) /\ l - 1 \in Nat
    BY <1>5
  <2>3. k \in Int /\ l \in Int
    BY <1>3
  <2>4. At(a, b, c) = At(d, e, f)
    <3>1. R[(k - 1) + 1] = At(a, b, c)
      BY <1>4, <2>1
    <3>2. R[(l - 1) + 1] = At(d, e, f)
      BY <1>4, <2>2
    <3>3. (k - 1) + 1 = k /\ (l - 1) + 1 = l
      BY <2>3
    <3> HIDE DEF At
    <3>4. QED
      BY <1>9, <3>1, <3>2, <3>3
  <2>5. H[a + 1] = H[d + 1] /\ P[b + 1] = P[e + 1] /\ N[c + 1] = N[f + 1]
    BY <2>4
  <2>6. a = d /\ b = e /\ c = f
    BY <1>0, <1>9, <2>5 DEF IsInjective, IsList
  <2>7. QED
    BY <2>1, <2>2, <2>3, <2>6
<1>10. QED
  BY <1>8, <1>9 DEF IsInjective, R

-----------------------------------------------------------------------------
(* The invariant.                                                            *)

\* The variables that are assigned, and the sequences as sequences.
Typed ==
  /\ portList \in PortLists /\ sniList \in SNILists /\ network \in Networks
  /\ form \in {"blank", "bad", "name", "ip", "cidr"}
  /\ inline \in {0, 1}
  /\ allowLargeRange \in BOOLEAN
  /\ stage \in {"ports", "target", "expand", "done"}
  /\ item \in Nat \ {0} /\ next \in Nat
  /\ ports \in Seq(Nat)
  /\ ip \in Addresses
  /\ addresses \in Seq(Addresses)

\* What ParsePorts passes over: a blank item, or a port or a range within its bounds.
Good(x) ==
  \/ x = BlankItem
  \/ /\ Pair(x)
     /\ 1 <= x[1] /\ x[1] <= x[2] /\ x[2] <= MaxPort
     /\ x[2] - x[1] <= MaxRange

\* Port n is one of item i, or one of the range that is being added.
Reached(n) ==
  \/ \E i \in 1 .. item - 1 : Pair(portList[i]) /\ n \in portList[i][1] .. portList[i][2]
  \/ next > 0 /\ n \in portList[item][1] .. next - 1

\* While the list is read the ports are those of the items that were, each once.
PortsRead ==
  stage = "ports" =>
    /\ item <= Len(portList) + 1
    /\ next > 0 =>
         /\ item <= Len(portList)
         /\ Pair(portList[item])
         /\ 1 <= portList[item][1] /\ portList[item][1] <= next /\ next <= portList[item][2]
         /\ portList[item][2] - portList[item][1] <= MaxRange
    /\ \A i \in 1 .. item - 1 : Good(portList[i])
    /\ ToSet(ports) = {n \in 1 .. MaxPort : Reached(n)}
    /\ IsInjective(ports)

Asked == IF portList = <<>> THEN {1} ELSE PortsOf(portList)

\* Then they are the ports of a list that is not refused.
PortsKnown ==
  stage \in {"target", "expand"} =>
    /\ ~PortsRefused
    /\ ToSet(ports) = Asked
    /\ IsInjective(ports)

\* The walk has the addresses of the network before the one it is at, or all of them; or
\* it has come round.
Ahead ==
  /\ InNetwork(ip)
  /\ ToSet(addresses) = {a \in Network : Before(a, ip)}
  /\ IsInjective(addresses)
Ended ==
  /\ ~InNetwork(ip)
  /\ ToSet(addresses) = Network
  /\ IsInjective(addresses)
Wrapped == allowLargeRange /\ Network = Addresses

Walked ==
  /\ stage \in {"ports", "target"} => addresses = <<>> /\ ip = network.first
  /\ stage = "expand" =>
       /\ form = "cidr" /\ inline = 0
       /\ ~allowLargeRange => Len(addresses) <= Limit
       /\ Ahead \/ Ended \/ Wrapped

Pending == stage # "done" => targets = <<>> /\ failed = FALSE

ParseIInv == Typed /\ PortsRead /\ PortsKnown /\ Walked /\ Pending /\ ParseIsExact

-----------------------------------------------------------------------------
(* The parts of the argument.                                                *)

\* For these reasons only an argument is refused.
Reasons ==
  \/ PortsRefused
  \/ form = "bad"
  \/ HostRefused
  \/ form \in {"name", "ip", "cidr"} /\ SNIRefused
  \/ form = "cidr" /\ inline # 0
  \/ form = "cidr" /\ ~allowLargeRange /\ Cardinality(Network) > Limit

LEMMA ArgumentIsKept ==
  ASSUME UNCHANGED argument
  PROVE  /\ PortsRefused' = PortsRefused /\ Asked' = Asked /\ Network' = Network
         /\ HostRefused' = HostRefused /\ SNIRefused' = SNIRefused
         /\ ServerNames' = ServerNames /\ Hosts' = Hosts /\ Reasons' = Reasons
<1> USE DEF argument
<1>1. PortsRefused' = PortsRefused /\ Asked' = Asked
  BY DEF PortsRefused, Asked
<1>2. Network' = Network
  BY DEF Network, InNetwork, KeptOf
<1>3. HostRefused' = HostRefused /\ SNIRefused' = SNIRefused
  BY DEF HostRefused, SNIRefused
<1>4. ServerNames' = ServerNames
  BY DEF ServerNames
<1>5. Hosts' = Hosts
  BY <1>2 DEF Hosts
<1>6. Reasons' = Reasons
  BY <1>1, <1>2, <1>3 DEF Reasons
<1>7. QED
  BY <1>1, <1>2, <1>3, <1>4, <1>5, <1>6

LEMMA ItemKinds ==
  ASSUME portList \in PortLists
  PROVE  /\ Len(portList) \in Nat /\ DOMAIN portList = 1 .. Len(portList)
         /\ portList = <<>> <=> Len(portList) = 0
         /\ \A i \in 1 .. Len(portList) :
              \/ portList[i] = BlankItem /\ ~Pair(portList[i]) /\ portList[i] # BadItem
              \/ portList[i] = BadItem /\ ~Pair(portList[i]) /\ portList[i] # BlankItem
              \/ /\ Pair(portList[i]) /\ portList[i] # BlankItem /\ portList[i] # BadItem
                 /\ portList[i][1] \in Nat /\ portList[i][2] \in Nat
<1> DEFINE Kinds == {BlankItem, BadItem} \cup Nat \X Nat
<1>1. portList \in Seq(Kinds)
  BY TargetsAssumption
<1>2. ASSUME NEW x \in Kinds
      PROVE  \/ x = BlankItem /\ ~Pair(x) /\ x # BadItem
             \/ x = BadItem /\ ~Pair(x) /\ x # BlankItem
             \/ Pair(x) /\ x # BlankItem /\ x # BadItem /\ x[1] \in Nat /\ x[2] \in Nat
  <2>1. Len(BlankItem) = 0 /\ Len(BadItem) = 1
    BY DEF BlankItem, BadItem
  <2>2. x \in Nat \X Nat => Len(x) = 2 /\ x[1] \in Nat /\ x[2] \in Nat
    OBVIOUS
  <2>3. QED
    BY <2>1, <2>2 DEF Pair
<1> HIDE DEF Kinds
<1>3. \A i \in 1 .. Len(portList) : portList[i] \in Kinds
  BY <1>1
<1>4. QED
  BY <1>1, <1>2, <1>3

LEMMA NamesAreListed ==
  ASSUME sniList \in SNILists
  PROVE  IsList(ServerNames) /\ Len(ServerNames) # 0
<1>1. sniList \in Seq(ToSet(sniList))
  BY TargetsAssumption
<1>2. CASE sniList # <<>>
  <2>1. Len(sniList) \in Nat \ {0} /\ DOMAIN sniList = 1 .. Len(sniList)
    BY <1>1, <1>2
  <2> DEFINE f == [i \in DOMAIN sniList |-> SNI(sniList[i])]
             S == {SNI(sniList[i]) : i \in DOMAIN sniList}
  <2>2. f \in [1 .. Len(sniList) -> S]
    BY <2>1
  <2> HIDE DEF f, S
  <2>3. Len(f) = Len(sniList) /\ DOMAIN f = 1 .. Len(sniList)
    BY <2>1, <2>2
  <2>4. ServerNames = f
    BY <1>2 DEF ServerNames, f
  <2>5. QED
    BY <2>1, <2>3, <2>4 DEF IsList
<1>3. CASE sniList = <<>>
  <2>1. \E x : ServerNames = <<x>>
    BY <1>3 DEF ServerNames
  <2>2. QED
    BY <2>1 DEF IsList
<1>4. QED
  BY <1>2, <1>3

-----------------------------------------------------------------------------
(* The steps.                                                                *)

LEMMA FailStep ==
  ASSUME ParseIInv, stage # "done", Fail, Reasons
  PROVE  ParseIInv'
<1>1. Reasons' /\ UNCHANGED argument
  BY ArgumentIsKept DEF Fail
<1>2. ParseIsExact'
  BY <1>1 DEF ParseIInv, Pending, Fail, ParseIsExact, Reasons
<1>3. Typed'
  BY DEF ParseIInv, Typed, Fail, argument
<1>4. (PortsRead /\ PortsKnown /\ Walked /\ Pending)'
  BY DEF Fail, PortsRead, PortsKnown, Walked, Pending
<1>5. QED
  BY <1>2, <1>3, <1>4 DEF ParseIInv

LEMMA PortsAreAsked ==
  ASSUME Typed, PortsKnown, stage \in {"target", "expand"}
  PROVE  /\ IsList(PortsOfHost) /\ Len(PortsOfHost) # 0 /\ IsInjective(PortsOfHost)
         /\ ToSet(PortsOfHost) = IF inline # 0 THEN {inline}
                                 ELSE IF portList = <<>> THEN {1} ELSE PortsOf(portList)
<1>1. CASE inline # 0
  BY <1>1 DEF PortsOfHost, IsList, IsInjective, ToSet
<1>2. CASE inline = 0
  <2>1. Asked # {}
    BY DEF PortsKnown, PortsRefused, Asked
  <2>2. Len(ports) \in Nat /\ DOMAIN ports = 1 .. Len(ports)
    BY DEF Typed
  <2>3. Len(ports) # 0
    BY <2>1, <2>2 DEF PortsKnown, ToSet
  <2>4. QED
    BY <1>2, <2>2, <2>3 DEF PortsOfHost, PortsKnown, IsList, Asked
<1>3. QED
  BY <1>1, <1>2

LEMMA ReturnStep ==
  ASSUME ParseIInv, stage \in {"target", "expand"}, form # "blank", ~Reasons,
         NEW hs, IsList(hs), IsInjective(hs), ToSet(hs) = Hosts,
         Return(Product(hs, PortsOfHost, ServerNames))
  PROVE  ParseIInv'
<1>1. /\ Reasons' = Reasons /\ ServerNames' = ServerNames /\ Hosts' = Hosts
      /\ UNCHANGED <<argument, failed>> /\ stage' = "done"
  BY ArgumentIsKept DEF Return
<1>2. Typed /\ PortsKnown /\ failed = FALSE
  BY DEF ParseIInv, Pending
<1>3. IsList(ServerNames) /\ Len(ServerNames) # 0
  BY <1>2, NamesAreListed DEF Typed
<1> DEFINE Q == IF inline # 0 THEN {inline}
                ELSE IF portList = <<>> THEN {1} ELSE PortsOf(portList)
<1>4. /\ IsList(PortsOfHost) /\ Len(PortsOfHost) # 0 /\ IsInjective(PortsOfHost)
      /\ ToSet(PortsOfHost) = Q
  BY <1>2, PortsAreAsked
<1>5. /\ ToSet(targets') = Hosts \X Q \X ToSet(ServerNames)
      /\ IsInjective(ServerNames) => IsInjective(targets')
  BY <1>3, <1>4, ProductIsExact DEF Return
<1>6. Q' = Q
  BY <1>1 DEF argument
<1>7. ParseIsExact'
  <2>1. (ToSet(targets) = Hosts \X Q \X ToSet(ServerNames))'
    BY <1>1, <1>5, <1>6
  <2>2. ~failed' /\ ~Reasons' /\ form' # "blank"
    BY <1>1, <1>2 DEF argument
  <2>3. (IsInjective(ServerNames) => IsInjective(targets))'
    BY <1>1, <1>5
  <2>4. QED
    BY <2>1, <2>2, <2>3 DEF ParseIsExact, Reasons
<1>8. Typed'
  BY <1>1, <1>2 DEF Typed, Return, argument
<1>9. (PortsRead /\ PortsKnown /\ Walked /\ Pending)'
  BY <1>1 DEF PortsRead, PortsKnown, Walked, Pending
<1>10. QED
  BY <1>7, <1>8, <1>9 DEF ParseIInv

LEMMA ParseInitIInv ==
  ASSUME ParseInit
  PROVE  ParseIInv
<1>1. Typed
  BY NetworkFacts DEF ParseInit, Typed
<1>2. PortsRead
  <2>1. Len(portList) \in Nat
    BY <1>1, ItemKinds DEF Typed
  <2>2. ToSet(ports) = {} /\ IsInjective(ports)
    BY DEF ParseInit, ToSet, IsInjective
  <2>3. \A n : ~Reached(n)
    BY DEF ParseInit, Reached
  <2>4. QED
    BY <2>1, <2>2, <2>3 DEF ParseInit, PortsRead
<1>3. PortsKnown /\ Walked /\ Pending /\ ParseIsExact
  BY DEF ParseInit, PortsKnown, Walked, Pending, ParseIsExact
<1>4. QED
  BY <1>1, <1>2, <1>3 DEF ParseIInv

LEMMA SkipItemStep ==
  ASSUME ParseIInv, SkipItem
  PROVE  ParseIInv'
<1> USE DEF SkipItem, AtItem
<1>1. /\ Len(portList) \in Nat /\ ~Pair(portList[item]) /\ item \in Nat \ {0} /\ next = 0
      /\ stage = "ports" /\ stage' = "ports"
  BY ItemKinds DEF ParseIInv, Typed, PortsRead
<1>2. Typed'
  BY DEF ParseIInv, Typed, argument
<1>3. PortsRead'
  <2>1. \A n : Reached(n)' <=> Reached(n)
    BY <1>1 DEF Reached, argument
  <2>2. \A i \in 1 .. item' - 1 : Good(portList[i])
    BY <1>1 DEF ParseIInv, PortsRead, Good
  <2>3. QED
    BY <1>1, <2>1, <2>2 DEF ParseIInv, PortsRead, argument
<1>4. (PortsKnown /\ Walked /\ Pending /\ ParseIsExact)'
  BY <1>1 DEF ParseIInv, PortsKnown, Walked, Pending, ParseIsExact, argument
<1>5. QED
  BY <1>2, <1>3, <1>4 DEF ParseIInv

LEMMA ItemRefusedStep ==
  ASSUME ParseIInv, ItemRefused
  PROVE  ParseIInv'
<1>1. item \in DOMAIN portList
  BY ItemKinds DEF ParseIInv, Typed, ItemRefused, AtItem
<1>2. PortsRefused
  BY <1>1 DEF ItemRefused, PortsRefused
<1>3. QED
  BY <1>2, FailStep DEF ItemRefused, AtItem, Reasons

LEMMA BeginItemStep ==
  ASSUME ParseIInv, BeginItem
  PROVE  ParseIInv'
<1> DEFINE x == portList[item]
<1>1. /\ item \in DOMAIN portList /\ item \in Nat \ {0} /\ item <= Len(portList)
      /\ Len(portList) \in Nat
      /\ x[1] \in Nat /\ x[2] \in Nat /\ Pair(x) /\ next = 0 /\ stage = "ports"
      /\ x[1] <= x[2] /\ x[2] - x[1] <= MaxRange
  BY ItemKinds DEF ParseIInv, Typed, BeginItem, AtItem
<1>2. CASE x[1] = 0
  <2>1. 0 \in x[1] .. x[2]
    BY <1>1, <1>2
  <2>2. 0 \in PortsOf(portList)
    BY <1>1, <2>1 DEF PortsOf
  <2>3. PortsRefused
    BY <2>2, TargetsAssumption DEF PortsRefused
  <2>4. QED
    BY <1>1, <1>2, <2>3, FailStep DEF BeginItem, Reasons
<1>3. CASE x[1] # 0
  <2>1. /\ next' = x[1] /\ stage' = "ports"
        /\ UNCHANGED <<argument, item, ports, ip, addresses, targets, failed>>
    BY <1>1, <1>3 DEF BeginItem
  <2>2. Typed'
    BY <1>1, <2>1 DEF ParseIInv, Typed, argument
  <2>3. PortsRead'
    <3>1. \A n : Reached(n)' <=> Reached(n)
      BY <1>1, <1>3, <2>1 DEF Reached, argument
    <3>2. QED
      BY <1>1, <1>3, <2>1, <3>1 DEF ParseIInv, PortsRead, argument
  <2>4. (PortsKnown /\ Walked /\ Pending /\ ParseIsExact)'
    BY <1>1, <2>1 DEF ParseIInv, PortsKnown, Walked, Pending, ParseIsExact, argument
  <2>5. QED
    BY <2>2, <2>3, <2>4 DEF ParseIInv
<1>4. QED
  BY <1>2, <1>3

LEMMA AddPortStep ==
  ASSUME ParseIInv, AddPort
  PROVE  ParseIInv'
<1> DEFINE x == portList[item]
<1>1. /\ item \in DOMAIN portList /\ item \in Nat \ {0} /\ item <= Len(portList)
      /\ Len(portList) \in Nat /\ MaxPort \in Nat
      /\ x[1] \in Nat /\ x[2] \in Nat /\ Pair(x) /\ stage = "ports"
      /\ next \in Nat \ {0} /\ next <= MaxPort
      /\ 1 <= x[1] /\ x[1] <= next /\ next <= x[2] /\ x[2] - x[1] <= MaxRange
  BY ItemKinds, TargetsAssumption DEF ParseIInv, Typed, PortsRead, AddPort, AtItem
<1>2. UNCHANGED <<argument, stage, ip, addresses, targets, failed>> /\ ports' = Added
  BY DEF AddPort
<1>3. ports \in Seq(Nat) /\ IsInjective(ports) /\ ToSet(ports) = {n \in 1 .. MaxPort : Reached(n)}
  BY <1>1 DEF ParseIInv, Typed, PortsRead
<1>4. ports' \in Seq(Nat) /\ IsInjective(ports') /\ ToSet(ports') = ToSet(ports) \cup {next}
  <2>1. Contains(ports, next) <=> next \in ToSet(ports)
    BY <1>3 DEF Contains, ToSet
  <2>2. QED
    BY <1>1, <1>2, <1>3, <2>1, AppendFresh DEF Added
<1>5. CASE next = x[2]
  <2>1. next' = 0 /\ item' = item + 1
    BY <1>5 DEF AddPort
  <2>2. \A n \in Nat : Reached(n)' <=> Reached(n) \/ n = next
    <3>1. \A n \in Nat : n \in x[1] .. x[2] <=> n \in x[1] .. next - 1 \/ n = next
      BY <1>1, <1>5
    <3>2. \A i : i \in 1 .. item' - 1 <=> i \in 1 .. item - 1 \/ i = item
      BY <1>1, <2>1
    <3>3. QED
      BY <1>1, <1>2, <2>1, <3>1, <3>2 DEF Reached, argument
  <2>3. ToSet(ports') = {n \in 1 .. MaxPort : Reached(n)'}
    BY <1>1, <1>3, <1>4, <2>2
  <2>4. \A i \in 1 .. item' - 1 : Good(portList[i])
    BY <1>1, <1>5, <2>1 DEF ParseIInv, PortsRead, Good
  <2>5. PortsRead'
    BY <1>1, <1>2, <1>4, <2>1, <2>3, <2>4 DEF PortsRead, argument
  <2>6. Typed'
    BY <1>1, <1>2, <1>4, <2>1 DEF ParseIInv, Typed, argument
  <2>7. (PortsKnown /\ Walked /\ Pending /\ ParseIsExact)'
    BY <1>1, <1>2 DEF ParseIInv, PortsKnown, Walked, Pending, ParseIsExact, argument
  <2>8. QED
    BY <2>5, <2>6, <2>7 DEF ParseIInv
<1>6. CASE next # x[2]
  <2>1. next' = next + 1 /\ item' = item
    BY <1>6 DEF AddPort
  <2>2. \A n \in Nat : Reached(n)' <=> Reached(n) \/ n = next
    <3>1. \A n \in Nat : n \in x[1] .. next' - 1 <=> n \in x[1] .. next - 1 \/ n = next
      BY <1>1, <2>1
    <3>2. QED
      BY <1>1, <1>2, <2>1, <3>1 DEF Reached, argument
  <2>3. ToSet(ports') = {n \in 1 .. MaxPort : Reached(n)'}
    BY <1>1, <1>3, <1>4, <2>2
  <2>4. PortsRead'
    <3>1. UNCHANGED portList /\ stage' = "ports" /\ item <= Len(portList) + 1
          /\ x[1] <= next' /\ next' <= x[2]
      BY <1>1, <1>2, <1>6, <2>1 DEF argument
    <3>2. \A i \in 1 .. item - 1 : Good(portList[i])
      BY <1>1 DEF ParseIInv, PortsRead
    <3>3. QED
      BY <1>1, <1>4, <2>1, <2>3, <3>1, <3>2 DEF PortsRead
  <2>5. Typed'
    BY <1>1, <1>2, <1>4, <2>1 DEF ParseIInv, Typed, argument
  <2>6. (PortsKnown /\ Walked /\ Pending /\ ParseIsExact)'
    BY <1>1, <1>2 DEF ParseIInv, PortsKnown, Walked, Pending, ParseIsExact, argument
  <2>7. QED
    BY <2>4, <2>5, <2>6 DEF ParseIInv
<1>7. QED
  BY <1>5, <1>6

LEMMA PortOutsideStep ==
  ASSUME ParseIInv, PortOutside
  PROVE  ParseIInv'
<1> DEFINE x == portList[item]
<1>1. /\ item \in DOMAIN portList /\ stage = "ports"
      /\ x[1] \in Nat /\ x[2] \in Nat /\ Pair(x)
      /\ next \in Nat /\ MaxPort \in Nat /\ MaxPort < next /\ x[1] <= x[2] /\ next <= x[2]
  BY ItemKinds, TargetsAssumption DEF ParseIInv, Typed, PortsRead, PortOutside, AtItem
<1>2. x[2] \in x[1] .. x[2] /\ x[2] \notin 1 .. MaxPort
  BY <1>1
<1>3. x[2] \in PortsOf(portList)
  BY <1>1, <1>2 DEF PortsOf
<1>4. PortsRefused
  BY <1>2, <1>3 DEF PortsRefused
<1>5. QED
  BY <1>1, <1>4, FailStep DEF PortOutside, Reasons

LEMMA PortsDoneStep ==
  ASSUME ParseIInv, PortsDone
  PROVE  ParseIInv'
<1>1. /\ Len(portList) \in Nat /\ DOMAIN portList = 1 .. Len(portList) /\ MaxPort \in Nat
      /\ portList = <<>> <=> Len(portList) = 0
      /\ stage = "ports" /\ item = Len(portList) + 1 /\ next = 0
      /\ ports \in Seq(Nat) /\ IsInjective(ports)
      /\ ToSet(ports) = {n \in 1 .. MaxPort : Reached(n)}
      /\ \A i \in 1 .. Len(portList) : Good(portList[i])
  BY ItemKinds, TargetsAssumption DEF ParseIInv, Typed, PortsRead, PortsDone
<1>2. \A i \in DOMAIN portList :
        \/ portList[i] = BlankItem /\ ~Pair(portList[i]) /\ portList[i] # BadItem
        \/ /\ Pair(portList[i]) /\ portList[i] # BadItem
           /\ portList[i][1] \in Nat /\ portList[i][2] \in Nat
           /\ 1 <= portList[i][1] /\ portList[i][1] <= portList[i][2]
           /\ portList[i][2] <= MaxPort /\ portList[i][2] - portList[i][1] <= MaxRange
  BY <1>1, ItemKinds DEF Good, ParseIInv, Typed
<1>3. ToSet(ports) = PortsOf(portList)
  <2>1. \A n : Reached(n) <=> n \in PortsOf(portList)
    BY <1>1 DEF Reached, PortsOf
  <2>2. PortsOf(portList) \subseteq 1 .. MaxPort
    BY <1>1, <1>2 DEF PortsOf
  <2>3. QED
    BY <1>1, <2>1, <2>2
<1>4. PortsOf(portList) \subseteq 1 .. MaxPort
  BY <1>1, <1>3
<1>5. ports = <<>> <=> PortsOf(portList) = {}
  <2>1. ports = <<>> <=> Len(ports) = 0
    BY <1>1
  <2>2. Len(ports) = 0 <=> ToSet(ports) = {}
    BY <1>1 DEF ToSet
  <2>3. QED
    BY <1>3, <2>1, <2>2
<1>6. PortsRefused <=> portList # <<>> /\ ports = <<>>
  <2>1. ~\E i \in DOMAIN portList :
           \/ portList[i] = BadItem
           \/ Pair(portList[i]) /\ ( \/ portList[i][2] < portList[i][1]
                                     \/ portList[i][2] - portList[i][1] > MaxRange)
    BY <1>2, TargetsAssumption
  <2>2. PortsRefused <=> portList # <<>> /\ PortsOf(portList) = {}
    BY <1>4, <2>1, Zenon DEF PortsRefused
  <2>3. QED
    BY <1>5, <2>2
<1>7. CASE portList # <<>> /\ ports = <<>>
  BY <1>1, <1>6, <1>7, FailStep DEF PortsDone, Reasons
<1>8. CASE ~(portList # <<>> /\ ports = <<>>)
  <2>1. /\ stage' = "target" /\ ports' = IF portList = <<>> THEN <<1>> ELSE ports
        /\ UNCHANGED <<argument, item, next, ip, addresses, targets, failed>>
    BY <1>8 DEF PortsDone
  <2>2. ports' \in Seq(Nat) /\ IsInjective(ports') /\ ToSet(ports') = Asked
    BY <1>1, <1>3, <2>1 DEF Asked, ToSet, IsInjective
  <2>3. Typed'
    BY <2>1, <2>2 DEF ParseIInv, Typed, argument
  <2>4. PortsKnown'
    BY <1>6, <1>8, <2>1, <2>2, ArgumentIsKept DEF PortsKnown
  <2>5. (PortsRead /\ Walked /\ Pending /\ ParseIsExact)'
    BY <1>1, <2>1 DEF ParseIInv, PortsRead, Walked, Pending, ParseIsExact, argument
  <2>6. QED
    BY <2>3, <2>4, <2>5 DEF ParseIInv
<1>9. QED
  BY <1>7, <1>8

LEMMA ParseNothingStep ==
  ASSUME ParseIInv, ParseNothing
  PROVE  ParseIInv'
<1>1. /\ stage = "target" /\ stage' = "done" /\ targets' = <<>> /\ form = "blank"
      /\ failed = FALSE /\ ~PortsRefused /\ UNCHANGED <<argument, failed>>
  BY DEF ParseIInv, Pending, PortsKnown, ParseNothing, Return
<1>2. ~Reasons /\ ~Reasons'
  BY <1>1, ArgumentIsKept DEF Reasons, HostRefused
<1>3. ParseIsExact'
  BY <1>1, <1>2 DEF ParseIsExact, Reasons, argument
<1>4. Typed'
  BY DEF ParseIInv, Typed, ParseNothing, Return, argument
<1>5. (PortsRead /\ PortsKnown /\ Walked /\ Pending)'
  BY <1>1 DEF PortsRead, PortsKnown, Walked, Pending
<1>6. QED
  BY <1>3, <1>4, <1>5 DEF ParseIInv

LEMMA ParseRefusedStep ==
  ASSUME ParseIInv, ParseRefused
  PROVE  ParseIInv'
  BY FailStep DEF ParseRefused, Reasons

LEMMA ParseHostStep ==
  ASSUME ParseIInv, ParseHost
  PROVE  ParseIInv'
<1> DEFINE x == IF form = "name" THEN normalizeHost(host) ELSE AnIP
<1>1. IsList(<<x>>) /\ IsInjective(<<x>>) /\ ToSet(<<x>>) = {x}
  BY DEF IsList, IsInjective, ToSet
<1>2. Hosts = {x}
  BY DEF Hosts, ParseHost
<1>3. stage = "target" /\ form \in {"name", "ip"} /\ ~HostRefused /\ ~SNIRefused
  BY DEF ParseHost
<1>4. ~Reasons
  BY <1>3 DEF ParseIInv, PortsKnown, Reasons
<1>5. Return(Product(<<x>>, PortsOfHost, ServerNames))
  BY DEF ParseHost
<1> HIDE DEF x
<1>6. QED
  BY <1>1, <1>2, <1>3, <1>4, <1>5, ReturnStep

LEMMA ParseCIDRStep ==
  ASSUME ParseIInv, ParseCIDR
  PROVE  ParseIInv'
<1>1. /\ stage = "target" /\ stage' = "expand" /\ form = "cidr" /\ inline = 0
      /\ UNCHANGED <<argument, item, next, ports, ip, addresses, targets, failed>>
  BY DEF ParseCIDR
<1>2. network \in Networks /\ addresses = <<>> /\ ip = network.first
  BY <1>1 DEF ParseIInv, Typed, Walked
<1>3. Typed'
  BY <1>1 DEF ParseIInv, Typed, argument
<1>4. Ahead
  <2>1. InNetwork(ip)
    BY <1>2, NetworkFacts
  <2>2. {a \in Network : Before(a, ip)} = {}
    BY <1>2, FirstIsLeast DEF Network
  <2>3. ToSet(addresses) = {} /\ IsInjective(addresses)
    BY <1>2 DEF ToSet, IsInjective
  <2>4. QED
    BY <2>1, <2>2, <2>3 DEF Ahead
<1>5. Walked'
  <2>1. Ahead'
    BY <1>1, <1>4 DEF Ahead, InNetwork, KeptOf, Network, argument
  <2>2. Len(addresses') <= Limit
    BY <1>1, <1>2, TargetsAssumption
  <2>3. QED
    BY <1>1, <2>1, <2>2 DEF Walked, argument
<1>6. PortsKnown'
  BY <1>1, ArgumentIsKept DEF ParseIInv, PortsKnown
<1>7. (PortsRead /\ Pending /\ ParseIsExact)'
  BY <1>1 DEF ParseIInv, PortsRead, Pending, ParseIsExact
<1>8. QED
  BY <1>3, <1>5, <1>6, <1>7 DEF ParseIInv

(* The walk adds the address it is at; it then has all before the next one,  *)
(* or has come to the end of the network, or of all addresses.               *)
LEMMA AddressAdded ==
  ASSUME Typed, Ahead, addresses' = Append(addresses, ip), ip' = incrementIP(ip),
         UNCHANGED argument,
         ~allowLargeRange => Len(addresses) < Limit
  PROVE  (Ahead \/ Ended \/ Wrapped)'
<1>1. /\ network \in Networks /\ ip \in Addresses /\ addresses \in Seq(Addresses) /\ ip' \in Addresses
      /\ Network \subseteq Addresses /\ ip \in Network
  BY AddressFacts DEF Typed, Network, Ahead
<1>2. ip \notin ToSet(addresses)
  BY <1>1, NeverBeforeItself DEF Ahead
<1>3. /\ addresses' \in Seq(Addresses) /\ Len(addresses') = Len(addresses) + 1
      /\ ToSet(addresses') = {a \in Network : Before(a, ip)} \cup {ip}
      /\ IsInjective(addresses')
  BY <1>1, <1>2, AppendFresh DEF Ahead
<1>4. /\ \A a : InNetwork(a)' <=> InNetwork(a)
      /\ Network' = Network /\ allowLargeRange' = allowLargeRange
  BY DEF Network, InNetwork, KeptOf, argument
<1>5. CASE ~Full(ip)
  <2>1. \A a \in Addresses : Before(a, ip') <=> Before(a, ip) \/ a = ip
    BY <1>1, <1>5, SuccessorFollows
  <2>2. ToSet(addresses') = {a \in Network : Before(a, ip')}
    BY <1>1, <1>3, <2>1
  <2>3. CASE InNetwork(ip')
    <3>1. InNetwork(ip)'
      BY <1>4, <2>3
    <3>2. (ToSet(addresses) = {a \in Network : Before(a, ip)})'
      BY <1>4, <2>2 DEF Before
    <3>3. QED
      BY <1>3, <3>1, <3>2 DEF Ahead
  <2>4. CASE ~InNetwork(ip')
    <3>1. ASSUME NEW c \in Network PROVE Before(c, ip')
      <4>1. c \in Addresses /\ InNetwork(c) /\ c # ip'
        BY <2>4 DEF Network
      <4>2. Before(ip, ip')
        BY <1>1, <2>1
      <4>3. ~Before(ip', c)
        BY <1>1, <2>4, <4>1, <4>2, NetworkIsConvex DEF Ahead
      <4>4. QED
        BY <1>1, <4>1, <4>3, BeforeIsTotal
    <3>2. ToSet(addresses') = Network
      BY <2>2, <3>1
    <3>3. QED
      BY <1>3, <1>4, <2>4, <3>2 DEF Ended
  <2>5. QED
    BY <2>3, <2>4
<1>6. CASE Full(ip)
  <2>1. \A a \in Addresses : a # ip => Before(a, ip)
    BY <1>1, <1>6, FullIsLast
  <2>2. ToSet(addresses') = Network
    BY <1>1, <1>3, <2>1
  <2>3. CASE ~InNetwork(ip')
    BY <1>3, <1>4, <2>2, <2>3 DEF Ended
  <2>4. CASE InNetwork(ip')
    <3>1. \A i \in 1 .. Bytes : ip'[i] = 0
      BY <1>1, <1>6, IncrementWraps
    <3>2. ASSUME NEW b \in Addresses PROVE InNetwork(b)
      <4>1. ~Before(b, ip')
        BY <3>1, AddressFacts DEF Before
      <4>2. b = ip' \/ Before(ip', b)
        BY <1>1, <4>1, BeforeIsTotal
      <4>3. b = ip \/ Before(b, ip)
        BY <2>1
      <4>4. QED
        BY <1>1, <2>4, <4>2, <4>3, NetworkIsConvex DEF Ahead
    <3>3. Network = Addresses
      BY <3>2 DEF Network
    <3>4. allowLargeRange
      <4>1. Cardinality(Addresses) = Len(addresses) + 1
        BY <1>3, <2>2, <3>3, CountOfSequence
      <4>2. Len(addresses) \in Nat /\ Limit \in Nat /\ Limit < Cardinality(Addresses)
        BY <1>1, TargetsAssumption
      <4>3. QED
        BY <4>1, <4>2
    <3>5. QED
      BY <1>4, <3>3, <3>4 DEF Wrapped
  <2>5. QED
    BY <2>3, <2>4
<1>7. QED
  BY <1>5, <1>6

LEMMA AddAddressStep ==
  ASSUME ParseIInv, AddAddress
  PROVE  ParseIInv'
<1>1. /\ stage = "expand" /\ InNetwork(ip) /\ ~TooMany
      /\ addresses' = Append(addresses, ip) /\ ip' = incrementIP(ip)
      /\ UNCHANGED <<argument, stage, item, next, ports, targets, failed>>
  BY DEF AddAddress
<1>2. ip \in Addresses /\ addresses \in Seq(Addresses) /\ Limit \in Nat
  BY TargetsAssumption DEF ParseIInv, Typed
<1>3. ip' \in Addresses /\ addresses' \in Seq(Addresses) /\ Len(addresses') = Len(addresses) + 1
  BY <1>1, <1>2, AddressFacts, AppendFresh
<1>4. /\ form = "cidr" /\ inline = 0 /\ (Ahead \/ Ended \/ Wrapped)
      /\ ~allowLargeRange => Len(addresses) < Limit
  BY <1>1, <1>2 DEF ParseIInv, Walked, TooMany
<1>5. (Ahead \/ Ended \/ Wrapped)'
  <2>1. CASE Ahead
    BY <1>1, <1>4, <2>1, AddressAdded DEF ParseIInv
  <2>2. CASE Ended
    BY <1>1, <2>2 DEF Ended
  <2>3. CASE Wrapped
    BY <1>1, <2>3, ArgumentIsKept DEF Wrapped, argument
  <2>4. QED
    BY <1>4, <2>1, <2>2, <2>3
<1>6. Walked'
  <2>1. (~allowLargeRange => Len(addresses) <= Limit)'
    BY <1>1, <1>2, <1>3, <1>4 DEF argument
  <2>2. (form = "cidr" /\ inline = 0 /\ stage = "expand")'
    BY <1>1, <1>4 DEF argument
  <2>3. QED
    BY <1>5, <2>1, <2>2 DEF Walked
<1>7. Typed'
  BY <1>1, <1>3 DEF ParseIInv, Typed, argument
<1>8. PortsKnown'
  BY <1>1, ArgumentIsKept DEF ParseIInv, PortsKnown
<1>9. (PortsRead /\ Pending /\ ParseIsExact)'
  BY <1>1 DEF ParseIInv, PortsRead, Pending, ParseIsExact
<1>10. QED
  BY <1>6, <1>7, <1>8, <1>9 DEF ParseIInv

(* A walk that has the limit and is still in the network is in a larger one. *)
LEMMA MoreThanTheLimit ==
  ASSUME Typed, Ahead, Len(addresses) >= Limit
  PROVE  Cardinality(Network) > Limit
<1>1. /\ ip \in Addresses /\ addresses \in Seq(Addresses) /\ ip \in Network
      /\ ip \notin ToSet(addresses) /\ ToSet(addresses) \subseteq Network /\ IsInjective(addresses)
  BY NeverBeforeItself DEF Typed, Ahead, Network
<1>2. /\ Append(addresses, ip) \in Seq(Addresses) /\ IsInjective(Append(addresses, ip))
      /\ ToSet(Append(addresses, ip)) \subseteq Network
      /\ Len(Append(addresses, ip)) = Len(addresses) + 1
  BY <1>1, AppendFresh
<1>3. Cardinality(ToSet(Append(addresses, ip))) = Len(addresses) + 1
  BY <1>2, CountOfSequence
<1>4. IsFiniteSet(Network)
  BY AddressesAreFinite, FS_Subset DEF Network
<1>5. Cardinality(Network) >= Len(addresses) + 1
  BY <1>2, <1>3, <1>4, FS_Subset
<1>6. Cardinality(Network) \in Nat /\ Len(addresses) \in Nat /\ Limit \in Nat
  BY <1>1, <1>4, FS_CardinalityType, TargetsAssumption
<1>7. QED
  BY <1>5, <1>6

LEMMA ExpandRefusedStep ==
  ASSUME ParseIInv, ExpandRefused
  PROVE  ParseIInv'
<1>1. stage = "expand" /\ form = "cidr" /\ Typed /\ (Ahead \/ Ended \/ Wrapped) /\ Fail
  BY DEF ParseIInv, Walked, ExpandRefused
<1>2. CASE InNetwork(ip) /\ TooMany
  <2>1. Ahead /\ ~allowLargeRange /\ Len(addresses) >= Limit
    BY <1>1, <1>2 DEF Ended, Wrapped, TooMany
  <2>2. Reasons
    BY <1>1, <2>1, MoreThanTheLimit DEF Reasons
  <2>3. QED
    BY <1>1, <2>2, FailStep
<1>3. CASE SNIRefused
  BY <1>1, <1>3, FailStep DEF Reasons
<1>4. QED
  BY <1>2, <1>3 DEF ExpandRefused

LEMMA ExpandDoneStep ==
  ASSUME ParseIInv, ExpandDone
  PROVE  ParseIInv'
<1>1. /\ stage = "expand" /\ ~InNetwork(ip) /\ ~SNIRefused
      /\ Return(Product(addresses, ports, ServerNames))
      /\ form = "cidr" /\ inline = 0 /\ ip \in Addresses /\ addresses \in Seq(Addresses)
      /\ ~PortsRefused
  BY DEF ParseIInv, Typed, Walked, PortsKnown, ExpandDone
<1>2. ToSet(addresses) = Network /\ IsInjective(addresses)
  BY <1>1 DEF ParseIInv, Walked, Ahead, Ended, Wrapped, Network
<1>3. IsList(addresses) /\ Cardinality(Network) = Len(addresses) /\ Len(addresses) \in Nat
  BY <1>1, <1>2, CountOfSequence DEF IsList
<1>4. ~Reasons
  <2>1. ~allowLargeRange => ~(Cardinality(Network) > Limit)
    BY <1>1, <1>3, TargetsAssumption DEF ParseIInv, Walked
  <2>2. QED
    BY <1>1, <2>1 DEF Reasons, HostRefused
<1>5. PortsOfHost = ports /\ Hosts = Network
  BY <1>1 DEF PortsOfHost, Hosts
<1>6. QED
  BY <1>1, <1>2, <1>3, <1>4, <1>5, ReturnStep

LEMMA ParseStutterStep ==
  ASSUME ParseIInv, UNCHANGED parseVars
  PROVE  ParseIInv'
<1>1. UNCHANGED argument
  BY DEF parseVars, argument
<1>2. (Typed /\ PortsRead /\ Pending)'
  BY DEF ParseIInv, parseVars, argument, Typed, PortsRead, Pending, Reached
<1>3. (PortsKnown /\ ParseIsExact)'
  BY <1>1, ArgumentIsKept DEF ParseIInv, parseVars, argument, PortsKnown, ParseIsExact
<1>4. Walked'
  BY DEF ParseIInv, parseVars, argument, Walked, Ahead, Ended, Wrapped, Network, InNetwork, KeptOf
<1>5. QED
  BY <1>2, <1>3, <1>4 DEF ParseIInv

LEMMA ParseInvariance ==
  ASSUME ParseIInv, [ParseNext]_parseVars
  PROVE  ParseIInv'
<1>1. CASE SkipItem
  BY <1>1, SkipItemStep
<1>2. CASE ItemRefused
  BY <1>2, ItemRefusedStep
<1>3. CASE BeginItem
  BY <1>3, BeginItemStep
<1>4. CASE AddPort
  BY <1>4, AddPortStep
<1>5. CASE PortOutside
  BY <1>5, PortOutsideStep
<1>6. CASE PortsDone
  BY <1>6, PortsDoneStep
<1>7. CASE ParseNothing
  BY <1>7, ParseNothingStep
<1>8. CASE ParseRefused
  BY <1>8, ParseRefusedStep
<1>9. CASE ParseHost
  BY <1>9, ParseHostStep
<1>10. CASE ParseCIDR
  BY <1>10, ParseCIDRStep
<1>11. CASE AddAddress
  BY <1>11, AddAddressStep
<1>12. CASE ExpandRefused
  BY <1>12, ExpandRefusedStep
<1>13. CASE ExpandDone
  BY <1>13, ExpandDoneStep
<1>14. CASE UNCHANGED parseVars
  BY <1>14, ParseStutterStep
<1>15. QED
  BY <1>1, <1>2, <1>3, <1>4, <1>5, <1>6, <1>7, <1>8, <1>9, <1>10, <1>11, <1>12, <1>13, <1>14
  DEF ParseNext

\* What ParseTarget returns is exact for every argument and list of ports and of names, a
\* network walked byte by byte included (internal/input/input.go:27-251).
THEOREM TargetsParseExactly ==
  ParseSpec => []ParseIsExact
<1>1. ParseIInv => ParseIsExact
  BY DEF ParseIInv
<1>2. QED
  BY ParseInitIInv, ParseInvariance, <1>1, PTL DEF ParseSpec

-----------------------------------------------------------------------------
(***************************************************************************)
(* ctscan diff, for any two files of results.                              *)
(*                                                                         *)
(* A map holds the last results of the lines read so far (IsMap), the      *)
(* changes list what the visited endpoints give, each once and in any      *)
(* order (Comparing, Removing), and a change that has its place is         *)
(* preceded by none of those behind it (Placed), which needs no            *)
(* transitivity of the order.                                              *)
(***************************************************************************)

AllChanges == [endpoint : Endpoints, kind : Range(KindOrder), detail : SUBSET Nat]

\* s has the changes of S, each once.
Lists(s, S) == s \in Seq(AllChanges) /\ ToSet(s) = S /\ IsInjective(s)

\* What the first loop has to find about an endpoint, and what the second one has.
Reported(e) ==
  IF e \in InFile(1) THEN ExpectedAt(e, LastResult(1, e), LastResult(2, e))
  ELSE {Change("asset_added", e, {})}
Vanished(e) == {c \in {Change("asset_removed", e, {})} : e \notin InFile(2)}

FoundAt(S, T) == (UNION {Reported(e) : e \in S}) \cup (UNION {Vanished(e) : e \in T})

-----------------------------------------------------------------------------
(* The invariant.                                                            *)

DiffTyped ==
  /\ files \in Files \X Files
  /\ file \in {1, 2}
  /\ line \in Nat \ {0}
  /\ DOMAIN maps = {1, 2}
  /\ sorted \in Nat

\* The map of file f has the last result of each endpoint among its first n lines.
IsMap(f, n) ==
  /\ DOMAIN maps[f] = {e \in Endpoints : \E i \in About(f, e) : i <= n}
  /\ \A e \in DOMAIN maps[f] :
       \E i \in About(f, e) :
         i <= n /\ maps[f][e] = files[f][i] /\ \A j \in About(f, e) : j <= n => j <= i

BothRead == IsMap(1, Len(files[1])) /\ IsMap(2, Len(files[2]))

Reading ==
  phase = "read" =>
    /\ line <= Len(files[file]) + 1
    /\ changes = <<>> /\ sorted = 0
    /\ IF file = 1 THEN IsMap(1, line - 1) /\ IsMap(2, 0)
       ELSE IsMap(1, Len(files[1])) /\ IsMap(2, line - 1)

Comparing ==
  phase = "compare" =>
    /\ BothRead
    /\ todo \subseteq InFile(2) /\ sorted = 0
    /\ Lists(changes, FoundAt(InFile(2) \ todo, {}))

\* The first changes have their places: none of those behind precedes one of them.
Placed(s, k) == \A i \in 1 .. k : \A j \in i + 1 .. Len(s) : ~Precedes(s[j], s[i])
InOrder == Placed(changes, sorted)

Removing ==
  phase = "removed" =>
    /\ BothRead
    /\ todo \subseteq InFile(1) /\ sorted <= Len(changes)
    /\ todo # {} => sorted = 0
    /\ Lists(changes, FoundAt(InFile(2), InFile(1) \ todo))
    /\ InOrder

Writing ==
  phase = "write" => Lists(changes, Expected) /\ sorted = Len(changes) /\ InOrder

ExitIsExact ==
  /\ phase # "exited" => status = "none"
  /\ status = "3" => failOnChange /\ Expected # {}
  /\ status = "0" /\ failOnChange => Expected = {}

DiffIInv == DiffTyped /\ Reading /\ Comparing /\ Removing /\ Writing /\ ExitIsExact

-----------------------------------------------------------------------------
(* A set of names in ascending order.                                        *)

LEMMA AscendingLists ==
  ASSUME NEW S \in SUBSET Nat, IsFiniteSet(S)
  PROVE  /\ IsList(Ascending(S))
         /\ ToSet(Ascending(S)) = S
         /\ IsInjective(Ascending(S))
<1> DEFINE Below(n) == {m \in S : m < n}
           c == Cardinality(S)
           rank == [n \in S |-> Cardinality(Below(n))]
<1>1. c \in Nat
  BY FS_CardinalityType
<1>2. ASSUME NEW n \in S
      PROVE  IsFiniteSet(Below(n)) /\ Cardinality(Below(n)) \in 0 .. c - 1
  <2>1. Below(n) \in SUBSET S /\ n \notin Below(n)
    OBVIOUS
  <2> HIDE DEF Below
  <2>2. /\ IsFiniteSet(Below(n)) /\ Cardinality(Below(n)) <= c
        /\ c = Cardinality(Below(n)) => S = Below(n)
    BY <2>1, FS_Subset
  <2>3. Cardinality(Below(n)) \in Nat
    BY <2>2, FS_CardinalityType
  <2>4. QED
    BY <1>1, <2>1, <2>2, <2>3
<1>3. ASSUME NEW m \in S, NEW n \in S, m < n
      PROVE  Cardinality(Below(m)) < Cardinality(Below(n))
  <2>1. Below(m) \in SUBSET Below(n) /\ m \in Below(n) /\ m \notin Below(m)
    <3>1. m \in Nat /\ n \in Nat /\ \A k \in S : k \in Nat
      OBVIOUS
    <3>2. \A k \in S : k < m => k < n
      BY <1>3, <3>1
    <3>3. m \in Below(n)
      BY <1>3
    <3>4. m \notin Below(m)
      BY <3>1
    <3>5. \A k : k \in Below(m) => k \in Below(n)
      BY <3>2
    <3> HIDE DEF Below
    <3>6. QED
      BY <3>3, <3>4, <3>5
  <2>2. IsFiniteSet(Below(n)) /\ Cardinality(Below(n)) \in Nat /\ Cardinality(Below(m)) \in Nat
    BY <1>2
  <2> HIDE DEF Below
  <2>3. /\ Cardinality(Below(m)) <= Cardinality(Below(n))
        /\ Cardinality(Below(n)) = Cardinality(Below(m)) => Below(n) = Below(m)
    BY <2>1, <2>2, FS_Subset
  <2>4. QED
    BY <2>1, <2>2, <2>3
<1> HIDE DEF Below
<1>4. ASSUME NEW m \in S, NEW n \in S, rank[m] = rank[n] PROVE m = n
  <2>1. m < n \/ n < m \/ m = n
    OBVIOUS
  <2>2. QED
    BY <1>2, <1>3, <1>4, <2>1
<1>5. rank \in Injection(S, 0 .. c - 1)
  <2>1. rank \in [S -> 0 .. c - 1]
    BY <1>2
  <2> HIDE DEF rank
  <2>2. QED
    BY <1>4, <2>1 DEF Injection, IsInjective
<1>6. IsFiniteSet(0 .. c - 1) /\ Cardinality(0 .. c - 1) = c
  <2> HIDE DEF c
  <2>1. 0 \in Int /\ c - 1 \in Int /\ (0 > c - 1 <=> c = 0) /\ (c - 1) - 0 + 1 = c
    BY <1>1
  <2>2. QED
    BY <2>1, FS_Interval
<1>7. rank \in Surjection(S, 0 .. c - 1)
  <2> HIDE DEF rank, c
  <2>1. QED
    BY <1>5, <1>6, FS_Injection DEF c
<1>8. \A k \in 0 .. c - 1 : \E n \in S : Cardinality(Below(n)) = k
  <2>1. \A k \in 0 .. c - 1 : \E n \in S : rank[n] = k
    <3> HIDE DEF rank
    <3>1. QED
      BY <1>7 DEF Surjection
  <2>2. QED
    BY <2>1
<1>9. \A n \in S : \E i \in 1 .. c : Cardinality(Below(n)) = i - 1
  <2>1. ASSUME NEW n \in S PROVE Cardinality(Below(n)) + 1 \in 1 .. c
    BY <1>1, <1>2
  <2>2. QED
    BY <1>1, <1>2, <2>1
<1>10. \A m \in S, n \in S : Cardinality(Below(m)) = Cardinality(Below(n)) => m = n
  BY <1>4
<1> DEFINE s == Ascending(S)
<1>11. s = [i \in 1 .. c |-> CHOOSE n \in S : Cardinality(Below(n)) = i - 1]
  BY DEF Ascending, Below
<1> HIDE DEF c, s, rank
<1>12. ASSUME NEW i \in 1 .. c PROVE s[i] \in S /\ Cardinality(Below(s[i])) = i - 1
  <2>1. i - 1 \in 0 .. c - 1
    BY <1>1
  <2>2. \E n \in S : Cardinality(Below(n)) = i - 1
    BY <1>8, <2>1
  <2>3. QED
    BY <1>11, <2>2
<1>13. DOMAIN s = 1 .. c /\ s \in [1 .. c -> S]
  BY <1>11, <1>12
<1>14. Len(s) = c /\ IsList(s)
  BY <1>1, <1>13 DEF IsList
<1>15. ASSUME NEW n \in S PROVE \E i \in 1 .. c : s[i] = n
  <2>1. PICK i \in 1 .. c : Cardinality(Below(n)) = i - 1
    BY <1>9
  <2>2. s[i] = n
    BY <1>10, <1>12, <2>1
  <2>3. QED
    BY <2>2
<1>16. ToSet(s) = S
  BY <1>12, <1>13, <1>15 DEF ToSet
<1>17. IsInjective(s)
  <2>1. ASSUME NEW i \in 1 .. c, NEW j \in 1 .. c, s[i] = s[j] PROVE i = j
    <3>1. i - 1 = j - 1
      BY <1>12, <2>1
    <3>2. QED
      BY <1>1, <3>1
  <2>2. QED
    BY <1>13, <2>1 DEF IsInjective
<1>18. QED
  BY <1>14, <1>16, <1>17 DEF s

-----------------------------------------------------------------------------
(* The changes of an endpoint.                                               *)

LEMMA ConcatLists ==
  ASSUME NEW s, NEW S, Lists(s, S), NEW t, NEW T, Lists(t, T), S \cap T = {}
  PROVE  Lists(s \o t, S \cup T)
<1> DEFINE m == Len(s)
           n == Len(t)
           u == s \o t
<1>1. /\ m \in Nat /\ n \in Nat /\ DOMAIN s = 1 .. m /\ DOMAIN t = 1 .. n
      /\ u \in Seq(AllChanges) /\ DOMAIN u = 1 .. m + n
      /\ \A i \in 1 .. m : u[i] = s[i]
      /\ \A i \in 1 .. n : u[m + i] = t[i]
      /\ \A i \in m + 1 .. m + n : u[i] = t[i - m] /\ i - m \in 1 .. n
  BY DEF Lists
<1> HIDE DEF m, n, u
<1>2. ToSet(u) = S \cup T
  <2>1. \A i \in 1 .. m + n : i \in 1 .. m \/ i \in m + 1 .. m + n
    BY <1>1
  <2>2. \A i \in 1 .. m : i \in 1 .. m + n
    BY <1>1
  <2>3. \A i \in 1 .. n : m + i \in 1 .. m + n
    BY <1>1
  <2>4. ASSUME NEW i \in 1 .. m + n PROVE u[i] \in S \cup T
    BY <1>1, <2>1 DEF Lists, ToSet
  <2>5. ASSUME NEW c \in S PROVE \E i \in 1 .. m + n : u[i] = c
    <3>1. PICK i \in 1 .. m : s[i] = c
      BY <1>1 DEF Lists, ToSet
    <3>2. QED
      BY <1>1, <2>2, <3>1
  <2>6. ASSUME NEW c \in T PROVE \E i \in 1 .. m + n : u[i] = c
    <3>1. PICK i \in 1 .. n : t[i] = c
      BY <1>1 DEF Lists, ToSet
    <3>2. QED
      BY <1>1, <2>3, <3>1
  <2>7. QED
    <3>1. ToSet(u) = {u[i] : i \in 1 .. m + n}
      BY <1>1 DEF ToSet
    <3>2. QED
      BY <2>4, <2>5, <2>6, <3>1
<1>3. ASSUME NEW i \in 1 .. m + n, NEW j \in 1 .. m + n, u[i] = u[j] PROVE i = j
  <2>1. \A k \in 1 .. m : u[k] \in S
    BY <1>1 DEF Lists, ToSet
  <2>2. \A k \in m + 1 .. m + n : u[k] \in T
    BY <1>1 DEF Lists, ToSet
  <2>3. CASE i \in 1 .. m /\ j \in 1 .. m
    BY <1>1, <1>3, <2>3 DEF Lists, IsInjective
  <2>4. CASE i \in m + 1 .. m + n /\ j \in m + 1 .. m + n
    <3>1. i - m \in DOMAIN t /\ j - m \in DOMAIN t /\ t[i - m] = t[j - m]
      BY <1>1, <1>3, <2>4
    <3>2. i - m = j - m
      BY <3>1 DEF Lists, IsInjective
    <3>3. QED
      BY <1>1, <3>2
  <2>5. QED
    BY <1>1, <1>3, <2>1, <2>2, <2>3, <2>4
<1>4. QED
  BY <1>1, <1>2, <1>3 DEF Lists, IsInjective, u

LEMMA WhenLists ==
  ASSUME NEW b \in BOOLEAN, NEW c \in AllChanges
  PROVE  Lists(When(b, c), {x \in {c} : b})
  BY DEF Lists, When, ToSet, IsInjective

LEMMA DifferenceLists ==
  ASSUME NEW kind \in Range(KindOrder), NEW e \in Endpoints, NEW l \in Results, NEW r \in Results
  PROVE  Lists(difference(kind, e, l, r), {Change(kind, e, {n}) : n \in l.names \ r.names})
<1> DEFINE S == l.names \ r.names
           s == Ascending(S)
           d == difference(kind, e, l, r)
<1>1. S \in SUBSET Nat /\ IsFiniteSet(S)
  <2>1. l.names \in SUBSET Nat /\ IsFiniteSet(l.names)
    BY SnapshotAssumption
  <2>2. S \in SUBSET l.names
    OBVIOUS
  <2>3. IsFiniteSet(S)
    BY <2>1, <2>2, FS_Subset
  <2>4. QED
    BY <2>1, <2>3
<1>2. d = [i \in DOMAIN s |-> Change(kind, e, {s[i]})]
  BY DEF difference
<1> HIDE DEF S, s, d
<1>3. IsList(s) /\ ToSet(s) = S /\ IsInjective(s)
  BY <1>1, AscendingLists DEF s
<1>4. \A n \in S : Change(kind, e, {n}) \in AllChanges
  BY <1>1 DEF Change, AllChanges
<1>5. DOMAIN s = 1 .. Len(s) /\ Len(s) \in Nat /\ \A i \in 1 .. Len(s) : s[i] \in S
  BY <1>3 DEF IsList, ToSet
<1>6. d \in Seq(AllChanges) /\ DOMAIN d = 1 .. Len(s)
  BY <1>2, <1>4, <1>5
<1>7. ToSet(d) = {Change(kind, e, {n}) : n \in S}
  BY <1>2, <1>3, <1>5, <1>6 DEF ToSet
<1>8. IsInjective(d)
  <2>1. \A m, n : Change(kind, e, {m}) = Change(kind, e, {n}) => m = n
    BY DEF Change
  <2>2. QED
    <3>1. ASSUME NEW i \in 1 .. Len(s), NEW j \in 1 .. Len(s), d[i] = d[j] PROVE i = j
      <4>1. s[i] = s[j]
        BY <1>2, <1>5, <2>1, <3>1
      <4>2. QED
        BY <1>3, <1>5, <4>1 DEF IsInjective
    <3>2. QED
      BY <1>6, <3>1 DEF IsInjective
<1>9. QED
  BY <1>6, <1>7, <1>8 DEF Lists, S, d

LEMMA RegressionIsExact ==
  ASSUME NEW old \in Results, NEW new \in Results
  PROVE  complianceRank(compliance(new)) > complianceRank(compliance(old)) <=>
           <<compliance(old), compliance(new)>> \in
              {<<"pass", "warn">>, <<"pass", "fail">>, <<"warn", "fail">>}
<1>1. compliance(old) \in {"pass", "warn", "fail"} /\ compliance(new) \in {"pass", "warn", "fail"}
  BY SnapshotAssumption DEF compliance
<1>2. QED
  BY <1>1 DEF complianceRank

Kinds == {"asset_added", "asset_removed", "certificate_changed", "san_added", "san_removed",
          "security_regression"}

LEMMA KindsAreOrdered ==
  Range(KindOrder) = Kinds
<1>1. DOMAIN KindOrder = 1 .. 6
  BY DEF KindOrder
<1>2. KindOrder[1] \in Kinds /\ KindOrder[2] \in Kinds /\ KindOrder[3] \in Kinds
  BY DEF KindOrder, Kinds
<1>3. KindOrder[4] \in Kinds /\ KindOrder[5] \in Kinds /\ KindOrder[6] \in Kinds
  BY DEF KindOrder, Kinds
<1>4. \A i \in 1 .. 6 : KindOrder[i] \in Kinds
  BY <1>2, <1>3
<1>5. /\ KindOrder[1] = "asset_added" /\ KindOrder[2] = "asset_removed"
      /\ KindOrder[3] = "certificate_changed" /\ KindOrder[4] = "san_added"
      /\ KindOrder[5] = "san_removed" /\ KindOrder[6] = "security_regression"
  BY DEF KindOrder
<1>6. \A k \in Kinds : \E i \in 1 .. 6 : KindOrder[i] = k
  BY <1>5 DEF Kinds
<1>7. QED
  BY <1>1, <1>4, <1>6 DEF Range

LEMMA ChangesAreLists ==
  ASSUME NEW e \in Endpoints, NEW old \in Results, NEW new \in Results
  PROVE  Lists(ChangesOf(e, old, new), ExpectedAt(e, old, new))
<1> DEFINE c1 == Change("certificate_changed", e, {})
           c4 == Change("security_regression", e, {})
           b1 == old.fingerprint # new.fingerprint
           b4 == complianceRank(compliance(new)) > complianceRank(compliance(old))
           S1 == {c \in {c1} : b1}
           S2 == {Change("san_added", e, {n}) : n \in new.names \ old.names}
           S3 == {Change("san_removed", e, {n}) : n \in old.names \ new.names}
           S4 == {c \in {c4} : b4}
           s1 == When(b1, c1)
           s2 == difference("san_added", e, new, old)
           s3 == difference("san_removed", e, old, new)
           s4 == When(b4, c4)
<1>1. c1 \in AllChanges /\ c4 \in AllChanges
  BY KindsAreOrdered DEF Change, AllChanges, Kinds
<1>2. Lists(s1, S1) /\ Lists(s4, S4)
  <2> HIDE DEF c1, c4
  <2>1. b1 \in BOOLEAN /\ b4 \in BOOLEAN
    OBVIOUS
  <2> HIDE DEF b1, b4
  <2>2. QED
    BY <1>1, <2>1, WhenLists
<1>3. Lists(s2, S2) /\ Lists(s3, S3)
  BY KindsAreOrdered, DifferenceLists DEF Kinds
<1>4. /\ \A c \in S1 : c.kind = "certificate_changed"
      /\ \A c \in S2 : c.kind = "san_added"
      /\ \A c \in S3 : c.kind = "san_removed"
      /\ \A c \in S4 : c.kind = "security_regression"
  BY DEF Change
<1>5. ExpectedAt(e, old, new) = S1 \cup S2 \cup S3 \cup S4
  BY RegressionIsExact DEF ExpectedAt
<1>6. ChangesOf(e, old, new) = s1 \o s2 \o s3 \o s4
  BY DEF ChangesOf
<1> HIDE DEF S1, S2, S3, S4, s1, s2, s3, s4
<1>7. Lists(s1 \o s2, S1 \cup S2)
  BY <1>2, <1>3, <1>4, ConcatLists
<1>8. Lists((s1 \o s2) \o s3, (S1 \cup S2) \cup S3)
  BY <1>3, <1>4, <1>7, ConcatLists
<1>9. Lists(((s1 \o s2) \o s3) \o s4, ((S1 \cup S2) \cup S3) \cup S4)
  BY <1>2, <1>4, <1>8, ConcatLists
<1>10. QED
  BY <1>5, <1>6, <1>9

(* A change tells its endpoint and which loop has found it.                  *)
LEMMA FoundFacts ==
  ASSUME NEW e
  PROVE  /\ \A c \in Reported(e) : c.endpoint = e /\ c.kind # "asset_removed"
         /\ \A c \in Vanished(e) : c.endpoint = e /\ c.kind = "asset_removed"
  BY DEF Reported, Vanished, ExpectedAt, Change

LEMMA ExpectedIsFound ==
  Expected = FoundAt(InFile(2), InFile(1))
<1>1. \A e \in InFile(2) : e \notin InFile(1) => Reported(e) = {Change("asset_added", e, {})}
  BY DEF Reported
<1>2. \A e \in InFile(1) \cap InFile(2) :
        Reported(e) = ExpectedAt(e, LastResult(1, e), LastResult(2, e))
  BY DEF Reported
<1>3. \A e : Vanished(e) = IF e \in InFile(2) THEN {} ELSE {Change("asset_removed", e, {})}
  BY DEF Vanished
<1> DEFINE A == {Change("asset_added", e, {}) : e \in InFile(2) \ InFile(1)}
           B == {Change("asset_removed", e, {}) : e \in InFile(1) \ InFile(2)}
           C == UNION {Reported(e) : e \in InFile(1) \cap InFile(2)}
<1>4. Expected = A \cup B \cup C
  <2>1. C = UNION {ExpectedAt(e, LastResult(1, e), LastResult(2, e)) :
                     e \in InFile(1) \cap InFile(2)}
    BY <1>2
  <2>2. QED
    BY <2>1 DEF Expected
<1>5. UNION {Reported(e) : e \in InFile(2)} = A \cup C
  <2>1. ASSUME NEW c \in UNION {Reported(e) : e \in InFile(2)} PROVE c \in A \cup C
    <3>1. PICK e \in InFile(2) : c \in Reported(e)
      OBVIOUS
    <3>2. QED
      BY <1>1, <3>1
  <2>2. ASSUME NEW c \in A PROVE c \in UNION {Reported(e) : e \in InFile(2)}
    <3>1. PICK e \in InFile(2) \ InFile(1) : c = Change("asset_added", e, {})
      OBVIOUS
    <3>2. QED
      BY <1>1, <3>1
  <2>3. QED
    BY <2>1, <2>2
<1>6. UNION {Vanished(e) : e \in InFile(1)} = B
  <2>1. ASSUME NEW c \in UNION {Vanished(e) : e \in InFile(1)} PROVE c \in B
    <3>1. PICK e \in InFile(1) : c \in Vanished(e)
      OBVIOUS
    <3>2. QED
      BY <1>3, <3>1
  <2>2. ASSUME NEW c \in B PROVE c \in UNION {Vanished(e) : e \in InFile(1)}
    <3>1. PICK e \in InFile(1) \ InFile(2) : c = Change("asset_removed", e, {})
      OBVIOUS
    <3>2. QED
      BY <1>3, <3>1
  <2>3. QED
    BY <2>1, <2>2
<1> HIDE DEF A, B, C
<1>7. QED
  BY <1>4, <1>5, <1>6 DEF FoundAt

-----------------------------------------------------------------------------
(* The maps.                                                                 *)

LEMMA FileFacts ==
  ASSUME DiffTyped, NEW f \in {1, 2}
  PROVE  /\ Len(files[f]) \in Nat /\ DOMAIN files[f] = 1 .. Len(files[f])
         /\ \A i \in 1 .. Len(files[f]) : files[f][i].kind = "result" => files[f][i] \in Results
         /\ \A e : About(f, e) \subseteq 1 .. Len(files[f])
<1>1. files[f] \in Seq(Results \cup {BlankLine, BadLine})
  BY SnapshotAssumption DEF DiffTyped
<1>2. BlankLine.kind # "result" /\ BadLine.kind # "result"
  BY DEF BlankLine, BadLine
<1>3. DOMAIN files[f] = 1 .. Len(files[f])
  BY <1>1
<1>4. \A i \in 1 .. Len(files[f]) : files[f][i].kind = "result" => files[f][i] \in Results
  BY <1>1, <1>2
<1>5. QED
  BY <1>1, <1>3, <1>4 DEF About

LEMMA MapIsOfFile ==
  ASSUME DiffTyped, NEW f \in {1, 2}, IsMap(f, Len(files[f]))
  PROVE  /\ DOMAIN maps[f] = InFile(f)
         /\ \A e \in InFile(f) : maps[f][e] = LastResult(f, e) /\ LastResult(f, e) \in Results
<1>1. /\ Len(files[f]) \in Nat
      /\ \A e : About(f, e) \subseteq 1 .. Len(files[f])
  BY FileFacts
<1>2. DOMAIN maps[f] = InFile(f)
  BY <1>1 DEF IsMap, InFile
<1>3. ASSUME NEW e \in InFile(f)
      PROVE  maps[f][e] = LastResult(f, e) /\ LastResult(f, e) \in Results
  <2>1. PICK i \in About(f, e) :
          /\ maps[f][e] = files[f][i]
          /\ \A j \in About(f, e) : j <= Len(files[f]) => j <= i
    BY <1>2 DEF IsMap
  <2>2. \A j \in About(f, e) : j <= i /\ j \in Nat
    BY <1>1, <2>1
  <2>3. \A k \in About(f, e) : (\A j \in About(f, e) : j <= k) => k = i
    BY <2>1, <2>2
  <2>4. (CHOOSE k \in About(f, e) : \A j \in About(f, e) : j <= k) = i
    BY <2>1, <2>2, <2>3
  <2>5. files[f][i] \in Results
    BY <1>1, <2>1, FileFacts DEF About
  <2>6. QED
    BY <2>1, <2>4, <2>5 DEF LastResult
<1>4. QED
  BY <1>2, <1>3

-----------------------------------------------------------------------------
(* The steps.                                                                *)

LEMMA FlagsAreKept ==
  ASSUME UNCHANGED flags
  PROVE  /\ \A f, e : About(f, e)' = About(f, e) /\ LastResult(f, e)' = LastResult(f, e)
         /\ \A f : InFile(f)' = InFile(f)
         /\ \A e : Reported(e)' = Reported(e) /\ Vanished(e)' = Vanished(e)
         /\ Expected' = Expected
<1>1. files' = files
  BY DEF flags
<1>2. \A f, e : About(f, e)' = About(f, e)
  BY <1>1 DEF About
<1>3. \A f, e : LastResult(f, e)' = LastResult(f, e)
  BY <1>1, <1>2 DEF LastResult
<1>4. \A f : InFile(f)' = InFile(f)
  BY <1>2 DEF InFile
<1>5. \A e : Reported(e)' = Reported(e) /\ Vanished(e)' = Vanished(e)
  BY <1>3, <1>4 DEF Reported, Vanished
<1>6. Expected' = Expected
  BY <1>3, <1>4 DEF Expected
<1>7. QED
  BY <1>2, <1>3, <1>4, <1>5, <1>6

LEMMA MapsAreKept ==
  ASSUME UNCHANGED <<flags, maps>>
  PROVE  /\ \A f, n : IsMap(f, n)' <=> IsMap(f, n)
         /\ BothRead' <=> BothRead
<1>1. files' = files /\ maps' = maps /\ \A f, e : About(f, e)' = About(f, e)
  BY FlagsAreKept DEF flags
<1>2. \A f, n : IsMap(f, n)' <=> IsMap(f, n)
  BY <1>1 DEF IsMap
<1>3. QED
  BY <1>1, <1>2 DEF BothRead

LEMMA DiffExitStep ==
  ASSUME DiffIInv, NEW code, Exit(code),
         code = "3" => failOnChange /\ Expected # {},
         code = "0" /\ failOnChange => Expected = {}
  PROVE  DiffIInv'
<1>1. UNCHANGED flags /\ Expected' = Expected /\ phase' = "exited" /\ status' = code
  BY FlagsAreKept DEF Exit
<1>2. DiffTyped'
  BY DEF DiffIInv, DiffTyped, Exit, flags
<1>3. (Reading /\ Comparing /\ Removing /\ Writing)'
  BY <1>1 DEF Reading, Comparing, Removing, Writing
<1>4. ExitIsExact'
  BY <1>1 DEF ExitIsExact, flags
<1>5. QED
  BY <1>2, <1>3, <1>4 DEF DiffIInv

LEMMA DiffInitIInv ==
  ASSUME DiffInit
  PROVE  DiffIInv
<1>1. DiffTyped
  BY DEF DiffInit, DiffTyped
<1>2. \A f \in {1, 2} : IsMap(f, 0)
  <2>1. \A f \in {1, 2} : maps[f] = NoMap
    BY DEF DiffInit
  <2>2. \A f \in {1, 2} : \A e : \A i \in About(f, e) : i \in Nat \ {0}
    <3>1. \A f \in {1, 2} : \A e : About(f, e) \subseteq 1 .. Len(files[f]) /\ Len(files[f]) \in Nat
      BY <1>1, FileFacts
    <3>2. QED
      BY <3>1
  <2>3. QED
    BY <2>1, <2>2 DEF IsMap, NoMap
<1>3. Reading
  <2>1. Len(files[1]) \in Nat
    BY <1>1, FileFacts
  <2>2. QED
    BY <1>2, <2>1 DEF DiffInit, Reading
<1>4. Comparing /\ Removing /\ Writing /\ ExitIsExact
  BY DEF DiffInit, Comparing, Removing, Writing, ExitIsExact
<1>5. QED
  BY <1>1, <1>3, <1>4 DEF DiffIInv

(* Storing the result of the next line keeps the map that of the lines read. *)
LEMMA StoreStep ==
  ASSUME DiffTyped, NEW f \in {1, 2}, NEW n \in 1 .. Len(files[f]), IsMap(f, n - 1),
         files[f][n].kind = "result", UNCHANGED flags, DOMAIN maps' = {1, 2},
         maps'[f] = Store(maps[f], files[f][n])
  PROVE  IsMap(f, n)'
<1> DEFINE r == files[f][n]
<1>1. /\ Len(files[f]) \in Nat /\ files' = files /\ r \in Results
      /\ \A e : About(f, e)' = About(f, e) /\ About(f, e) \subseteq 1 .. Len(files[f])
  BY FileFacts, FlagsAreKept DEF flags
<1>2. r.endpoint \in Endpoints /\ n \in About(f, r.endpoint) /\ n \in Nat \ {0}
  BY <1>1, FileFacts DEF Endpoints, About
<1>3. \A e : n \in About(f, e) => e = r.endpoint
  BY DEF About
<1>4. \A e : \A i \in About(f, e) : i \in Nat /\ (i <= n <=> i <= n - 1 \/ i = n)
  BY <1>1, <1>2
<1>5. DOMAIN maps'[f] = {e \in Endpoints : \E i \in About(f, e) : i <= n}
  <2>1. DOMAIN maps'[f] = DOMAIN maps[f] \cup {r.endpoint}
    BY DEF Store
  <2>2. DOMAIN maps[f] = {e \in Endpoints : \E i \in About(f, e) : i <= n - 1}
    BY DEF IsMap
  <2> HIDE DEF r
  <2>3. QED
    BY <1>2, <1>3, <1>4, <2>1, <2>2
<1>6. ASSUME NEW e \in DOMAIN maps'[f]
      PROVE  \E i \in About(f, e) :
               i <= n /\ maps'[f][e] = files[f][i] /\ \A j \in About(f, e) : j <= n => j <= i
  <2>1. CASE e = r.endpoint
    <3>1. maps'[f][e] = r
      BY <1>6, <2>1 DEF Store
    <3>2. QED
      BY <1>2, <2>1, <3>1
  <2>2. CASE e # r.endpoint
    <3>1. e \in DOMAIN maps[f] /\ maps'[f][e] = maps[f][e]
      BY <1>6, <2>2 DEF Store
    <3>2. PICK i \in About(f, e) :
            i <= n - 1 /\ maps[f][e] = files[f][i] /\ \A j \in About(f, e) : j <= n - 1 => j <= i
      BY <3>1 DEF IsMap
    <3>3. \A j \in About(f, e) : j <= n => j <= n - 1
      BY <1>3, <1>4, <2>2
    <3>4. QED
      BY <1>4, <3>1, <3>2, <3>3
  <2>3. QED
    BY <2>1, <2>2
<1>7. QED
  BY <1>1, <1>5, <1>6 DEF IsMap

LEMMA ReadResultStep ==
  ASSUME DiffIInv, ReadResult
  PROVE  DiffIInv'
<1>1. /\ phase = "read" /\ phase' = "read" /\ file \in {1, 2} /\ line \in 1 .. Len(files[file])
      /\ files[file][line].kind = "result" /\ line' = line + 1
      /\ maps' = [maps EXCEPT ![file] = Store(maps[file], files[file][line])]
      /\ DOMAIN maps = {1, 2} /\ DOMAIN maps' = {1, 2}
      /\ UNCHANGED <<flags, file, todo, changes, sorted, status>>
      /\ Len(files[file]) \in Nat
  BY FileFacts DEF DiffIInv, DiffTyped, ReadResult, AtLine
<1>2. files' = files /\ IsMap(file, line - 1)
  BY <1>1 DEF DiffIInv, Reading, flags
<1>3. ASSUME NEW f \in {1, 2}, f = file, NEW n, n = line PROVE IsMap(f, n)'
  <2>1. maps'[f] = Store(maps[f], files[f][n])
    BY <1>1, <1>3
  <2>2. n \in 1 .. Len(files[f]) /\ IsMap(f, n - 1) /\ files[f][n].kind = "result"
    BY <1>1, <1>2, <1>3
  <2>3. DiffTyped /\ UNCHANGED flags /\ DOMAIN maps' = {1, 2}
    BY <1>1 DEF DiffIInv
  <2>4. QED
    BY <2>1, <2>2, <2>3, StoreStep
<1>4. \A f \in {1, 2} : \A n : f # file => (IsMap(f, n)' <=> IsMap(f, n))
  <2>1. \A f \in {1, 2} : f # file => maps'[f] = maps[f]
    BY <1>1
  <2>2. QED
    BY <1>1, <1>2, <2>1, FlagsAreKept DEF IsMap
<1>5. DiffTyped'
  BY <1>1, <1>2 DEF DiffIInv, DiffTyped
<1>6. Reading'
  <2>1. PICK n \in Nat \ {0} : n = line /\ line' - 1 = n /\ n <= Len(files[file])
    BY <1>1
  <2>2. CASE file = 1
    <3>1. IsMap(1, n)' /\ IsMap(2, 0)'
      BY <1>1, <1>3, <1>4, <2>1, <2>2 DEF DiffIInv, Reading
    <3>2. QED
      BY <1>1, <1>2, <2>1, <2>2, <3>1 DEF DiffIInv, Reading
  <2>3. CASE file = 2
    <3>1. IsMap(1, Len(files[1]))' /\ IsMap(2, n)'
      BY <1>1, <1>2, <1>3, <1>4, <2>1, <2>3 DEF DiffIInv, Reading
    <3>2. QED
      BY <1>1, <1>2, <2>1, <2>3, <3>1 DEF DiffIInv, Reading
  <2>4. QED
    BY <1>1, <2>2, <2>3
<1>7. (Comparing /\ Removing /\ Writing)'
  BY <1>1 DEF Comparing, Removing, Writing
<1>8. ExitIsExact'
  BY <1>1, FlagsAreKept DEF DiffIInv, ExitIsExact
<1>9. QED
  BY <1>5, <1>6, <1>7, <1>8 DEF DiffIInv

LEMMA ReadBlankStep ==
  ASSUME DiffIInv, ReadBlank
  PROVE  DiffIInv'
<1>1. /\ phase = "read" /\ phase' = "read" /\ file \in {1, 2} /\ line \in 1 .. Len(files[file])
      /\ files[file][line].kind # "result" /\ line' = line + 1
      /\ UNCHANGED <<flags, file, maps, todo, changes, sorted, status>>
      /\ Len(files[file]) \in Nat
  BY FileFacts DEF DiffIInv, DiffTyped, ReadBlank, AtLine
<1>2. files' = files /\ \A f, n : IsMap(f, n)' <=> IsMap(f, n)
  BY <1>1, MapsAreKept DEF flags
<1>3. ASSUME NEW n \in Nat \ {0}, n = line, IsMap(file, n - 1) PROVE IsMap(file, n)
  <2>1. \A e : \A i \in About(file, e) : i \in Nat /\ i # n
    <3>1. \A e : About(file, e) \subseteq 1 .. Len(files[file])
      BY <1>1, FileFacts DEF DiffIInv
    <3>2. \A e : n \notin About(file, e)
      BY <1>1, <1>3 DEF About
    <3>3. QED
      BY <1>1, <3>1, <3>2
  <2>2. \A e : \A i \in About(file, e) : i <= n <=> i <= n - 1
    BY <2>1
  <2>3. QED
    BY <1>3, <2>2 DEF IsMap
<1>4. DiffTyped'
  BY <1>1, <1>2 DEF DiffIInv, DiffTyped
<1>5. Reading'
  <2>1. PICK n \in Nat \ {0} : n = line /\ line' - 1 = n /\ n <= Len(files[file])
    BY <1>1
  <2>2. IsMap(file, n)
    BY <1>1, <1>3, <2>1 DEF DiffIInv, Reading
  <2>3. QED
    BY <1>1, <1>2, <2>1, <2>2 DEF DiffIInv, Reading
<1>6. (Comparing /\ Removing /\ Writing)'
  BY <1>1 DEF Comparing, Removing, Writing
<1>7. ExitIsExact'
  BY <1>1, FlagsAreKept DEF DiffIInv, ExitIsExact
<1>8. QED
  BY <1>4, <1>5, <1>6, <1>7 DEF DiffIInv

LEMMA ReadEndStep ==
  ASSUME DiffIInv, ReadEnd
  PROVE  DiffIInv'
<1>1. /\ phase = "read" /\ file \in {1, 2} /\ line = Len(files[file]) + 1 /\ line' = 1
      /\ UNCHANGED <<flags, maps, changes, sorted, status>> /\ changes = <<>> /\ sorted = 0
      /\ Len(files[file]) \in Nat /\ Len(files[2]) \in Nat
  BY FileFacts DEF DiffIInv, DiffTyped, Reading, ReadEnd
<1>2. files' = files /\ \A f, n : IsMap(f, n)' <=> IsMap(f, n)
  BY <1>1, MapsAreKept DEF flags
<1>3. IsMap(file, Len(files[file]))
  <2>1. line - 1 = Len(files[file])
    BY <1>1
  <2>2. QED
    BY <1>1, <2>1 DEF DiffIInv, Reading
<1>4. ExitIsExact' \/ phase' = "exited"
  BY <1>1, FlagsAreKept DEF DiffIInv, ExitIsExact
<1>5. CASE file = 1
  <2>1. phase' = "read" /\ file' = 2 /\ todo' = todo
    BY <1>1, <1>5 DEF ReadEnd
  <2>2. DiffTyped'
    BY <1>1, <1>2, <2>1 DEF DiffIInv, DiffTyped
  <2>3. IsMap(1, Len(files[1])) /\ IsMap(2, 0)
    BY <1>1, <1>3, <1>5 DEF DiffIInv, Reading
  <2>4. Reading'
    <3>1. line' - 1 = 0 /\ line' <= Len(files[2]) + 1
      BY <1>1
    <3>2. QED
      BY <1>1, <1>2, <2>1, <2>3, <3>1 DEF Reading
  <2>5. (Comparing /\ Removing /\ Writing /\ ExitIsExact)'
    BY <1>4, <2>1 DEF Comparing, Removing, Writing
  <2>6. QED
    BY <2>2, <2>4, <2>5 DEF DiffIInv
<1>6. CASE file = 2
  <2>1. phase' = "compare" /\ file' = 2 /\ todo' = DOMAIN maps[2]
    BY <1>1, <1>6 DEF ReadEnd
  <2>2. DiffTyped'
    BY <1>1, <1>2, <2>1 DEF DiffIInv, DiffTyped
  <2>3. BothRead
    BY <1>1, <1>3, <1>6 DEF DiffIInv, Reading, BothRead
  <2>4. todo' = InFile(2)
    BY <2>1, <2>3, MapIsOfFile DEF DiffIInv, BothRead
  <2>5. FoundAt(InFile(2) \ todo', {}) = {}
    BY <2>4 DEF FoundAt
  <2>6. Lists(<<>>, {})
    BY DEF Lists, ToSet, IsInjective
  <2>7. Comparing'
    <3>1. InFile(2)' = InFile(2) /\ BothRead' /\ FoundAt(InFile(2) \ todo, {})' = {}
      BY <1>1, <2>3, <2>5, FlagsAreKept, MapsAreKept DEF FoundAt
    <3>2. QED
      BY <1>1, <2>4, <2>6, <3>1 DEF Comparing
  <2>8. (Reading /\ Removing /\ Writing /\ ExitIsExact)'
    BY <1>4, <2>1 DEF Reading, Removing, Writing
  <2>9. QED
    BY <2>2, <2>7, <2>8 DEF DiffIInv
<1>7. QED
  BY <1>1, <1>5, <1>6

LEMMA CompareEndpointStep ==
  ASSUME DiffIInv, NEW e \in todo, CompareEndpoint(e)
  PROVE  DiffIInv'
<1>1. /\ phase = "compare" /\ phase' = "compare" /\ todo' = todo \ {e}
      /\ UNCHANGED <<flags, file, line, maps, sorted, status>>
      /\ BothRead /\ e \in InFile(2) /\ todo \subseteq InFile(2) /\ sorted = 0
      /\ Lists(changes, FoundAt(InFile(2) \ todo, {}))
  BY DEF DiffIInv, Comparing, CompareEndpoint
<1>2. /\ DOMAIN maps[1] = InFile(1)
      /\ \A x \in InFile(1) : maps[1][x] = LastResult(1, x) /\ LastResult(1, x) \in Results
      /\ \A x \in InFile(2) : maps[2][x] = LastResult(2, x) /\ LastResult(2, x) \in Results
  BY <1>1, MapIsOfFile DEF DiffIInv, BothRead
<1> DEFINE x == IF e \in DOMAIN maps[1] THEN ChangesOf(e, maps[1][e], maps[2][e])
                ELSE <<Change("asset_added", e, {})>>
           S == FoundAt(InFile(2) \ todo, {})
<1>3. Lists(x, Reported(e))
  <2>1. e \in Endpoints
    BY <1>1 DEF InFile
  <2>2. CASE e \in InFile(1)
    BY <1>1, <1>2, <2>1, <2>2, ChangesAreLists DEF Reported
  <2>3. CASE e \notin InFile(1)
    <3>1. x = <<Change("asset_added", e, {})>> /\ Reported(e) = {Change("asset_added", e, {})}
      BY <1>2, <2>3 DEF Reported
    <3>2. Change("asset_added", e, {}) \in AllChanges
      BY <2>1, KindsAreOrdered DEF Change, AllChanges, Kinds
    <3> HIDE DEF x
    <3>3. QED
      BY <3>1, <3>2 DEF Lists, ToSet, IsInjective
  <2>4. QED
    BY <2>2, <2>3
<1>4. changes' = changes \o x
  BY DEF CompareEndpoint
<1> HIDE DEF x
<1>5. S \cap Reported(e) = {}
  <2>1. \A c \in S : c.endpoint \in InFile(2) \ todo
    BY FoundFacts DEF FoundAt
  <2>2. \A c \in Reported(e) : c.endpoint = e
    BY FoundFacts
  <2>3. QED
    BY <2>1, <2>2
<1>6. S \cup Reported(e) = FoundAt(InFile(2) \ todo', {})
  <2>1. InFile(2) \ todo' = (InFile(2) \ todo) \cup {e}
    BY <1>1
  <2>2. \A T : FoundAt(T \cup {e}, {}) = FoundAt(T, {}) \cup Reported(e)
    BY DEF FoundAt
  <2>3. QED
    BY <2>1, <2>2
<1>7. Lists(changes', FoundAt(InFile(2) \ todo', {}))
  <2> HIDE DEF S
  <2>1. Lists(changes, S)
    BY <1>1 DEF S
  <2>2. Lists(changes \o x, S \cup Reported(e))
    BY <1>3, <1>5, <2>1, ConcatLists
  <2>3. QED
    BY <1>4, <1>6, <2>2
<1>8. Comparing'
  <2>1. /\ BothRead' /\ InFile(2)' = InFile(2)
        /\ FoundAt(InFile(2) \ todo, {})' = FoundAt(InFile(2) \ todo', {})
    BY <1>1, FlagsAreKept, MapsAreKept DEF FoundAt
  <2>2. QED
    BY <1>1, <1>7, <2>1 DEF Comparing
<1>9. DiffTyped'
  BY <1>1 DEF DiffIInv, DiffTyped, flags
<1>10. (Reading /\ Removing /\ Writing)'
  BY <1>1 DEF Reading, Removing, Writing
<1>11. ExitIsExact'
  BY <1>1, FlagsAreKept DEF DiffIInv, ExitIsExact
<1>12. QED
  BY <1>8, <1>9, <1>10, <1>11 DEF DiffIInv

LEMMA ReadBadStep ==
  ASSUME DiffIInv, ReadBad
  PROVE  DiffIInv'
<1>1. Exit("1")
  BY DEF ReadBad
<1>2. QED
  BY <1>1, DiffExitStep

LEMMA ComparedStep ==
  ASSUME DiffIInv, Compared
  PROVE  DiffIInv'
<1>1. /\ phase = "compare" /\ phase' = "removed" /\ todo = {} /\ todo' = DOMAIN maps[1]
      /\ UNCHANGED <<flags, file, line, maps, changes, sorted, status>>
      /\ BothRead /\ sorted = 0 /\ Lists(changes, FoundAt(InFile(2) \ todo, {}))
  BY DEF DiffIInv, Comparing, Compared
<1>2. todo' = InFile(1)
  BY <1>1, MapIsOfFile DEF DiffIInv, BothRead
<1>3. FoundAt(InFile(2) \ todo, {}) = FoundAt(InFile(2), InFile(1) \ todo')
  <2>1. InFile(2) \ todo = InFile(2) /\ InFile(1) \ todo' = {}
    BY <1>1, <1>2
  <2>2. QED
    BY <2>1
<1>4. Removing'
  <2>1. /\ BothRead' /\ InFile(1)' = InFile(1) /\ sorted' <= Len(changes')
        /\ FoundAt(InFile(2), InFile(1) \ todo)' = FoundAt(InFile(2), InFile(1) \ todo')
    BY <1>1, FlagsAreKept, MapsAreKept DEF FoundAt, Lists
  <2>2. InOrder'
    BY <1>1 DEF InOrder, Placed
  <2>3. QED
    BY <1>1, <1>2, <1>3, <2>1, <2>2 DEF Removing
<1>5. DiffTyped'
  BY <1>1 DEF DiffIInv, DiffTyped, flags
<1>6. (Reading /\ Comparing /\ Writing)'
  BY <1>1 DEF Reading, Comparing, Writing
<1>7. ExitIsExact'
  BY <1>1, FlagsAreKept DEF DiffIInv, ExitIsExact
<1>8. QED
  BY <1>4, <1>5, <1>6, <1>7 DEF DiffIInv

LEMMA FindRemovedStep ==
  ASSUME DiffIInv, NEW e \in todo, FindRemoved(e)
  PROVE  DiffIInv'
<1>1. /\ phase = "removed" /\ phase' = "removed" /\ todo' = todo \ {e}
      /\ UNCHANGED <<flags, file, line, maps, sorted, status>>
      /\ BothRead /\ e \in InFile(1) /\ todo \subseteq InFile(1) /\ sorted = 0
      /\ Lists(changes, FoundAt(InFile(2), InFile(1) \ todo))
  BY DEF DiffIInv, Removing, FindRemoved
<1>2. DOMAIN maps[2] = InFile(2)
  BY <1>1, MapIsOfFile DEF DiffIInv, BothRead
<1> DEFINE c == Change("asset_removed", e, {})
           x == When(e \notin InFile(2), c)
           S == FoundAt(InFile(2), InFile(1) \ todo)
<1>3. Lists(x, Vanished(e))
  <2>1. c \in AllChanges
    <3>1. e \in Endpoints
      BY <1>1 DEF InFile
    <3>2. QED
      BY <3>1, KindsAreOrdered DEF Change, AllChanges, Kinds
  <2> HIDE DEF c
  <2>2. Lists(x, {y \in {c} : e \notin InFile(2)})
    BY <2>1, WhenLists
  <2>3. QED
    BY <2>2 DEF Vanished, c
<1>4. changes' = changes \o x
  BY <1>2 DEF FindRemoved
<1> HIDE DEF x
<1>5. S \cap Vanished(e) = {}
  <2>1. \A d \in S : d.endpoint # e \/ d.kind # "asset_removed"
    BY FoundFacts DEF FoundAt
  <2>2. \A d \in Vanished(e) : d.endpoint = e /\ d.kind = "asset_removed"
    BY FoundFacts
  <2>3. QED
    BY <2>1, <2>2
<1>6. S \cup Vanished(e) = FoundAt(InFile(2), InFile(1) \ todo')
  <2>1. InFile(1) \ todo' = (InFile(1) \ todo) \cup {e}
    BY <1>1
  <2>2. \A T : FoundAt(InFile(2), T \cup {e}) = FoundAt(InFile(2), T) \cup Vanished(e)
    BY DEF FoundAt
  <2>3. QED
    BY <2>1, <2>2
<1>7. Lists(changes', FoundAt(InFile(2), InFile(1) \ todo'))
  <2> HIDE DEF S
  <2>1. Lists(changes, S)
    BY <1>1 DEF S
  <2>2. Lists(changes \o x, S \cup Vanished(e))
    BY <1>3, <1>5, <2>1, ConcatLists
  <2>3. QED
    BY <1>4, <1>6, <2>2
<1>8. Removing'
  <2>1. /\ BothRead' /\ InFile(1)' = InFile(1)
        /\ FoundAt(InFile(2), InFile(1) \ todo)' = FoundAt(InFile(2), InFile(1) \ todo')
    BY <1>1, FlagsAreKept, MapsAreKept DEF FoundAt
  <2>2. sorted' = 0 /\ sorted' <= Len(changes') /\ InOrder'
    BY <1>1, <1>7 DEF InOrder, Placed, Lists
  <2>3. QED
    BY <1>1, <1>7, <2>1, <2>2 DEF Removing
<1>9. DiffTyped'
  BY <1>1 DEF DiffIInv, DiffTyped, flags
<1>10. (Reading /\ Comparing /\ Writing)'
  BY <1>1 DEF Reading, Comparing, Writing
<1>11. ExitIsExact'
  BY <1>1, FlagsAreKept DEF DiffIInv, ExitIsExact
<1>12. QED
  BY <1>8, <1>9, <1>10, <1>11 DEF DiffIInv

(* Giving the next place to a change that none of those left precedes.       *)
LEMMA PlaceNext ==
  ASSUME NEW s, NEW S, Lists(s, S), NEW k \in 1 .. Len(s), NEW i \in k .. Len(s),
         Placed(s, k - 1), \A j \in k .. Len(s) : ~Precedes(s[j], s[i])
  PROVE  LET t == [s EXCEPT ![k] = s[i], ![i] = s[k]]
         IN  Lists(t, S) /\ Len(t) = Len(s) /\ Placed(t, k)
<1> DEFINE n == Len(s)
           t == [s EXCEPT ![k] = s[i], ![i] = s[k]]
<1>1. /\ n \in Nat /\ DOMAIN s = 1 .. n /\ k \in 1 .. n /\ i \in 1 .. n /\ k <= i
      /\ s \in Seq(AllChanges) /\ \A j \in 1 .. n : s[j] \in AllChanges
  BY DEF Lists
<1>2. /\ t \in Seq(AllChanges) /\ Len(t) = n /\ DOMAIN t = 1 .. n
      /\ t[k] = s[i] /\ t[i] = s[k]
      /\ \A j \in 1 .. n : j # k /\ j # i => t[j] = s[j]
  BY <1>1
<1> HIDE DEF n, t
<1>3. ToSet(t) = ToSet(s)
  BY <1>1, <1>2 DEF ToSet
<1>4. IsInjective(t)
  <2>1. \A a, b \in 1 .. n : s[a] = s[b] => a = b
    BY <1>1 DEF Lists, IsInjective
  <2>2. \A a, b \in 1 .. n : t[a] = t[b] => a = b
    BY <1>1, <1>2, <2>1
  <2>3. QED
    BY <1>2, <2>2 DEF IsInjective
<1>5. Placed(t, k)
  <2>1. SUFFICES ASSUME NEW a \in 1 .. k, NEW b \in a + 1 .. n
                 PROVE  ~Precedes(t[b], t[a])
    BY <1>2 DEF Placed
  <2>2. CASE a = k
    <3>1. t[a] = s[i] /\ \E j \in k .. n : t[b] = s[j]
      BY <1>1, <1>2, <2>2
    <3>2. QED
      BY <3>1 DEF n
  <2>3. CASE a # k
    <3>1. a \in 1 .. k - 1 /\ t[a] = s[a] /\ \E j \in a + 1 .. n : t[b] = s[j]
      BY <1>1, <1>2, <2>3
    <3>2. QED
      BY <3>1 DEF Placed, n
  <2>4. QED
    BY <2>2, <2>3
<1>6. QED
  BY <1>2, <1>3, <1>4, <1>5 DEF Lists, n, t

LEMMA SortStep ==
  ASSUME DiffIInv, NEW i \in sorted + 1 .. Len(changes), Sort(i)
  PROVE  DiffIInv'
<1>1. /\ phase = "removed" /\ phase' = "removed" /\ todo = {} /\ sorted' = sorted + 1
      /\ UNCHANGED <<flags, file, line, maps, todo, status>>
      /\ BothRead /\ sorted \in Nat /\ InOrder
      /\ Lists(changes, FoundAt(InFile(2), InFile(1) \ todo))
  BY DEF DiffIInv, DiffTyped, Removing, Sort
<1>2. PICK k \in Nat : k = sorted + 1
  BY <1>1
<1>3. Len(changes) \in Nat
  BY <1>1 DEF Lists
<1>4. /\ k \in 1 .. Len(changes) /\ i \in k .. Len(changes) /\ Placed(changes, k - 1)
      /\ \A j \in k .. Len(changes) : ~Precedes(changes[j], changes[i])
      /\ changes' = [changes EXCEPT ![k] = changes[i], ![i] = changes[k]]
  <2>1. k - 1 = sorted
    BY <1>1, <1>2
  <2>2. QED
    BY <1>1, <1>2, <1>3, <2>1 DEF Sort, InOrder
<1> DEFINE S == FoundAt(InFile(2), InFile(1) \ todo)
<1>5. Lists(changes', S) /\ Len(changes') = Len(changes) /\ Placed(changes', k)
  <2> HIDE DEF S
  <2>1. Lists(changes, S)
    BY <1>1 DEF S
  <2>2. QED
    BY <1>4, <2>1, PlaceNext
<1>6. Removing'
  <2>1. BothRead' /\ InFile(1)' = InFile(1) /\ S' = S
    BY <1>1, FlagsAreKept, MapsAreKept DEF FoundAt
  <2>2. InOrder'
    BY <1>1, <1>2, <1>5 DEF InOrder
  <2>3. sorted' <= Len(changes')
    BY <1>1, <1>2, <1>3, <1>4, <1>5
  <2>4. QED
    BY <1>1, <1>5, <2>1, <2>2, <2>3 DEF Removing
<1>7. DiffTyped'
  BY <1>1 DEF DiffIInv, DiffTyped, flags
<1>8. (Reading /\ Comparing /\ Writing)'
  BY <1>1 DEF Reading, Comparing, Writing
<1>9. ExitIsExact'
  BY <1>1, FlagsAreKept DEF DiffIInv, ExitIsExact
<1>10. QED
  BY <1>6, <1>7, <1>8, <1>9 DEF DiffIInv

LEMMA SortedStep ==
  ASSUME DiffIInv, Sorted
  PROVE  DiffIInv'
<1>1. /\ phase = "removed" /\ phase' = "write" /\ todo = {} /\ sorted = Len(changes)
      /\ UNCHANGED <<flags, file, line, maps, changes, sorted, status>>
      /\ InOrder /\ Lists(changes, FoundAt(InFile(2), InFile(1) \ todo))
  BY DEF DiffIInv, Removing, Sorted
<1>2. Lists(changes, Expected)
  <2>1. InFile(1) \ todo = InFile(1)
    BY <1>1
  <2>2. QED
    BY <1>1, <2>1, ExpectedIsFound
<1>3. Writing'
  <2>1. Expected' = Expected
    BY <1>1, FlagsAreKept
  <2>2. QED
    BY <1>1, <1>2, <2>1 DEF Writing, InOrder
<1>4. DiffTyped'
  BY <1>1 DEF DiffIInv, DiffTyped, flags
<1>5. (Reading /\ Comparing /\ Removing)'
  BY <1>1 DEF Reading, Comparing, Removing
<1>6. ExitIsExact'
  BY <1>1, FlagsAreKept DEF DiffIInv, ExitIsExact
<1>7. QED
  BY <1>3, <1>4, <1>5, <1>6 DEF DiffIInv

(* What the invariant reads is unchanged.                                    *)
LEMMA DiffUnchanged ==
  ASSUME DiffIInv, UNCHANGED <<flags, phase, file, line, maps, todo, changes, sorted, status>>
  PROVE  DiffIInv'
<1>1. /\ \A f, n : IsMap(f, n)' <=> IsMap(f, n)
      /\ BothRead' <=> BothRead
      /\ \A f : InFile(f)' = InFile(f)
      /\ Expected' = Expected
  BY FlagsAreKept, MapsAreKept
<1>2. files' = files /\ failOnChange' = failOnChange
  BY DEF flags
<1>3. /\ FoundAt(InFile(2) \ todo, {})' = FoundAt(InFile(2) \ todo, {})
      /\ FoundAt(InFile(2), InFile(1) \ todo)' = FoundAt(InFile(2), InFile(1) \ todo)
  BY FlagsAreKept DEF FoundAt
<1>4. InOrder' <=> InOrder
  BY DEF InOrder
<1>5. DiffTyped'
  BY <1>2 DEF DiffIInv, DiffTyped
<1>6. Reading'
  BY <1>1, <1>2 DEF DiffIInv, Reading
<1>7. Comparing' /\ Removing' /\ Writing'
  BY <1>1, <1>3, <1>4 DEF DiffIInv, Comparing, Removing, Writing
<1>8. ExitIsExact'
  BY <1>1, <1>2 DEF DiffIInv, ExitIsExact
<1>9. QED
  BY <1>5, <1>6, <1>7, <1>8 DEF DiffIInv

LEMMA EndDiffStep ==
  ASSUME DiffIInv, EndDiff
  PROVE  DiffIInv'
<1>1. Lists(changes, Expected) /\ Exit(IF failOnChange /\ changes # <<>> THEN "3" ELSE "0")
  BY DEF DiffIInv, Writing, EndDiff
<1>2. changes # <<>> <=> Expected # {}
  <2>1. /\ Len(changes) \in Nat /\ DOMAIN changes = 1 .. Len(changes)
        /\ changes = <<>> <=> Len(changes) = 0
        /\ Expected = {changes[i] : i \in DOMAIN changes}
    BY <1>1 DEF Lists, ToSet
  <2>2. Len(changes) # 0 => 1 \in DOMAIN changes
    BY <2>1
  <2>3. Len(changes) = 0 => DOMAIN changes = {}
    BY <2>1
  <2>4. QED
    BY <2>1, <2>2, <2>3
<1>3. CASE failOnChange /\ changes # <<>>
  BY <1>1, <1>2, <1>3, DiffExitStep
<1>4. CASE ~(failOnChange /\ changes # <<>>)
  BY <1>1, <1>2, <1>4, DiffExitStep
<1>5. QED
  BY <1>3, <1>4

LEMMA DiffInvariance ==
  DiffSpec => []DiffIInv
<1>1. ASSUME DiffIInv, [DiffNext]_diffVars PROVE DiffIInv'
  <2>1. CASE ReadResult
    BY <1>1, <2>1, ReadResultStep
  <2>2. CASE ReadBlank
    BY <1>1, <2>2, ReadBlankStep
  <2>3. CASE ReadBad
    BY <1>1, <2>3, ReadBadStep
  <2>4. CASE ReadEnd
    BY <1>1, <2>4, ReadEndStep
  <2>5. ASSUME NEW e \in todo, CompareEndpoint(e) PROVE DiffIInv'
    BY <1>1, <2>5, CompareEndpointStep
  <2>6. ASSUME NEW e \in todo, FindRemoved(e) PROVE DiffIInv'
    BY <1>1, <2>6, FindRemovedStep
  <2>7. CASE Compared
    BY <1>1, <2>7, ComparedStep
  <2>8. ASSUME NEW i \in sorted + 1 .. Len(changes), Sort(i) PROVE DiffIInv'
    BY <1>1, <2>8, SortStep
  <2>9. CASE Sorted
    BY <1>1, <2>9, SortedStep
  <2>10. CASE PrintChange
    BY <1>1, <2>10, DiffUnchanged DEF PrintChange
  <2>11. CASE ChangeRefused
    <3>1. Exit("1") \/ Exit("2")
      BY <2>11 DEF ChangeRefused
    <3>2. QED
      BY <1>1, <3>1, DiffExitStep
  <2>12. CASE EndDiff
    BY <1>1, <2>12, EndDiffStep
  <2>13. CASE UNCHANGED diffVars
    BY <1>1, <2>13, DiffUnchanged DEF diffVars
  <2>14. QED
    BY <1>1, <2>1, <2>2, <2>3, <2>4, <2>5, <2>6, <2>7, <2>8, <2>9, <2>10, <2>11, <2>12, <2>13
    DEF DiffNext
<1>2. QED
  BY <1>1, DiffInitIInv, PTL DEF DiffSpec

\* The report is exactly the expected changes, each once and sorted by endpoint and kind,
\* whatever the order of Go's maps; changes that tie come in any order. Exit codes 3 and,
\* with --fail-on-change, 0 tell whether there is any (internal/snapshot/diff.go, internal/cli/cli.go:743-770).
THEOREM DiffReportsExactly ==
  DiffSpec => []DiffIsExact
<1>1. ASSUME DiffIInv PROVE DiffIsExact
  <2>1. ASSUME phase = "write"
        PROVE  /\ ToSet(changes) = Expected
               /\ Len(changes) = Cardinality(Expected)
               /\ \A i, j \in DOMAIN changes : i < j => ~Precedes(changes[j], changes[i])
    <3>1. Lists(changes, Expected) /\ Placed(changes, Len(changes))
      BY <1>1, <2>1 DEF DiffIInv, Writing, InOrder
    <3>2. /\ ToSet(changes) = Expected /\ IsInjective(changes)
          /\ changes \in Seq(AllChanges)
          /\ Len(changes) \in Nat /\ DOMAIN changes = 1 .. Len(changes)
      BY <3>1 DEF Lists
    <3>3. Len(changes) = Cardinality(Expected)
      BY <3>2, CountOfSequence
    <3>4. ASSUME NEW i \in DOMAIN changes, NEW j \in DOMAIN changes, i < j
          PROVE  ~Precedes(changes[j], changes[i])
      <4>1. i \in 1 .. Len(changes) /\ j \in i + 1 .. Len(changes)
        BY <3>2, <3>4
      <4>2. QED
        BY <3>1, <4>1 DEF Placed
    <3>5. QED
      BY <3>2, <3>3, <3>4
  <2>2. QED
    BY <1>1, <2>1 DEF DiffIInv, ExitIsExact, DiffIsExact
<1>2. QED
  BY <1>1, DiffInvariance, PTL
=============================================================================
