------------------------------ MODULE CTSearch ------------------------------
(***************************************************************************)
(* The ct command (internal/cli/cli.go:659-711) with the client of its     *)
(* provider (internal/transparency/transparency.go): domain after domain   *)
(* it asks for the certificates of the domain, page by page and with       *)
(* retries, and writes those it has not seen yet.                          *)
(*                                                                         *)
(* A provider is modelled by the pages of rows it would serve; crt.sh has  *)
(* one page, Cert Spotter links each page to the next, and nothing keeps   *)
(* it from linking the last one to the first.  A row is the identifier of  *)
(* a certificate with its names, as they are spelled there.  The output    *)
(* goes through a buffer whose first error sticks.  Token, URL and         *)
(* formatting are left out.                                                *)
(***************************************************************************)
EXTENDS Integers, Sequences, FiniteSets, DNSNames

CONSTANTS
  Inputs,                 \* the possible lists of domains of the user
  PublicSuffixes,         \* public suffixes
  RawNames, Ids,          \* names and identifiers of certificates
  Pages,                  \* domain -> the pages of the provider, sets of rows
  Circular,               \* domains whose last page links to their first
  ConfigRetries           \* ClientConfig.Retries

Domains == DOMAIN Pages
Names == {NormalizeDNSName(value) : value \in {v \in RawNames : ~Refused(v)}}

\* What the provider sends, and what Search makes of it.
Rows == [id : Ids, names : SUBSET RawNames]
Records == [id : Ids, names : SUBSET Names]

Formats == {"dns", "jsonl", "text", "other"}

ASSUME CTAssumption ==
  /\ Inputs \subseteq Seq(Seq(STRING))
  /\ RawNames \subseteq Seq(STRING)
  /\ \A list \in Inputs : \A i \in DOMAIN list :
       Refused(list[i]) \/ NormalizeDNSName(list[i]) \in PublicSuffixes \cup Domains
  /\ Pages \in [Domains -> Seq(SUBSET Rows) \ {<<>>}]
  /\ Circular \subseteq Domains
  /\ ConfigRetries \in Int

\* doRequest: 0 stands for the default, a negative number for no retry.
Retries == IF ConfigRetries = 0 THEN 2 ELSE IF ConfigRetries < 0 THEN 0 ELSE ConfigRetries

VARIABLES
  inputs, format,         \* of this command
  pc,                     \* "domain", "request", "wait", "write", "exited"
  at,                     \* the input it works on
  page, attempt,          \* of the search
  records,                \* what the search has found so far
  seenRecords, seenNames,
  held,                   \* lines in the buffer
  out,                    \* lines written to stdout
  copies,                 \* history: line -> how often it was printed
  broken, stuck,          \* stdout fails, the buffer has seen it fail
  ended,                  \* the context is done
  exit

searchVars == <<inputs, format, pc, at, page, attempt, records, seenRecords, seenNames, held, out,
                copies, broken, stuck, ended, exit>>
setting == <<inputs, format>>
search == <<page, attempt, records>>
seen == <<seenRecords, seenNames>>
sink == <<held, out, copies, stuck>>

DomainAt(i) == NormalizeDNSName(inputs[i])
Domain == DomainAt(at)

\* A line shows a name, or a certificate found under a domain.
Lines == {<<n>> : n \in Names} \cup (Ids \X Domains)

TypeOK ==
  /\ inputs \in Inputs
  /\ format \in Formats
  /\ pc \in {"domain", "request", "wait", "write", "exited"}
  /\ at \in 1 .. Len(inputs) + 1
  /\ pc \in {"request", "wait", "write"} => at <= Len(inputs) /\ Domain \in Domains
  /\ pc \in {"request", "wait"} => page \in 1 .. Len(Pages[Domain])
  /\ attempt \in 0 .. Retries
  /\ records \subseteq Records
  /\ seenRecords \subseteq Ids
  /\ seenNames \subseteq Names
  /\ held \subseteq Lines
  /\ out \subseteq Lines
  /\ copies \in [Lines -> Nat]
  /\ broken \in BOOLEAN
  /\ stuck \in BOOLEAN
  /\ ended \in BOOLEAN
  /\ exit \in {"none", "0", "1", "2"}

SearchInit ==
  /\ inputs \in Inputs
  /\ format \in Formats
  /\ pc = "domain"
  /\ at = 1
  /\ page = 1
  /\ attempt = 0
  /\ records = {}
  /\ seenRecords = {}
  /\ seenNames = {}
  /\ held = {}
  /\ out = {}
  /\ copies = [l \in Lines |-> 0]
  /\ broken = FALSE
  /\ stuck = FALSE
  /\ ended = FALSE
  /\ exit = "none"

-----------------------------------------------------------------------------
(* The buffer and the ways to exit.                                           *)

\* buffer.Flush: its error is the first error of stdout.
FlushOK ==
  /\ ~stuck
  /\ ~broken \/ held = {}
  /\ out' = out \cup held
  /\ held' = {}
  /\ UNCHANGED <<copies, stuck>>

FlushFails ==
  /\ stuck \/ (broken /\ held # {})
  /\ stuck' = TRUE
  /\ UNCHANGED <<held, out, copies>>

\* Fault: no deferred flush.
NoDeferredFlush == UNCHANGED sink

DeferredFlush == FlushOK \/ FlushFails

ExitEarly(code) ==
  /\ pc' = "exited"
  /\ exit' = code
  /\ DeferredFlush
  /\ UNCHANGED <<setting, at, search, seen, broken, ended>>

\* A print goes into the buffer, which may overflow into stdout on the way.
PrintOK(lines) ==
  /\ ~stuck \/ lines = {}
  /\ copies' = [l \in Lines |-> IF l \in lines THEN copies[l] + 1 ELSE copies[l]]
  /\ \/ held' = held \cup lines /\ UNCHANGED out
     \/ ~broken /\ lines # {} /\ held' = {} /\ out' = out \cup held \cup lines
  /\ UNCHANGED stuck

PrintFails ==
  /\ stuck \/ broken
  /\ stuck' = TRUE
  /\ UNCHANGED <<held, out, copies>>

-----------------------------------------------------------------------------
(* A domain and its search.                                                   *)

NextDomain == pc' = "domain" /\ at' = at + 1

SkipInvalid ==
  /\ pc = "domain" /\ at <= Len(inputs)
  /\ Refused(inputs[at])
  /\ NextDomain
  /\ UNCHANGED <<setting, search, seen, sink, broken, ended, exit>>

RefuseSuffix ==
  /\ pc = "domain" /\ at <= Len(inputs)
  /\ ~Refused(inputs[at])
  /\ Domain \in PublicSuffixes
  /\ ExitEarly("2")

BeginSearch ==
  /\ pc = "domain" /\ at <= Len(inputs)
  /\ ~Refused(inputs[at])
  /\ Domain \notin PublicSuffixes
  /\ page' = 1
  /\ attempt' = 0
  /\ records' = {}
  /\ pc' = "request"
  /\ UNCHANGED <<setting, at, seen, sink, broken, ended, exit>>

\* The names in scope of the domain, each once, whatever its spellings.
normalizedNames(values, domain) ==
  {name \in {NormalizeDNSName(value) : value \in {v \in values : ~Refused(v)}} :
     InScope(name, {domain})}

RecordsOf(rows) ==
  {[id |-> row.id, names |-> normalizedNames(row.names, Domain)] :
     row \in {r \in rows : normalizedNames(r.names, Domain) # {}}}

PageArrives ==
  /\ pc = "request"
  /\ ~ended
  /\ records' = records \cup RecordsOf(Pages[Domain][page])
  /\ IF page = Len(Pages[Domain]) /\ Domain \notin Circular
     THEN pc' = "write" /\ UNCHANGED <<page, attempt>>
     ELSE /\ page' = IF page = Len(Pages[Domain]) THEN 1 ELSE page + 1
          /\ attempt' = 0
          /\ UNCHANGED pc
  /\ UNCHANGED <<setting, at, seen, sink, broken, ended, exit>>

\* Any other status than 200, 429 and 5xx, or a body that does not decode: no retry,
\* and the pages before are lost.
SearchRefused ==
  /\ pc = "request"
  /\ ExitEarly("1")

MoreAttempts == attempt < Retries

\* A transport error, 429 or 5xx.
RequestFails ==
  /\ pc = "request"
  /\ MoreAttempts
  /\ pc' = "wait"
  /\ UNCHANGED <<setting, at, search, seen, sink, broken, ended, exit>>

RetriesExhausted ==
  /\ pc = "request"
  /\ ~MoreAttempts
  /\ ExitEarly("1")

\* Fault: a delayed request does not count as an attempt.
DelayIsFree ==
  /\ pc = "wait"
  /\ pc' = "request"
  /\ UNCHANGED <<setting, at, search, seen, sink, broken, ended, exit>>

DelayOver ==
  /\ pc = "wait"
  /\ attempt' = attempt + 1
  /\ pc' = "request"
  /\ UNCHANGED <<setting, at, page, records, seen, sink, broken, ended, exit>>

DelayCanceled ==
  /\ pc = "wait"
  /\ ended
  /\ ExitEarly("1")

-----------------------------------------------------------------------------
(* The records of a domain.  The code writes them in the order of their rows, *)
(* which matters for rows of one certificate only; here any order will do.    *)

\* Fault: the names are not held against those already printed.
EveryName(row) == {<<n>> : n \in row.names}

NewNames(row) == {<<n>> : n \in row.names \ seenNames}

LinesOf(row) == IF format = "dns" THEN NewNames(row) ELSE {<<row.id, Domain>>}

See(row) ==
  /\ records' = records \ {row}
  /\ seenRecords' = seenRecords \cup {row.id}
  /\ seenNames' = IF format = "dns" THEN seenNames \cup row.names ELSE seenNames

SkipRecord(row) ==
  /\ pc = "write"
  /\ row.id \in seenRecords
  /\ records' = records \ {row}
  /\ UNCHANGED <<setting, pc, at, page, attempt, seen, sink, broken, ended, exit>>

\* Only json.Encoder's error is looked at; for dns and text it sticks in the buffer.
WriteRecord(row) ==
  /\ pc = "write"
  /\ row.id \notin seenRecords
  /\ format # "other"
  /\ See(row)
  /\ PrintOK(LinesOf(row)) \/ (format # "jsonl" /\ LinesOf(row) # {} /\ PrintFails)
  /\ UNCHANGED <<setting, pc, at, page, attempt, broken, ended, exit>>

EncodeFails(row) ==
  /\ pc = "write"
  /\ row.id \notin seenRecords
  /\ format = "jsonl"
  /\ PrintFails
  /\ pc' = "exited"
  /\ exit' = "1"
  /\ See(row)
  /\ UNCHANGED <<setting, at, page, attempt, broken, ended>>

UnknownFormat(row) ==
  /\ pc = "write"
  /\ row.id \notin seenRecords
  /\ format = "other"
  /\ ExitEarly("2")

RecordsDone ==
  /\ pc = "write"
  /\ records = {}
  /\ NextDomain
  /\ UNCHANGED <<setting, search, seen, sink, broken, ended, exit>>

Finish ==
  /\ pc = "domain" /\ at > Len(inputs)
  /\ pc' = "exited"
  /\ \/ FlushOK /\ exit' = "0"
     \/ FlushFails /\ exit' = "1"
  /\ UNCHANGED <<setting, at, search, seen, broken, ended>>

-----------------------------------------------------------------------------
ContextEnds ==
  /\ ~ended
  /\ ended' = TRUE
  /\ UNCHANGED <<setting, pc, at, search, seen, sink, broken, exit>>

Break ==
  /\ ~broken
  /\ broken' = TRUE
  /\ UNCHANGED <<setting, pc, at, search, seen, sink, ended, exit>>

Search ==
  \/ SkipInvalid \/ RefuseSuffix \/ BeginSearch
  \/ PageArrives \/ SearchRefused \/ RequestFails \/ RetriesExhausted
  \/ DelayOver \/ DelayCanceled

Write ==
  \/ \E row \in records :
       SkipRecord(row) \/ WriteRecord(row) \/ EncodeFails(row) \/ UnknownFormat(row)
  \/ RecordsDone \/ Finish

SearchNext == Search \/ Write \/ ContextEnds \/ Break

\* Every request is bounded by the timeout of the HTTP client, every delay by a timer.
SearchSpec == SearchInit /\ [][SearchNext]_searchVars /\ WF_searchVars(Search \/ Write)

-----------------------------------------------------------------------------
(* Properties.                                                                *)

\* A name of a certificate of the domain, spelled in one of the ways that stand for it.
Belongs(name, row, domain) ==
  /\ Within(name, domain)
  /\ \E value \in row.names : ~Refused(value) /\ name = NormalizeDNSName(value)

\* The certificates of its pages that the domain keeps.
Kept(domain) ==
  {[id |-> row.id, names |-> {n \in Names : Belongs(n, row, domain)}] :
     row \in {r \in UNION {Pages[domain][i] : i \in DOMAIN Pages[domain]} :
                \E n \in Names : Belongs(n, r, domain)}}

Searched == {i \in 1 .. at - 1 : ~Refused(inputs[i])}

\* What the command has found is written, whatever happens later: as long as stdout
\* works, an exit by any path leaves every certificate of the domains done so far on
\* it, under the first domain that had it; and exit code 0 means that every valid
\* domain is done and stdout did work.  A certificate that several domains share is
\* written for the first of them only (cli.go:681-685).
FindingsAreWritten ==
  pc = "exited" /\ (exit = "0" \/ ~(broken \/ stuck)) =>
    /\ exit = "0" => at > Len(inputs)
    /\ \A i \in Searched : \A row \in Kept(DomainAt(i)) :
         \E j \in Searched : \E first \in Kept(DomainAt(j)) :
           /\ j <= i
           /\ first.id = row.id
           /\ IF format = "dns" THEN \A n \in first.names : <<n>> \in out
              ELSE <<row.id, DomainAt(j)>> \in out

\* The command printed the line because of a domain of the user.
Printable(l) ==
  \E i \in 1 .. Len(inputs) :
    /\ ~Refused(inputs[i]) /\ DomainAt(i) \in Domains
    /\ \E row \in Kept(DomainAt(i)) : l \in {<<n>> : n \in row.names} \cup {<<row.id, DomainAt(i)>>}

\* No name and no certificate is printed twice, over all pages and domains and over
\* all spellings of a name, and none is printed that is not in scope of a domain of
\* the user.
PrintedOnce ==
  \A l \in Lines : copies[l] <= 1 /\ (copies[l] > 0 => Printable(l))

\* The command ends by itself unless it follows the links of a circular domain for ever,
\* and a signal ends it even there: no page, retry or delay keeps it from that.
SearchEnds == <>(pc = "exited") \/ <>[](~ended /\ pc \in {"request", "wait"} /\ Domain \in Circular)
=============================================================================
