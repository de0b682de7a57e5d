------------------------------- MODULE Targets -------------------------------
(***************************************************************************)
(* How one argument becomes targets (internal/input/input.go:27-251):      *)
(* ParsePorts reads the -p list, ParseTarget combines the argument with    *)
(* the ports and the --sni names, expandCIDR walks the addresses of a      *)
(* network.                                                                *)
(*                                                                         *)
(* An address is a sequence of bytes; a network is its first address and,  *)
(* for its mask, the span of each byte: how many of its values fall        *)
(* together under the mask.  What splitTarget makes of a string is given   *)
(* by its form, a name by its labels.                                      *)
(* An item of a port list is a pair, a single port being the pair of       *)
(* itself, or it is blank or bad.                                          *)
(***************************************************************************)
EXTENDS Naturals, Sequences, FiniteSets, SequencesExt, DNSNames

CONSTANTS
  Base, Bytes,            \* an address has Bytes bytes below Base
  Limit,                  \* defaultCIDRLimit
  MaxPort,                \* 65535
  MaxRange,               \* the ports of a range after its first, 10000
  PortLists,              \* the possible -p lists, sequences of items
  SNILists,               \* the possible --sni lists, sequences of names
  HostNames,              \* the possible names in an argument
  Networks                \* the possible networks, [first, span]

Addresses == [1 .. Bytes -> 0 .. Base - 1]
BlankItem == <<>>
BadItem == <<"bad">>
Pair(item) == Len(item) = 2
NoName == <<>>
AnIP == <<"ip">>

ASSUME TargetsAssumption ==
  /\ Base \in Nat \ {0} /\ Bytes \in Nat \ {0}
  /\ Limit \in Nat \ {0} /\ Limit < Cardinality(Addresses)
  /\ MaxPort \in Nat \ {0} /\ MaxRange \in Nat
  /\ PortLists \subseteq Seq({BlankItem, BadItem} \cup Nat \X Nat)
  /\ \A list \in SNILists : list \in Seq(ToSet(list))

\* net.ParseCIDR clears what the mask does not keep; a mask keeps a prefix.
ASSUME NetworksAssumption ==
  \A n \in Networks :
    /\ n.first \in Addresses
    /\ n.span \in [1 .. Bytes -> 1 .. Base]
    /\ \A i \in 1 .. Bytes : n.first[i] % n.span[i] = 0
    /\ \A i, j \in 1 .. Bytes : i < j /\ n.span[i] > 1 => n.span[j] = Base

VARIABLES
  portList, sniList,      \* the options
  form, network, inline,  \* the argument: its form, network, port (0 for none),
  host,                   \* name
  allowLargeRange,
  stage,                  \* "ports", "target", "expand", "done"
  item, next,             \* ParsePorts: the item it reads, the next port of its range or 0
  ports,                  \* opts.Ports
  ip, addresses,          \* expandCIDR: the address it is at, those it has
  targets,                \* what ParseTarget returns, <<host, port, SNI>>
  failed                  \* it returns an error

argument == <<portList, sniList, form, network, inline, host, allowLargeRange>>
parseVars == <<argument, stage, item, next, ports, ip, addresses, targets, failed>>

ParseInit ==
  /\ portList \in PortLists
  /\ sniList \in SNILists
  /\ form \in {"blank", "bad", "name", "ip", "cidr"}
  /\ network \in Networks
  /\ inline \in {0, 1}
  /\ host \in HostNames
  /\ allowLargeRange \in BOOLEAN
  /\ stage = "ports"
  /\ item = 1
  /\ next = 0
  /\ ports = <<>>
  /\ ip = network.first
  /\ addresses = <<>>
  /\ targets = <<>>
  /\ failed = FALSE

Fail ==
  /\ stage' = "done"
  /\ failed' = TRUE
  /\ UNCHANGED <<argument, item, next, ports, ip, addresses, targets>>

Return(list) ==
  /\ stage' = "done"
  /\ targets' = list
  /\ UNCHANGED <<argument, item, next, ports, ip, addresses, failed>>

-----------------------------------------------------------------------------
(* ParsePorts.                                                                *)

AtItem == stage = "ports" /\ item <= Len(portList)

\* Fault: continue before the index is advanced.
ReadsAgain ==
  /\ AtItem /\ portList[item] = BlankItem
  /\ UNCHANGED parseVars

SkipItem ==
  /\ AtItem /\ portList[item] = BlankItem
  /\ item' = item + 1
  /\ UNCHANGED <<argument, stage, next, ports, ip, addresses, targets, failed>>

ItemRefused ==
  /\ AtItem /\ next = 0
  /\ \/ portList[item] = BadItem
     \/ /\ Pair(portList[item])
        /\ \/ portList[item][2] < portList[item][1]
           \/ portList[item][2] - portList[item][1] > MaxRange
  /\ Fail

BeginItem ==
  /\ AtItem /\ next = 0
  /\ Pair(portList[item])
  /\ portList[item][1] <= portList[item][2]
  /\ portList[item][2] - portList[item][1] <= MaxRange
  /\ IF portList[item][1] = 0 THEN Fail
     ELSE /\ next' = portList[item][1]
          /\ UNCHANGED <<argument, stage, item, ports, ip, addresses, targets, failed>>

Added == IF Contains(ports, next) THEN ports ELSE Append(ports, next)

AddPort ==
  /\ AtItem /\ next > 0
  /\ next <= MaxPort
  /\ ports' = Added
  /\ IF next = portList[item][2] THEN next' = 0 /\ item' = item + 1
     ELSE next' = next + 1 /\ UNCHANGED item
  /\ UNCHANGED <<argument, stage, ip, addresses, targets, failed>>

PortOutside ==
  /\ AtItem /\ next > MaxPort
  /\ Fail

\* An empty -p means 443, here 1; a list of blank items is an error.
PortsDone ==
  /\ stage = "ports" /\ item > Len(portList)
  /\ IF portList # <<>> /\ ports = <<>> THEN Fail
     ELSE /\ stage' = "target"
          /\ ports' = IF portList = <<>> THEN <<1>> ELSE ports
          /\ UNCHANGED <<argument, item, next, ip, addresses, targets, failed>>

-----------------------------------------------------------------------------
(* ParseTarget and expandCIDR.                                                *)

\* Every host with every port and every name, in this order.
Product(hosts, portsOf, names) ==
  LET P == Len(portsOf) * Len(names)
  IN [k \in 1 .. Len(hosts) * P |->
        <<hosts[((k - 1) \div P) + 1],
          portsOf[(((k - 1) \div Len(names)) % Len(portsOf)) + 1],
          names[((k - 1) % Len(names)) + 1]>>]

\* One dot more than NormalizeDNSName may go from the end.
normalizeHost(name) == NormalizeDNSName(TrimDot(name))
HostRefused == form = "name" /\ Refused(TrimDot(host))

\* An empty name of the list is not normalized: its targets have no SNI.
SNIRefused == \E i \in DOMAIN sniList : sniList[i] # NoName /\ Refused(sniList[i])

SNI(name) == IF name = NoName THEN NoName ELSE NormalizeDNSName(name)

ServerNames ==
  IF sniList # <<>> THEN [i \in DOMAIN sniList |-> SNI(sniList[i])]
  ELSE IF form = "name" THEN <<normalizeHost(host)>>
  ELSE <<NoName>>

PortsOfHost == IF inline # 0 THEN <<inline>> ELSE ports

ParseNothing == stage = "target" /\ form = "blank" /\ Return(<<>>)

ParseRefused ==
  /\ stage = "target"
  /\ \/ form = "bad"
     \/ form = "cidr" /\ inline # 0
     \/ HostRefused
     \/ form \in {"name", "ip"} /\ SNIRefused
  /\ Fail

ParseHost ==
  /\ stage = "target"
  /\ form \in {"name", "ip"}
  /\ ~HostRefused /\ ~SNIRefused
  /\ Return(Product(<<IF form = "name" THEN normalizeHost(host) ELSE AnIP>>, PortsOfHost,
                    ServerNames))

ParseCIDR ==
  /\ stage = "target"
  /\ form = "cidr" /\ inline = 0
  /\ stage' = "expand"
  /\ UNCHANGED <<argument, item, next, ports, ip, addresses, targets, failed>>

\* IPNet.Contains compares what the mask keeps of each byte.
KeptOf(byte, i) == byte \div network.span[i]
InNetwork(a) == \A i \in 1 .. Bytes : KeptOf(a[i], i) = KeptOf(network.first[i], i)

\* The last byte that does not wrap is increased, those behind it become zero.
WrapsFrom(a, i) == \A j \in i .. Bytes : a[j] = Base - 1
incrementIP(a) ==
  [i \in 1 .. Bytes |->
     IF WrapsFrom(a, i) THEN 0 ELSE IF WrapsFrom(a, i + 1) THEN a[i] + 1 ELSE a[i]]

\* Fault: the limit counts the address that is about to be added.
CountsNext == ~allowLargeRange /\ Len(addresses) + 1 >= Limit

TooMany == ~allowLargeRange /\ Len(addresses) >= Limit

\* Bound: a walk that has passed every address goes on for ever, the model stops soon.
AddAddress ==
  /\ stage = "expand"
  /\ InNetwork(ip)
  /\ ~TooMany
  /\ Len(addresses) <= Base ^ Bytes
  /\ addresses' = Append(addresses, ip)
  /\ ip' = incrementIP(ip)
  /\ UNCHANGED <<argument, stage, item, next, ports, targets, failed>>

ExpandRefused ==
  /\ stage = "expand"
  /\ (InNetwork(ip) /\ TooMany) \/ (~InNetwork(ip) /\ SNIRefused)
  /\ Fail

ExpandDone ==
  /\ stage = "expand"
  /\ ~InNetwork(ip)
  /\ ~SNIRefused
  /\ Return(Product(addresses, ports, ServerNames))

ParseNext ==
  \/ SkipItem \/ ItemRefused \/ BeginItem \/ AddPort \/ PortOutside \/ PortsDone
  \/ ParseNothing \/ ParseRefused \/ ParseHost \/ ParseCIDR
  \/ AddAddress \/ ExpandRefused \/ ExpandDone

ParseSpec == ParseInit /\ [][ParseNext]_parseVars /\ WF_parseVars(ParseNext)

-----------------------------------------------------------------------------
(* Properties.                                                                *)

\* The ports of a list, and whether it is one that must be refused.
PortsOf(list) == UNION {list[i][1] .. list[i][2] : i \in {j \in DOMAIN list : Pair(list[j])}}

PortsRefused ==
  \/ \E i \in DOMAIN portList :
       \/ portList[i] = BadItem
       \/ Pair(portList[i]) /\ ( \/ portList[i][2] < portList[i][1]
                                 \/ portList[i][2] - portList[i][1] > MaxRange)
  \/ ~(PortsOf(portList) \subseteq 1 .. MaxPort)
  \/ portList # <<>> /\ PortsOf(portList) = {}

Network == {a \in Addresses : InNetwork(a)}

Hosts ==
  CASE form = "ip" -> {AnIP}
    [] form = "name" -> {normalizeHost(host)}
    [] form = "cidr" -> Network

\* "Explicit target ports override -p. CIDRs above 65,536 addresses require
\* --allow-large-range" (README.md:122): an argument that is not refused gives every
\* host of it, every port and every name, none else and none twice unless --sni has two
\* spellings of one name, and it is refused for these reasons only.  An empty --sni is
\* none of them: it gives targets without SNI.
ParseIsExact ==
  stage = "done" =>
    /\ failed <=> \/ PortsRefused
                  \/ form = "bad"
                  \/ HostRefused
                  \/ form \in {"name", "ip", "cidr"} /\ SNIRefused
                  \/ form = "cidr" /\ inline # 0
                  \/ form = "cidr" /\ ~allowLargeRange /\ Cardinality(Network) > Limit
    /\ failed \/ form = "blank" => targets = <<>>
    /\ failed \/ form = "blank" \/
         /\ IsInjective(ServerNames) => IsInjective(targets)
         /\ ToSet(targets) =
              Hosts
                \X (IF inline # 0 THEN {inline}
                    ELSE IF portList = <<>> THEN {1} ELSE PortsOf(portList))
                \X ToSet(ServerNames)

\* Parsing ends for every argument but the network of all addresses with
\* --allow-large-range: its walk wraps from the last address to the first.
ParseEnds == (form = "cidr" /\ Network = Addresses /\ allowLargeRange) \/ <>(stage = "done")
=============================================================================
