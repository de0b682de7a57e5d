---------------------------- MODULE AttemptProofs ----------------------------
(***************************************************************************)
(* Theorems about Attempt, for every timeout, reply and timing of peers.   *)
(*                                                                         *)
(* The invariant ties each wait to the clock that ends it: dial and tunnel *)
(* to dialCtx (Dialing), the dialogue to the deadline of the connection,   *)
(* which for a direct attempt lies within two timeouts (Deadlines), and    *)
(* each of them to the connection and to who closes it (Holds).  What      *)
(* dialCtx says is what ended it first (FirstCause).  Meeting lists where  *)
(* the dialogue and the script of the server can be, by protocol.          *)
(***************************************************************************)
EXTENDS Attempt, TLAPS

Dialing ==
  pc \in {"dial", "tunnel"} => now <= Timeout /\ (ctx # "live" => now = endedAt)

Deadlines ==
  /\ pc = "starttls" => now <= connEnd /\ protocol # "none"
  /\ Direct => pc \notin {"tunnel", "request", "connect", "refused"}
  /\ Direct /\ pc \in {"starttls", "handshake"} => connEnd <= Timeout + Timeout
  /\ pc \in {"starttls", "handshake"} => connEnd >= Timeout

Holds ==
  /\ pc = "dial" => conn = "none"
  /\ pc \in {"tunnel", "request", "connect", "refused", "starttls", "handshake"} => conn = "open"
  /\ pc \in InDial => ~deferred
  /\ pc \in {"starttls", "handshake"} => deferred
  /\ NoLeak

FirstCause ==
  /\ dialErr = "none" => ctx = "live" /\ now <= Timeout
  /\ dialErr = "canceled" => ctx = "canceled" /\ endedAt <= Timeout
  /\ dialErr = "deadline" =>
       \/ ctx = "deadline"
       \/ now >= Timeout /\ (ctx = "canceled" => endedAt >= Timeout)

Ends ==
  /\ outcome # "none" => pc = "done"
  /\ SuccessInTime
  /\ ReasonIsTrue

\* Where the dialogue and the script can be: step, served, wire and mail.
Meets ==
  LET Answers == {<<1, 1, 0, 0>>, <<2, 1, 0, 1>>, <<2, 2, 0, 0>>, <<2, 3, 1, 0>>, <<3, 3, 0, 0>>}
      Greets == {<<1, 1, 0, 0>>, <<1, 2, 1, 0>>, <<2, 2, 0, 0>>, <<3, 2, 0, 1>>, <<3, 3, 0, 0>>,
                 <<3, 4, 1, 0>>, <<4, 4, 0, 0>>}
      GreetsTwice == Greets \cup {<<5, 4, 0, 1>>, <<5, 5, 0, 0>>, <<5, 6, 1, 0>>, <<6, 6, 0, 0>>}
      GreetsOnly == {<<1, 1, 0, 0>>, <<1, 2, 1, 0>>, <<2, 2, 1, 0>>, <<3, 2, 0, 0>>, <<4, 2, 0, 1>>,
                     <<4, 3, 0, 0>>}
  IN  [smtp |-> GreetsTwice, imap |-> Greets, pop3 |-> Greets, ftp |-> Greets,
       postgres |-> Answers, ldap |-> Answers, mysql |-> GreetsOnly]

Place == <<step, served, wire, mail>>

Meeting ==
  /\ Supported /\ ~swallowed => Place \in Meets[protocol]
  /\ ~Supported => Place = <<1, 1, 0, 0>> /\ ~swallowed
  /\ swallowed => Place = <<1, 2, 0, 0>> /\ ~Direct /\ pc \in {"starttls", "done"} /\ outcome # "success"
  /\ swallowed => protocol \in {"smtp", "imap", "pop3", "ftp", "mysql"}
  /\ pc \in InDial => step = 1
  /\ Supported /\ pc = "starttls" => step <= Len(Dialogue[protocol])
  /\ Supported /\ pc = "handshake" => step = Len(Dialogue[protocol]) + 1

Clocks ==
  /\ TypeOK
  /\ Dialing
  /\ Deadlines
  /\ TimeLimit
  /\ CancelReaches
  /\ Holds
  /\ FirstCause
  /\ Ends

IInv == Clocks /\ Meeting

ServerTyped == served \in Nat \ {0} /\ wire \in Nat /\ mail \in Nat /\ swallowed \in BOOLEAN

-----------------------------------------------------------------------------
LEMMA InitClocks == Init => Clocks
<1> SUFFICES ASSUME Init PROVE Clocks
  OBVIOUS
<1>1. TypeOK
  <2>1. swallowed \in BOOLEAN /\ deferred \in BOOLEAN
    BY DEF Init
  <2>2. /\ served \in Nat \ {0} /\ wire \in Nat /\ mail \in Nat /\ lines \in 0 .. MaxLines
        /\ endedAt \in 0 .. now /\ step \in Nat \ {0} /\ now \in Nat
    BY AttemptAssumption DEF Init
  <2>3. QED
    BY <2>1, <2>2 DEF Init, TypeOK, InDial
<1>2. Dialing /\ Deadlines /\ TimeLimit /\ CancelReaches /\ FirstCause /\ Ends
  BY AttemptAssumption DEF Init, Dialing, Deadlines, TimeLimit, CancelReaches, FirstCause,
     Ends, SuccessInTime, ReasonIsTrue, Direct
<1>3. Holds
  BY DEF Init, Holds, NoLeak, InDial
<1>4. QED
  BY <1>1, <1>2, <1>3 DEF Clocks

(* Every return keeps the clock; nothing is open after it.                   *)
LEMMA ReturnStep ==
  ASSUME Clocks, pc # "done", NEW o \in {"success"} \cup Errors, Return(o),
         conn' \in {"none", "closed"},
         o = "success" => now <= Timeout /\ (ctx # "live" => now = endedAt),
         o \in {"canceled", "deadline"} => o = dialErr,
         o = "timeout" => now >= Timeout \/ (proxy = "socks5" /\ ctx # "live")
  PROVE  Clocks'
<1> USE DEF Return, Clocks, setting, clock, dialogue, server
<1>1. TypeOK'
  BY DEF TypeOK, Errors
<1>2. Dialing' /\ Deadlines' /\ TimeLimit' /\ CancelReaches' /\ FirstCause'
  BY DEF Dialing, Deadlines, TimeLimit, CancelReaches, FirstCause, Direct
<1>3. Holds'
  BY DEF Holds, NoLeak, InDial
<1>4. Ends'
  BY DEF Ends, SuccessInTime, ReasonIsTrue, FirstCause
<1>5. QED
  BY <1>1, <1>2, <1>3, <1>4

(* What is deferred closes the connection of every return after the dial.    *)
LEMMA LeaveStep ==
  ASSUME Clocks, pc \in {"starttls", "handshake"}, NEW o \in {"success"} \cup Errors, Leave(o),
         o = "success" => now <= Timeout /\ (ctx # "live" => now = endedAt),
         o \in {"canceled", "deadline"} => o = dialErr,
         o = "timeout" => now >= Timeout
  PROVE  Clocks'
<1>1. Return(o) /\ conn' = "closed"
  BY DEF Leave, Clocks, Holds
<1>2. QED
  BY <1>1, ReturnStep

(* The dial has returned.                                                    *)
LEMMA EstablishedStep ==
  ASSUME Clocks, Established, conn' = "open", pc \in {"dial", "connect"},
         UNCHANGED <<proxy, protocol, clock, step, lines, outcome>>,
         ServerTyped'
  PROVE  Clocks'
<1> USE AttemptAssumption DEF Established, Clocks, ServerTyped, clock
<1>1. now \in Nat /\ Timeout \in Nat
  BY DEF TypeOK
<1>2. TypeOK'
  BY DEF TypeOK
<1>3. Dialing' /\ Holds' /\ FirstCause' /\ Ends'
  BY DEF Dialing, Holds, NoLeak, InDial, FirstCause, Ends, SuccessInTime, ReasonIsTrue
<1>4. Deadlines' /\ TimeLimit' /\ CancelReaches'
  BY <1>1 DEF Deadlines, TimeLimit, CancelReaches, Direct, Dialing, TypeOK, Ends
<1>5. QED
  BY <1>2, <1>3, <1>4

(* A step of dialHTTPProxy, which goes on.                                   *)
LEMMA ProxyStep ==
  ASSUME Clocks, ~Direct, pc \in {"dial", "tunnel", "request", "connect"},
         pc' \in {"tunnel", "request", "connect", "refused"},
         pc' = "tunnel" => pc = "dial", conn' = "open",
         UNCHANGED <<setting, clock, deferred, connEnd, dialogue, server, outcome>>
  PROVE  Clocks'
<1> USE DEF Clocks, setting, clock, dialogue, server
<1>1. TypeOK'
  BY DEF TypeOK, InDial
<1>2. Holds' /\ FirstCause' /\ Ends'
  BY DEF Holds, NoLeak, InDial, FirstCause, Ends, SuccessInTime, ReasonIsTrue
<1>3. Dialing' /\ Deadlines' /\ TimeLimit' /\ CancelReaches'
  BY DEF Dialing, Deadlines, TimeLimit, CancelReaches, Direct, Ends
<1>4. QED
  BY <1>1, <1>2, <1>3

(* A step of the dialogue, sent or received.                                 *)
LEMMA AdvanceStep ==
  ASSUME Clocks, pc = "starttls", Advance,
         UNCHANGED <<proxy, protocol, clock, conn, deferred, connEnd, outcome>>,
         ServerTyped'
  PROVE  Clocks'
<1> USE AttemptAssumption DEF Clocks, ServerTyped, clock
<1>1. pc' \in {"starttls", "handshake"} /\ step' = step + 1 /\ lines' = 0
  BY DEF Advance
<1>2. TypeOK'
  BY <1>1 DEF TypeOK
<1>3. Dialing' /\ Holds' /\ FirstCause' /\ Ends'
  BY <1>1 DEF Dialing, Holds, NoLeak, InDial, FirstCause, Ends, SuccessInTime, ReasonIsTrue
<1>4. Deadlines' /\ TimeLimit' /\ CancelReaches'
  BY <1>1 DEF Deadlines, TimeLimit, CancelReaches, Direct, Ends
<1>5. QED
  BY <1>2, <1>3, <1>4

LEMMA DialerStep ==
  ASSUME Clocks, Dialer
  PROVE  Clocks'
<1> USE AttemptAssumption
<1>1. CASE DialSucceeds
  <2>1. /\ pc = "dial" /\ conn' = "open"
        /\ UNCHANGED <<setting, clock, dialogue, server, outcome>>
    BY <1>1 DEF DialSucceeds
  <2>2. CASE Established
    <3>1. ServerTyped'
      BY <2>1 DEF Clocks, ServerTyped, TypeOK, server
    <3>2. QED
      BY <2>1, <2>2, <3>1, EstablishedStep DEF setting, dialogue
  <2>3. CASE proxy \in {"http", "https"} /\ pc' \in {"request", "tunnel"} /\ UNCHANGED <<deferred, connEnd>>
    BY <2>1, <2>3, ProxyStep DEF Direct
  <2>4. QED
    BY <1>1, <2>2, <2>3 DEF DialSucceeds
<1>2. CASE DialFails("failed")
  BY <1>2, ReturnStep DEF DialFails, Clocks, Holds, Errors
<1>3. CASE TunnelSucceeds
  BY <1>3, ProxyStep DEF TunnelSucceeds, Clocks, Deadlines, Holds
<1>4. CASE TunnelFails("failed") \/ RequestFails \/ ConnectFails \/ RefusalRead
  BY <1>4, ReturnStep DEF TunnelFails, RequestFails, ConnectFails, RefusalRead, Errors
<1>5. CASE ConnectAccepted
  <2>1. /\ pc = "connect" /\ conn' = "open" /\ Established
        /\ UNCHANGED <<proxy, protocol, clock, step, lines, outcome>>
    BY <1>5 DEF ConnectAccepted, Clocks, Holds, setting, dialogue
  <2>2. ServerTyped'
    <3>1. wire' \in Nat /\ swallowed' \in BOOLEAN
      <4>1. CASE UNCHANGED <<wire, swallowed>>
        BY <4>1 DEF Clocks, TypeOK
      <4>2. CASE wire' = 0 /\ swallowed' = TRUE
        BY <4>2
      <4>3. QED
        BY <1>5, <4>1, <4>2 DEF ConnectAccepted
    <3>2. QED
      BY <1>5, <3>1 DEF ConnectAccepted, ServerTyped, Clocks, TypeOK
  <2>3. QED
    BY <2>1, <2>2, EstablishedStep
<1>6. CASE ConnectRefused
  BY <1>6, ProxyStep DEF ConnectRefused, Clocks, Deadlines, Holds
<1>7. QED
  BY <1>1, <1>2, <1>3, <1>4, <1>5, <1>6 DEF Dialer

LEMMA PeerStep ==
  ASSUME Clocks, Peer
  PROVE  Clocks'
<1> USE AttemptAssumption
<1>1. CASE Dialer
  BY <1>1, DialerStep
<1>2. CASE Answered
  <2>1. ServerTyped'
    BY <1>2 DEF Answered, ServerTyped, Clocks, TypeOK
  <2>2. QED
    BY <1>2, <2>1, AdvanceStep DEF Answered, setting
<1>3. CASE ContinuationLine
  <2>1. CASE Leave("failed")
    BY <1>3, <2>1, LeaveStep DEF ContinuationLine, Errors
  <2>2. CASE /\ lines + 1 < MaxLines /\ lines' = lines + 1
             /\ UNCHANGED <<setting, pc, clock, conn, deferred, connEnd, step, server, outcome>>
    <3>1. TypeOK'
      BY <2>2 DEF Clocks, TypeOK, setting, clock, server
    <3>2. QED
      BY <2>2, <3>1 DEF Clocks, setting, clock, Dialing, Deadlines, TimeLimit, CancelReaches, Direct,
         Holds, NoLeak, InDial, FirstCause, Ends, SuccessInTime, ReasonIsTrue
  <2>3. QED
    BY <1>3, <2>1, <2>2 DEF ContinuationLine
<1>4. CASE StartTLSFails \/ HandshakeFails("failed")
  BY <1>4, LeaveStep DEF StartTLSFails, HandshakeFails, Errors
<1>5. CASE ServerSays \/ ServerHears
  <2>1. UNCHANGED <<setting, pc, clock, conn, deferred, connEnd, dialogue, outcome>>
    BY <1>5 DEF ServerSays, ServerHears, ServerNext
  <2>2. ServerTyped'
    BY <1>5 DEF ServerSays, ServerHears, ServerNext, ServerTyped, Clocks, TypeOK
  <2>3. TypeOK'
    BY <2>1, <2>2 DEF Clocks, TypeOK, ServerTyped, setting, clock, dialogue
  <2>4. QED
    BY <2>1, <2>3 DEF Clocks, setting, clock, dialogue, Dialing, Deadlines, TimeLimit, CancelReaches,
       Direct, Holds, NoLeak, InDial, FirstCause, Ends, SuccessInTime, ReasonIsTrue
<1>6. CASE HandshakeSucceeds
  BY <1>6, LeaveStep DEF HandshakeSucceeds, InTime
<1>7. QED
  BY <1>1, <1>2, <1>3, <1>4, <1>5, <1>6 DEF Peer

LEMMA DialCtxStep ==
  ASSUME Clocks, DialCtxEnds
  PROVE  Clocks'
<1>1. dialErr \in {"canceled", "deadline"}
  BY DEF DialCtxEnds, Clocks, TypeOK
<1>2. CASE DialFails(dialErr)
  BY <1>1, <1>2, ReturnStep DEF DialFails, Clocks, Holds, Errors
<1>3. CASE TunnelFails(dialErr)
  BY <1>1, <1>3, ReturnStep DEF TunnelFails, Errors
<1>4. CASE HandshakeFails(dialErr)
  BY <1>1, <1>4, LeaveStep DEF HandshakeFails, Errors
<1>5. CASE proxy = "socks5" /\ DialFails("timeout")
  <2>1. now >= Timeout \/ ctx # "live"
    BY <1>1 DEF Clocks, FirstCause
  <2>2. QED
    BY <1>5, <2>1, ReturnStep DEF DialFails, Clocks, Holds, Errors
<1>6. QED
  BY <1>2, <1>3, <1>4, <1>5 DEF DialCtxEnds

LEMMA LocalStep ==
  ASSUME Clocks, Local
  PROVE  Clocks'
<1> USE AttemptAssumption
<1>1. CASE TimerFires
  <2>1. /\ pc # "done" /\ dialErr = "none" /\ now >= Timeout /\ dialErr' = "deadline"
        /\ UNCHANGED <<setting, pc, now, conn, deferred, connEnd, dialogue, server, ctx, endedAt, outcome>>
    BY <1>1 DEF TimerFires
  <2>2. TypeOK'
    BY <2>1 DEF Clocks, TypeOK, setting, dialogue, server
  <2>3. FirstCause'
    BY <2>1 DEF Clocks, FirstCause
  <2>4. QED
    BY <2>1, <2>2, <2>3 DEF Clocks, setting, Dialing, Deadlines, TimeLimit, CancelReaches, Direct,
       Holds, NoLeak, InDial, Ends, SuccessInTime, ReasonIsTrue
<1>2. CASE DialCtxEnds
  BY <1>2, DialCtxStep
<1>3. CASE RequestSent
  BY <1>3, ProxyStep DEF RequestSent, Clocks, Deadlines, Holds
<1>4. CASE Unsupported
  BY <1>4, LeaveStep DEF Unsupported, Errors
<1>5. CASE Send
  <2>1. ServerTyped'
    BY <1>5 DEF Send, ServerTyped, Clocks, TypeOK
  <2>2. QED
    BY <1>5, <2>1, AdvanceStep DEF Send, setting
<1>6. CASE ConnTimesOut
  <2>1. now >= Timeout
    BY <1>6 DEF ConnTimesOut, Clocks, Deadlines, TypeOK
  <2>2. QED
    BY <1>6, <2>1, LeaveStep DEF ConnTimesOut, Errors
<1>7. QED
  BY <1>1, <1>2, <1>3, <1>4, <1>5, <1>6 DEF Local

(* Time passes only while the wait at hand is not over.                      *)
LEMMA TimeStep ==
  ASSUME Clocks, Tick \/ ContextEnds \/ UNCHANGED vars
  PROVE  Clocks'
<1> USE AttemptAssumption DEF Clocks
<1>1. CASE Tick
  <2>1. /\ pc # "done" /\ now' = now + 1 /\ now \in Nat /\ endedAt \in 0 .. now
        /\ dialErr = "none" => ~(now >= Timeout)
        /\ pc \in {"dial", "tunnel", "handshake"} => dialErr = "none"
        /\ pc = "starttls" => ~(now >= connEnd)
        /\ UNCHANGED <<setting, pc, conn, deferred, connEnd, dialogue, server, ctx, endedAt, dialErr,
                       outcome>>
    BY <1>1 DEF Tick, Urgent, WatchesDialCtx, TypeOK
  <2>2. TypeOK'
    BY <2>1 DEF TypeOK, setting, dialogue, server
  <2>3. Dialing' /\ Holds' /\ FirstCause'
    BY <2>1 DEF Dialing, Holds, NoLeak, InDial, FirstCause, TypeOK
  <2>4. Ends'
    BY <2>1 DEF Ends, SuccessInTime, ReasonIsTrue
  <2>5. Deadlines'
    BY <2>1 DEF Deadlines, Direct, TypeOK, setting
  <2>6. TimeLimit' /\ CancelReaches'
    <3>1. Timeout \in Nat /\ connEnd \in Nat
      BY DEF TypeOK
    <3>2. CASE pc \in {"dial", "tunnel", "handshake"}
      <4>1. ctx = "live" /\ now < Timeout
        BY <2>1, <3>1, <3>2 DEF FirstCause
      <4>2. QED
        BY <2>1, <3>1, <3>2, <4>1 DEF TimeLimit, CancelReaches, setting
    <3>3. CASE pc = "starttls"
      BY <2>1, <3>1, <3>3 DEF TimeLimit, CancelReaches, Deadlines, Direct, Ends, setting
    <3>4. CASE pc \in {"request", "connect", "refused"}
      BY <2>1, <3>4 DEF TimeLimit, CancelReaches, Deadlines, Direct, Ends, setting
    <3>5. QED
      BY <2>1, <3>2, <3>3, <3>4 DEF TypeOK, InDial
  <2>7. QED
    BY <2>2, <2>3, <2>4, <2>5, <2>6
<1>2. CASE ContextEnds
  <2>1. /\ pc # "done" /\ ctx = "live" /\ ctx' \in {"canceled", "deadline"} /\ endedAt' = now
        /\ dialErr' = IF dialErr = "none" THEN ctx' ELSE dialErr
        /\ UNCHANGED <<setting, pc, now, conn, deferred, connEnd, dialogue, server, outcome>>
    BY <1>2 DEF ContextEnds
  <2>2. TypeOK'
    BY <2>1 DEF TypeOK, setting, dialogue, server
  <2>3. FirstCause'
    BY <2>1 DEF FirstCause, TypeOK
  <2>4. QED
    BY <2>1, <2>2, <2>3 DEF Dialing, Deadlines, TimeLimit, CancelReaches, Direct, Holds, NoLeak, InDial,
       Ends, SuccessInTime, ReasonIsTrue, setting
<1>3. CASE UNCHANGED vars
  <2>1. TypeOK'
    BY <1>3 DEF TypeOK, vars
  <2>2. QED
    BY <1>3, <2>1 DEF vars, Dialing, Deadlines, TimeLimit, CancelReaches, Direct, Holds, NoLeak, InDial,
       FirstCause, Ends, SuccessInTime, ReasonIsTrue
<1>4. QED
  BY <1>1, <1>2, <1>3

-----------------------------------------------------------------------------
(* The dialogue and the script.                                              *)

LEMMA NextClocks == Clocks /\ [Next]_vars => Clocks'
  BY PeerStep, LocalStep, TimeStep DEF Next

LEMMA Protocol ==
  ASSUME Supported
  PROVE  /\ protocol \in {"smtp", "imap", "pop3", "ftp", "postgres", "ldap", "mysql"}
         /\ 1 <= Len(Dialogue[protocol])
<1>1. protocol \in {"smtp", "imap", "pop3", "ftp", "postgres", "ldap", "mysql"}
  BY DEF Supported, Dialogue
<1>2. /\ Len(Dialogue["smtp"]) = 5 /\ Len(Dialogue["imap"]) = 3 /\ Len(Dialogue["pop3"]) = 3
      /\ Len(Dialogue["ftp"]) = 3 /\ Len(Dialogue["postgres"]) = 2 /\ Len(Dialogue["ldap"]) = 2
      /\ Len(Dialogue["mysql"]) = 3
  BY DEF Dialogue
<1>3. Len(Dialogue[protocol]) \in {2, 3, 5}
  <2>1. CASE protocol \in {"smtp", "mysql"}
    BY <1>2, <2>1
  <2>2. CASE protocol \in {"imap", "pop3", "ftp"}
    BY <1>2, <2>2
  <2>3. CASE protocol \in {"postgres", "ldap"}
    BY <1>2, <2>3
  <2>4. QED
    BY <1>1, <2>1, <2>2, <2>3
<1>4. QED
  BY <1>1, <1>3

(* What each move does to the meeting.                                       *)
LEMMA SendMeets ==
  ASSUME Supported, Place \in Meets[protocol], step <= Len(Dialogue[protocol]), Position = "send"
  PROVE  <<step + 1, served, wire, mail + 1>> \in Meets[protocol]
  BY DEF Supported, Place, Meets, Dialogue, Position

LEMMA AnswerMeets ==
  ASSUME Supported, Place \in Meets[protocol], step <= Len(Dialogue[protocol]),
         Position # "send", wire > 0
  PROVE  <<step + 1, served, IF Position = "header" THEN wire ELSE wire - 1, mail>> \in Meets[protocol]
  BY DEF Supported, Place, Meets, Dialogue, Position

LEMMA SayMeets ==
  ASSUME Supported, Place \in Meets[protocol], served <= Len(Script[protocol]),
         Script[protocol][served] = "say"
  PROVE  <<step, served + 1, wire + 1, mail>> \in Meets[protocol]
  BY DEF Supported, Place, Meets, Dialogue, Script

LEMMA HearMeets ==
  ASSUME Supported, Place \in Meets[protocol], served <= Len(Script[protocol]),
         Script[protocol][served] = "hear", mail > 0
  PROVE  <<step, served + 1, wire, mail - 1>> \in Meets[protocol]
  BY DEF Supported, Place, Meets, Dialogue, Script

LEMMA InitMeeting == Init => Meeting
<1> SUFFICES ASSUME Init PROVE Meeting
  OBVIOUS
<1>1. Place = <<1, 1, 0, 0>> /\ ~swallowed /\ pc = "dial"
  BY DEF Init, Place
<1>2. Supported => Place \in Meets[protocol]
  BY <1>1 DEF Supported, Meets, Dialogue
<1>3. QED
  BY <1>1, <1>2 DEF Init, Meeting

(* The dial, and every return, leave both sides where they are.              *)
LEMMA StillMeets ==
  ASSUME Meeting, UNCHANGED <<proxy, protocol, step, served, wire, mail, swallowed>>,
         \/ UNCHANGED <<pc, outcome>>
         \/ pc' = "done" /\ (swallowed => outcome' # "success")
         \/ pc \in InDial /\ pc' \in InDial
         \/ pc \in InDial /\ pc' = "starttls"
         \/ pc \in InDial /\ pc' = "handshake" /\ ~Supported
  PROVE  Meeting'
<1>1. Supported' = Supported /\ Place' = Place /\ Direct' = Direct
  BY DEF Supported, Place, Direct
<1>2. Supported => 1 <= Len(Dialogue[protocol])
  BY Protocol
<1>3. QED
  BY <1>1, <1>2 DEF Meeting, InDial

LEMMA EstablishedMeets ==
  ASSUME Meeting, Established, pc \in {"dial", "connect"},
         UNCHANGED <<proxy, protocol, step, served, wire, mail, swallowed, outcome>>
  PROVE  Meeting'
<1>1. pc' = "starttls" \/ (pc' = "handshake" /\ ~Supported)
  BY AttemptAssumption DEF Established, Supported
<1>2. QED
  BY <1>1, StillMeets DEF InDial

LEMMA SwallowMeets ==
  ASSUME Clocks, Meeting, ConnectAccepted, wire > 0, wire' = 0, swallowed' = TRUE
  PROVE  Meeting'
<1>1. /\ pc = "connect" /\ step = 1 /\ outcome # "success" /\ ~Direct
      /\ UNCHANGED <<proxy, protocol, step, served, mail, outcome>>
  BY DEF ConnectAccepted, Meeting, Clocks, Ends, Deadlines, setting, dialogue, InDial
<1>2. Supported /\ ~swallowed
  BY <1>1 DEF Meeting, Place
<1>3. served = 2 /\ mail = 0 /\ protocol \in {"smtp", "imap", "pop3", "ftp", "mysql"}
  BY <1>1, <1>2 DEF Meeting, Place, Meets, Supported, Dialogue
<1>4. pc' = "starttls"
  BY <1>2, AttemptAssumption DEF ConnectAccepted, Established, Supported
<1>5. 1 <= Len(Dialogue[protocol])
  BY <1>2 DEF Supported, Dialogue
<1>6. QED
  BY <1>1, <1>2, <1>3, <1>4, <1>5 DEF Meeting, Place, Direct, Supported, InDial

(* A step of the dialogue or of the script.                                  *)
LEMMA DialogueMeets ==
  ASSUME TypeOK, Meeting, Send \/ Answered
  PROVE  Meeting'
<1>1. /\ pc = "starttls" /\ Supported /\ Advance
      /\ UNCHANGED <<proxy, protocol, served, swallowed, outcome>>
  BY DEF Send, Answered, setting
<1>2. ~swallowed
  <2>1. swallowed => step = 1 /\ wire = 0 /\ protocol \in {"smtp", "imap", "pop3", "ftp", "mysql"}
    BY DEF Meeting, Place
  <2>2. protocol \in {"smtp", "imap", "pop3", "ftp", "mysql"} => Dialogue[protocol][1] # "send"
    BY DEF Dialogue
  <2>3. QED
    BY <2>1, <2>2 DEF Send, Answered, Position
<1>3. Place' \in Meets[protocol]
  <2>1. CASE Send
    BY <1>1, <1>2, <2>1, SendMeets DEF Meeting, Send, Advance, Place
  <2>2. CASE Answered
    BY <1>1, <1>2, <2>2, AnswerMeets DEF Meeting, Answered, Advance, Place
  <2>3. QED
    BY <2>1, <2>2
<1>4. step \in Nat /\ step <= Len(Dialogue[protocol]) /\ Len(Dialogue[protocol]) \in Nat
  BY <1>1 DEF TypeOK, Meeting, Supported, Dialogue
<1>5. QED
  BY <1>1, <1>2, <1>3, <1>4 DEF Meeting, Advance, Supported, InDial

LEMMA ServerMeets ==
  ASSUME Meeting, ServerSays \/ ServerHears
  PROVE  Meeting'
<1>1. /\ Supported /\ served <= Len(Script[protocol])
      /\ UNCHANGED <<proxy, protocol, pc, step, swallowed, outcome>>
      /\ pc \in {"connect", "starttls", "handshake"}
  BY DEF ServerSays, ServerHears, ServerNext, setting, dialogue
<1>2. ~swallowed
  <2>1. swallowed => served = 2 /\ mail = 0 /\ protocol \in {"smtp", "imap", "pop3", "ftp", "mysql"}
    BY DEF Meeting, Place
  <2>2. protocol \in {"smtp", "imap", "pop3", "ftp", "mysql"} => Script[protocol][2] = "hear"
    BY DEF Script
  <2>3. QED
    BY <2>1, <2>2 DEF ServerSays, ServerHears, ServerNext
<1>3. Place' \in Meets[protocol]
  <2>1. CASE ServerSays
    BY <1>1, <1>2, <2>1, SayMeets DEF Meeting, ServerSays, ServerNext, Place
  <2>2. CASE ServerHears
    BY <1>1, <1>2, <2>2, HearMeets DEF Meeting, ServerHears, ServerNext, Place
  <2>3. QED
    BY <2>1, <2>2
<1>4. QED
  BY <1>1, <1>2, <1>3 DEF Meeting, Supported

LEMMA NextMeeting == Clocks /\ Meeting /\ [Next]_vars => Meeting'
<1> SUFFICES ASSUME Clocks, Meeting, [Next]_vars PROVE Meeting'
  OBVIOUS
<1>1. CASE \E o \in {"success"} \cup Errors : Return(o) /\ (o = "success" => HandshakeSucceeds)
  <2>1. pc' = "done" /\ UNCHANGED <<proxy, protocol, step, served, wire, mail, swallowed>>
    BY <1>1 DEF Return, setting, dialogue, server
  <2>2. swallowed => outcome' # "success"
    BY <1>1 DEF Return, HandshakeSucceeds, Meeting
  <2>3. QED
    BY <2>1, <2>2, StillMeets
<1>2. CASE DialSucceeds
  <2>1. /\ UNCHANGED <<proxy, protocol, step, served, wire, mail, swallowed, outcome>> /\ pc = "dial"
        /\ Established \/ pc' \in {"request", "tunnel"}
    BY <1>2 DEF DialSucceeds, setting, dialogue, server
  <2>2. QED
    BY <2>1, EstablishedMeets, StillMeets DEF InDial
<1>3. CASE TunnelSucceeds \/ RequestSent \/ ConnectRefused
  BY <1>3, StillMeets DEF TunnelSucceeds, RequestSent, ConnectRefused, setting, dialogue, server, InDial
<1>4. CASE ConnectAccepted
  <2>1. /\ UNCHANGED <<proxy, protocol, step, served, mail, outcome>> /\ pc = "connect" /\ Established
        /\ (UNCHANGED <<wire, swallowed>>) \/ (wire > 0 /\ wire' = 0 /\ swallowed' = TRUE)
    BY <1>4 DEF ConnectAccepted, setting, dialogue
  <2>2. QED
    BY <1>4, <2>1, EstablishedMeets, SwallowMeets
<1>5. CASE Send \/ Answered
  BY <1>5, DialogueMeets DEF Clocks
<1>6. CASE ContinuationLine /\ ~Leave("failed")
  BY <1>6, StillMeets DEF ContinuationLine, setting, server
<1>7. CASE ServerSays \/ ServerHears
  BY <1>7, ServerMeets
<1>8. CASE Tick \/ ContextEnds \/ TimerFires \/ UNCHANGED vars
  <2>1. UNCHANGED <<proxy, protocol, step, served, wire, mail, swallowed, pc, outcome>>
    BY <1>8 DEF Tick, ContextEnds, TimerFires, vars, setting, dialogue, server
  <2>2. QED
    BY <2>1, StillMeets
<1>9. CASE \/ DialFails("failed") \/ TunnelFails("failed") \/ RequestFails \/ ConnectFails
           \/ RefusalRead \/ Leave("failed") \/ StartTLSFails \/ HandshakeFails("failed")
           \/ Unsupported \/ ConnTimesOut
  BY <1>9, <1>1 DEF DialFails, TunnelFails, RequestFails, ConnectFails, RefusalRead, StartTLSFails,
     HandshakeFails, Unsupported, ConnTimesOut, Leave, Errors
<1>10. CASE DialCtxEnds
  <2>1. dialErr \in {"canceled", "deadline"}
    BY <1>10 DEF DialCtxEnds, Clocks, TypeOK
  <2>2. QED
    BY <1>10, <2>1, <1>1 DEF DialCtxEnds, DialFails, TunnelFails, HandshakeFails, Leave, Errors
<1>11. CASE HandshakeSucceeds
  BY <1>11, <1>1 DEF HandshakeSucceeds, Leave
<1>12. QED
  BY <1>1, <1>2, <1>3, <1>4, <1>5, <1>6, <1>7, <1>8, <1>9, <1>10, <1>11 DEF Next, Peer, Dialer, Local

LEMMA Invariance == Spec => []IInv
<1>1. Init => IInv
  BY InitClocks, InitMeeting DEF IInv
<1>2. IInv /\ [Next]_vars => IInv'
  BY NextClocks, NextMeeting DEF IInv
<1>3. QED
  BY <1>1, <1>2, PTL DEF Spec

-----------------------------------------------------------------------------
\* The types of the attempt; a reply never has more lines than the limit
\* (scanner.go:569-579).
THEOREM AttemptTypeCorrect == Spec => []TypeOK
  BY Invariance, PTL DEF IInv, Clocks

\* Each error path between the dial to a proxy and its 200 closes what it has, the
\* deferred close everything after that, and no connection has both or neither
\* (scanner.go:144-146, 157-169, 252).
THEOREM AttemptLeaksNothing == Spec => []NoLeak
  BY Invariance, PTL DEF IInv, Clocks, Holds

\* However slowly a peer answers, a direct attempt is over after one timeout, or two
\* with STARTTLS (scanner.go:246, 253, 284).
THEOREM AttemptIsBounded == Spec => []TimeLimit
  BY Invariance, PTL DEF IInv, Clocks

\* No success comes after the timeout, whatever the dial and the dialogue left of it
\* (scanner.go:246, 284).
THEOREM AttemptSucceedsInTime == Spec => []SuccessInTime
  BY Invariance, PTL DEF IInv, Clocks, Ends

\* Which waits outlive the caller's context (scanner.go:157-161, 259).
THEOREM AttemptIsCanceled == Spec => []CancelReaches
  BY Invariance, PTL DEF IInv, Clocks

\* An error names what ended the attempt first, as Scan assumes (scanner.go:246, 284):
\* a cancel that came after the timeout is not told, one that came before it is told by
\* every stage that watches the context.
THEOREM AttemptTellsTruth == Spec => []ReasonIsTrue
  BY Invariance, PTL DEF IInv, Clocks, Ends

\* No dialogue and no script of its server ever wait for each other, however their
\* moves interleave, unless a greeting was lost behind the answer of a proxy
\* (scanner.go:161, 557-722).
THEOREM AttemptMeetsServer == Spec => []DialoguesMesh
<1>1. IInv => DialoguesMesh
  <2> SUFFICES ASSUME IInv PROVE DialoguesMesh
    OBVIOUS
  <2>1. ASSUME pc = "starttls", Supported, ~swallowed
        PROVE  Position = "send" \/ wire > 0 \/ mail > 0 \/ Speaks
    <3>1. Place \in Meets[protocol] /\ step <= Len(Dialogue[protocol])
      BY <2>1 DEF IInv, Meeting
    <3>2. CASE protocol \in {"smtp", "mysql"}
      BY <2>1, <3>1, <3>2 DEF Place, Meets, Dialogue, Script, Position, Speaks
    <3>3. CASE protocol \in {"imap", "pop3", "ftp"}
      BY <2>1, <3>1, <3>3 DEF Place, Meets, Dialogue, Script, Position, Speaks
    <3>4. CASE protocol \in {"postgres", "ldap"}
      BY <2>1, <3>1, <3>4 DEF Place, Meets, Dialogue, Script, Position, Speaks
    <3>5. QED
      BY <2>1, <3>2, <3>3, <3>4, Protocol
  <2>2. ASSUME pc = "handshake", Supported
        PROVE  wire = 0 /\ \A i \in served .. Len(Script[protocol]) : Script[protocol][i] = "hear"
    <3>1. Place \in Meets[protocol] /\ step = Len(Dialogue[protocol]) + 1
      BY <2>2 DEF IInv, Meeting
    <3>2. CASE protocol = "smtp"
      <4>1. Len(Dialogue["smtp"]) = 5 /\ Len(Script["smtp"]) = 5
        BY DEF Dialogue, Script
      <4>2. step = 6
        BY <3>1, <3>2, <4>1
      <4>3. wire = 0 /\ served = 6
        BY <3>1, <3>2, <4>2 DEF Place, Meets
      <4>4. QED
        BY <3>2, <4>1, <4>3
    <3>3. CASE protocol = "mysql"
      <4>1. /\ Len(Dialogue["mysql"]) = 3
            /\ Len(Script["mysql"]) = 2 /\ Script["mysql"][2] = "hear"
        BY DEF Dialogue, Script
      <4>2. step = 4
        BY <3>1, <3>3, <4>1
      <4>3. wire = 0 /\ served \in {2, 3}
        BY <3>1, <3>3, <4>2 DEF Place, Meets
      <4>4. QED
        BY <3>3, <4>1, <4>3
    <3>4. CASE protocol \in {"imap", "pop3", "ftp"}
      <4>1. /\ Len(Dialogue["imap"]) = 3 /\ Len(Dialogue["pop3"]) = 3 /\ Len(Dialogue["ftp"]) = 3
            /\ Len(Script["imap"]) = 3 /\ Len(Script["pop3"]) = 3 /\ Len(Script["ftp"]) = 3
        BY DEF Dialogue, Script
      <4>2. step = 4
        <5>1. Len(Dialogue[protocol]) = 3
          BY <3>4, <4>1, Zenon
        <5>2. QED
          BY <3>1, <5>1
      <4>3. wire = 0 /\ served = 4
        BY <3>1, <3>4, <4>2 DEF Place, Meets
      <4>4. QED
        BY <3>4, <4>1, <4>3
    <3>5. CASE protocol \in {"postgres", "ldap"}
      <4>1. /\ Len(Dialogue["postgres"]) = 2 /\ Len(Dialogue["ldap"]) = 2
            /\ Len(Script["postgres"]) = 2 /\ Len(Script["ldap"]) = 2
        BY DEF Dialogue, Script
      <4>2. step = 3
        <5>1. Len(Dialogue[protocol]) = 2
          BY <3>5, <4>1, Zenon
        <5>2. QED
          BY <3>1, <5>1
      <4>3. wire = 0 /\ served = 3
        BY <3>1, <3>5, <4>2 DEF Place, Meets
      <4>4. QED
        BY <3>5, <4>1, <4>3
    <3>6. QED
      BY <2>2, <3>2, <3>3, <3>4, <3>5, Protocol
  <2>3. swallowed => ~Direct /\ outcome # "success"
    BY DEF IInv, Meeting
  <2>4. QED
    BY <2>1, <2>2, <2>3 DEF DialoguesMesh
<1>2. QED
  BY Invariance, <1>1, PTL
=============================================================================
