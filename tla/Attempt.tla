------------------------------- MODULE Attempt -------------------------------
(***************************************************************************)
(* One connection attempt (pkg/ctscan/scanner.go:239-319) in time: dial,   *)
(* perhaps through a proxy (83-172), perhaps a STARTTLS dialogue           *)
(* (557-722), then the TLS handshake.  The attempt starts at time 0.       *)
(*                                                                         *)
(* Two clocks bound it.  dialCtx ends at Timeout or with the caller's      *)
(* context and bounds the dial and the handshake; the deadline of the      *)
(* connection is set when the dial has returned and bounds all that        *)
(* follows.  A SOCKS5 dialer watches dialCtx throughout, dialHTTPProxy     *)
(* until it writes CONNECT only.  Peers answer at any time, well or        *)
(* badly, or never; what the attempt does itself takes no time.            *)
(*                                                                         *)
(* A dialer that fails must close what it has opened, as each error path   *)
(* of dialHTTPProxy does by itself; once the dial has returned a           *)
(* connection, the deferred close of scanOnceWithTLS (252) is there.       *)
(*                                                                         *)
(* A STARTTLS server that answers well follows a script of its own, as a   *)
(* process of its own: what it says lies on the wire until it is read.     *)
(* The response of an HTTP proxy is read through a buffer that is dropped  *)
(* (161), and a greeting that is already behind it may be lost with it.    *)
(***************************************************************************)
EXTENDS Naturals, Sequences

CONSTANTS
  Timeout,                \* Config.Timeout
  Proxies,                \* Config.ProxyURL: "none", "socks5", "http", "https"
  Protocols,              \* Target.StartTLS, "none" without one
  MaxLines,               \* lines of an SMTP reply, 100 in the code
  Horizon                 \* bound of the clock while a CONNECT waits

\* What negotiateStartTLS waits for and sends, by protocol; a reply has lines, a
\* header is the first part of a message.
Dialogue ==
  [smtp     |-> <<"reply", "send", "reply", "send", "reply">>,
   imap     |-> <<"read", "send", "read">>,
   pop3     |-> <<"read", "send", "read">>,
   ftp      |-> <<"reply", "send", "reply">>,
   postgres |-> <<"send", "read">>,
   ldap     |-> <<"send", "read">>,
   mysql    |-> <<"header", "read", "send">>]

\* What a server of the protocol says and hears before it speaks TLS.
Script ==
  [smtp     |-> <<"say", "hear", "say", "hear", "say">>,
   imap     |-> <<"say", "hear", "say">>,
   pop3     |-> <<"say", "hear", "say">>,
   ftp      |-> <<"say", "hear", "say">>,
   postgres |-> <<"hear", "say">>,
   ldap     |-> <<"hear", "say">>,
   mysql    |-> <<"say", "hear">>]

ASSUME AttemptAssumption ==
  /\ Timeout \in Nat \ {0}
  /\ Proxies \subseteq {"none", "socks5", "http", "https"}
  /\ "none" \notin DOMAIN Dialogue
  /\ MaxLines \in Nat \ {0}
  /\ Horizon \in Nat

VARIABLES
  proxy, protocol,        \* of this attempt
  pc,                     \* in the dial: "dial", "tunnel", "request", "connect", "refused";
                          \* after it: "starttls", "handshake"; "done"
  now,
  conn,                   \* the connection: "none", "open", "closed"
  deferred,               \* scanOnceWithTLS will close the connection when it returns
  connEnd,                \* its deadline, 0 before one is set
  step,                   \* position in the dialogue
  lines,                  \* lines read of the reply at that position
  served,                 \* position in the script of the server
  wire,                   \* messages of the server that are not read yet
  mail,                   \* messages to the server that it has not heard yet
  swallowed,              \* the greeting was dropped with the buffer
  ctx,                    \* the caller's context: "live", or how it ended
  endedAt,                \* history: when it ended
  dialErr,                \* dialCtx.Err(): "none", or what ended it first
  outcome                 \* "none", "success", or the error: "failed" by a peer, "canceled"
                          \* or "deadline" of a context, "timeout" of a read or write

vars == <<proxy, protocol, pc, now, conn, deferred, connEnd, step, lines, served, wire, mail,
          swallowed, ctx, endedAt, dialErr, outcome>>
setting == <<proxy, protocol>>
clock == <<now, ctx, endedAt, dialErr>>
dialogue == <<step, lines>>
server == <<served, wire, mail, swallowed>>

Errors == {"failed", "canceled", "deadline", "timeout"}

InDial == {"dial", "tunnel", "request", "connect", "refused"}

TypeOK ==
  /\ proxy \in Proxies
  /\ protocol \in Protocols
  /\ pc \in InDial \cup {"starttls", "handshake", "done"}
  /\ now \in Nat
  /\ conn \in {"none", "open", "closed"}
  /\ deferred \in BOOLEAN
  /\ connEnd \in Nat
  /\ step \in Nat \ {0}
  /\ lines \in 0 .. MaxLines
  /\ served \in Nat \ {0}
  /\ wire \in Nat
  /\ mail \in Nat
  /\ swallowed \in BOOLEAN
  /\ ctx \in {"live", "canceled", "deadline"}
  /\ endedAt \in 0 .. now
  /\ dialErr \in {"none", "canceled", "deadline"}
  /\ outcome \in {"none", "success"} \cup Errors

Init ==
  /\ proxy \in Proxies
  /\ protocol \in Protocols
  /\ pc = "dial"
  /\ now = 0
  /\ conn = "none"
  /\ deferred = FALSE
  /\ connEnd = 0
  /\ step = 1
  /\ lines = 0
  /\ served = 1
  /\ wire = 0
  /\ mail = 0
  /\ swallowed = FALSE
  /\ ctx = "live"
  /\ endedAt = 0
  /\ dialErr = "none"
  /\ outcome = "none"

-----------------------------------------------------------------------------
(* Ways to end. *)

Return(o) ==
  /\ outcome' = o
  /\ pc' = "done"
  /\ UNCHANGED <<setting, clock, deferred, connEnd, dialogue, server>>

\* A return of scanOnceWithTLS after the dial runs what it has deferred.
Leave(o) ==
  /\ Return(o)
  /\ conn' = IF deferred THEN "closed" ELSE conn

-----------------------------------------------------------------------------
(* The dial, through makeDialer. *)

\* The dial has returned a connection.
Established ==
  /\ deferred' = TRUE
  /\ connEnd' = now + Timeout
  /\ pc' = IF protocol = "none" THEN "handshake" ELSE "starttls"

\* A TCP connection stands: to the target, by SOCKS5 to the target, or to the proxy.
DialSucceeds ==
  /\ pc = "dial"
  /\ conn' = "open"
  /\ \/ proxy \in {"none", "socks5"} /\ Established
     \/ proxy = "http" /\ pc' = "request" /\ UNCHANGED <<deferred, connEnd>>
     \/ proxy = "https" /\ pc' = "tunnel" /\ UNCHANGED <<deferred, connEnd>>
  /\ UNCHANGED <<setting, clock, dialogue, server, outcome>>

\* The dialers of net and of SOCKS5 keep nothing open when they fail.
DialFails(o) ==
  /\ pc = "dial"
  /\ Return(o)
  /\ UNCHANGED conn

\* The TLS handshake with the proxy, under dialCtx.
TunnelSucceeds ==
  /\ pc = "tunnel"
  /\ pc' = "request"
  /\ UNCHANGED <<setting, clock, conn, deferred, connEnd, dialogue, server, outcome>>

TunnelFails(o) ==
  /\ pc = "tunnel"
  /\ conn' = "closed"
  /\ Return(o)

\* CONNECT is written; it fits the buffer of a new connection.
RequestSent ==
  /\ pc = "request"
  /\ pc' = "connect"
  /\ UNCHANGED <<setting, clock, conn, deferred, connEnd, dialogue, server, outcome>>

\* Fault: the error of the write keeps the connection.
RequestFailsOpen ==
  /\ pc = "request"
  /\ Return("failed")
  /\ UNCHANGED conn

RequestFails ==
  /\ pc = "request"
  /\ conn' = "closed"
  /\ Return("failed")

\* The proxy answers CONNECT with 200; nothing bounds the wait for it.  A greeting on
\* the wire is read with the answer, and lost, or arrives after it.
ConnectAccepted ==
  /\ pc = "connect"
  /\ Established
  /\ \/ UNCHANGED <<wire, swallowed>>
     \/ wire > 0 /\ wire' = 0 /\ swallowed' = TRUE
  /\ UNCHANGED <<setting, clock, conn, dialogue, served, mail, outcome>>

\* The answer cannot be read, or ends early.
ConnectFails ==
  /\ pc = "connect"
  /\ conn' = "closed"
  /\ Return("failed")

\* Another status: Body.Close reads what the proxy still sends, and nothing bounds that.
ConnectRefused ==
  /\ pc = "connect"
  /\ pc' = "refused"
  /\ UNCHANGED <<setting, clock, conn, deferred, connEnd, dialogue, server, outcome>>

RefusalRead ==
  /\ pc = "refused"
  /\ conn' = "closed"
  /\ Return("failed")

-----------------------------------------------------------------------------
(* negotiateStartTLS. *)

Supported == protocol \in DOMAIN Dialogue

Position == Dialogue[protocol][step]

\* Fault: the handshake starts with the last position instead of after it.
AdvanceEarly ==
  /\ step' = step + 1
  /\ lines' = 0
  /\ pc' = IF step + 1 >= Len(Dialogue[protocol]) THEN "handshake" ELSE "starttls"

\* The next position of the dialogue, or the handshake after the last one.
Advance ==
  /\ step' = step + 1
  /\ lines' = 0
  /\ pc' = IF step = Len(Dialogue[protocol]) THEN "handshake" ELSE "starttls"

Unsupported ==
  /\ pc = "starttls"
  /\ ~Supported
  /\ Leave("failed")

Send ==
  /\ pc = "starttls"
  /\ Supported
  /\ Position = "send"
  /\ Advance
  /\ mail' = mail + 1
  /\ UNCHANGED <<setting, clock, conn, deferred, connEnd, served, wire, swallowed, outcome>>

Answered ==
  /\ pc = "starttls"
  /\ Supported
  /\ Position # "send"
  /\ wire > 0
  /\ wire' = IF Position = "header" THEN wire ELSE wire - 1
  /\ Advance
  /\ UNCHANGED <<setting, clock, conn, deferred, connEnd, served, mail, swallowed, outcome>>

\* Fault: every line of a reply moves the deadline.
LineExtends ==
  /\ pc = "starttls"
  /\ Supported
  /\ Position = "reply"
  /\ lines + 1 < MaxLines
  /\ lines' = lines + 1
  /\ connEnd' = now + Timeout
  /\ UNCHANGED <<setting, pc, clock, conn, deferred, step, server, outcome>>

\* Another line of a reply that is not the last; too many of them are an error.
ContinuationLine ==
  /\ pc = "starttls"
  /\ Supported
  /\ Position = "reply"
  /\ wire > 0
  /\ \/ /\ lines + 1 < MaxLines
        /\ lines' = lines + 1
        /\ UNCHANGED <<setting, pc, clock, conn, deferred, connEnd, step, server, outcome>>
     \/ /\ lines + 1 = MaxLines
        /\ Leave("failed")

\* The server closes, or says what the dialogue does not accept.
StartTLSFails ==
  /\ pc = "starttls"
  /\ Leave("failed")

\* Fault: the deadline is set after the dialogue.
DeadlineAfterDialogue ==
  /\ pc = "handshake"
  /\ now >= connEnd
  /\ Leave("timeout")

\* The deadline of the connection bounds the dialogue and the handshake.
ConnTimesOut ==
  /\ pc \in {"starttls", "handshake"}
  /\ now >= connEnd
  /\ Leave("timeout")

-----------------------------------------------------------------------------
(* The server of a STARTTLS protocol, which a proxy reaches before it answers CONNECT. *)

ServerNext(move) ==
  /\ pc \in {"connect", "starttls", "handshake"}
  /\ Supported
  /\ served <= Len(Script[protocol])
  /\ Script[protocol][served] = move
  /\ served' = served + 1
  /\ UNCHANGED <<setting, pc, clock, conn, deferred, connEnd, dialogue, swallowed, outcome>>

ServerSays == ServerNext("say") /\ wire' = wire + 1 /\ UNCHANGED mail

ServerHears == ServerNext("hear") /\ mail > 0 /\ mail' = mail - 1 /\ UNCHANGED wire

-----------------------------------------------------------------------------
(* The handshake with the target. *)

\* HandshakeContext fails on a context that ended before.
InTime == now <= Timeout /\ (ctx = "live" \/ endedAt = now)

HandshakeSucceeds ==
  /\ pc = "handshake"
  /\ InTime
  /\ Supported => served > Len(Script[protocol])
  /\ Leave("success")

\* The server refuses, closes, or shows no certificate.
HandshakeFails(o) ==
  /\ pc = "handshake"
  /\ Leave(o)

-----------------------------------------------------------------------------
(* dialCtx, the caller and time. *)

\* Fault: the handshake with the proxy has no context.
TunnelBlind == pc \in {"dial", "handshake"}

\* What watches dialCtx ends with it.
WatchesDialCtx == pc \in {"dial", "tunnel", "handshake"}

\* Fault: the error is taken from the caller's context, where that has ended.
AskCaller ==
  /\ WatchesDialCtx
  /\ dialErr # "none"
  /\ LET err == IF ctx = "live" THEN dialErr ELSE ctx
     IN  DialFails(err) \/ TunnelFails(err) \/ HandshakeFails(err)

\* A wait reports the error of dialCtx; SOCKS5 may report the read that it broke off.
DialCtxEnds ==
  /\ WatchesDialCtx
  /\ dialErr # "none"
  /\ \/ DialFails(dialErr) \/ TunnelFails(dialErr) \/ HandshakeFails(dialErr)
     \/ proxy = "socks5" /\ DialFails("timeout")

\* The timer of dialCtx; a context keeps its first error.
TimerFires ==
  /\ pc # "done"
  /\ dialErr = "none"
  /\ now >= Timeout
  /\ dialErr' = "deadline"
  /\ UNCHANGED <<setting, pc, now, conn, deferred, connEnd, dialogue, server, ctx, endedAt, outcome>>

\* The caller cancels, or its own deadline passes; dialCtx ends with it.
ContextEnds ==
  /\ pc # "done"
  /\ ctx = "live"
  /\ ctx' \in {"canceled", "deadline"}
  /\ endedAt' = now
  /\ dialErr' = IF dialErr = "none" THEN ctx' ELSE dialErr
  /\ UNCHANGED <<setting, pc, now, conn, deferred, connEnd, dialogue, server, outcome>>

\* What the attempt can do at once it does before time passes.
Urgent ==
  \/ dialErr = "none" /\ now >= Timeout
  \/ WatchesDialCtx /\ dialErr # "none"
  \/ pc = "request"
  \/ pc = "starttls" /\ (~Supported \/ now >= connEnd)
  \/ pc = "starttls" /\ Supported /\ Position = "send"

Tick ==
  /\ pc # "done"
  /\ ~Urgent
  /\ pc \in {"connect", "refused"} => now < Horizon
  /\ now' = now + 1
  /\ UNCHANGED <<setting, pc, conn, deferred, connEnd, dialogue, server, ctx, endedAt, dialErr,
                 outcome>>

Dialer ==
  \/ DialSucceeds \/ DialFails("failed")
  \/ TunnelSucceeds \/ TunnelFails("failed")
  \/ RequestFails \/ ConnectAccepted \/ ConnectFails \/ ConnectRefused \/ RefusalRead

Peer ==
  \/ Dialer
  \/ Answered \/ ContinuationLine \/ StartTLSFails \/ ServerSays \/ ServerHears
  \/ HandshakeSucceeds \/ HandshakeFails("failed")

Local == TimerFires \/ DialCtxEnds \/ RequestSent \/ Unsupported \/ Send \/ ConnTimesOut

Next == Peer \/ Local \/ Tick \/ ContextEnds

\* The attempt does what it can and time passes; no peer has to answer.
Fairness == WF_vars(Local) /\ WF_vars(Tick)

Spec == Init /\ [][Next]_vars /\ Fairness

-----------------------------------------------------------------------------
(* Properties. *)

\* Without a proxy that must answer a CONNECT.
Direct == proxy \in {"none", "socks5"}

\* An open connection has exactly one that is to close it, the dialer until it returns
\* and the deferred close after that, so that none is left open by any way to fail: a
\* peer that refuses, breaks off or is late, before or after the dial has returned.
NoLeak ==
  /\ conn = "open" => (pc \in InDial) # deferred
  /\ pc = "done" => conn # "open"

\* A peer cannot hold an attempt beyond the timeout, or beyond twice the timeout with
\* STARTTLS, whatever it answers and how slowly, unless it is an HTTP proxy.
TimeLimit ==
  Direct => now <= (IF protocol = "none" THEN Timeout ELSE Timeout + Timeout)

\* An attempt succeeds within the timeout or not at all: the time that STARTTLS gets
\* from the later deadline of the connection is of no use to the handshake.
SuccessInTime == outcome = "success" => now <= Timeout

\* The caller's context stops an attempt at once, but for a CONNECT, which does not
\* see it, and a STARTTLS dialogue, which lives on to the deadline of the connection;
\* after it no attempt succeeds.
CancelReaches ==
  ctx # "live" =>
    /\ pc \in {"dial", "tunnel"} => now = endedAt
    /\ pc = "starttls" => now <= connEnd
    /\ outcome = "success" => now = endedAt

\* Of the caller's context and the timeout, an error names the one that ended the
\* attempt first, however much later a wait comes to see it and whatever has ended
\* since: "canceled" is a cancel of the caller within the timeout, as Scan assumes
\* (AttemptFails), and a cancel is never told from a stage that watches the context as
\* a deadline, but for a SOCKS5 dialer, whose reads it breaks off.
ReasonIsTrue ==
  /\ outcome = "canceled" => ctx = "canceled" /\ endedAt <= Timeout
  /\ outcome = "deadline" =>
       \/ ctx = "deadline"
       \/ now >= Timeout /\ (ctx = "canceled" => endedAt >= Timeout)
  /\ outcome = "timeout" => now >= Timeout \/ (proxy = "socks5" /\ ctx # "live")

\* The server has something to say before it must hear something.
Speaks ==
  served <= Len(Script[protocol]) /\ Script[protocol][served] = "say"

\* The dialogue and a server that keeps to its script never wait for each other, and
\* come to the TLS handshake together, with nothing said that is still to be read;
\* unless the greeting came with the answer of an HTTP proxy and was dropped with its
\* buffer (scanner.go:161), after which no attempt succeeds.
DialoguesMesh ==
  /\ pc = "starttls" /\ Supported /\ ~swallowed =>
       Position = "send" \/ wire > 0 \/ mail > 0 \/ Speaks
  /\ pc = "handshake" /\ Supported =>
       wire = 0 /\ \A i \in served .. Len(Script[protocol]) : Script[protocol][i] = "hear"
  /\ swallowed => ~Direct /\ outcome # "success"

\* Every attempt ends, unless a proxy never answers its CONNECT, or never ends the body
\* of a refusal.
AttemptEnds == <>[](pc \in {"done", "connect", "refused"})
=============================================================================
