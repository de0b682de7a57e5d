------------------------------- MODULE MCScan -------------------------------
(* Scan with the errors that dial, handshake, proxies and STARTTLS return.  *)
EXTENDS Scan

Op(net) == [Plain EXCEPT !.op = TRUE, !.net = net]

ScanErrors == {
  [Op("permanent") EXCEPT !.is = "canceled"],             \* dial: operation was canceled
  [Plain EXCEPT !.is = "canceled"],                       \* handshake: context canceled
  [Op("timeout") EXCEPT !.is = "deadline"],               \* dial: i/o timeout
  [Plain EXCEPT !.is = "deadline", !.net = "timeout"],    \* handshake: deadline exceeded
  Op("timeout"),                                          \* read: i/o timeout
  [Op("permanent") EXCEPT !.dns = TRUE],                  \* no such host
  [Op("timeout") EXCEPT !.dns = TRUE],                    \* lookup timed out
  [Op("permanent") EXCEPT !.text = {"refused"}],          \* connection refused
  [Op("permanent") EXCEPT !.text = {"transient"}],        \* connection reset by peer
  [Plain EXCEPT !.text = {"transient"}],                  \* unexpected EOF
  [Plain EXCEPT !.text = {"proxy"}],                      \* proxy CONNECT returned 407
  [Plain EXCEPT !.text = {"starttls"}],                   \* starttls: rejected
  [Plain EXCEPT !.text = {"starttls", "transient"}],      \* 421 temporarily unavailable
  [Plain EXCEPT !.noCert = TRUE],                         \* no peer certificate
  Plain }                                                 \* TLS alert, EOF
=============================================================================
