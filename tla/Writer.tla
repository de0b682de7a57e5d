-------------------------------- MODULE Writer --------------------------------
(***************************************************************************)
(* The result writer (internal/output/output.go:20-76) over what runScan   *)
(* gives it to write to (cli.go:287-304): stdout, or with -o first the     *)
(* file and then stdout.  Records wait in a buffer until it overflows or   *)
(* is flushed.  Which records give lines, and in what format, is left      *)
(* open.  After a failed write runScan writes no more, so that a           *)
(* destination that fails once need not be remembered as broken.           *)
(***************************************************************************)
EXTENDS Naturals, Sequences

VARIABLES
  tee,                    \* -o was given
  pending,                \* records wait in the buffer
  behind                  \* destinations that miss something that left the buffer

\* Fault: stdout goes before the file.
StdoutFirst == IF tee THEN <<"stdout", "file">> ELSE <<"stdout">>

\* The file comes first (cli.go:297).
Destinations == IF tee THEN <<"file", "stdout">> ELSE <<"stdout">>

\* io.MultiWriter stops at the first error: that destination and the ones after it miss
\* what has left the buffer.
Refused ==
  \E i \in 1 .. Len(Destinations) :
    behind' = behind \cup {Destinations[j] : j \in i .. Len(Destinations)}

Taken == UNCHANGED behind

\* The record gives no line, or waits, or has made the buffer overflow.
Write == pending' \in BOOLEAN /\ Taken

\* The buffer overflowed into an error.
WriteFails == pending' = TRUE /\ Refused

Flush == pending' = FALSE /\ Taken

FlushFails == pending /\ UNCHANGED pending /\ Refused
=============================================================================
