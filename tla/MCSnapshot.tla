----------------------------- MODULE MCSnapshot -----------------------------
(* Snapshot with files of up to two lines about two endpoints. *)
EXTENDS Snapshot

Result(e, f, names, audit, findings) ==
  [kind |-> "result", endpoint |-> e, fingerprint |-> f, names |-> names, audit |-> audit,
   findings |-> findings]

SomeResults ==
  {Result(1, "", {}, "", {}), Result(1, "A", {1, 2}, "warn", {"high"}),
   Result(1, "B", {2, 3, 4}, "", {"high"}), Result(1, "B", {2, 3}, "", {"info"}),
   Result(2, "A", {1}, "fail", {}), Result(2, "", {}, "", {})}

SomeFiles == BoundedSeq(SomeResults \cup {BlankLine, BadLine}, 2)
=============================================================================
