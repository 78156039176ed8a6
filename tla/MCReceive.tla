----------------------------- MODULE MCReceive -----------------------------
(* Instances of Receive for TLC. *)
EXTENDS Receive, TLC

CONSTANTS io1, io2, e1, e2

TwoEvents == {e1, e2}
TwoIo == {io1, io2}
=============================================================================
