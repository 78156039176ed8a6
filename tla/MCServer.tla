------------------------------ MODULE MCServer ------------------------------
(* Instances of Server for TLC. *)
EXTENDS Server, TLC

CONSTANTS k1, io1, io2

OneKey == {k1}
OneIo == {io1}
TwoIo == {io1, io2}
=============================================================================
