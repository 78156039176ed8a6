---------------------------- MODULE MCHandshake ----------------------------
(* Instances of Handshake for TLC: a distinct pair of numbers per cookie. *)
EXTENDS Handshake

MCServerByte == [c \in Time |-> 2 * c + 1]
MCClientByte == [c \in Time |-> 2 * c + 2]
=============================================================================
