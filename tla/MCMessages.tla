----------------------------- MODULE MCMessages -----------------------------
(* Instances of Messages for TLC. *)
EXTENDS Messages, TLC

CONSTANTS cn1, cn2, th1

OneConn == {cn1}
TwoConns == {cn1, cn2}
OneEach == {{c} : c \in Conns}
=============================================================================
