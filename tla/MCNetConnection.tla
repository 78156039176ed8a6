-------------------------- MODULE MCNetConnection --------------------------
(* Instances of NetConnection for TLC. *)
EXTENDS NetConnection, TLC

\* Outgoing sequence numbers that wrap around within the run.
MCInitSeq == [e \in Ep |-> IF e = "client" THEN SeqCount - 1 ELSE SeqCount - 2]

PerSide(client, server) == [e \in Ep |-> IF e = "client" THEN client ELSE server]

OneUnitEach    == PerSide(1, 1)
TwoUnitsOneWay == PerSide(2, 0)
ThreeOneWay    == PerSide(3, 0)
ThreeAndTwo    == PerSide(3, 2)
TwoAndOne      == PerSide(2, 1)
FourAndTwo     == PerSide(4, 2)
=============================================================================
