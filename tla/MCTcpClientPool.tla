------------------------- MODULE MCTcpClientPool -------------------------
(* Two loops, two racing producers, batches of two events.                *)
EXTENDS TcpClientPool

CONSTANTS p1, p2

MCProducers == {p1, p2}

MCOneProducer == {p1}
=============================================================================
