--------------------------- MODULE MCMessageQueue ---------------------------
(* MessageQueue with three broadcasting threads and up to four messages.   *)
EXTENDS MessageQueue

CONSTANTS p1, p2, p3, c, none

MCProducers == {p1, p2, p3}
=============================================================================
