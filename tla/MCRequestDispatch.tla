------------------------- MODULE MCRequestDispatch -------------------------
(* A small instance of RequestDispatch, over either kind of channel.       *)
EXTENDS RequestDispatch

BothChannels == {"buffered", "rendezvous"}
=============================================================================
