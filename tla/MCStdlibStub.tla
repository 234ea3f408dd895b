---------------------------- MODULE MCStdlibStub ----------------------------
(* Three servers that start in any order, a text written in two pieces.     *)
EXTENDS StdlibStub, TLC

CONSTANTS s1, s2, s3

ThreeServers == {s1, s2, s3}
Exchangeable == Permutations(ThreeServers)
=============================================================================
