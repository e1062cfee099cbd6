------------------------------ MODULE MCServer ------------------------------
(* Small instances of the server; the .cfg files say which. *)
EXTENDS Server

CONSTANTS c1, c2, c3, a, b

(* Two connections from one address and one from another. *)
TwoPeers == [c \in Conns |-> IF c = c3 THEN b ELSE a]
=============================================================================
