---------------------------- MODULE MCTcpFraming ----------------------------
(***************************************************************************)
(* Model checking of TcpFraming: four messages of different lengths, in    *)
(* both of the orders that matter: a longer one after the one that is sent *)
(* in part, and a shorter one.  The last can be sent in two parts, but not *)
(* in three.                                                               *)
(***************************************************************************)
EXTENDS TcpFraming

Lengths == {<<3, 4, 3, 2>>}
=============================================================================
