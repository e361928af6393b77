------------------------------ MODULE MCSession ------------------------------
(***************************************************************************)
(* Model checking of Session: processes are interchangeable, and so are    *)
(* further connections, and entities.                                      *)
(***************************************************************************)
EXTENDS Session, TLC

Symmetry == Permutations(Processes) \cup Permutations(Conns \ Processes) \cup Permutations(Entities)
=============================================================================
