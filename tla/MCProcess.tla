----------------------------- MODULE MCProcess -----------------------------
(***************************************************************************)
(* Model checking of the parts of a process that share no state: the       *)
(* registry of clients, the clock of an engine, the start and stop of      *)
(* engines, and threads that share sockets.  A step of one changes nothing *)
(* of another, so that each is checked on its own: `part' says which one   *)
(* takes steps.                                                            *)
(***************************************************************************)
EXTENDS ClientEntityRegistry, TickClock, EngineHost, SocketThreads, TLC

VARIABLE part

ProcessInit ==
  /\ part \in {"registry", "clock", "host", "threads"}
  /\ Init /\ ClockInit /\ HostInit /\ ThreadsInit
  /\ part # "clock" => ~knowsRate

ProcessNext ==
  \/ part = "registry" /\ Next /\ UNCHANGED <<clockVars, hostVars, threadVars>>
  \/ part = "clock" /\ ClockNext /\ UNCHANGED <<vars, hostVars, threadVars>>
  \/ part = "host" /\ HostNext /\ UNCHANGED <<vars, clockVars, threadVars>>
  \/ part = "threads" /\ ThreadsNext /\ UNCHANGED <<vars, clockVars, hostVars>>

ProcessSpec == ProcessInit /\ [][ProcessNext /\ UNCHANGED part]_<<part, vars, clockVars, hostVars, threadVars>>

Symmetry == Permutations(Descriptors) \cup Permutations(Threads) \cup Permutations(TcpSockets)
=============================================================================
