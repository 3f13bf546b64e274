--------------------------- MODULE MCMappingRunner ---------------------------
(***************************************************************************)
(* Instances of MappingRunner in which the connections with a priority     *)
(* address are interchangeable, and so are those without.                  *)
(***************************************************************************)
EXTENDS MappingRunner, TLC

Peers == Permutations(Conns \ PriorityConns) \cup Permutations(PriorityConns)

=============================================================================
