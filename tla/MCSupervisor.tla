---------------------------- MODULE MCSupervisor ----------------------------
(***************************************************************************)
(* Instances of Supervisor: two mappings, a and b, listed in that order.   *)
(***************************************************************************)
EXTENDS Supervisor, TLC

CONSTANTS a, b

OrderAB == <<a, b>>
OnePort == {{a, b}}   \* both name the same serial port
OwnPorts == {}        \* each has its own

\* Requests are interchangeable.
Requests == Permutations(Reqs)

=============================================================================
