------------------------------ MODULE MCStores ------------------------------
(***************************************************************************)
(* The parts that keep records consistent: trace files, the Sparkplug      *)
(* session, accounts, config files, the cluster's peers, notifications.    *)
(* They share no state here, so a behaviour runs one of them, chosen at    *)
(* the start, and leaves the others where they begin.                      *)
(***************************************************************************)
EXTENDS Tracer, Sparkplug, Accounts, ConfigFiles, Cluster, Notify

VARIABLE part

SpPointsPQ == [p |-> "u1", q |-> "u2"]
SpUnits    == <<"u1", "u2">>
OneMapping == <<"m">>

Init ==
    /\ part \in {"trace", "sparkplug", "accounts", "files", "cluster", "notify"}
    /\ TraceInit /\ SpInit /\ AcInit /\ CfInit /\ ClInit /\ NtInit

Next ==
    \/ part = "trace" /\ TraceNext /\ UNCHANGED <<part, spVars, acVars, cfVars, clVars, ntVars>>
    \/ part = "sparkplug" /\ SpNext /\ UNCHANGED <<part, trVars, acVars, cfVars, clVars, ntVars>>
    \/ part = "accounts" /\ AcNext /\ UNCHANGED <<part, trVars, spVars, cfVars, clVars, ntVars>>
    \/ part = "files" /\ CfNext /\ UNCHANGED <<part, trVars, spVars, acVars, clVars, ntVars>>
    \/ part = "cluster" /\ ClNext /\ UNCHANGED <<part, trVars, spVars, acVars, cfVars, ntVars>>
    \/ part = "notify" /\ NtNext /\ UNCHANGED <<part, trVars, spVars, acVars, cfVars, clVars>>

=============================================================================
