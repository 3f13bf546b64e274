----------------------------- MODULE SerialFeed -----------------------------
(***************************************************************************)
(* What a mapping promises one client about the device's output: the       *)
(* client sees the chunks from its registration on, each once, in order    *)
(* and without a gap, up to the point where the connection is given up.    *)
(* Implemented by ClientConn.                                              *)
(***************************************************************************)
EXTENDS Naturals, Sequences

VARIABLES
    offered,   \* chunks the feed has accepted for the client
    got,       \* the chunks handed to the client's socket
    open       \* the feed still accepts chunks

vars == <<offered, got, open>>

Init == offered = 0 /\ got = <<>> /\ open = TRUE

\* Chunk offered + 1 is accepted; it may be the last one (closeon).
Offer ==
    /\ open
    /\ offered' = offered + 1
    /\ open' \in BOOLEAN
    /\ UNCHANGED got

\* The next m - Len(got) chunks reach the socket, also after the feed ended.
Deliver ==
    /\ \E m \in (Len(got) + 1) .. offered : got' = [i \in 1 .. m |-> i]
    /\ UNCHANGED <<offered, open>>

\* The connection is being given up; nothing is accepted any more.
Close ==
    /\ open
    /\ open' = FALSE
    /\ UNCHANGED <<offered, got>>

Next == Offer \/ Deliver \/ Close

Spec == Init /\ [][Next]_vars

=============================================================================
