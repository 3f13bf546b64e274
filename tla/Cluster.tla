------------------------------- MODULE Cluster -------------------------------
(***************************************************************************)
(* LAN cluster discovery: class ClusterDiscovery of app/engine/cluster.py, *)
(* the settings handler that restarts it (app/web/routes/settings.py) and  *)
(* the key-guarded peer routes of app/web/routes/cluster.py.  Beacons are  *)
(* UDP datagrams: lost, delayed, delivered again.                          *)
(***************************************************************************)
EXTENDS Naturals, FiniteSets

CONSTANTS
    Nodes, Keys,   \* nodes; cluster keys
    Posts,         \* requests that change cluster settings
    PeerTtl,       \* PEER_TTL in ticks
    MaxPosts,      \* bound: settings changed
    MaxCommands    \* bound: remote commands

VARIABLES
    clCfg,         \* node -> its saved settings: enabled and key
    clRunning,     \* node -> _running
    clSocket,      \* node -> _transport is set
    clLeaked,      \* nodes with a socket no variable refers to any more
    clBeacon,      \* node -> _beacon_task is set
    clReq,         \* request -> its node and what it has still to do
    clNet,         \* beacons under way: sender and key
    clPeers,       \* node -> _peers: ticks left and the key the beacon was signed with
    clCmd,         \* commands under way: target, key sent, key its beacon had proved
    clRan,         \* commands that ran, with the key the target held
    clOverlap,     \* nodes whose restarts have overlapped
    clPosts, clCommands

clVars == <<clCfg, clRunning, clSocket, clLeaked, clBeacon, clReq, clNet, clPeers, clCmd, clRan,
            clOverlap, clPosts, clCommands>>
clLocal == <<clRunning, clSocket, clLeaked, clBeacon>>
Idle    == [pc |-> "idle"]
NoPeers == [p \in {} |-> 0]
OffCfg  == [on |-> FALSE, key |-> CHOOSE k \in Keys : TRUE]

ClInit ==
    /\ clCfg = [n \in Nodes |-> OffCfg] /\ clRunning = [n \in Nodes |-> FALSE]
    /\ clSocket = [n \in Nodes |-> FALSE] /\ clLeaked = {} /\ clBeacon = [n \in Nodes |-> FALSE]
    /\ clReq = [r \in Posts |-> Idle] /\ clNet = {} /\ clPeers = [n \in Nodes |-> NoPeers]
    /\ clCmd = {} /\ clRan = {} /\ clOverlap = {} /\ clPosts = 0 /\ clCommands = 0

Restarting(n) == \E r \in Posts : clReq[r].pc # "idle" /\ clReq[r].node = n

(* settings_cluster_post: the settings are replaced and saved; the lock is *)
(* released before discovery is restarted.                                 *)
ClPost(r, n, on, key) ==
    /\ clReq[r] = Idle /\ clPosts < MaxPosts /\ clPosts' = clPosts + 1
    /\ clCfg' = [clCfg EXCEPT ![n] = [on |-> on, key |-> key]]
    /\ clReq' = [clReq EXCEPT ![r] = [pc |-> "saved", node |-> n]]
    /\ clOverlap' = IF Restarting(n) THEN clOverlap \cup {n} ELSE clOverlap
    /\ UNCHANGED <<clLocal, clNet, clPeers, clCmd, clRan, clCommands>>

Wanted(n) == clCfg[n].on

(* The end of stop() and start() up to the socket's creation, which is     *)
(* awaited.                                                                *)
StopThenStart(r, n) ==
    /\ clSocket' = [clSocket EXCEPT ![n] = FALSE] /\ clBeacon' = [clBeacon EXCEPT ![n] = FALSE]
    /\ clPeers' = [clPeers EXCEPT ![n] = NoPeers]
    /\ clReq' = [clReq EXCEPT ![r] = IF Wanted(n) /\ ~clRunning'[n] THEN [@ EXCEPT !.pc = "starting"]
                                                               ELSE Idle]

(* stop(): a beacon task is cancelled and waited for.                      *)
ClStop(r) ==
    LET n == clReq[r].node IN
    /\ clReq[r].pc = "saved" /\ clRunning' = [clRunning EXCEPT ![n] = FALSE]
    /\ IF clBeacon[n] THEN /\ clReq' = [clReq EXCEPT ![r].pc = "stopping"]
                           /\ UNCHANGED <<clSocket, clBeacon, clPeers>>
                      ELSE StopThenStart(r, n)
    /\ UNCHANGED <<clCfg, clLeaked, clNet, clCmd, clRan, clOverlap, clPosts, clCommands>>

ClStopped(r) ==
    /\ clReq[r].pc = "stopping" /\ UNCHANGED clRunning /\ StopThenStart(r, clReq[r].node)
    /\ UNCHANGED <<clCfg, clLeaked, clNet, clCmd, clRan, clOverlap, clPosts, clCommands>>

(* start(), after the socket was created, or could not be.                 *)
ClStarted(r, ok) ==
    LET n == clReq[r].node IN
    /\ clReq[r].pc = "starting" /\ clReq' = [clReq EXCEPT ![r] = Idle]
    /\ clRunning' = [clRunning EXCEPT ![n] = @ \/ ok]
    /\ clSocket' = [clSocket EXCEPT ![n] = @ \/ ok]
    /\ clLeaked' = IF ok /\ clSocket[n] THEN clLeaked \cup {n} ELSE clLeaked
    /\ clBeacon' = [clBeacon EXCEPT ![n] = @ \/ ok]
    /\ UNCHANGED <<clCfg, clNet, clPeers, clCmd, clRan, clOverlap, clPosts, clCommands>>

-----------------------------------------------------------------------------
(* _beacon_loop: a beacon signed with the key of the moment.               *)
ClSend(n) ==
    /\ clBeacon[n] /\ clSocket[n]
    /\ clNet' = clNet \cup {[from |-> n, key |-> clCfg[n].key]}
    /\ UNCHANGED <<clCfg, clLocal, clReq, clPeers, clCmd, clRan, clOverlap, clPosts, clCommands>>

Trusted(n, b) == b.from # n /\ b.key = clCfg[n].key

(* handle_datagram: our own beacon and one signed with another key are     *)
(* ignored; the datagram may arrive again.                                 *)
ClReceive(n, b) ==
    /\ clSocket[n] \/ n \in clLeaked
    /\ clPeers' = IF Trusted(n, b) THEN [clPeers EXCEPT ![n] =
                                [p \in DOMAIN @ \cup {b.from} |->
                                    IF p = b.from THEN [ttl |-> PeerTtl, key |-> b.key] ELSE @[p]]]
                        ELSE clPeers
    /\ UNCHANGED <<clCfg, clLocal, clReq, clNet, clCmd, clRan, clOverlap, clPosts, clCommands>>

ClLose(b) ==
    /\ clNet' = clNet \ {b}
    /\ UNCHANGED <<clCfg, clLocal, clReq, clPeers, clCmd, clRan, clOverlap, clPosts, clCommands>>

(* Time passes; peers() drops those not heard within PEER_TTL.             *)
ClTick ==
    /\ \E n \in Nodes : DOMAIN clPeers[n] # {}
    /\ clPeers' = [n \in Nodes |-> [p \in {q \in DOMAIN clPeers[n] : clPeers[n][q].ttl > 0} |->
                                       [clPeers[n][p] EXCEPT !.ttl = @ - 1]]]
    /\ UNCHANGED <<clCfg, clLocal, clReq, clNet, clCmd, clRan, clOverlap, clPosts, clCommands>>

(* cluster_control_peer, cluster_peer_save: a known address only; the call *)
(* carries this node's key.                                                *)
ClCommand(n, p) ==
    /\ p \in DOMAIN clPeers[n] /\ clCommands < MaxCommands /\ clCommands' = clCommands + 1
    /\ clCmd' = clCmd \cup {[to |-> p, key |-> clCfg[n].key, proved |-> clPeers[n][p].key,
                            settled |-> ~Restarting(n)]}
    /\ UNCHANGED <<clCfg, clLocal, clReq, clNet, clPeers, clRan, clOverlap, clPosts>>

(* The check of every peer-facing route: the cluster is active and the key *)
(* is the one held now.                                                    *)
KeyGuard(cfg, key) == cfg.on /\ key = cfg.key

(* cluster_control, cluster_mapping_save on the peer.                      *)
ClRun(c) ==
    /\ clCmd' = clCmd \ {c}
    /\ clRan' = IF KeyGuard(clCfg[c.to], c.key) THEN clRan \cup {<<c, clCfg[c.to]>>} ELSE clRan
    /\ UNCHANGED <<clCfg, clLocal, clReq, clNet, clPeers, clOverlap, clPosts, clCommands>>

ClRestart(r) == ClStop(r) \/ ClStopped(r) \/ ClStarted(r, TRUE)

ClNext ==
    \/ ClTick
    \/ \E r \in Posts : \/ ClRestart(r) \/ ClStarted(r, FALSE)
                        \/ \E n \in Nodes, on \in BOOLEAN, key \in Keys : ClPost(r, n, on, key)
    \/ \E n \in Nodes : ClSend(n) \/ \E b \in clNet : ClReceive(n, b)
    \/ \E n, p \in Nodes : ClCommand(n, p)
    \/ \E b \in clNet : ClLose(b)
    \/ \E c \in clCmd : ClRun(c)

-----------------------------------------------------------------------------
(* Changing the key cuts a node off from the old cluster at once: with no  *)
(* restart under way, every peer in its table has proved the present key,  *)
(* although beacons of the old key are still being delivered.              *)
KeyedPeers ==
    \A n \in Nodes : ~Restarting(n) => \A p \in DOMAIN clPeers[n] : clPeers[n][p].key = clCfg[n].key

(* "apply live: restart discovery so a key/port/enable change takes effect *)
(* now": discovery is off where the settings say so, unless two restarts of*)
(* that node overlapped.                                                   *)
OffMeansOff ==
    \A n \in Nodes \ clOverlap : ~Restarting(n) /\ ~clCfg[n].on => ~clRunning[n] /\ ~clSocket[n]

(* A remote command runs only inside one cluster: the node that runs it is *)
(* active and holds the key its beacon had proved to the sender, whatever  *)
(* either changed while the command was under way.                         *)
CommandsStayInside ==
    \A <<c, cfg>> \in clRan : cfg.on /\ (c.settled => c.proved = cfg.key)


=============================================================================
