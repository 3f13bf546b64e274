----------------------------- MODULE Supervisor -----------------------------
(***************************************************************************)
(* The configured mappings and the runners that carry them out: the        *)
(* mapping operations of app/web/routes (ops.py, mappings.py, settings.py) *)
(* and class Supervisor of app/engine/supervisor.py.                       *)
(*                                                                         *)
(* An operation changes the configuration in memory under config_lock and  *)
(* saves it (a thread writes the file while the lock is held); it then     *)
(* leaves the lock and reconciles the runners.  An action is the code      *)
(* between two awaits, so what follows a save up to the next await belongs *)
(* to the save's action.                                                   *)
(*                                                                         *)
(* A runner (MappingRunner in detail) is what it holds: the listening      *)
(* socket, the serial task, and the state it shows.  Objects and runners   *)
(* are named after the request that made them and their mapping's id.      *)
(***************************************************************************)
EXTENDS Naturals, Sequences, FiniteSets

CONSTANTS
    Ids,          \* mapping ids
    Order,        \* the order of config.mappings
    Reqs,         \* requests, each served once
    SameDevice,   \* pairs of ids whose mappings name the same serial port
    Overlap,      \* requests may overlap on one mapping
    DiskErrors,   \* writing config.json may raise an OSError
    Boot, None    \* the maker of the initial objects and runners; nothing

ASSUME SupervisorAssumption ==
    /\ Order \in Seq(Ids) /\ {Order[k] : k \in DOMAIN Order} = Ids
    /\ SameDevice \subseteq SUBSET Ids
    /\ Overlap \in BOOLEAN /\ DiskErrors \in BOOLEAN
    /\ Boot \notin Reqs /\ None \notin Reqs \cup {Boot}

Made == (Reqs \cup {Boot}) \X Ids
Ops  == {"save", "duplicate", "start", "stop", "restart", "delete", "restore"}

VARIABLES
    cfg,        \* id -> its MappingConfig object, or None
    enabled,    \* object -> its enabled field
    disk,       \* id -> absent, off or on: what config.json says
    lock,       \* the request that holds config_lock, or None
    undo,       \* request -> the mappings list it took as a backup
    registry,   \* Supervisor._runners: id -> runner, or None
    rn,         \* runner -> socket, serial task and status.state
    pc,         \* request -> where it awaits
    op,         \* request -> the operation
    obj,        \* request -> the mapping object it is about, or None
    run,        \* request -> the runner whose stop() or start() it awaits, or None
    todo,       \* request -> the mappings start_all still has to visit
    kill        \* request -> the runners stop_all still has to stop

config == <<cfg, enabled, disk, lock, undo>>
engine == <<registry, rn, run, todo, kill, obj, pc>>
vars   == <<config, engine, op>>

On(c, i) == c[i] # None /\ enabled[c[i]]
Kind(c, i) == IF c[i] = None THEN "absent" ELSE IF enabled[c[i]] THEN "on" ELSE "off"

\* AppConfig.validate: no two enabled mappings name one serial port.
Valid == \A p \in SameDevice : Cardinality({i \in p : On(cfg, i)}) <= 1

Idle == [sock |-> "none", task |-> FALSE, state |-> "stopped"]
Up   == [sock |-> "served", task |-> TRUE, state |-> "running"]

\* The program has booted: start_all has run for a valid configuration.
Init ==
    \E kind \in [Ids -> {"absent", "off", "on"}] :
        /\ cfg = [i \in Ids |-> IF kind[i] = "absent" THEN None ELSE <<Boot, i>>]
        /\ enabled = [o \in Made |-> o[1] = Boot /\ kind[o[2]] = "on"]
        /\ disk = kind /\ lock = None /\ undo = [q \in Reqs |-> cfg]
        /\ registry = cfg
        /\ rn = [r \in Made |-> IF r[1] = Boot /\ kind[r[2]] = "on" THEN Up ELSE Idle]
        /\ Valid
        /\ pc = [q \in Reqs |-> "idle"] /\ op = [q \in Reqs |-> "save"]
        /\ obj = [q \in Reqs |-> None] /\ run = [q \in Reqs |-> None]
        /\ todo = [q \in Reqs |-> <<>>] /\ kill = [q \in Reqs |-> {}]

-----------------------------------------------------------------------------
(* A runner's start() and stop(), cut at their awaits                      *)

\* stop() up to its first await: the listener closes if start() has stored it.
BeginStop(rs, r) == [rs EXCEPT ![r].sock = IF @ = "served" THEN "none" ELSE @]

\* Variant: stop() leaves the serial task alone.
EndStopKeepingTask(rs, r) == [rs EXCEPT ![r].state = "stopped"]

\* The rest of stop(): the serial task is cancelled and awaited.
EndStop(rs, r) == [rs EXCEPT ![r].task = FALSE, ![r].state = "stopped"]

\* start() up to the await of start_server.
BeginStart(rs, r) == [rs EXCEPT ![r].task = TRUE]

-----------------------------------------------------------------------------
(* Supervisor: the code between two awaits.  reg and rs are the registry   *)
(* and the runners as the step has left them so far.                       *)

\* Request q awaits at place p for runner r.
Await(q, p, r, reg, rs) ==
    /\ registry' = reg /\ rn' = rs
    /\ pc' = [pc EXCEPT ![q] = p] /\ run' = [run EXCEPT ![q] = r]

Return(q, reg, rs) == Await(q, "done", None, reg, rs)

\* A new runner takes the mapping's place and starts.
Start(q, o, reg, rs) ==
    LET n == <<q, o[2]>>
    IN  Await(q, "binding", n, [reg EXCEPT ![o[2]] = n], BeginStart(rs, n))

\* The old runner is taken out of the registry and stopped.
Replace(q, o, reg, rs) ==
    LET old == reg[o[2]]
    IN  Await(q, "replacing", old, [reg EXCEPT ![o[2]] = None], BeginStop(rs, old))

\* start_all from the mappings ids on (visited by id, in a fixed order, where
\* the code iterates over the live list): a stopped placeholder for each disabled
\* mapping without a runner, up to the first enabled one, which is applied.
StartAll(q, ids, reg, rs) ==
    LET ons == {k \in DOMAIN ids : On(cfg, ids[k])}
        k == IF ons = {} THEN Len(ids) + 1 ELSE CHOOSE m \in ons : \A n \in ons : m <= n
        offs == {ids[m] : m \in 1 .. k - 1}
        held == [i \in Ids |-> IF i \in offs /\ cfg[i] # None /\ reg[i] = None
                                 THEN <<q, i>> ELSE reg[i]]
    IN  IF ons = {}
          THEN /\ Return(q, held, rs)
               /\ todo' = [todo EXCEPT ![q] = <<>>] /\ UNCHANGED obj
          ELSE /\ IF held[ids[k]] = None THEN Start(q, cfg[ids[k]], held, rs)
                                        ELSE Replace(q, cfg[ids[k]], held, rs)
               /\ todo' = [todo EXCEPT ![q] = SubSeq(ids, k + 1, Len(ids))]
               /\ obj' = [obj EXCEPT ![q] = cfg[ids[k]]]

\* The second half of apply_mapping: the new runner takes the mapping's place
\* and is started if the mapping is enabled now; a start_all then goes on.
Register(q, o, reg, rs) ==
    IF enabled[o] THEN Start(q, o, reg, rs) /\ UNCHANGED <<todo, obj>>
    ELSE StartAll(q, todo[q], [reg EXCEPT ![o[2]] = <<q, o[2]>>], rs)

\* Variant: an enabled mapping's new runner starts without waiting for the old.
ApplyAtOnce(q, o, reg, rs) ==
    IF reg[o[2]] = None \/ enabled[o] THEN Register(q, o, reg, rs)
    ELSE Replace(q, o, reg, rs) /\ UNCHANGED <<todo, obj>>

\* apply_mapping: take the old runner out of the registry, stop it, go on.
Apply(q, o, reg, rs) ==
    IF reg[o[2]] = None THEN Register(q, o, reg, rs)
    ELSE Replace(q, o, reg, rs) /\ UNCHANGED <<todo, obj>>

\* stop_all's loop over the runners rest, then start_all.
StopAll(q, rest, reg, rs) ==
    \/ /\ rest = {}
       /\ StartAll(q, Order, reg, rs)
       /\ kill' = [kill EXCEPT ![q] = {}]
    \/ \E r \in rest :
          /\ Await(q, "clearing", r, reg, BeginStop(rs, r))
          /\ kill' = [kill EXCEPT ![q] = rest \ {r}]
          /\ UNCHANGED <<todo, obj>>

\* What a request does with the supervisor once its change is saved.
Reconcile(q) ==
    \/ /\ op[q] = "duplicate"
       /\ Return(q, registry, rn) /\ UNCHANGED <<todo, kill, obj>>
    \/ /\ op[q] \in {"save", "start"}
       /\ Apply(q, obj[q], registry, rn) /\ UNCHANGED kill
    \/ /\ op[q] \in {"stop", "restart", "delete"}
       /\ LET i == obj[q][2]
              r == registry[i]
              reg == IF op[q] = "delete" THEN [registry EXCEPT ![i] = None] ELSE registry
          IN  IF r = None /\ op[q] = "restart" THEN Apply(q, obj[q], registry, rn)
              ELSE /\ IF r = None THEN Return(q, reg, rn)
                      ELSE Await(q, "stopping", r, reg, BeginStop(rn, r))
                   /\ UNCHANGED <<todo, obj>>
       /\ UNCHANGED kill
    \/ /\ op[q] = "restore"
       /\ StopAll(q, {registry[i] : i \in Ids} \ {None}, [i \in Ids |-> None], rn)

-----------------------------------------------------------------------------
(* The configuration, under config_lock                                    *)

Active(q) == pc[q] \notin {"idle", "done"}

\* Without Overlap a mapping has one request at a time, and a restore is alone.
MayCome(q, targets) ==
    /\ pc[q] = "idle" /\ lock = None
    /\ Overlap \/ \A p \in Reqs : Active(p) =>
          op[p] # "restore" /\ obj[p] # None /\ obj[p][2] \notin targets

\* Request q changes the mappings to c and the field enabled to e.
Change(q, kind, o, c, e) ==
    /\ cfg' = c /\ enabled' = e
    /\ undo' = [undo EXCEPT ![q] = cfg]
    /\ lock' = q
    /\ op' = [op EXCEPT ![q] = kind]
    /\ obj' = [obj EXCEPT ![q] = o]
    /\ pc' = [pc EXCEPT ![q] = "saving"]
    /\ UNCHANGED <<disk, registry, rn, run, todo, kill>>

\* save_mapping_from_form, create_mapping and update_mapping.
SaveMapping(q, i, on) ==
    /\ MayCome(q, {i})
    /\ Change(q, "save", <<q, i>>, [cfg EXCEPT ![i] = <<q, i>>], [enabled EXCEPT ![<<q, i>>] = on])

\* mapping_duplicate: a disabled copy under a new id; its serial port is the same.
Duplicate(q, i) ==
    /\ MayCome(q, {i}) /\ cfg[i] = None
    /\ \E j \in Ids : cfg[j] # None /\ {i, j} \in SameDevice
    /\ Change(q, "duplicate", <<q, i>>, [cfg EXCEPT ![i] = <<q, i>>],
              [enabled EXCEPT ![<<q, i>>] = FALSE])

\* apply_action: start, stop or restart.
ApplyAction(q, i, action) ==
    /\ MayCome(q, {i}) /\ cfg[i] # None
    /\ Change(q, action, cfg[i], cfg, [enabled EXCEPT ![cfg[i]] = action # "stop"])

DeleteMapping(q, i) ==
    /\ MayCome(q, {i}) /\ cfg[i] # None
    /\ Change(q, "delete", cfg[i], [cfg EXCEPT ![i] = None], enabled)

\* backup_restore (and an import in replace mode): every object is new.
Restore(q) ==
    /\ MayCome(q, Ids)
    /\ Overlap \/ \A p \in Reqs : ~Active(p)
    /\ \E kind \in [Ids -> {"absent", "off", "on"}] :
          Change(q, "restore", None,
                 [i \in Ids |-> IF kind[i] = "absent" THEN None ELSE <<q, i>>],
                 [o \in Made |-> IF o[1] = q THEN kind[o[2]] = "on" ELSE enabled[o]])

\* store.save returns; the request leaves the lock and goes on to the runners.
Saved(q) ==
    /\ pc[q] = "saving" /\ Valid
    /\ disk' = [i \in Ids |-> Kind(cfg, i)]
    /\ lock' = None
    /\ Reconcile(q)
    /\ UNCHANGED <<cfg, enabled, undo, op>>

\* Variant: the refused request keeps config_lock.
SaveRejectedKeepingLock(q) ==
    /\ pc[q] = "saving" /\ ~Valid
    /\ cfg' = IF op[q] \in {"save", "duplicate", "restore"} THEN undo[q] ELSE cfg
    /\ pc' = [pc EXCEPT ![q] = "done"]
    /\ UNCHANGED <<enabled, disk, undo, lock, registry, rn, run, todo, kill, obj, op>>

\* validate() raises ConfigError: the form, the copy and the restore put the
\* list back; apply_action and delete_mapping let the error through.
SaveRejected(q) ==
    /\ pc[q] = "saving" /\ ~Valid
    /\ cfg' = IF op[q] \in {"save", "duplicate", "restore"} THEN undo[q] ELSE cfg
    /\ lock' = None
    /\ pc' = [pc EXCEPT ![q] = "done"]
    /\ UNCHANGED <<enabled, disk, undo, registry, rn, run, todo, kill, obj, op>>

\* The file cannot be written (OSError, after validate()): nobody catches it.
SaveFails(q) ==
    /\ DiskErrors /\ pc[q] = "saving" /\ Valid
    /\ lock' = None
    /\ pc' = [pc EXCEPT ![q] = "done"]
    /\ UNCHANGED <<cfg, enabled, disk, undo, registry, rn, run, todo, kill, obj, op>>

-----------------------------------------------------------------------------
(* The runners                                                             *)

\* A stop() that a request awaited has returned; the request goes on.
StopReturns(q) ==
    /\ LET rs == EndStop(rn, run[q])
       IN  \/ /\ pc[q] = "replacing"
              /\ Register(q, obj[q], registry, rs) /\ UNCHANGED kill
           \/ /\ pc[q] = "stopping" /\ op[q] = "restart"
              /\ Apply(q, obj[q], registry, rs) /\ UNCHANGED kill
           \/ /\ pc[q] = "stopping" /\ op[q] # "restart"
              /\ Return(q, registry, rs) /\ UNCHANGED <<todo, kill, obj>>
           \/ /\ pc[q] = "clearing"
              /\ StopAll(q, kill[q], registry, rs)
    /\ UNCHANGED <<config, op>>

\* Sockets of other runners on the same address.
Taken(r) == \E s \in Made : s # r /\ s[2] = r[2] /\ rn[s].sock # "none"

\* start_server binds the socket; start() has not been given it yet.
Bind(q) ==
    /\ pc[q] = "binding" /\ ~Taken(run[q])
    /\ rn' = [rn EXCEPT ![run[q]].sock = "bound"]
    /\ pc' = [pc EXCEPT ![q] = "bound"]
    /\ UNCHANGED <<config, registry, run, todo, kill, obj, op>>

\* The address is in use, by one of our runners or by another program: start()
\* awaits its own stop().
BindFails(q) ==
    /\ pc[q] = "binding"
    /\ rn' = BeginStop(rn, run[q])
    /\ pc' = [pc EXCEPT ![q] = "failing"]
    /\ UNCHANGED <<config, registry, run, todo, kill, obj, op>>

\* start() returns, and start_all visits the next mapping.
Started(q) ==
    /\ pc[q] = "bound"
    /\ StartAll(q, todo[q], registry, [rn EXCEPT ![run[q]].sock = "served", ![run[q]].state = "running"])
    /\ UNCHANGED <<config, kill, op>>

\* start() raises; apply_mapping notes the error.
StartFailed(q) ==
    /\ pc[q] = "failing"
    /\ StartAll(q, todo[q], registry, [EndStop(rn, run[q]) EXCEPT ![run[q]].state = "error"])
    /\ UNCHANGED <<config, kill, op>>

Come(q) ==
    \/ \E i \in Ids : \/ \E on \in BOOLEAN : SaveMapping(q, i, on)
                      \/ Duplicate(q, i) \/ DeleteMapping(q, i)
                      \/ \E action \in {"start", "stop", "restart"} : ApplyAction(q, i, action)
    \/ Restore(q)

Proceed(q) ==
    \/ Saved(q) \/ SaveRejected(q) \/ SaveFails(q) \/ StopReturns(q)
    \/ Bind(q) \/ BindFails(q) \/ Started(q) \/ StartFailed(q)

Next == \E q \in Reqs : Come(q) \/ Proceed(q)

Spec == Init /\ [][Next]_vars

\* Every request that can go on does: the disk answers, stop() is bounded by
\* its own timeouts and start_server returns or raises.
FairSpec == Spec /\ \A q \in Reqs : WF_vars(Proceed(q))

-----------------------------------------------------------------------------
(* Properties                                                              *)

\* Types; config_lock is held exactly by the request whose save is under way
\* (ops.py holds it around asave), and objects and runners are filed under
\* their own mapping's id.
TypeOK ==
    /\ cfg \in [Ids -> Made \cup {None}] /\ enabled \in [Made -> BOOLEAN]
    /\ disk \in [Ids -> {"absent", "off", "on"}] /\ lock \in Reqs \cup {None}
    /\ undo \in [Reqs -> [Ids -> Made \cup {None}]]
    /\ registry \in [Ids -> Made \cup {None}]
    /\ rn \in [Made -> [sock : {"none", "bound", "served"}, task : BOOLEAN,
                        state : {"stopped", "running", "error"}]]
    /\ pc \in [Reqs -> {"idle", "saving", "replacing", "stopping", "clearing", "binding",
                        "bound", "failing", "done"}]
    /\ op \in [Reqs -> Ops] /\ obj \in [Reqs -> Made \cup {None}]
    /\ run \in [Reqs -> Made \cup {None}]
    /\ kill \in [Reqs -> SUBSET Made]
    /\ \A q \in Reqs : pc[q] = "saving" <=> lock = q
    /\ \A i \in Ids : (cfg[i] # None => cfg[i][2] = i) /\ (registry[i] # None => registry[i][2] = i)

Quiet == \A q \in Reqs : ~Active(q)

\* Editing a mapping stops the old runner before the new one starts: when a
\* runner is about to bind, no other runner of its mapping holds the socket.
NoPortRace == \A q \in Reqs : pc[q] = "binding" => ~Taken(run[q])

\* When no request is under way, a runner that holds a socket or a serial task
\* is the registered one: it can still be stopped.
NoOrphans ==
    Quiet => \A r \in Made : rn[r].sock # "none" \/ rn[r].task => registry[r[2]] = r

\* config.json never enables two mappings on one serial port, whatever the
\* requests leave in memory.
DiskValid == \A p \in SameDevice : Cardinality({i \in p : disk[i] = "on"}) <= 1

\* When no request is under way the runners match config.json: an enabled
\* mapping runs or shows the error that kept it from starting, a disabled one
\* holds nothing, a deleted one has no runner, and no runner is orphaned.
Reconciled ==
    Quiet => NoOrphans /\ \A i \in Ids :
        /\ disk[i] = "on" => registry[i] # None /\ rn[registry[i]].state \in {"running", "error"}
        /\ disk[i] = "off" /\ registry[i] # None => rn[registry[i]] = Idle
        /\ disk[i] = "absent" => registry[i] = None

\* Every operation returns and gives config_lock back, also when it fails.
RequestsReturn == \A q \in Reqs : (pc[q] # "idle") ~> (pc[q] = "done" /\ lock # q)


=============================================================================
