------------------------------ MODULE Importer ------------------------------
(***************************************************************************)
(* app/importer.py and the import handlers of app/web/routes/settings.py:  *)
(* an uploaded file is previewed, kept under a token, and applied later in *)
(* merge or replace mode, while other requests edit the mappings.  A       *)
(* mapping is its id, its name and its device; the configuration is valid  *)
(* when no device is used twice.                                           *)
(***************************************************************************)
EXTENDS Integers, Sequences, SequencesExt, FiniteSets

CONSTANTS
    Files,         \* the mappings an uploaded file may hold: sequences
    Begin,         \* the mappings at the start
    Edits,         \* mappings another request may store, by id
    Importers,     \* users
    PendingMax,    \* room for previews: 20
    PendingTtl,    \* PENDING_TTL_S: 900, in ticks
    MaxClock,      \* bound: time
    MaxImports     \* bound: uploads and edits

VARIABLES
    imMaps,        \* state.config.mappings
    imPending,     \* state.pending_imports, oldest first
    imNow,         \* time.time()
    imJob,         \* the import being applied, between its rows and config_lock
    imTold,        \* the last import that went through: what it found, was told and left
    imUses,        \* token -> times applied
    imCount

imVars == <<imMaps, imPending, imNow, imJob, imTold, imUses, imCount>>

NoJob  == [user |-> "", file |-> <<>>, mode |-> "", rows |-> <<>>, saw |-> <<>>]
NoTold == [old |-> <<>>, job |-> NoJob, new |-> <<>>, touched |-> {}]

Ids(maps)   == {maps[i].id : i \in DOMAIN maps}
FreshId(ms) == Cardinality(Ids(ms)) + 100       \* _new_id

(* _match: by id, else by name; 0 when there is none.                      *)
Match(maps, m) ==
    IF m.id \in Ids(maps) THEN SelectInSeq(maps, LAMBDA e : e.id = m.id)
    ELSE SelectInSeq(maps, LAMBDA e : e.name = m.name)

\* Variant: the mapping of the file brings its own id.
AdoptNot(m, e) == m
(* A mapping that is updated keeps the existing id.                        *)
Adopt(m, e) == [m EXCEPT !.id = e.id]

(* apply_import: the new list and what was added or changed.               *)
Merge(acc, m) ==
    LET i == Match(acc.maps, m)
        u == IF i = 0 THEN m ELSE Adopt(m, acc.maps[i])
        n == IF i = 0 /\ m.id \in Ids(acc.maps) THEN [m EXCEPT !.id = FreshId(acc.maps)] ELSE u
    IN  IF i # 0 /\ acc.maps[i] = n THEN acc
        ELSE [maps    |-> IF i = 0 THEN Append(acc.maps, n) ELSE [acc.maps EXCEPT ![i] = n],
              touched |-> acc.touched \cup {n}]

Refill(maps, m) ==
    Append(maps, IF m.id \in Ids(maps) THEN [m EXCEPT !.id = FreshId(maps)] ELSE m)

ApplyImport(current, file, mode) ==
    IF mode = "merge" THEN FoldLeft(Merge, [maps |-> current, touched |-> {}], file)
    ELSE LET new == FoldLeft(Refill, <<>>, file) IN [maps |-> new, touched |-> ToSet(new)]

(* plan_rows: the action shown for each mapping of the file.               *)
Row(current, m, mode) ==
    LET i == Match(current, m)
    IN  IF mode = "replace" \/ i = 0 THEN "add"
        ELSE IF Adopt(m, current[i]) = current[i] THEN "same" ELSE "update"

PlanRows(current, file, mode) == [i \in DOMAIN file |-> Row(current, file[i], mode)]

Valid(maps) == \A i, j \in DOMAIN maps : i # j => maps[i].dev # maps[j].dev

-----------------------------------------------------------------------------
Expired(p) == imNow - p.made > PendingTtl

(* config_import with step=preview: old previews go, the oldest make room. *)
ImPreview(u, f) ==
    /\ imCount < MaxImports /\ imCount' = imCount + 1
    /\ LET live == SelectSeq(imPending, LAMBDA p : ~Expired(p))
           room == SubSeq(live, IF Len(live) >= PendingMax THEN Len(live) - PendingMax + 2 ELSE 1, Len(live))
       IN  imPending' = Append(room, [token |-> imCount', user |-> u, file |-> f, made |-> imNow])
    /\ UNCHANGED <<imMaps, imNow, imJob, imTold, imUses>>

(* _apply_import up to config_lock: the rows are made from what it sees.   *)
Applying(u, f, mode) ==
    /\ imJob = NoJob
    /\ imJob' = [user |-> u, file |-> f, mode |-> mode, rows |-> PlanRows(imMaps, f, mode), saw |-> imMaps]

(* config_import_apply: a token works for its user, while it is fresh.     *)
ImApply(i, u, mode) ==
    /\ imPending[i].user = u /\ ~Expired(imPending[i])
    /\ Applying(u, imPending[i].file, mode)
    /\ imPending' = RemoveAt(imPending, i)
    /\ imUses' = [imUses EXCEPT ![imPending[i].token] = @ + 1]
    /\ UNCHANGED <<imMaps, imNow, imTold, imCount>>

(* config_import without step: replaces everything at once.                *)
ImLegacy(u, f) ==
    /\ imCount < MaxImports /\ imCount' = imCount + 1
    /\ Applying(u, f, "replace")
    /\ UNCHANGED <<imMaps, imPending, imNow, imTold, imUses>>

(* _apply_import under config_lock: an invalid result is put back.         *)
ImCommit ==
    /\ imJob # NoJob
    /\ LET r == ApplyImport(imMaps, imJob.file, imJob.mode)
       IN  IF Valid(r.maps)
           THEN /\ imMaps' = r.maps
                /\ imTold' = [old |-> imMaps, job |-> imJob, new |-> r.maps, touched |-> r.touched]
           ELSE UNCHANGED <<imMaps, imTold>>
    /\ imJob' = NoJob
    /\ UNCHANGED <<imPending, imNow, imUses, imCount>>

(* Another request stores or deletes a mapping.                            *)
ImEdit(m, delete) ==
    /\ imCount < MaxImports /\ imCount' = imCount + 1
    /\ LET rest == SelectSeq(imMaps, LAMBDA e : e.id # m.id)
       IN  imMaps' = IF delete THEN rest ELSE Append(rest, m)
    /\ Valid(imMaps')
    /\ UNCHANGED <<imPending, imNow, imJob, imTold, imUses>>

ImTick ==
    /\ imNow < MaxClock /\ imNow' = imNow + 1
    /\ UNCHANGED <<imMaps, imPending, imJob, imTold, imUses, imCount>>

ImInit ==
    /\ imMaps = Begin /\ imPending = <<>> /\ imNow = 0 /\ imJob = NoJob /\ imTold = NoTold
    /\ imUses = [t \in 1 .. MaxImports |-> 0] /\ imCount = 0

ImNext ==
    \/ \E u \in Importers, f \in Files : ImPreview(u, f) \/ ImLegacy(u, f)
    \/ \E u \in Importers, i \in DOMAIN imPending, mode \in {"merge", "replace"} : ImApply(i, u, mode)
    \/ \E m \in Edits, delete \in BOOLEAN : ImEdit(m, delete)
    \/ ImCommit \/ ImTick

-----------------------------------------------------------------------------
(* Properties.                                                             *)

Names(m, e) == m.id = e.id \/ m.name = e.name
UniqueIds(maps) == Cardinality(Ids(maps)) = Len(maps)

(* "mappings not in the file stay as they are", and every mapping keeps its*)
(* id: a merge takes no id away, changes nothing the file does not name,   *)
(* and restarts whatever it changed.                                       *)
MergeKeeps ==
    imTold.job.mode = "merge" =>
        /\ Ids(imTold.old) \subseteq Ids(imTold.new)
        /\ \A i \in DOMAIN imTold.old :
             (\A k \in DOMAIN imTold.job.file : ~Names(imTold.job.file[k], imTold.old[i]))
               => Contains(imTold.new, imTold.old[i])
        /\ ToSet(imTold.new) \ ToSet(imTold.old) \subseteq imTold.touched

(* What the user is told is what was done, and every mapping of the file   *)
(* arrives: when nobody edited in between and no two mappings of the file  *)
(* answer to one that exists.                                              *)
ToldIsDone ==
    LET f == imTold.job.file  old == imTold.old  new == imTold.new
        plain == \A i, j \in DOMAIN f : i # j =>
                    /\ ~Names(f[i], f[j])
                    /\ Match(old, f[i]) # Match(old, f[j]) \/ Match(old, f[i]) = 0
        Arrived(m) == \E k \in DOMAIN new : new[k].name = m.name /\ new[k].dev = m.dev
    IN  imTold.job.mode = "merge" /\ imTold.job.saw = old /\ plain =>
            /\ \A i \in DOMAIN f : Arrived(f[i])
            /\ Len(new) = Len(old) + Cardinality({i \in DOMAIN f : imTold.job.rows[i] = "add"})
            /\ Cardinality({i \in DOMAIN f : imTold.job.rows[i] # "same"}) = Cardinality(imTold.touched)

(* An import leaves a configuration that can be stored, ids unique; a      *)
(* preview is applied at most once.                                        *)
ImportsHold ==
    /\ Valid(imMaps) /\ UniqueIds(imMaps)
    /\ \A t \in DOMAIN imUses : imUses[t] <= 1
    /\ MergeKeeps /\ ToldIsDone

=============================================================================
