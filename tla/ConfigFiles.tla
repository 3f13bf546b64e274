----------------------------- MODULE ConfigFiles -----------------------------
(***************************************************************************)
(* Class ConfigStore of app/config.py: config.json, its atomic replacement *)
(* and the backups of the versions it replaced, over power failures and    *)
(* write errors.  Saves run one at a time, under config_lock.  A version   *)
(* of the configuration is a number; version 1 has no accounts yet.        *)
(* Seconds never go back here: backups are ordered by the system clock.    *)
(***************************************************************************)
EXTENDS Integers, Sequences, FiniteSets, FiniteSetsExt

CONSTANTS
    Versions,      \* contents of a configuration: 1 has no accounts
    BackupsKept,   \* BACKUPS_KEPT: 50
    MaxSaves,      \* bound: saves
    MaxSeconds,    \* bound: ticks of the clock
    MaxIoFaults    \* bound: power failures and write errors

None    == 0       \* no such file
Torn    == -1      \* a file whose content did not reach the disk

VARIABLES
    cfMem,         \* AppState.config
    cfFile,        \* config.json
    cfTmp,         \* the temporary file of the running save
    cfSynced,      \* its content is on the disk
    cfOld,         \* config.json as the disk's directory may still have it
    cfWhole,       \* the content of config.json is on the disk
    cfBaks,        \* backups/: records of second, number, content
    cfMade,        \* contents backed up, in the order they were made
    cfPc,          \* the running save: "idle", "backup", "bakwrite", "baksync", ...
    cfSecond, cfSaves, cfIoFaults,
    cfMissed       \* contents replaced whose backup failed

cfVars == <<cfMem, cfFile, cfTmp, cfSynced, cfOld, cfWhole, cfBaks, cfMade, cfPc, cfSecond, cfSaves,
            cfIoFaults, cfMissed>>
cfDisk == <<cfOld, cfWhole>>

CfInit ==
    /\ cfMem = 1 /\ cfFile = None /\ cfTmp = None /\ cfSynced = FALSE /\ cfOld = None
    /\ cfWhole = TRUE /\ cfBaks = {}
    /\ cfMade = <<>> /\ cfPc = "idle" /\ cfSecond = 0 /\ cfSaves = 0 /\ cfIoFaults = 0
    /\ cfMissed = {}

CfTick ==
    /\ cfSecond < MaxSeconds /\ cfSecond' = cfSecond + 1
    /\ UNCHANGED <<cfDisk, cfMem, cfFile, cfTmp, cfSynced, cfBaks, cfMade, cfPc, cfSaves, cfIoFaults, cfMissed>>

(* _backup_order, and backup_names: newest first.                          *)
Newer(b, c) == b.sec > c.sec \/ (b.sec = c.sec /\ b.n > c.n)
Rank(baks, b) == Cardinality({c \in baks : Newer(c, b)})
NewestBackup(baks) == {b \in baks : Rank(baks, b) = 0}

-----------------------------------------------------------------------------
(* save(): prepare_config's first save, a handler's save of a changed      *)
(* configuration, or backup_restore with what read_backup returned; a      *)
(* backup without accounts is not restored.                                *)
CfSave(v) ==
    /\ cfPc = "idle" /\ cfSaves < MaxSaves
    /\ IF cfFile = None THEN v = 1 ELSE v # 1
    /\ cfSaves' = cfSaves + 1 /\ cfMem' = v /\ cfPc' = "backup"
    /\ UNCHANGED <<cfDisk, cfFile, cfTmp, cfSynced, cfBaks, cfMade, cfSecond, cfIoFaults, cfMissed>>

CfRestore(b) ==
    /\ cfPc = "idle" /\ cfSaves < MaxSaves /\ b.data # 1
    /\ cfSaves' = cfSaves + 1 /\ cfMem' = b.data /\ cfPc' = "backup"
    /\ UNCHANGED <<cfDisk, cfFile, cfTmp, cfSynced, cfBaks, cfMade, cfSecond, cfIoFaults, cfMissed>>

(* _backup_current: is there anything to keep?                             *)
NeedsBackup ==
    /\ cfFile # None /\ cfFile # cfMem
    /\ \A b \in NewestBackup(cfBaks) : b.data # cfFile

CfBackup ==
    /\ cfPc = "backup" /\ cfPc' = IF NeedsBackup THEN "bakwrite" ELSE "write"
    /\ UNCHANGED <<cfDisk, cfMem, cfFile, cfTmp, cfSynced, cfBaks, cfMade, cfSecond, cfSaves, cfIoFaults,
                   cfMissed>>

(* Writing a temporary file, then fsync: the backup's and config.json's.   *)
CfWrite ==
    /\ cfPc \in {"bakwrite", "write"}
    /\ cfTmp' = (IF cfPc = "write" THEN cfMem ELSE cfFile) /\ cfSynced' = FALSE
    /\ cfPc' = IF cfPc = "write" THEN "sync" ELSE "baksync"
    /\ UNCHANGED <<cfDisk, cfMem, cfFile, cfBaks, cfMade, cfSecond, cfSaves, cfIoFaults, cfMissed>>

CfSync ==
    /\ cfPc \in {"baksync", "sync"} /\ cfSynced' = TRUE
    /\ cfPc' = IF cfPc = "sync" THEN "replace" ELSE "bakreplace"
    /\ UNCHANGED <<cfDisk, cfMem, cfFile, cfTmp, cfBaks, cfMade, cfSecond, cfSaves, cfIoFaults, cfMissed>>

(* "several saves in one second: -2, -3 ... (never reuse a pruned lower    *)
(* number)".                                                               *)
CountNumber(baks, sec) == Cardinality({b \in baks : b.sec = sec}) + 1
NextNumber(baks, sec) ==
    LET same == {b.n : b \in {c \in baks : c.sec = sec}} IN IF same = {} THEN 1 ELSE Max(same) + 1

(* The backup gets its name, then all but the newest BACKUPS_KEPT go.      *)
CfBakReplace ==
    LET new == [sec |-> cfSecond, n |-> NextNumber(cfBaks, cfSecond), data |-> cfTmp]
        all == cfBaks \cup {new}
    IN
    /\ cfPc = "bakreplace"
    /\ cfBaks' = {b \in all : Rank(all, b) < BackupsKept}
    /\ cfMade' = Append(cfMade, cfTmp) /\ cfTmp' = None /\ cfPc' = "write"
    /\ UNCHANGED <<cfDisk, cfMem, cfFile, cfSynced, cfSecond, cfSaves, cfIoFaults, cfMissed>>

(* os.replace of config.json; the directory is synced after that.          *)
CfReplace ==
    /\ cfPc = "replace"
    /\ cfOld' = cfFile /\ cfFile' = cfTmp /\ cfWhole' = cfSynced /\ cfTmp' = None
    /\ cfPc' = "dirsync"
    /\ UNCHANGED <<cfMem, cfSynced, cfBaks, cfMade, cfSecond, cfSaves, cfIoFaults, cfMissed>>

CfDirSync ==
    /\ cfPc = "dirsync" /\ cfPc' = "idle"
    /\ UNCHANGED <<cfDisk, cfMem, cfFile, cfTmp, cfSynced, cfBaks, cfMade, cfSecond, cfSaves,
                   cfIoFaults, cfMissed>>

(* A write error: a backup's is swallowed and the save goes on; the save's *)
(* own removes the temporary file and is raised.                           *)
CfError ==
    /\ cfPc \in {"bakwrite", "baksync", "bakreplace", "write", "sync", "replace"}
    /\ cfIoFaults < MaxIoFaults /\ cfIoFaults' = cfIoFaults + 1
    /\ cfTmp' = None
    /\ IF cfPc \in {"bakwrite", "baksync", "bakreplace"}
         THEN cfPc' = "write" /\ cfMissed' = cfMissed \cup {cfFile}
         ELSE cfPc' = "idle" /\ UNCHANGED cfMissed
    /\ UNCHANGED <<cfDisk, cfMem, cfFile, cfSynced, cfBaks, cfMade, cfSecond, cfSaves>>

(* The power fails: a content that was not synced is lost, and before the  *)
(* directory is synced the old file may be back.  The next start loads     *)
(* config.json.  Temporary files do not match a backup's name.             *)
CfPowerFails ==
    /\ cfFile # None /\ cfIoFaults < MaxIoFaults /\ cfIoFaults' = cfIoFaults + 1
    /\ \E kept \in {IF cfWhole THEN cfFile ELSE Torn} \cup (IF cfPc = "dirsync" THEN {cfOld} ELSE {}) :
          cfFile' = kept /\ cfMem' = IF kept = None THEN 1 ELSE kept
    /\ cfTmp' = None /\ cfPc' = "idle" /\ cfWhole' = TRUE
    /\ UNCHANGED <<cfSynced, cfOld, cfBaks, cfMade, cfSecond, cfSaves, cfMissed>>

CfNext ==
    \/ CfTick \/ CfBackup \/ CfWrite \/ CfSync \/ CfBakReplace \/ CfReplace \/ CfDirSync
    \/ CfError \/ CfPowerFails
    \/ \E v \in Versions : CfSave(v)
    \/ \E b \in cfBaks : CfRestore(b)

-----------------------------------------------------------------------------
(* "so config.json is never partially written": after a power failure at   *)
(* any point of a save, config.json is a whole version.                    *)
FileWhole == cfFile # Torn

(* "Every save that changes config.json first copies the version it        *)
(* replaces" ("identical content is not copied twice"): when config.json is*)
(* replaced, the version it held is the newest backup, unless writing the  *)
(* backup failed.                                                          *)
ReplacedIsKept ==
    cfPc = "replace" /\ cfFile' # cfFile /\ cfFile \notin cfMissed \cup {None}
      => \E b \in NewestBackup(cfBaks) : b.data = cfFile

(* "the newest BACKUPS_KEPT are kept": whatever the saves per second, the  *)
(* backups in order are the last ones made.                                *)
NewestKept ==
    \A b \in cfBaks : b.data = cfMade[Len(cfMade) - Rank(cfBaks, b)]

(* A save never costs a version: config.json is whole, what it replaced is *)
(* the newest backup, and pruning takes the oldest.                        *)
SavesSafe == [][FileWhole' /\ NewestKept' /\ ReplacedIsKept]_cfVars

=============================================================================
