------------------------------ MODULE LogFiles ------------------------------
(***************************************************************************)
(* The per-mapping log files of class AppState (app/state.py): loggers     *)
(* made when a mapping is started, lines appended, hourly trimming by age  *)
(* and size with the handler detached, deletion with the mapping, pruning  *)
(* at start.  The event loop runs everything but _trim_log_file, which     *)
(* runs in a worker thread.  A handler writes to the file it opened, also  *)
(* after that file was replaced or removed.                                *)
(***************************************************************************)
EXTENDS Naturals, Sequences, SequencesExt, FiniteSets

CONSTANTS
    LogIds,        \* mapping ids
    LogKeep,       \* lines LOG_MAX_BYTES leaves room for
    MaxLogLines,   \* bound: lines logged
    MaxLogEdits    \* bound: mappings added, deleted, started; restarts

NoFile == 0

VARIABLES
    lgMapped,      \* ids of the configured mappings
    lgLoggers,     \* _mapping_loggers: ids that have a logger
    lgHandlers,    \* id -> the files its logger's handlers have open
    lgName,        \* id -> the file under its log path now, or NoFile
    lgLines,       \* file -> its lines
    lgTodo,        \* maintenance: files still to be looked at
    lgTrim,        \* maintenance: the id being trimmed, if any
    lgHad,         \* the file its logger had open, and gets back; NoFile without a logger
    lgRead,        \* the worker thread has read the file: its lines
    lgReplaced,    \* the worker thread is done
    lgAge,         \* lines up to this number are older than LOG_MAX_AGE_DAYS
    lgLine, lgEdits

lgVars == <<lgMapped, lgLoggers, lgHandlers, lgName, lgLines, lgTodo, lgTrim, lgHad, lgRead,
            lgReplaced, lgAge, lgLine, lgEdits>>
lgMaint == <<lgTodo, lgTrim, lgHad, lgRead, lgReplaced>>

LgInit ==
    /\ lgMapped = {} /\ lgLoggers = {} /\ lgHandlers = [m \in LogIds |-> <<>>]
    /\ lgName = [m \in LogIds |-> NoFile] /\ lgLines = <<>> /\ lgTodo = {} /\ lgTrim = {}
    /\ lgHad = NoFile /\ lgRead = <<>> /\ lgReplaced = FALSE /\ lgAge = 0 /\ lgLine = 0
    /\ lgEdits = 0

Edits == lgEdits < MaxLogEdits /\ lgEdits' = lgEdits + 1

(* _attach_mapping_handler: the file is opened for appending, or created.  *)
Attach(handlers, m) ==
    LET f == IF lgName[m] = NoFile THEN Len(lgLines) + 1 ELSE lgName[m] IN
    /\ lgLines' = IF lgName[m] = NoFile THEN Append(lgLines, <<>>) ELSE lgLines
    /\ lgName' = [lgName EXCEPT ![m] = f]
    /\ lgHandlers' = [lgHandlers EXCEPT ![m] = Append(handlers, f)]

(* A mapping is added: by the form, by an import, or again by an import of *)
(* an exported file, under the id it had.                                  *)
LgAdd(m) ==
    /\ Edits /\ m \notin lgMapped /\ lgMapped' = lgMapped \cup {m}
    /\ UNCHANGED <<lgLoggers, lgHandlers, lgName, lgLines, lgMaint, lgAge, lgLine>>

(* make_mapping_logger, when the mapping is started: the logger of that    *)
(* name starts with one handler.                                           *)
LgStart(m) ==
    /\ Edits /\ m \in lgMapped /\ m \notin lgLoggers
    /\ lgLoggers' = lgLoggers \cup {m} /\ Attach(<<>>, m)
    /\ UNCHANGED <<lgMapped, lgMaint, lgAge, lgLine>>

(* log(): every handler appends the line to the file it has open.          *)
LgLog(m) ==
    /\ m \in lgLoggers /\ lgLine < MaxLogLines /\ lgLine' = lgLine + 1
    /\ lgLines' = [f \in 1 .. Len(lgLines) |->
                     lgLines[f] \o [i \in 1 .. Len(SelectSeq(lgHandlers[m], LAMBDA h : h = f)) |->
                                       lgLine + 1]]
    /\ UNCHANGED <<lgMapped, lgLoggers, lgHandlers, lgName, lgMaint, lgAge, lgEdits>>

(* delete_mapping_log: the logger is forgotten, the file removed.          *)
LgDelete(m) ==
    /\ Edits /\ m \in lgMapped
    /\ lgMapped' = lgMapped \ {m} /\ lgLoggers' = lgLoggers \ {m}
    /\ lgHandlers' = IF m \in lgLoggers THEN [lgHandlers EXCEPT ![m] = <<>>] ELSE lgHandlers
    /\ lgName' = [lgName EXCEPT ![m] = NoFile]
    /\ UNCHANGED <<lgLines, lgMaint, lgAge, lgLine>>

-----------------------------------------------------------------------------
(* run_log_maintenance: the files of this round.                           *)
LgRound ==
    /\ lgTodo = {} /\ lgTrim = {}
    /\ lgTodo' = {m \in LogIds : lgName[m] # NoFile}
    /\ UNCHANGED <<lgMapped, lgLoggers, lgHandlers, lgName, lgLines, lgTrim, lgHad, lgRead,
                   lgReplaced, lgAge, lgLine, lgEdits>>

Detached(m) == IF m \in lgLoggers THEN [lgHandlers EXCEPT ![m] = <<>>] ELSE lgHandlers

(* One file: its logger's handlers are closed, then the thread is started. *)
LgDetach(m) ==
    /\ lgTrim = {} /\ m \in lgTodo
    /\ lgTodo' = lgTodo \ {m} /\ lgTrim' = {m} /\ lgHad' = IF m \in lgLoggers THEN lgName[m] ELSE NoFile
    /\ lgHandlers' = Detached(m)
    /\ lgRead' = <<>> /\ lgReplaced' = FALSE
    /\ UNCHANGED <<lgMapped, lgLoggers, lgName, lgLines, lgAge, lgLine, lgEdits>>

(* _trim_log_file: the lines from the first recent one, and of these the   *)
(* last that fit.                                                          *)
Trimmed(lines) ==
    LET recent == SelectSeq(lines, LAMBDA n : n > lgAge)
    IN  IF Len(recent) > LogKeep THEN SubSeq(recent, Len(recent) - LogKeep + 1, Len(recent)) ELSE recent

(* The thread reads the file; an unreadable one, or one with nothing to    *)
(* drop, is left alone.                                                    *)
LgTrimRead(m) ==
    LET lines == IF lgName[m] = NoFile THEN <<>> ELSE lgLines[lgName[m]] IN
    /\ lgTrim = {m} /\ lgRead = <<>> /\ ~lgReplaced
    /\ lgReplaced' = (Trimmed(lines) = lines)
    /\ lgRead' = IF lgReplaced' THEN <<>> ELSE lines
    /\ UNCHANGED <<lgMapped, lgLoggers, lgHandlers, lgName, lgLines, lgTodo, lgTrim, lgHad, lgAge,
                   lgLine, lgEdits>>

(* The rewritten file takes the place of whatever is there now.            *)
LgTrimReplace(m) ==
    /\ lgTrim = {m} /\ lgRead # <<>> /\ ~lgReplaced
    /\ lgLines' = Append(lgLines, Trimmed(lgRead))
    /\ lgName' = [lgName EXCEPT ![m] = Len(lgLines) + 1]
    /\ lgReplaced' = TRUE
    /\ UNCHANGED <<lgMapped, lgLoggers, lgHandlers, lgTodo, lgTrim, lgHad, lgRead, lgAge, lgLine,
                   lgEdits>>

GetsBack == lgHad # NoFile

(* The finally block: a logger that had handlers gets one back.            *)
LgReattach(m) ==
    /\ lgTrim = {m} /\ lgReplaced
    /\ IF GetsBack THEN Attach(lgHandlers[m], m) ELSE UNCHANGED <<lgHandlers, lgLines, lgName>>
    /\ lgTrim' = {} /\ lgRead' = <<>> /\ lgReplaced' = FALSE
    /\ UNCHANGED <<lgMapped, lgLoggers, lgTodo, lgHad, lgAge, lgLine, lgEdits>>

LgMaintain ==
    LgRound \/ \E m \in LogIds : LgDetach(m) \/ LgTrimRead(m) \/ LgTrimReplace(m) \/ LgReattach(m)

(* Days pass: lines become old.                                            *)
LgDays == /\ lgAge < lgLine /\ lgAge' = lgAge + 1
          /\ UNCHANGED <<lgMapped, lgLoggers, lgHandlers, lgName, lgLines, lgMaint, lgLine, lgEdits>>

(* The process ends and starts again: prune_mapping_logs removes the files *)
(* of ids that are not configured; nothing is open.                        *)
LgRestart ==
    /\ Edits
    /\ lgLoggers' = {} /\ lgHandlers' = [m \in LogIds |-> <<>>]
    /\ lgName' = [m \in LogIds |-> IF m \in lgMapped THEN lgName[m] ELSE NoFile]
    /\ lgTodo' = {} /\ lgTrim' = {} /\ lgHad' = NoFile /\ lgRead' = <<>> /\ lgReplaced' = FALSE
    /\ UNCHANGED <<lgMapped, lgLines, lgAge, lgLine>>

LgNext ==
    \/ LgMaintain \/ LgDays \/ LgRestart
    \/ \E m \in LogIds : LgAdd(m) \/ LgStart(m) \/ LgLog(m) \/ LgDelete(m)

-----------------------------------------------------------------------------
(* Deleting, adding and starting mappings during a round may leave a       *)
(* logger with two handlers (lines written twice) or with one on a file    *)
(* that is no longer there (lines lost).  A later round repairs it: from   *)
(* some time on every running mapping's lines go to its file, once, except *)
(* while that file is trimmed.                                             *)
LogsSettle ==
    \A m \in LogIds : <>[](m \in lgLoggers \ lgTrim => lgHandlers[m] = <<lgName[m]>>)

(* Nothing logged while a file is trimmed is overwritten by the rewrite:   *)
(* if the mapping's logger was known when the round reached the file, and  *)
(* that file is still there (no delete meanwhile), the rewritten file is its*)
(* most recent part, to the last line.                                     *)
TrimTakesOldest ==
    [][ \A m \in LogIds :
          lgTrim = {m} /\ lgHad # NoFile /\ lgName[m] = lgHad /\ lgName'[m] \notin {lgHad, NoFile}
          => IsSuffix(lgLines'[lgName'[m]], lgLines[lgHad]) ]_lgVars


=============================================================================
