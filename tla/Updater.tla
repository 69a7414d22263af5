-------------------------------- MODULE Updater --------------------------------
(***************************************************************************)
(* `routeglass update` on Linux (Run, replaceManagedService and            *)
(* backupDatabase of internal/updater/updater.go), with the systemd unit   *)
(* it stops and starts and the database that unit writes.                  *)
(*                                                                         *)
(* A binary is the number of its version, 0 where there is none.  A file of*)
(* the database is the version that last wrote it; the log (-wal and -shm) *)
(* comes and goes.  An update may be killed between any two of its steps   *)
(* and run again after the operator has removed its lock.                  *)
(***************************************************************************)
EXTENDS Naturals

CONSTANTS
    LastVersion,    \* bound: versions 1..LastVersion, the first is installed
    MaxFaults       \* bound: steps that fail

ASSUME UpdaterAssumption == LastVersion \in Nat \ {0} /\ MaxFaults \in Nat

Versions == 1..LastVersion

VARIABLES
    component,      \* "server" or "agent"
    sound,          \* versions that stay up once started
    pc,             \* the next step of the update, or "idle"
    lock,           \* exe.update.lock
    exe, staged, bak,
    db, wal,        \* the database, and its log
    saved,          \* the .update-backup files: of the database and of the log
    unit,           \* up, failed or stopped
    running,        \* the version the unit has started
    result,         \* what the last update came to
    newest,         \* bound: the newest version that has been offered
    faults,
    previous,       \* the version that was in place when the last update began
    missed,         \* the steps of the last roll-back whose error was dropped
    torn            \* a roll-back was interrupted, could not stop the unit or restore a
                    \* file, or began with a log that the saved database does not have

setting == <<component, sound>>
update == <<pc, lock, staged, saved, result, newest>>
binary == <<exe, bak>>
data   == <<db, wal>>
ofUnit == <<unit, running>>
past   == <<previous, missed>>
vars   == <<setting, update, binary, data, ofUnit, faults, past, torn>>

-----------------------------------------------------------------------------
NoSave == [db |-> 0, wal |-> 0]

Init ==
    /\ component \in {"server", "agent"}
    /\ sound \in SUBSET Versions /\ 1 \in sound
    /\ pc = "idle" /\ lock = FALSE /\ result = "none" /\ newest = 1
    /\ exe = 1 /\ staged = 0 /\ bak = 0
    /\ db = 1 /\ wal = 1 /\ saved = NoSave
    /\ unit = "up" /\ running = 1
    /\ faults = 0 /\ previous = 1 /\ missed = {} /\ torn = FALSE

\* systemctl start of a unit that is not up: with a binary it is up, for the moment.
\* Its Type is simple: the start succeeds also without a binary.
Started(binaryNow) ==
    IF binaryNow = 0 THEN unit' = "failed" /\ UNCHANGED running
    ELSE unit' = "up" /\ running' = binaryNow

\* systemctl stop: the unit closes its database, and the log goes with that; one that
\* has to be killed leaves it.
Stopped ==
    /\ unit' = "stopped" /\ UNCHANGED <<running, db>>
    /\ IF unit = "up" THEN wal' \in {0, wal} ELSE UNCHANGED wal

Faults(n) == faults + n <= MaxFaults /\ faults' = faults + n
Fault == Faults(1)

\* The deferred removals of the staged binary and of the lock.
Ends(what) == pc' = "idle" /\ lock' = FALSE /\ staged' = 0 /\ result' = what

-----------------------------------------------------------------------------
(* The unit *)

\* It migrates the database to its own version and writes its log.
Write ==
    /\ unit = "up" /\ component = "server"
    /\ db' \in {db, running} /\ wal' = running
    /\ UNCHANGED <<setting, past, update, binary, ofUnit, faults, torn>>

\* A version that is not sound goes down, with or without closing its database.
Die ==
    /\ unit = "up" /\ running \notin sound
    /\ unit' = "failed"
    /\ wal' \in {0, wal}
    /\ UNCHANGED <<setting, past, update, binary, running, db, faults, torn>>

\* Restart=on-failure.
Restart ==
    /\ unit = "failed" /\ exe # 0
    /\ Started(exe)
    /\ UNCHANGED <<setting, past, update, binary, data, faults, torn>>

-----------------------------------------------------------------------------
(* The update *)

Begin ==
    /\ pc = "idle" /\ ~lock /\ exe # 0 /\ newest < LastVersion
    /\ pc' = "stage" /\ lock' = TRUE /\ newest' = newest + 1
    /\ previous' = exe /\ missed' = {}
    /\ UNCHANGED <<setting, staged, saved, result, binary, data, ofUnit, faults,
                   torn>>

Stage ==
    /\ pc = "stage"
    /\ staged' = newest /\ pc' = "stop"
    /\ UNCHANGED <<setting, past, lock, saved, result, newest, binary, data, ofUnit,
                   faults, torn>>

\* The download, its size or checksum, or stopping the unit fails.
EarlyFails ==
    /\ pc \in {"stage", "stop"}
    /\ Fault
    /\ Ends("error")
    /\ UNCHANGED <<setting, past, saved, newest, binary, data, ofUnit, torn>>

StopUnit ==
    /\ pc = "stop"
    /\ Stopped
    /\ pc' = "away"
    /\ UNCHANGED <<setting, past, lock, staged, saved, result, newest, binary, faults,
                   torn>>

\* An older .bak is removed first.
MoveAway ==
    /\ pc = "away"
    /\ bak' = exe /\ exe' = 0
    /\ pc' = "backup"
    /\ UNCHANGED <<setting, past, lock, staged, saved, result, newest, data, ofUnit,
                   faults, torn>>

\* Whether the unit could be started again is not looked at.
MoveAwayFails ==
    /\ pc = "away"
    /\ bak' = 0 /\ UNCHANGED exe
    /\ \/ Fault /\ Started(exe)
       \/ Faults(2) /\ UNCHANGED ofUnit
    /\ Ends("error")
    /\ UNCHANGED <<setting, past, saved, newest, data, torn>>

Backup ==
    /\ pc = "backup"
    /\ saved' = IF component = "server" THEN [db |-> db, wal |-> wal] ELSE NoSave
    /\ pc' = "in"
    /\ UNCHANGED <<setting, past, lock, staged, result, newest, binary, data, ofUnit,
                   faults, torn>>

\* The binary is moved back and the unit started; an error of either is dropped.
BackupFails ==
    /\ pc = "backup"
    /\ \/ Fault /\ exe' = bak /\ bak' = 0 /\ Started(bak)
       \/ Faults(2) /\ exe' = bak /\ bak' = 0 /\ UNCHANGED ofUnit
       \/ Faults(2) /\ UNCHANGED binary /\ Started(0)
    /\ Ends("error")
    /\ UNCHANGED <<setting, past, saved, newest, data, torn>>

\* Mutant: the old binary is removed as soon as the new one is in place.
MoveInForGood ==
    /\ pc = "in"
    /\ exe' = staged /\ staged' = 0 /\ bak' = 0
    /\ pc' = "start"
    /\ UNCHANGED <<setting, past, lock, saved, result, newest, data, ofUnit, faults,
                   torn>>

MoveIn ==
    /\ pc = "in"
    /\ exe' = staged /\ staged' = 0 /\ UNCHANGED bak
    /\ pc' = "start"
    /\ UNCHANGED <<setting, past, lock, saved, result, newest, data, ofUnit, faults,
                   torn>>

StartUnit ==
    /\ pc = "start"
    /\ Started(exe)
    /\ pc' = "check"
    /\ UNCHANGED <<setting, past, lock, staged, saved, result, newest, binary, data,
                   faults, torn>>

\* systemctl is-active, at once.
Check ==
    /\ pc = "check" /\ unit = "up"
    /\ pc' = "commit"
    /\ UNCHANGED <<setting, past, lock, staged, saved, result, newest, binary, data,
                   ofUnit, faults, torn>>

Commit ==
    /\ pc = "commit"
    /\ bak' = 0 /\ UNCHANGED exe
    /\ saved' = NoSave
    /\ Ends("updated")
    /\ UNCHANGED <<setting, past, newest, data, ofUnit, faults, torn>>

-----------------------------------------------------------------------------
(* The roll-back *)

\* Moving in, starting or asking fails, or the unit is not active.
RollBack ==
    /\ \/ pc \in {"in", "start", "check"} /\ Fault
       \/ pc = "check" /\ unit # "up" /\ UNCHANGED faults
    /\ pc' = "undoStop"
    /\ UNCHANGED <<setting, past, lock, staged, saved, result, newest, binary, data,
                   ofUnit, torn>>

\* An error of systemctl is dropped.
UndoStop ==
    /\ pc = "undoStop"
    /\ \/ Stopped /\ UNCHANGED <<faults, missed, torn>>
       \/ Fault /\ UNCHANGED <<data, ofUnit>>
          /\ missed' = {"stop"} /\ torn' = TRUE
    /\ pc' = "undoRemove"
    /\ UNCHANGED <<setting, previous, lock, staged, saved, result, newest, binary>>

UndoRemove ==
    /\ pc = "undoRemove"
    /\ \/ exe' = 0 /\ UNCHANGED <<bak, faults>>
       \/ Fault /\ UNCHANGED binary
    /\ pc' = "undoMove"
    /\ UNCHANGED <<setting, past, lock, staged, saved, result, newest, data, ofUnit,
                   torn>>

\* Mutant: what is in the way is removed after the old binary is back.
UndoMoveFirst ==
    /\ pc = "undoMove"
    /\ exe' = 0 /\ bak' = 0
    /\ pc' = "undoData"
    /\ UNCHANGED <<setting, past, lock, staged, saved, result, newest, data, ofUnit, faults,
                   torn>>

\* An error of the rename is dropped.
UndoMove ==
    /\ pc = "undoMove"
    /\ \/ exe' = bak /\ bak' = 0 /\ UNCHANGED <<faults, missed>>
       \/ Fault /\ missed' = missed \cup {"move"} /\ UNCHANGED binary
    /\ pc' = "undoData"
    /\ UNCHANGED <<setting, previous, lock, staged, saved, result, newest, data, ofUnit,
                   torn>>

\* Mutant: the database is left as the new version has made it.
UndoDataNothing ==
    /\ pc = "undoData"
    /\ saved' = NoSave /\ pc' = "undoStart"
    /\ UNCHANGED <<setting, past, lock, staged, result, newest, binary, data, ofUnit,
                   faults, torn>>

\* Each saved file is copied back, the error of that dropped, and removed.  A log that
\* was not there when the database was saved stays.
UndoData ==
    /\ pc = "undoData"
    /\ \/ /\ saved # NoSave
          /\ db' = saved.db
          /\ wal' = IF saved.wal # 0 THEN saved.wal ELSE wal
          /\ torn' = (torn \/ (saved.wal = 0 /\ wal # 0))
          /\ UNCHANGED faults
       \/ saved = NoSave /\ UNCHANGED <<data, torn, faults>>
       \/ /\ saved # NoSave
          /\ Fault /\ torn' = TRUE
          /\ db' \in {db, saved.db} /\ wal' \in {wal} \cup ({saved.wal} \ {0})
    /\ saved' = NoSave
    /\ pc' = "undoStart"
    /\ UNCHANGED <<setting, past, lock, staged, result, newest, binary, ofUnit>>

\* Starting a unit that is up already succeeds and changes nothing.
UndoStart ==
    /\ pc = "undoStart"
    /\ \/ unit = "up" /\ UNCHANGED <<ofUnit, faults>> /\ Ends("rolledBack")
       \/ unit # "up" /\ Started(exe) /\ UNCHANGED faults /\ Ends("rolledBack")
       \/ Fault /\ UNCHANGED ofUnit /\ Ends("restartFailed")
    /\ UNCHANGED <<setting, past, saved, newest, binary, data, torn>>

-----------------------------------------------------------------------------
(* Interruptions *)

\* The old binary is back in its place, and the database is not.
Undoing == pc = "undoData"

\* The update is killed: nothing it deferred is done.
Kill ==
    /\ pc # "idle" /\ Fault
    /\ pc' = "idle" /\ result' = "killed"
    /\ torn' = (torn \/ Undoing)
    /\ UNCHANGED <<setting, past, lock, staged, saved, newest, binary, data, ofUnit>>

\* The machine goes down and comes up, and starts the unit.
Reboot ==
    /\ Fault
    /\ pc' = "idle" /\ result' = IF pc = "idle" THEN result ELSE "killed"
    /\ Started(exe)
    /\ torn' = (torn \/ Undoing)
    /\ UNCHANGED <<setting, past, lock, staged, saved, newest, binary, data>>

\* The operator removes the lock that a killed update has left.
RemoveLock ==
    /\ pc = "idle" /\ lock
    /\ lock' = FALSE
    /\ UNCHANGED <<setting, past, pc, staged, saved, result, newest, binary, data,
                   ofUnit, faults, torn>>

-----------------------------------------------------------------------------
Next ==
    \/ Write \/ Die \/ Restart
    \/ Begin \/ Stage \/ EarlyFails \/ StopUnit \/ MoveAway \/ MoveAwayFails
    \/ Backup \/ BackupFails \/ MoveIn \/ StartUnit \/ Check \/ Commit
    \/ RollBack \/ UndoStop \/ UndoRemove \/ UndoMove \/ UndoData \/ UndoStart
    \/ Kill \/ Reboot \/ RemoveLock

Spec == Init /\ [][Next]_vars

-----------------------------------------------------------------------------
(* Properties *)

Steps == {"idle", "stage", "stop", "away", "backup", "in", "start", "check", "commit",
          "undoStop", "undoRemove", "undoMove", "undoData", "undoStart"}

\* Every variable has its type, and the lock is there while an update is at work.
TypeOK ==
    /\ component \in {"server", "agent"} /\ sound \subseteq Versions
    /\ pc \in Steps /\ lock \in BOOLEAN /\ (pc # "idle" => lock)
    /\ {exe, staged, bak, db, wal} \subseteq 0..LastVersion
    /\ saved \in [db : 0..LastVersion, wal : 0..LastVersion]
    /\ unit \in {"up", "failed", "stopped"} /\ running \in Versions
    /\ result \in {"none", "updated", "error", "rolledBack", "restartFailed", "killed"}
    /\ newest \in Versions /\ faults \in 0..MaxFaults /\ torn \in BOOLEAN
    /\ previous \in Versions /\ missed \subseteq {"stop", "move"}

\* Wherever an update is killed, and however many have been before it, there is a
\* binary to go on with: in its place, or moved away.
NothingLost == exe # 0 \/ bak # 0

\* What an update says when it ends is so: done, with the new version in its place
\* and the one last started; or rolled back, with the version from before it in place
\* again unless renaming it failed, and last started unless stopping the new one failed
\* either.  Nobody looks at whether these two did.
EndsAsItSays ==
    pc = "idle" =>
        /\ result \in {"updated", "rolledBack"} => unit # "stopped"
        /\ result = "updated" => exe = newest /\ running = newest
        /\ result = "rolledBack" /\ "move" \notin missed => exe = previous
        /\ result = "rolledBack" /\ missed = {} => running = previous

\* A version never runs on a database that a newer one has written, unless a
\* roll-back was torn.
NoOldOnNew == unit = "up" /\ ~torn => running >= db /\ running >= wal
=============================================================================
