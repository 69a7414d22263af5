---------------------------- MODULE UpdaterProofs ----------------------------
(***************************************************************************)
(* Proofs about Updater, for any number of versions, of faults, of kills   *)
(* and of reboots.                                                         *)
(***************************************************************************)
EXTENDS Updater, TLAPS

Undo == {"undoStop", "undoRemove", "undoMove"}

\* Where the binaries are at each step.
Binaries ==
    /\ pc \in {"stage", "stop", "away"} => exe # 0
    /\ pc \in {"backup", "in", "start", "check"} \cup Undo => bak # 0
    /\ pc \in {"stop", "away", "backup", "in"} => staged = newest
    /\ pc \in {"backup", "in"} => exe = 0
    /\ pc \in {"start", "check", "commit"} => exe = newest
    /\ pc \in Undo => exe \in {0, newest}

\* Nothing is newer than what has been offered.
Offered == exe <= newest /\ bak <= newest /\ db <= newest /\ wal <= newest
           /\ running <= newest /\ db >= 1
           /\ saved.db <= newest /\ saved.wal <= newest

\* While the files are exchanged the unit is not up.
UnitState ==
    /\ pc \in {"away", "backup", "in", "start"} => unit = "stopped"
    /\ pc \in {"check", "commit"} => running = newest /\ unit # "stopped"
    /\ pc \in {"undoRemove", "undoMove", "undoData", "undoStart"} /\ ~torn =>
          unit = "stopped"
    /\ unit = "up" /\ ~torn => running = exe

\* What is saved, and from when on.
SavedState ==
    /\ component = "agent" => saved = NoSave /\ db = 1 /\ wal <= 1
    /\ component = "server" /\ pc \in {"in", "start", "check", "undoData"} \cup Undo =>
          saved.db >= 1

\* The binary that may be started is at least as new as the database it will find,
\* and so is the one moved away as the files saved with it.
NotNewer ==
    /\ exe # 0 /\ pc # "undoData" => db <= exe /\ wal <= exe
    /\ pc = "backup" => db <= bak /\ wal <= bak
    /\ pc \in {"in", "start", "check"} \cup Undo => saved.db <= bak /\ saved.wal <= bak
    /\ pc = "undoData" /\ exe # 0 => saved.db <= exe /\ saved.wal <= exe

\* What the update has seen and missed: the version from before it is in place, moved
\* away, or, unless that failed, in place again; and the unit is down once stopped.
History ==
    /\ pc \in {"stage", "stop", "away"} => exe = previous
    /\ pc \in {"backup", "in", "start", "check"} \cup Undo => bak = previous
    /\ pc \in {"undoData", "undoStart"} /\ "move" \notin missed => exe = previous
    /\ pc \in {"undoRemove", "undoMove", "undoData", "undoStart"} /\ "stop" \notin missed =>
          unit = "stopped"

Inv ==
    /\ TypeOK /\ NothingLost /\ EndsAsItSays
    /\ Binaries /\ Offered /\ UnitState /\ SavedState /\ History
    /\ (~torn => NotNewer)
-----------------------------------------------------------------------------
LEMMA InitInv == Init => Inv
<1> SUFFICES ASSUME Init PROVE Inv
  OBVIOUS
<1> USE UpdaterAssumption DEF Init
<1>1. TypeOK
  <2>1. saved \in [db : 0..LastVersion, wal : 0..LastVersion]
    BY DEF NoSave
  <2>2. {exe, staged, bak, db, wal} \subseteq 0..LastVersion
    OBVIOUS
  <2>3. component \in {"server", "agent"} /\ sound \subseteq 1..LastVersion
    BY DEF Versions
  <2>4. pc \in Steps /\ lock \in BOOLEAN /\ (pc # "idle" => lock) /\ torn \in BOOLEAN
    BY DEF Steps
  <2>5. /\ unit \in {"up", "failed", "stopped"} /\ running \in 1..LastVersion
        /\ previous \in 1..LastVersion /\ missed \subseteq {"stop", "move"}
    OBVIOUS
  <2>6. /\ result \in {"none", "updated", "error", "rolledBack", "restartFailed", "killed"}
        /\ newest \in 1..LastVersion /\ faults \in 0..MaxFaults
    OBVIOUS
  <2> QED BY <2>1, <2>2, <2>3, <2>4, <2>5, <2>6 DEF TypeOK, Versions
<1>2. NothingLost /\ EndsAsItSays /\ Binaries
  BY DEF NothingLost, EndsAsItSays, Binaries, Undo
<1>3. Offered /\ UnitState /\ SavedState /\ NotNewer /\ History
  BY DEF Offered, UnitState, SavedState, NotNewer, History, NoSave, Undo
<1> QED BY <1>1, <1>2, <1>3 DEF Inv

LEMMA StepInv == Inv /\ [Next]_vars => Inv'
<1> SUFFICES ASSUME Inv, [Next]_vars PROVE Inv'
  OBVIOUS
<1> USE UpdaterAssumption DEF Versions, NoSave, Undo, setting, past
<1>1. CASE Write
  <2>1. TypeOK'
    <3>1. /\ pc' \in Steps /\ lock' \in BOOLEAN /\ torn' \in BOOLEAN
          /\ (pc' # "idle" => lock')
      BY <1>1 DEF Write, update, binary, ofUnit, Inv, TypeOK, Steps
    <3>2. {exe', staged', bak', db', wal'} \subseteq 0..LastVersion
      BY <1>1 DEF Write, update, binary, ofUnit, Inv, TypeOK
    <3>3. saved' \in [db : 0..LastVersion, wal : 0..LastVersion]
      BY <1>1 DEF Write, update, binary, ofUnit, Inv, TypeOK
    <3>4. /\ component' \in {"server", "agent"} /\ sound' \subseteq 1..LastVersion
          /\ unit' \in {"up", "failed", "stopped"} /\ running' \in 1..LastVersion
          /\ result' \in {"none", "updated", "error", "rolledBack", "restartFailed",
                          "killed"}
          /\ newest' \in 1..LastVersion /\ faults' \in 0..MaxFaults
          /\ previous' \in 1..LastVersion /\ missed' \subseteq {"stop", "move"}
      BY <1>1 DEF Write, update, binary, ofUnit, Inv, TypeOK
    <3> QED BY <3>1, <3>2, <3>3, <3>4 DEF TypeOK
  <2>2. NothingLost' /\ EndsAsItSays'
    BY <1>1 DEF Write, update, binary, ofUnit, Inv, TypeOK, NothingLost,
        EndsAsItSays, Binaries, Offered, UnitState, History
  <2>3. Binaries' /\ Offered'
    BY <1>1 DEF Write, update, binary, ofUnit, Inv, TypeOK, NothingLost, Binaries,
        Offered, UnitState, SavedState
  <2>4. UnitState'
    BY <1>1 DEF Write, update, binary, ofUnit, Inv, TypeOK, Binaries, UnitState
  <2>5. SavedState'
    BY <1>1 DEF Write, update, binary, ofUnit, Inv, TypeOK, SavedState, Offered,
        UnitState
  <2>6. ~torn' => NotNewer'
    BY <1>1 DEF Write, update, binary, ofUnit, Inv, TypeOK, NotNewer, Binaries,
        Offered, UnitState, SavedState
  <2>7. History'
    BY <1>1 DEF Write, update, binary, ofUnit, Inv, TypeOK, Binaries, History
  <2> QED BY <2>1, <2>2, <2>3, <2>4, <2>5, <2>6, <2>7 DEF Inv
<1>2. CASE Die
  <2>1. TypeOK'
    <3>1. /\ pc' \in Steps /\ lock' \in BOOLEAN /\ torn' \in BOOLEAN
          /\ (pc' # "idle" => lock')
      BY <1>2 DEF Die, update, binary, Inv, TypeOK, Steps
    <3>2. {exe', staged', bak', db', wal'} \subseteq 0..LastVersion
      BY <1>2 DEF Die, update, binary, Inv, TypeOK
    <3>3. saved' \in [db : 0..LastVersion, wal : 0..LastVersion]
      BY <1>2 DEF Die, update, binary, Inv, TypeOK
    <3>4. /\ component' \in {"server", "agent"} /\ sound' \subseteq 1..LastVersion
          /\ unit' \in {"up", "failed", "stopped"} /\ running' \in 1..LastVersion
          /\ result' \in {"none", "updated", "error", "rolledBack", "restartFailed",
                          "killed"}
          /\ newest' \in 1..LastVersion /\ faults' \in 0..MaxFaults
          /\ previous' \in 1..LastVersion /\ missed' \subseteq {"stop", "move"}
      BY <1>2 DEF Die, update, binary, Inv, TypeOK
    <3> QED BY <3>1, <3>2, <3>3, <3>4 DEF TypeOK
  <2>2. NothingLost' /\ EndsAsItSays'
    BY <1>2 DEF Die, update, binary, Inv, TypeOK, NothingLost, EndsAsItSays,
        Binaries, Offered, UnitState, History
  <2>3. Binaries' /\ Offered'
    BY <1>2 DEF Die, update, binary, Inv, TypeOK, NothingLost, Binaries, Offered,
        UnitState, SavedState
  <2>4. UnitState'
    BY <1>2 DEF Die, update, binary, Inv, TypeOK, Binaries, UnitState
  <2>5. SavedState'
    BY <1>2 DEF Die, update, binary, Inv, TypeOK, SavedState, Offered, UnitState
  <2>6. ~torn' => NotNewer'
    BY <1>2 DEF Die, update, binary, Inv, TypeOK, NotNewer, Binaries, Offered,
        UnitState, SavedState
  <2>7. History'
    BY <1>2 DEF Die, update, binary, Inv, TypeOK, Binaries, History
  <2> QED BY <2>1, <2>2, <2>3, <2>4, <2>5, <2>6, <2>7 DEF Inv
<1>3. CASE Restart
  <2>1. TypeOK'
    BY <1>3 DEF Restart, Started, update, binary, data, Inv, TypeOK, Steps,
        Binaries, Offered
  <2>2. NothingLost' /\ EndsAsItSays'
    BY <1>3 DEF Restart, Started, update, binary, data, Inv, TypeOK, NothingLost,
        EndsAsItSays, Binaries, Offered, UnitState, History
  <2>3. Binaries' /\ Offered'
    BY <1>3 DEF Restart, Started, update, binary, data, Inv, TypeOK, NothingLost,
        Binaries, Offered, UnitState, SavedState
  <2>4. UnitState'
    BY <1>3 DEF Restart, Started, update, binary, data, Inv, TypeOK, Binaries,
        UnitState
  <2>5. SavedState'
    BY <1>3 DEF Restart, Started, update, binary, data, Inv, TypeOK, SavedState,
        Offered, UnitState
  <2>6. ~torn' => NotNewer'
    BY <1>3 DEF Restart, Started, update, binary, data, Inv, TypeOK, NotNewer,
        Binaries, Offered, UnitState, SavedState
  <2>7. History'
    BY <1>3 DEF Restart, Started, update, binary, data, Inv, TypeOK, Binaries, History
  <2> QED BY <2>1, <2>2, <2>3, <2>4, <2>5, <2>6, <2>7 DEF Inv
<1>4. CASE Begin
  <2>1. TypeOK'
    BY <1>4 DEF Begin, binary, data, ofUnit, Inv, TypeOK, Steps, Binaries, Offered
  <2>2. NothingLost' /\ EndsAsItSays'
    BY <1>4 DEF Begin, binary, data, ofUnit, Inv, TypeOK, NothingLost, EndsAsItSays,
        Binaries, Offered, UnitState, History
  <2>3. Binaries' /\ Offered'
    BY <1>4 DEF Begin, binary, data, ofUnit, Inv, TypeOK, NothingLost, Binaries,
        Offered, UnitState, SavedState
  <2>4. UnitState'
    BY <1>4 DEF Begin, binary, data, ofUnit, Inv, TypeOK, Binaries, UnitState
  <2>5. SavedState'
    BY <1>4 DEF Begin, binary, data, ofUnit, Inv, TypeOK, SavedState, Offered,
        UnitState
  <2>6. ~torn' => NotNewer'
    BY <1>4 DEF Begin, binary, data, ofUnit, Inv, TypeOK, NotNewer, Binaries,
        Offered, UnitState, SavedState
  <2>7. History'
    BY <1>4 DEF Begin, binary, data, ofUnit, Inv, TypeOK, Binaries, History
  <2> QED BY <2>1, <2>2, <2>3, <2>4, <2>5, <2>6, <2>7 DEF Inv
<1>5. CASE Stage
  <2>1. TypeOK'
    BY <1>5 DEF Stage, binary, data, ofUnit, Inv, TypeOK, Steps, Binaries, Offered
  <2>2. NothingLost' /\ EndsAsItSays'
    BY <1>5 DEF Stage, binary, data, ofUnit, Inv, TypeOK, NothingLost, EndsAsItSays,
        Binaries, Offered, UnitState, History
  <2>3. Binaries' /\ Offered'
    BY <1>5 DEF Stage, binary, data, ofUnit, Inv, TypeOK, NothingLost, Binaries,
        Offered, UnitState, SavedState
  <2>4. UnitState'
    BY <1>5 DEF Stage, binary, data, ofUnit, Inv, TypeOK, Binaries, UnitState
  <2>5. SavedState'
    BY <1>5 DEF Stage, binary, data, ofUnit, Inv, TypeOK, SavedState, Offered,
        UnitState
  <2>6. ~torn' => NotNewer'
    BY <1>5 DEF Stage, binary, data, ofUnit, Inv, TypeOK, NotNewer, Binaries,
        Offered, UnitState, SavedState
  <2>7. History'
    BY <1>5 DEF Stage, binary, data, ofUnit, Inv, TypeOK, Binaries, History
  <2> QED BY <2>1, <2>2, <2>3, <2>4, <2>5, <2>6, <2>7 DEF Inv
<1>6. CASE EarlyFails
  <2>1. TypeOK'
    <3>1. /\ pc' \in Steps /\ lock' \in BOOLEAN /\ torn' \in BOOLEAN
          /\ (pc' # "idle" => lock')
      BY <1>6 DEF EarlyFails, Fault, Faults, Ends, binary, data, ofUnit, Inv,
          TypeOK, Steps
    <3>2. {exe', staged', bak', db', wal'} \subseteq 0..LastVersion
      BY <1>6 DEF EarlyFails, Fault, Faults, Ends, binary, data, ofUnit, Inv, TypeOK
    <3>3. saved' \in [db : 0..LastVersion, wal : 0..LastVersion]
      BY <1>6 DEF EarlyFails, Fault, Faults, Ends, binary, data, ofUnit, Inv, TypeOK
    <3>4. /\ component' \in {"server", "agent"} /\ sound' \subseteq 1..LastVersion
          /\ unit' \in {"up", "failed", "stopped"} /\ running' \in 1..LastVersion
          /\ result' \in {"none", "updated", "error", "rolledBack", "restartFailed",
                          "killed"}
          /\ newest' \in 1..LastVersion /\ faults' \in 0..MaxFaults
          /\ previous' \in 1..LastVersion /\ missed' \subseteq {"stop", "move"}
      BY <1>6 DEF EarlyFails, Fault, Faults, Ends, binary, data, ofUnit, Inv, TypeOK
    <3> QED BY <3>1, <3>2, <3>3, <3>4 DEF TypeOK
  <2>2. NothingLost' /\ EndsAsItSays'
    BY <1>6 DEF EarlyFails, Fault, Faults, Ends, binary, data, ofUnit, Inv, TypeOK,
        NothingLost, EndsAsItSays, Binaries, Offered, UnitState, History
  <2>3. Binaries' /\ Offered'
    BY <1>6 DEF EarlyFails, Fault, Faults, Ends, binary, data, ofUnit, Inv, TypeOK,
        NothingLost, Binaries, Offered, UnitState, SavedState
  <2>4. UnitState'
    BY <1>6 DEF EarlyFails, Fault, Faults, Ends, binary, data, ofUnit, Inv, TypeOK,
        Binaries, UnitState
  <2>5. SavedState'
    BY <1>6 DEF EarlyFails, Fault, Faults, Ends, binary, data, ofUnit, Inv, TypeOK,
        SavedState, Offered, UnitState
  <2>6. ~torn' => NotNewer'
    BY <1>6 DEF EarlyFails, Fault, Faults, Ends, binary, data, ofUnit, Inv, TypeOK,
        NotNewer, Binaries, Offered, UnitState, SavedState
  <2>7. History'
    BY <1>6 DEF EarlyFails, Fault, Faults, Ends, binary, data, ofUnit, Inv, TypeOK,
        Binaries, History
  <2> QED BY <2>1, <2>2, <2>3, <2>4, <2>5, <2>6, <2>7 DEF Inv
<1>7. CASE StopUnit
  <2>1. TypeOK'
    BY <1>7 DEF StopUnit, Stopped, binary, Inv, TypeOK, Steps, Binaries, Offered
  <2>2. NothingLost' /\ EndsAsItSays'
    BY <1>7 DEF StopUnit, Stopped, binary, Inv, TypeOK, NothingLost, EndsAsItSays,
        Binaries, Offered, UnitState, History
  <2>3. Binaries' /\ Offered'
    BY <1>7 DEF StopUnit, Stopped, binary, Inv, TypeOK, NothingLost, Binaries,
        Offered, UnitState, SavedState
  <2>4. UnitState'
    BY <1>7 DEF StopUnit, Stopped, binary, Inv, TypeOK, Binaries, UnitState
  <2>5. SavedState'
    BY <1>7 DEF StopUnit, Stopped, binary, Inv, TypeOK, SavedState, Offered,
        UnitState
  <2>6. ~torn' => NotNewer'
    BY <1>7 DEF StopUnit, Stopped, binary, Inv, TypeOK, NotNewer, Binaries, Offered,
        UnitState, SavedState
  <2>7. History'
    BY <1>7 DEF StopUnit, Stopped, binary, Inv, TypeOK, Binaries, History
  <2> QED BY <2>1, <2>2, <2>3, <2>4, <2>5, <2>6, <2>7 DEF Inv
<1>8. CASE MoveAway
  <2>1. TypeOK'
    BY <1>8 DEF MoveAway, data, ofUnit, Inv, TypeOK, Steps, Binaries, Offered
  <2>2. NothingLost' /\ EndsAsItSays'
    BY <1>8 DEF MoveAway, data, ofUnit, Inv, TypeOK, NothingLost, EndsAsItSays,
        Binaries, Offered, UnitState, History
  <2>3. Binaries' /\ Offered'
    BY <1>8 DEF MoveAway, data, ofUnit, Inv, TypeOK, NothingLost, Binaries, Offered,
        UnitState, SavedState
  <2>4. UnitState'
    BY <1>8 DEF MoveAway, data, ofUnit, Inv, TypeOK, Binaries, UnitState
  <2>5. SavedState'
    BY <1>8 DEF MoveAway, data, ofUnit, Inv, TypeOK, SavedState, Offered, UnitState
  <2>6. ~torn' => NotNewer'
    BY <1>8 DEF MoveAway, data, ofUnit, Inv, TypeOK, NotNewer, Binaries, Offered,
        UnitState, SavedState
  <2>7. History'
    BY <1>8 DEF MoveAway, data, ofUnit, Inv, TypeOK, Binaries, History
  <2> QED BY <2>1, <2>2, <2>3, <2>4, <2>5, <2>6, <2>7 DEF Inv
<1>9. CASE MoveAwayFails
  <2>1. TypeOK'
    <3>1. /\ pc' \in Steps /\ lock' \in BOOLEAN /\ torn' \in BOOLEAN
          /\ (pc' # "idle" => lock')
      BY <1>9 DEF MoveAwayFails, Started, Fault, Faults, Ends, data, ofUnit, Inv,
          TypeOK, Steps
    <3>2. {exe', staged', bak', db', wal'} \subseteq 0..LastVersion
      BY <1>9 DEF MoveAwayFails, Started, Fault, Faults, Ends, data, ofUnit, Inv,
          TypeOK
    <3>3. saved' \in [db : 0..LastVersion, wal : 0..LastVersion]
      BY <1>9 DEF MoveAwayFails, Started, Fault, Faults, Ends, data, ofUnit, Inv,
          TypeOK
    <3>4. /\ component' \in {"server", "agent"} /\ sound' \subseteq 1..LastVersion
          /\ unit' \in {"up", "failed", "stopped"} /\ running' \in 1..LastVersion
          /\ result' \in {"none", "updated", "error", "rolledBack", "restartFailed",
                          "killed"}
          /\ newest' \in 1..LastVersion /\ faults' \in 0..MaxFaults
          /\ previous' \in 1..LastVersion /\ missed' \subseteq {"stop", "move"}
      BY <1>9 DEF MoveAwayFails, Started, Fault, Faults, Ends, data, ofUnit, Inv,
          TypeOK
    <3> QED BY <3>1, <3>2, <3>3, <3>4 DEF TypeOK
  <2>2. NothingLost' /\ EndsAsItSays'
    BY <1>9 DEF MoveAwayFails, Started, Fault, Faults, Ends, data, ofUnit, Inv,
        TypeOK, NothingLost, EndsAsItSays, Binaries, Offered, UnitState, History
  <2>3. Binaries' /\ Offered'
    BY <1>9 DEF MoveAwayFails, Started, Fault, Faults, Ends, data, ofUnit, Inv,
        TypeOK, NothingLost, Binaries, Offered, UnitState, SavedState
  <2>4. UnitState'
    BY <1>9 DEF MoveAwayFails, Started, Fault, Faults, Ends, data, ofUnit, Inv,
        TypeOK, Binaries, UnitState
  <2>5. SavedState'
    BY <1>9 DEF MoveAwayFails, Started, Fault, Faults, Ends, data, ofUnit, Inv,
        TypeOK, SavedState, Offered, UnitState
  <2>6. ~torn' => NotNewer'
    BY <1>9 DEF MoveAwayFails, Started, Fault, Faults, Ends, data, ofUnit, Inv,
        TypeOK, NotNewer, Binaries, Offered, UnitState, SavedState
  <2>7. History'
    BY <1>9 DEF MoveAwayFails, Started, Fault, Faults, Ends, data, ofUnit, Inv,
        TypeOK, Binaries, History
  <2> QED BY <2>1, <2>2, <2>3, <2>4, <2>5, <2>6, <2>7 DEF Inv
<1>10. CASE Backup
  <2>1. TypeOK'
    BY <1>10 DEF Backup, binary, data, ofUnit, Inv, TypeOK, Steps, Binaries, Offered
  <2>2. NothingLost' /\ EndsAsItSays'
    BY <1>10 DEF Backup, binary, data, ofUnit, Inv, TypeOK, NothingLost,
        EndsAsItSays, Binaries, Offered, UnitState, History
  <2>3. Binaries' /\ Offered'
    <3>1. saved'.db \in {db, 0} /\ saved'.wal \in {wal, 0}
      BY <1>10 DEF Backup
    <3>2. Binaries'
      BY <1>10 DEF Backup, binary, data, Inv, Binaries
    <3>3. Offered'
      BY <1>10, <3>1 DEF Backup, binary, data, ofUnit, Inv, TypeOK, Offered
    <3> QED BY <3>2, <3>3
  <2>4. UnitState'
    BY <1>10 DEF Backup, binary, data, ofUnit, Inv, TypeOK, Binaries, UnitState
  <2>5. SavedState'
    BY <1>10 DEF Backup, binary, data, ofUnit, Inv, TypeOK, SavedState, Offered,
        UnitState
  <2>6. ~torn' => NotNewer'
    BY <1>10 DEF Backup, binary, data, ofUnit, Inv, TypeOK, NotNewer, Binaries,
        Offered, UnitState, SavedState
  <2>7. History'
    BY <1>10 DEF Backup, binary, data, ofUnit, Inv, TypeOK, Binaries, History
  <2> QED BY <2>1, <2>2, <2>3, <2>4, <2>5, <2>6, <2>7 DEF Inv
<1>11. CASE BackupFails
  <2>1. TypeOK'
    <3>1. /\ pc' \in Steps /\ lock' \in BOOLEAN /\ torn' \in BOOLEAN
          /\ (pc' # "idle" => lock')
      BY <1>11 DEF BackupFails, Started, Faults, Ends, binary, data, ofUnit, Inv,
          TypeOK, Steps
    <3>2. {exe', staged', bak', db', wal'} \subseteq 0..LastVersion
      BY <1>11 DEF BackupFails, Started, Faults, Ends, binary, data, ofUnit, Inv,
          TypeOK
    <3>3. saved' \in [db : 0..LastVersion, wal : 0..LastVersion]
      BY <1>11 DEF BackupFails, Started, Faults, Ends, binary, data, ofUnit, Inv,
          TypeOK
    <3>4. /\ component' \in {"server", "agent"} /\ sound' \subseteq 1..LastVersion
          /\ newest' \in 1..LastVersion /\ faults' \in 0..MaxFaults
          /\ previous' \in 1..LastVersion /\ missed' \subseteq {"stop", "move"}
      BY <1>11 DEF BackupFails, Fault, Faults, Inv, TypeOK
    <3>6. result' \in {"none", "updated", "error", "rolledBack", "restartFailed", "killed"}
      BY <1>11 DEF BackupFails, Ends
    <3>5. unit' \in {"up", "failed", "stopped"} /\ running' \in 1..LastVersion
      BY <1>11 DEF BackupFails, Started, ofUnit, Inv, TypeOK
    <3> QED BY <3>1, <3>2, <3>3, <3>4, <3>5, <3>6 DEF TypeOK
  <2>2. NothingLost' /\ EndsAsItSays'
    BY <1>11 DEF BackupFails, Started, Faults, Ends, binary, data, ofUnit, Inv,
        TypeOK, NothingLost, EndsAsItSays, Binaries, Offered, UnitState, History
  <2>3. Binaries' /\ Offered'
    BY <1>11 DEF BackupFails, Started, Faults, Ends, binary, data, ofUnit, Inv,
        TypeOK, NothingLost, Binaries, Offered, UnitState, SavedState
  <2>4. UnitState'
    BY <1>11 DEF BackupFails, Started, Faults, Ends, binary, data, ofUnit, Inv,
        TypeOK, Binaries, UnitState
  <2>5. SavedState'
    BY <1>11 DEF BackupFails, Started, Faults, Ends, binary, data, ofUnit, Inv,
        TypeOK, SavedState, Offered, UnitState
  <2>6. ~torn' => NotNewer'
    BY <1>11 DEF BackupFails, Started, Faults, Ends, binary, data, ofUnit, Inv,
        TypeOK, NotNewer, Binaries, Offered, UnitState, SavedState
  <2>7. History'
    BY <1>11 DEF BackupFails, Started, Faults, Ends, binary, data, ofUnit, Inv,
        TypeOK, Binaries, History
  <2> QED BY <2>1, <2>2, <2>3, <2>4, <2>5, <2>6, <2>7 DEF Inv
<1>12. CASE MoveIn
  <2>1. TypeOK'
    BY <1>12 DEF MoveIn, data, ofUnit, Inv, TypeOK, Steps, Binaries, Offered
  <2>2. NothingLost' /\ EndsAsItSays'
    BY <1>12 DEF MoveIn, data, ofUnit, Inv, TypeOK, NothingLost, EndsAsItSays,
        Binaries, Offered, UnitState, History
  <2>3. Binaries' /\ Offered'
    BY <1>12 DEF MoveIn, data, ofUnit, Inv, TypeOK, NothingLost, Binaries, Offered,
        UnitState, SavedState
  <2>4. UnitState'
    BY <1>12 DEF MoveIn, data, ofUnit, Inv, TypeOK, Binaries, UnitState
  <2>5. SavedState'
    BY <1>12 DEF MoveIn, data, ofUnit, Inv, TypeOK, SavedState, Offered, UnitState
  <2>6. ~torn' => NotNewer'
    BY <1>12 DEF MoveIn, data, ofUnit, Inv, TypeOK, NotNewer, Binaries, Offered,
        UnitState, SavedState
  <2>7. History'
    BY <1>12 DEF MoveIn, data, ofUnit, Inv, TypeOK, Binaries, History
  <2> QED BY <2>1, <2>2, <2>3, <2>4, <2>5, <2>6, <2>7 DEF Inv
<1>13. CASE StartUnit
  <2>1. TypeOK'
    BY <1>13 DEF StartUnit, Started, binary, data, Inv, TypeOK, Steps, Binaries,
        Offered
  <2>2. NothingLost' /\ EndsAsItSays'
    BY <1>13 DEF StartUnit, Started, binary, data, Inv, TypeOK, NothingLost,
        EndsAsItSays, Binaries, Offered, UnitState, History
  <2>3. Binaries' /\ Offered'
    BY <1>13 DEF StartUnit, Started, binary, data, Inv, TypeOK, NothingLost,
        Binaries, Offered, UnitState, SavedState
  <2>4. UnitState'
    BY <1>13 DEF StartUnit, Started, binary, data, Inv, TypeOK, Binaries, UnitState
  <2>5. SavedState'
    BY <1>13 DEF StartUnit, Started, binary, data, Inv, TypeOK, SavedState, Offered,
        UnitState
  <2>6. ~torn' => NotNewer'
    BY <1>13 DEF StartUnit, Started, binary, data, Inv, TypeOK, NotNewer, Binaries,
        Offered, UnitState, SavedState
  <2>7. History'
    BY <1>13 DEF StartUnit, Started, binary, data, Inv, TypeOK, Binaries, History
  <2> QED BY <2>1, <2>2, <2>3, <2>4, <2>5, <2>6, <2>7 DEF Inv
<1>14. CASE Check
  <2>1. TypeOK'
    BY <1>14 DEF Check, binary, data, ofUnit, Inv, TypeOK, Steps, Binaries, Offered
  <2>2. NothingLost' /\ EndsAsItSays'
    BY <1>14 DEF Check, binary, data, ofUnit, Inv, TypeOK, NothingLost,
        EndsAsItSays, Binaries, Offered, UnitState, History
  <2>3. Binaries' /\ Offered'
    BY <1>14 DEF Check, binary, data, ofUnit, Inv, TypeOK, NothingLost, Binaries,
        Offered, UnitState, SavedState
  <2>4. UnitState'
    BY <1>14 DEF Check, binary, data, ofUnit, Inv, TypeOK, Binaries, UnitState
  <2>5. SavedState'
    BY <1>14 DEF Check, binary, data, ofUnit, Inv, TypeOK, SavedState, Offered,
        UnitState
  <2>6. ~torn' => NotNewer'
    BY <1>14 DEF Check, binary, data, ofUnit, Inv, TypeOK, NotNewer, Binaries,
        Offered, UnitState, SavedState
  <2>7. History'
    BY <1>14 DEF Check, binary, data, ofUnit, Inv, TypeOK, Binaries, History
  <2> QED BY <2>1, <2>2, <2>3, <2>4, <2>5, <2>6, <2>7 DEF Inv
<1>15. CASE Commit
  <2>1. TypeOK'
    <3>1. /\ pc' \in Steps /\ lock' \in BOOLEAN /\ torn' \in BOOLEAN
          /\ (pc' # "idle" => lock')
      BY <1>15 DEF Commit, Ends, data, ofUnit, Inv, TypeOK, Steps
    <3>2. {exe', staged', bak', db', wal'} \subseteq 0..LastVersion
      BY <1>15 DEF Commit, Ends, data, ofUnit, Inv, TypeOK
    <3>3. saved' \in [db : 0..LastVersion, wal : 0..LastVersion]
      BY <1>15 DEF Commit, Ends, data, ofUnit, Inv, TypeOK
    <3>4. /\ component' \in {"server", "agent"} /\ sound' \subseteq 1..LastVersion
          /\ unit' \in {"up", "failed", "stopped"} /\ running' \in 1..LastVersion
          /\ result' \in {"none", "updated", "error", "rolledBack", "restartFailed",
                          "killed"}
          /\ newest' \in 1..LastVersion /\ faults' \in 0..MaxFaults
          /\ previous' \in 1..LastVersion /\ missed' \subseteq {"stop", "move"}
      BY <1>15 DEF Commit, Ends, data, ofUnit, Inv, TypeOK
    <3> QED BY <3>1, <3>2, <3>3, <3>4 DEF TypeOK
  <2>2. NothingLost' /\ EndsAsItSays'
    BY <1>15 DEF Commit, Ends, data, ofUnit, Inv, TypeOK, NothingLost, EndsAsItSays,
        Binaries, Offered, UnitState, History
  <2>3. Binaries' /\ Offered'
    BY <1>15 DEF Commit, Ends, data, ofUnit, Inv, TypeOK, NothingLost, Binaries,
        Offered, UnitState, SavedState
  <2>4. UnitState'
    BY <1>15 DEF Commit, Ends, data, ofUnit, Inv, TypeOK, Binaries, UnitState
  <2>5. SavedState'
    BY <1>15 DEF Commit, Ends, data, ofUnit, Inv, TypeOK, SavedState, Offered,
        UnitState
  <2>6. ~torn' => NotNewer'
    BY <1>15 DEF Commit, Ends, data, ofUnit, Inv, TypeOK, NotNewer, Binaries,
        Offered, UnitState, SavedState
  <2>7. History'
    BY <1>15 DEF Commit, Ends, data, ofUnit, Inv, TypeOK, Binaries, History
  <2> QED BY <2>1, <2>2, <2>3, <2>4, <2>5, <2>6, <2>7 DEF Inv
<1>16. CASE RollBack
  <2>1. TypeOK'
    BY <1>16 DEF RollBack, Fault, Faults, binary, data, ofUnit, Inv, TypeOK, Steps,
        Binaries, Offered
  <2>2. NothingLost' /\ EndsAsItSays'
    BY <1>16 DEF RollBack, Fault, Faults, binary, data, ofUnit, Inv, TypeOK,
        NothingLost, EndsAsItSays, Binaries, Offered, UnitState, History
  <2>3. Binaries' /\ Offered'
    BY <1>16 DEF RollBack, Fault, Faults, binary, data, ofUnit, Inv, TypeOK,
        NothingLost, Binaries, Offered, UnitState, SavedState
  <2>4. UnitState'
    BY <1>16 DEF RollBack, Fault, Faults, binary, data, ofUnit, Inv, TypeOK,
        Binaries, UnitState
  <2>5. SavedState'
    BY <1>16 DEF RollBack, Fault, Faults, binary, data, ofUnit, Inv, TypeOK,
        SavedState, Offered, UnitState
  <2>6. ~torn' => NotNewer'
    BY <1>16 DEF RollBack, Fault, Faults, binary, data, ofUnit, Inv, TypeOK,
        NotNewer, Binaries, Offered, UnitState, SavedState
  <2>7. History'
    BY <1>16 DEF RollBack, Fault, Faults, binary, data, ofUnit, Inv, TypeOK, Binaries,
        History
  <2> QED BY <2>1, <2>2, <2>3, <2>4, <2>5, <2>6, <2>7 DEF Inv
<1>17. CASE UndoStop
  <2>1. TypeOK'
    <3>1. /\ pc' \in Steps /\ lock' \in BOOLEAN /\ torn' \in BOOLEAN
          /\ (pc' # "idle" => lock')
      BY <1>17 DEF UndoStop, Stopped, Fault, Faults, binary, data, ofUnit, Inv,
          TypeOK, Steps
    <3>2. {exe', staged', bak', db', wal'} \subseteq 0..LastVersion
      BY <1>17 DEF UndoStop, Stopped, Fault, Faults, binary, data, ofUnit, Inv,
          TypeOK
    <3>3. saved' \in [db : 0..LastVersion, wal : 0..LastVersion]
      BY <1>17 DEF UndoStop, Stopped, Fault, Faults, binary, data, ofUnit, Inv,
          TypeOK
    <3>4. /\ component' \in {"server", "agent"} /\ sound' \subseteq 1..LastVersion
          /\ unit' \in {"up", "failed", "stopped"} /\ running' \in 1..LastVersion
          /\ result' \in {"none", "updated", "error", "rolledBack", "restartFailed",
                          "killed"}
          /\ newest' \in 1..LastVersion /\ faults' \in 0..MaxFaults
          /\ previous' \in 1..LastVersion
      BY <1>17 DEF UndoStop, Stopped, Fault, Faults, binary, data, ofUnit, Inv,
          TypeOK
    <3>5. missed' \subseteq {"stop", "move"}
      <4>1. missed' = missed \/ missed' = {"stop"}
        BY <1>17 DEF UndoStop
      <4> QED BY <4>1 DEF Inv, TypeOK
    <3> QED BY <3>1, <3>2, <3>3, <3>4, <3>5 DEF TypeOK
  <2>2. NothingLost' /\ EndsAsItSays'
    BY <1>17 DEF UndoStop, Stopped, Fault, Faults, binary, data, ofUnit, Inv,
        TypeOK, NothingLost, EndsAsItSays, Binaries, Offered, UnitState, History
  <2>3. Binaries' /\ Offered'
    BY <1>17 DEF UndoStop, Stopped, Fault, Faults, binary, data, ofUnit, Inv,
        TypeOK, NothingLost, Binaries, Offered, UnitState, SavedState
  <2>4. UnitState'
    BY <1>17 DEF UndoStop, Stopped, Fault, Faults, binary, data, ofUnit, Inv,
        TypeOK, Binaries, UnitState
  <2>5. SavedState'
    BY <1>17 DEF UndoStop, Stopped, Fault, Faults, binary, data, ofUnit, Inv,
        TypeOK, SavedState, Offered, UnitState
  <2>6. ~torn' => NotNewer'
    BY <1>17 DEF UndoStop, Stopped, Fault, Faults, binary, data, ofUnit, Inv,
        TypeOK, NotNewer, Binaries, Offered, UnitState, SavedState
  <2>7. History'
    BY <1>17 DEF UndoStop, Stopped, Fault, Faults, binary, data, ofUnit, Inv, TypeOK,
        Binaries, History
  <2> QED BY <2>1, <2>2, <2>3, <2>4, <2>5, <2>6, <2>7 DEF Inv
<1>18. CASE UndoRemove
  <2>1. TypeOK'
    BY <1>18 DEF UndoRemove, Fault, Faults, binary, data, ofUnit, Inv, TypeOK,
        Steps, Binaries, Offered
  <2>2. NothingLost' /\ EndsAsItSays'
    BY <1>18 DEF UndoRemove, Fault, Faults, binary, data, ofUnit, Inv, TypeOK,
        NothingLost, EndsAsItSays, Binaries, Offered, UnitState, History
  <2>3. Binaries' /\ Offered'
    BY <1>18 DEF UndoRemove, Fault, Faults, binary, data, ofUnit, Inv, TypeOK,
        NothingLost, Binaries, Offered, UnitState, SavedState
  <2>4. UnitState'
    BY <1>18 DEF UndoRemove, Fault, Faults, binary, data, ofUnit, Inv, TypeOK,
        Binaries, UnitState
  <2>5. SavedState'
    BY <1>18 DEF UndoRemove, Fault, Faults, binary, data, ofUnit, Inv, TypeOK,
        SavedState, Offered, UnitState
  <2>6. ~torn' => NotNewer'
    BY <1>18 DEF UndoRemove, Fault, Faults, binary, data, ofUnit, Inv, TypeOK,
        NotNewer, Binaries, Offered, UnitState, SavedState
  <2>7. History'
    BY <1>18 DEF UndoRemove, Fault, Faults, binary, data, ofUnit, Inv, TypeOK,
        Binaries, History
  <2> QED BY <2>1, <2>2, <2>3, <2>4, <2>5, <2>6, <2>7 DEF Inv
<1>19. CASE UndoMove
  <2>1. TypeOK'
    <3>1. missed' \subseteq {"stop", "move"}
      <4>1. missed' = missed \/ missed' = missed \cup {"move"}
        BY <1>19 DEF UndoMove
      <4> QED BY <4>1 DEF Inv, TypeOK
    <3>2. /\ pc' \in Steps /\ lock' \in BOOLEAN /\ torn' \in BOOLEAN
          /\ (pc' # "idle" => lock')
      BY <1>19 DEF UndoMove, data, ofUnit, Inv, TypeOK, Steps
    <3>3. {exe', staged', bak', db', wal'} \subseteq 0..LastVersion
      BY <1>19 DEF UndoMove, binary, data, Inv, TypeOK
    <3>4. saved' \in [db : 0..LastVersion, wal : 0..LastVersion]
      BY <1>19 DEF UndoMove, Inv, TypeOK
    <3>5. /\ component' \in {"server", "agent"} /\ sound' \subseteq 1..LastVersion
          /\ unit' \in {"up", "failed", "stopped"} /\ running' \in 1..LastVersion
          /\ result' \in {"none", "updated", "error", "rolledBack", "restartFailed",
                          "killed"}
          /\ newest' \in 1..LastVersion /\ faults' \in 0..MaxFaults
          /\ previous' \in 1..LastVersion
      BY <1>19 DEF UndoMove, Fault, Faults, data, ofUnit, Inv, TypeOK
    <3> QED BY <3>1, <3>2, <3>3, <3>4, <3>5 DEF TypeOK
  <2>2. NothingLost' /\ EndsAsItSays'
    BY <1>19 DEF UndoMove, Fault, Faults, binary, data, ofUnit, Inv, TypeOK,
        NothingLost, EndsAsItSays, Binaries, Offered, UnitState, History
  <2>3. Binaries' /\ Offered'
    BY <1>19 DEF UndoMove, Fault, Faults, binary, data, ofUnit, Inv, TypeOK,
        NothingLost, Binaries, Offered, UnitState, SavedState
  <2>4. UnitState'
    BY <1>19 DEF UndoMove, Fault, Faults, binary, data, ofUnit, Inv, TypeOK,
        Binaries, UnitState
  <2>5. SavedState'
    BY <1>19 DEF UndoMove, Fault, Faults, binary, data, ofUnit, Inv, TypeOK,
        SavedState, Offered, UnitState
  <2>6. ~torn' => NotNewer'
    BY <1>19 DEF UndoMove, Fault, Faults, binary, data, ofUnit, Inv, TypeOK,
        NotNewer, Binaries, Offered, UnitState, SavedState
  <2>7. History'
    BY <1>19 DEF UndoMove, Fault, Faults, binary, data, ofUnit, Inv, TypeOK, Binaries,
        History
  <2> QED BY <2>1, <2>2, <2>3, <2>4, <2>5, <2>6, <2>7 DEF Inv
<1>20. CASE UndoData
  <2>1. TypeOK'
    <3>1. /\ pc' \in Steps /\ lock' \in BOOLEAN /\ torn' \in BOOLEAN
          /\ (pc' # "idle" => lock')
      BY <1>20 DEF UndoData, Fault, Faults, binary, data, ofUnit, Inv, TypeOK, Steps
    <3>2. {exe', staged', bak', db', wal'} \subseteq 0..LastVersion
      BY <1>20 DEF UndoData, Fault, Faults, binary, data, ofUnit, Inv, TypeOK
    <3>3. saved' \in [db : 0..LastVersion, wal : 0..LastVersion]
      BY <1>20 DEF UndoData, Fault, Faults, binary, data, ofUnit, Inv, TypeOK
    <3>4. /\ component' \in {"server", "agent"} /\ sound' \subseteq 1..LastVersion
          /\ unit' \in {"up", "failed", "stopped"} /\ running' \in 1..LastVersion
          /\ result' \in {"none", "updated", "error", "rolledBack", "restartFailed",
                          "killed"}
          /\ newest' \in 1..LastVersion /\ faults' \in 0..MaxFaults
          /\ previous' \in 1..LastVersion /\ missed' \subseteq {"stop", "move"}
      BY <1>20 DEF UndoData, Fault, Faults, binary, data, ofUnit, Inv, TypeOK
    <3> QED BY <3>1, <3>2, <3>3, <3>4 DEF TypeOK
  <2>2. NothingLost' /\ EndsAsItSays'
    BY <1>20 DEF UndoData, Fault, Faults, binary, data, ofUnit, Inv, TypeOK,
        NothingLost, EndsAsItSays, Binaries, Offered, UnitState, History
  <2>3. Binaries' /\ Offered'
    BY <1>20 DEF UndoData, Fault, Faults, binary, data, ofUnit, Inv, TypeOK,
        NothingLost, Binaries, Offered, UnitState, SavedState
  <2>4. UnitState'
    BY <1>20 DEF UndoData, Fault, Faults, binary, data, ofUnit, Inv, TypeOK,
        Binaries, UnitState
  <2>5. SavedState'
    BY <1>20 DEF UndoData, Fault, Faults, binary, data, ofUnit, Inv, TypeOK,
        SavedState, Offered, UnitState
  <2>6. ~torn' => NotNewer'
    <3>1. ASSUME ~torn'
          PROVE  /\ ~torn /\ pc = "undoData" /\ pc' = "undoStart" /\ exe' = exe
                 /\ \/ saved # NoSave /\ db' = saved.db /\ wal' \in {saved.wal, 0}
                    \/ saved = NoSave /\ db' = db /\ wal' = wal
      BY <1>20, <3>1 DEF UndoData, binary, data, Inv, TypeOK
    <3>2. saved = NoSave => component = "agent"
      BY <1>20 DEF UndoData, Inv, TypeOK, SavedState
    <3>3. exe \in Nat /\ db \in Nat /\ wal \in Nat /\ saved.db \in Nat /\ saved.wal \in Nat
      BY DEF Inv, TypeOK
    <3>4. ASSUME ~torn', exe # 0 PROVE db' <= exe /\ wal' <= exe
      BY <3>1, <3>2, <3>3, <3>4 DEF Inv, SavedState, NotNewer
    <3> QED BY <3>1, <3>4 DEF NotNewer
  <2>7. History'
    BY <1>20 DEF UndoData, Fault, Faults, binary, data, ofUnit, Inv, TypeOK, Binaries,
        History
  <2> QED BY <2>1, <2>2, <2>3, <2>4, <2>5, <2>6, <2>7 DEF Inv
<1>21. CASE UndoStart
  <2>1. TypeOK'
    <3>1. /\ pc' \in Steps /\ lock' \in BOOLEAN /\ torn' \in BOOLEAN
          /\ (pc' # "idle" => lock')
      BY <1>21 DEF UndoStart, Started, Fault, Faults, Ends, binary, data, ofUnit,
          Inv, TypeOK, Steps
    <3>2. {exe', staged', bak', db', wal'} \subseteq 0..LastVersion
      BY <1>21 DEF UndoStart, Started, Fault, Faults, Ends, binary, data, ofUnit,
          Inv, TypeOK
    <3>3. saved' \in [db : 0..LastVersion, wal : 0..LastVersion]
      BY <1>21 DEF UndoStart, Started, Fault, Faults, Ends, binary, data, ofUnit,
          Inv, TypeOK
    <3>4. /\ component' \in {"server", "agent"} /\ sound' \subseteq 1..LastVersion
          /\ unit' \in {"up", "failed", "stopped"} /\ running' \in 1..LastVersion
          /\ result' \in {"none", "updated", "error", "rolledBack", "restartFailed",
                          "killed"}
          /\ newest' \in 1..LastVersion /\ faults' \in 0..MaxFaults
          /\ previous' \in 1..LastVersion /\ missed' \subseteq {"stop", "move"}
      BY <1>21 DEF UndoStart, Started, Fault, Faults, Ends, binary, data, ofUnit,
          Inv, TypeOK
    <3> QED BY <3>1, <3>2, <3>3, <3>4 DEF TypeOK
  <2>2. NothingLost' /\ EndsAsItSays'
    BY <1>21 DEF UndoStart, Started, Fault, Faults, Ends, binary, data, ofUnit, Inv,
        TypeOK, NothingLost, EndsAsItSays, Binaries, Offered, UnitState, History
  <2>3. Binaries' /\ Offered'
    BY <1>21 DEF UndoStart, Started, Fault, Faults, Ends, binary, data, ofUnit, Inv,
        TypeOK, NothingLost, Binaries, Offered, UnitState, SavedState
  <2>4. UnitState'
    BY <1>21 DEF UndoStart, Started, Fault, Faults, Ends, binary, data, ofUnit, Inv,
        TypeOK, Binaries, UnitState
  <2>5. SavedState'
    BY <1>21 DEF UndoStart, Started, Fault, Faults, Ends, binary, data, ofUnit, Inv,
        TypeOK, SavedState, Offered, UnitState
  <2>6. ~torn' => NotNewer'
    BY <1>21 DEF UndoStart, Started, Fault, Faults, Ends, binary, data, ofUnit, Inv,
        TypeOK, NotNewer, Binaries, Offered, UnitState, SavedState
  <2>7. History'
    BY <1>21 DEF UndoStart, Started, Fault, Faults, Ends, binary, data, ofUnit, Inv,
        TypeOK, Binaries, History
  <2> QED BY <2>1, <2>2, <2>3, <2>4, <2>5, <2>6, <2>7 DEF Inv
<1>22. CASE Kill
  <2>1. TypeOK'
    BY <1>22 DEF Kill, Fault, Faults, Undoing, binary, data, ofUnit, Inv, TypeOK,
        Steps, Binaries, Offered
  <2>2. NothingLost' /\ EndsAsItSays'
    BY <1>22 DEF Kill, Fault, Faults, Undoing, binary, data, ofUnit, Inv, TypeOK,
        NothingLost, EndsAsItSays, Binaries, Offered, UnitState, History
  <2>3. Binaries' /\ Offered'
    BY <1>22 DEF Kill, Fault, Faults, Undoing, binary, data, ofUnit, Inv, TypeOK,
        NothingLost, Binaries, Offered, UnitState, SavedState
  <2>4. UnitState'
    BY <1>22 DEF Kill, Fault, Faults, Undoing, binary, data, ofUnit, Inv, TypeOK,
        Binaries, UnitState
  <2>5. SavedState'
    BY <1>22 DEF Kill, Fault, Faults, Undoing, binary, data, ofUnit, Inv, TypeOK,
        SavedState, Offered, UnitState
  <2>6. ~torn' => NotNewer'
    BY <1>22 DEF Kill, Fault, Faults, Undoing, binary, data, ofUnit, Inv, TypeOK,
        NotNewer, Binaries, Offered, UnitState, SavedState
  <2>7. History'
    BY <1>22 DEF Kill, Fault, Faults, Undoing, binary, data, ofUnit, Inv, TypeOK,
        Binaries, History
  <2> QED BY <2>1, <2>2, <2>3, <2>4, <2>5, <2>6, <2>7 DEF Inv
<1>23. CASE Reboot
  <2>1. TypeOK'
    BY <1>23 DEF Reboot, Started, Fault, Faults, Undoing, binary, data, Inv, TypeOK,
        Steps, Binaries, Offered
  <2>2. NothingLost' /\ EndsAsItSays'
    BY <1>23 DEF Reboot, Started, Fault, Faults, Undoing, binary, data, Inv, TypeOK,
        NothingLost, EndsAsItSays, Binaries, Offered, UnitState, History
  <2>3. Binaries' /\ Offered'
    BY <1>23 DEF Reboot, Started, Fault, Faults, Undoing, binary, data, Inv, TypeOK,
        NothingLost, Binaries, Offered, UnitState, SavedState
  <2>4. UnitState'
    BY <1>23 DEF Reboot, Started, Fault, Faults, Undoing, binary, data, Inv, TypeOK,
        Binaries, UnitState
  <2>5. SavedState'
    BY <1>23 DEF Reboot, Started, Fault, Faults, Undoing, binary, data, Inv, TypeOK,
        SavedState, Offered, UnitState
  <2>6. ~torn' => NotNewer'
    BY <1>23 DEF Reboot, Started, Fault, Faults, Undoing, binary, data, Inv, TypeOK,
        NotNewer, Binaries, Offered, UnitState, SavedState
  <2>7. History'
    BY <1>23 DEF Reboot, Started, Fault, Faults, Undoing, binary, data, Inv, TypeOK,
        Binaries, History
  <2> QED BY <2>1, <2>2, <2>3, <2>4, <2>5, <2>6, <2>7 DEF Inv
<1>24. CASE RemoveLock
  <2>1. TypeOK'
    BY <1>24 DEF RemoveLock, binary, data, ofUnit, Inv, TypeOK, Steps, Binaries,
        Offered
  <2>2. NothingLost' /\ EndsAsItSays'
    BY <1>24 DEF RemoveLock, binary, data, ofUnit, Inv, TypeOK, NothingLost,
        EndsAsItSays, Binaries, Offered, UnitState, History
  <2>3. Binaries' /\ Offered'
    BY <1>24 DEF RemoveLock, binary, data, ofUnit, Inv, TypeOK, NothingLost,
        Binaries, Offered, UnitState, SavedState
  <2>4. UnitState'
    BY <1>24 DEF RemoveLock, binary, data, ofUnit, Inv, TypeOK, Binaries, UnitState
  <2>5. SavedState'
    BY <1>24 DEF RemoveLock, binary, data, ofUnit, Inv, TypeOK, SavedState, Offered,
        UnitState
  <2>6. ~torn' => NotNewer'
    BY <1>24 DEF RemoveLock, binary, data, ofUnit, Inv, TypeOK, NotNewer, Binaries,
        Offered, UnitState, SavedState
  <2>7. History'
    BY <1>24 DEF RemoveLock, binary, data, ofUnit, Inv, TypeOK, Binaries, History
  <2> QED BY <2>1, <2>2, <2>3, <2>4, <2>5, <2>6, <2>7 DEF Inv
<1>25. CASE UNCHANGED vars
  BY <1>25 DEF vars, update, binary, data, ofUnit, Inv, TypeOK, NothingLost, EndsAsItSays,
              Binaries, Offered, UnitState, SavedState, NotNewer, History
<1> QED
  BY <1>1, <1>2, <1>3, <1>4, <1>5, <1>6, <1>7, <1>8, <1>9, <1>10, <1>11, <1>12, <1>13, <1>14, <1>15, <1>16, <1>17, <1>18, <1>19, <1>20, <1>21, <1>22, <1>23, <1>24, <1>25
  DEF Next

-----------------------------------------------------------------------------
\* The invariant, of which the theorems below are parts.
LEMMA UpdaterInvariant == Spec => []Inv
<1>1. Init => Inv
  BY InitInv
<1>2. Inv /\ [Next]_vars => Inv'
  BY StepInv
<1> QED BY <1>1, <1>2, PTL DEF Spec

\* Every variable keeps its type, and the lock is held while an update is at work.
THEOREM TypeCorrect == Spec => []TypeOK
<1>1. Inv => TypeOK
  BY DEF Inv
<1> QED BY <1>1, UpdaterInvariant, PTL

\* However many updates are killed, wherever, and however many steps of the roll-back
\* fail: a binary remains, in its place or as the .bak of replaceManagedService.
THEOREM NothingIsLost == Spec => []NothingLost
<1>1. Inv => NothingLost
  BY DEF Inv
<1> QED BY <1>1, UpdaterInvariant, PTL

\* What Run returns is so: nil, with the new version in place and last started; and
\* "update rolled back", with the version from before the update in place, unless its
\* rename failed, and last started, unless the new one could not be stopped either.
THEOREM ResultIsTrue == Spec => []EndsAsItSays
<1>1. Inv => EndsAsItSays
  BY DEF Inv
<1> QED BY <1>1, UpdaterInvariant, PTL

\* No version runs on a database a newer one has written, but after a torn roll-back:
\* what backupDatabase saved goes back before the old binary is started.
THEOREM OldNeverOnNew == Spec => []NoOldOnNew
<1>1. Inv => NoOldOnNew
  <2> SUFFICES ASSUME Inv, unit = "up", ~torn PROVE running >= db /\ running >= wal
    BY DEF NoOldOnNew
  <2>1. running = exe /\ exe # 0 /\ pc # "undoData"
    BY DEF Inv, TypeOK, UnitState, Versions
  <2>2. db <= exe /\ wal <= exe /\ exe \in Nat /\ db \in Nat /\ wal \in Nat
    BY <2>1 DEF Inv, TypeOK, NotNewer
  <2> QED BY <2>1, <2>2
<1> QED BY <1>1, UpdaterInvariant, PTL
=============================================================================
