------------------------- MODULE QuotaLedgerProofs -------------------------
(***************************************************************************)
(* Proofs about QuotaLedger, in layers.  BaseInv gives the shape of the    *)
(* state and mutual exclusion on l.mu; each further layer is an inductive  *)
(* invariant relative to the ones below it.                                *)
(***************************************************************************)
EXTENDS QuotaLedger, FiniteSetTheorems, TLAPS

-----------------------------------------------------------------------------
(* Layer 1: shape of the state and mutual exclusion *)

\* The types without the claim that no counter goes below zero, which needs
\* the layers above.
Shape ==
    /\ today \in Days
    /\ grant \in [Grants -> {"none", "fresh", "old", "expired"}]
    /\ running \in BOOLEAN
    /\ day \in Days \cup {NoDay}
    /\ daily \in Int
    /\ byNonce \in [Grants -> [down : Int, up : Int, streams : Int]]
    /\ active \in [Keys -> Nat]
    /\ file \in [day : Days \cup {NoDay}, bytes : Int]
    /\ pc \in [Handlers -> {"idle", "authorized", "charged", "renamed", "serving"}]
    /\ call \in [Handlers -> Calls]
    /\ admitted \in [Days -> Nat]
    /\ moved \in [Grants -> [down : Nat, up : Nat]]
    /\ forgotten \subseteq Grants
    /\ straddled \subseteq Keys

\* At most one handler is between taking and giving up l.mu.
MutualExclusion ==
    \A h, i \in Handlers : Holding(h) /\ Holding(i) => h = i

\* A handler past authorize has a grant; while it holds l.mu the ledger is still
\* at the day it charged, later it may have moved on.
CallsInOrder ==
    \A h \in Handlers :
        /\ pc[h] # "idle" => running /\ call[h].grant \in Grants
        /\ Holding(h) => call[h].day = day /\ day \in Days
        /\ pc[h] = "serving" => call[h].day \in Days /\ call[h].day <= day

\* The ledger and the file are never ahead of the clock.
LedgerBehindClock == day <= today /\ file.day <= today

BaseInv == Shape /\ MutualExclusion /\ CallsInOrder /\ LedgerBehindClock

LEMMA KeysType == \A g \in Grants : TestKey(g) \in Keys
  BY LedgerAssumption DEF TestKey, Keys

LEMMA BaseInit == Init => BaseInv
<1> SUFFICES ASSUME Init PROVE BaseInv
  OBVIOUS
<1> USE DEF Init, NoDay
<1>1. today \in Days
  BY LedgerAssumption DEF Days
<1>2. byNonce \in [Grants -> [down : Int, up : Int, streams : Int]]
  BY DEF Unused
<1>3. call \in [Handlers -> Calls]
  BY DEF Calls, NoCall
<1>4. moved \in [Grants -> [down : Nat, up : Nat]]
  BY DEF NoBytes
<1>5. active \in [Keys -> Nat] /\ admitted \in [Days -> Nat]
  OBVIOUS
<1>6. file \in [day : Days \cup {NoDay}, bytes : Int]
  OBVIOUS
<1>7. Shape
  BY <1>1, <1>2, <1>3, <1>4, <1>5, <1>6 DEF Shape
<1>8. MutualExclusion /\ CallsInOrder /\ LedgerBehindClock
  BY DEF MutualExclusion, CallsInOrder, Holding, LedgerBehindClock
<1> QED BY <1>7, <1>8 DEF BaseInv

\* What reserve works on has the types of the ledger.
LEMMA NowShape ==
  ASSUME Shape
  PROVE  /\ DailyNow \in Int
         /\ UsageNow \in [Grants -> [down : Int, up : Int, streams : Int]]
         /\ ActiveNow \in [Keys -> Nat]
<1>1. [g \in Grants |-> Unused] \in [Grants -> [down : Int, up : Int, streams : Int]]
  BY DEF Unused
<1> QED BY <1>1 DEF DailyNow, UsageNow, ActiveNow, Shape

LEMMA NoCallType == NoCall \in Calls
  BY DEF NoCall, Calls, NoDay

\* Taking l.mu moves the ledger forward to today, past every request in flight.
LEMMA LockTaken ==
  ASSUME NEW h \in Handlers, BaseInv, TakeLock(h)
  PROVE  /\ running
         /\ \A i \in Handlers : ~Holding(i)
         /\ day' = today /\ day <= day'
         /\ \A i \in Handlers : pc[i] = "serving" => call[i].day \in Days
                                                 /\ call[i].day <= day'
  BY LedgerAssumption
  DEF BaseInv, Shape, CallsInOrder, LedgerBehindClock, TakeLock, Locked, Days, NoDay

LEMMA ClockStep == BaseInv /\ [Next]_vars => LedgerBehindClock'
<1> SUFFICES ASSUME BaseInv, [Next]_vars PROVE LedgerBehindClock'
  OBVIOUS
<1>1. day \in Int /\ today \in Int /\ file.day \in Int /\ today \in Days
  BY LedgerAssumption DEF BaseInv, Shape, Days, NoDay
<1>2. ASSUME NEW g \in Grants, Issue(g) \/ Expire(g) PROVE LedgerBehindClock'
  BY <1>2 DEF Issue, Expire, ledgerVars, BaseInv, LedgerBehindClock
<1>3. CASE Midnight
  BY <1>3, <1>1 DEF Midnight, ledgerVars, BaseInv, LedgerBehindClock
<1>4. ASSUME NEW h \in Handlers, HandlerStep(h) PROVE LedgerBehindClock'
  BY <1>4, <1>1
  DEF HandlerStep, Authorize, Refuse, Charge, TakeLock, Persist, PersistFails,
      Admit, Release, ledgerVars, BaseInv, LedgerBehindClock
<1>5. CASE Crash \/ Restart
  BY <1>5, <1>1, LedgerAssumption
  DEF Crash, Restart, BaseInv, LedgerBehindClock, Days, NoDay
<1>6. CASE UNCHANGED vars
  BY <1>6 DEF vars, BaseInv, LedgerBehindClock
<1> QED
  BY <1>2, <1>3, <1>4, <1>5, <1>6 DEF Next

\* All parts of BaseInv hold after every step.
LEMMA BaseStep == BaseInv /\ [Next]_vars => BaseInv'
<1> SUFFICES ASSUME BaseInv, [Next]_vars PROVE BaseInv'
  OBVIOUS
<1> USE DEF BaseInv
<1>0. LedgerBehindClock'
  BY ClockStep
<1> USE <1>0
<1> DEFINE Entries == [down : Int, up : Int, streams : Int]
<1>1. ASSUME NEW g \in Grants, Issue(g) \/ Expire(g) PROVE BaseInv'
  <2>1. Shape'
    BY <1>1 DEF Issue, Expire, ledgerVars, historyVars, Shape
  <2>2. MutualExclusion' /\ CallsInOrder'
    BY <1>1 DEF Issue, Expire, ledgerVars, MutualExclusion, CallsInOrder, Holding
  <2> QED BY <2>1, <2>2
<1>2. CASE Midnight
  <2>1. Shape'
    BY <1>2, LedgerAssumption DEF Midnight, ledgerVars, historyVars, Shape, Days
  <2>2. MutualExclusion' /\ CallsInOrder'
    BY <1>2 DEF Midnight, ledgerVars, MutualExclusion, CallsInOrder, Holding
  <2> QED BY <2>1, <2>2
<1>3. ASSUME NEW h \in Handlers, NEW g \in Grants, NEW down \in 0..MaxDown,
             NEW up \in 0..MaxUp, Authorize(h, g, down, up)
      PROVE  BaseInv'
  <2>1. [grant |-> g, down |-> down, up |-> up, day |-> NoDay] \in Calls
    BY LedgerAssumption DEF Calls, NoDay
  <2>2. Shape'
    BY <1>3, <2>1 DEF Authorize, ledgerVars, historyVars, Shape
  <2>3. MutualExclusion' /\ CallsInOrder'
    BY <1>3 DEF Authorize, ledgerVars, Shape, MutualExclusion, CallsInOrder, Holding
  <2> QED BY <2>2, <2>3
<1>4. ASSUME NEW h \in Handlers, Refuse(h) PROVE BaseInv'
  <2>1. Shape'
    BY <1>4, NowShape, NoCallType DEF Refuse, TakeLock, TestsInFlight, Shape
  <2>2. MutualExclusion'
    BY <1>4 DEF Refuse, TakeLock, Shape, MutualExclusion, Holding
  <2>3. CallsInOrder'
    BY <1>4, LockTaken DEF Refuse, Shape, CallsInOrder, Holding
  <2> QED BY <2>1, <2>2, <2>3
<1>5. ASSUME NEW h \in Handlers, Charge(h) PROVE BaseInv'
  <2>1. call[h].grant \in Grants /\ call[h] \in Calls /\ today \in Days
    BY <1>5 DEF Charge, TakeLock, Shape, CallsInOrder
  <2>2. daily' \in Int
    BY <1>5, <2>1, NowShape DEF Charge, ByteCount, Calls
  <2>3. byNonce' \in [Grants -> Entries]
    <3> DEFINE e == UsageNow[call[h].grant]
               n == [down |-> e.down + call[h].down, up |-> e.up + call[h].up,
                     streams |-> e.streams + 1]
    <3>1. n \in Entries
      BY <2>1, NowShape DEF Calls
    <3> QED BY <1>5, <3>1, NowShape DEF Charge
  <2>4. active' \in [Keys -> Nat]
    BY <1>5, <2>1, NowShape, KeysType DEF Charge
  <2>5. call' \in [Handlers -> Calls]
    <3>1. [call[h] EXCEPT !.day = today] \in Calls
      BY <2>1 DEF Calls, Days
    <3> QED BY <1>5, <3>1 DEF Charge, Shape
  <2>6. Shape'
    BY <1>5, <2>1, <2>2, <2>3, <2>4, <2>5 DEF Charge, TakeLock, TestsInFlight,
        Shape
  <2>7. MutualExclusion'
    BY <1>5 DEF Charge, TakeLock, Locked, Shape, MutualExclusion, Holding
  <2>8. CallsInOrder'
    <3>1. call'[h].grant = call[h].grant /\ call'[h].day = today
      BY <1>5, <2>1 DEF Charge, Shape, Calls
    <3>2. \A i \in Handlers \ {h} : call'[i] = call[i] /\ pc'[i] = pc[i]
      BY <1>5 DEF Charge, Shape
    <3> QED
      BY <1>5, <2>1, <3>1, <3>2, LockTaken DEF Charge, Shape, CallsInOrder, Holding
  <2> QED BY <2>6, <2>7, <2>8
<1>6. ASSUME NEW h \in Handlers, Persist(h) PROVE BaseInv'
  <2>1. Shape'
    BY <1>6 DEF Persist, ledgerVars, historyVars, Shape
  <2>2. MutualExclusion' /\ CallsInOrder'
    BY <1>6 DEF Persist, ledgerVars, Shape, MutualExclusion, CallsInOrder, Holding
  <2> QED BY <2>1, <2>2
<1>7. ASSUME NEW h \in Handlers, PersistFails(h) PROVE BaseInv'
  <2>1. call[h].grant \in Grants /\ call[h] \in Calls
    BY <1>7 DEF PersistFails, Shape, CallsInOrder
  <2>2. daily' \in Int
    BY <1>7, <2>1 DEF PersistFails, ByteCount, Shape, Calls
  <2>3. byNonce' \in [Grants -> Entries]
    <3>1. Refund(byNonce[call[h].grant], call[h]) \in Entries
      BY <2>1 DEF Refund, Shape, Calls
    <3> QED BY <1>7, <2>1, <3>1 DEF PersistFails, Shape
  <2>4. active' \in [Keys -> Nat]
    BY <1>7, <2>1, KeysType DEF PersistFails, Shape, Decrement
  <2>5. Shape'
    BY <1>7, <2>2, <2>3, <2>4, NoCallType DEF PersistFails, StraddledWithout, Shape
  <2>6. MutualExclusion' /\ CallsInOrder'
    BY <1>7 DEF PersistFails, Shape, MutualExclusion, CallsInOrder, Holding
  <2> QED BY <2>5, <2>6
<1>8. ASSUME NEW h \in Handlers, Admit(h) PROVE BaseInv'
  <2>1. call[h].grant \in Grants /\ call[h] \in Calls /\ call[h].day \in Days
        /\ call[h].day = day
    BY <1>8 DEF Admit, Shape, CallsInOrder, Holding
  <2>2. admitted' \in [Days -> Nat]
    BY <1>8, <2>1 DEF Admit, ByteCount, Shape, Calls
  <2>3. moved' \in [Grants -> [down : Nat, up : Nat]]
    BY <1>8, <2>1 DEF Admit, Shape, Calls
  <2>4. Shape'
    BY <1>8, <2>2, <2>3 DEF Admit, ledgerVars, Shape
  <2>5. MutualExclusion' /\ CallsInOrder'
    BY <1>8, <2>1
    DEF Admit, ledgerVars, Shape, MutualExclusion, CallsInOrder, Holding, Days
  <2> QED BY <2>4, <2>5
<1>9. ASSUME NEW h \in Handlers, Release(h) PROVE BaseInv'
  <2>1. call[h].grant \in Grants /\ call[h] \in Calls
    BY <1>9 DEF Release, Shape, CallsInOrder
  <2>2. byNonce' \in [Grants -> Entries]
    <3>1. [byNonce EXCEPT ![call[h].grant].streams = @ - 1] \in [Grants -> Entries]
      BY <2>1 DEF Shape
    <3> QED BY <1>9, <3>1 DEF Release, Shape
  <2>3. active' \in [Keys -> Nat]
    BY <1>9, <2>1, KeysType DEF Release, Shape, Decrement
  <2>4. Shape'
    BY <1>9, <2>2, <2>3, NoCallType DEF Release, StraddledWithout, Shape
  <2>5. MutualExclusion' /\ CallsInOrder'
    BY <1>9 DEF Release, Shape, MutualExclusion, CallsInOrder, Holding
  <2> QED BY <2>4, <2>5
<1>10. CASE Crash
  <2>1. [g \in Grants |-> Unused] \in [Grants -> Entries]
    BY DEF Unused
  <2>2. call' \in [Handlers -> Calls] /\ active' \in [Keys -> Nat]
    BY <1>10, NoCallType DEF Crash
  <2>3. pc' \in [Handlers -> {"idle", "authorized", "charged", "renamed", "serving"}]
    BY <1>10 DEF Crash
  <2>4. /\ today' \in Days /\ daily' \in Int /\ day' \in Days \cup {NoDay}
        /\ grant' \in [Grants -> {"none", "fresh", "old", "expired"}]
        /\ file' \in [day : Days \cup {NoDay}, bytes : Int]
    BY <1>10 DEF Crash, Shape
  <2>5. forgotten' \subseteq Grants /\ running' \in BOOLEAN /\ straddled' \subseteq Keys
    BY <1>10 DEF Crash, Shape
  <2>6. admitted' \in [Days -> Nat] /\ moved' \in [Grants -> [down : Nat, up : Nat]]
    BY <1>10 DEF Crash, Shape
  <2>7. byNonce' \in [Grants -> Entries]
    BY <1>10, <2>1 DEF Crash
  <2>8. Shape'
    BY <2>4, <2>5, <2>6, <2>7, <2>2, <2>3 DEF Shape
  <2>9. MutualExclusion' /\ CallsInOrder'
    BY <1>10 DEF Crash, MutualExclusion, CallsInOrder, Holding
  <2> QED BY <2>8, <2>9
<1>11. CASE Restart
  <2>1. Shape'
    BY <1>11 DEF Restart, historyVars, Shape
  <2>2. \A h \in Handlers : pc[h] = "idle"
    BY <1>11 DEF Restart, CallsInOrder
  <2>3. MutualExclusion' /\ CallsInOrder'
    BY <1>11, <2>2 DEF Restart, MutualExclusion, CallsInOrder, Holding
  <2> QED BY <2>1, <2>3
<1>12. CASE UNCHANGED vars
  BY <1>12 DEF vars, Shape, MutualExclusion, CallsInOrder, Holding
<1> QED
  BY <1>1, <1>2, <1>3, <1>4, <1>5, <1>6, <1>7, <1>8, <1>9, <1>10, <1>11, <1>12
  DEF Next, HandlerStep

\* At most one handler is inside reserve's critical section, in every state of
\* every instance.
THEOREM BaseTheorem == Spec => []BaseInv
  BY BaseInit, BaseStep, PTL DEF Spec

-----------------------------------------------------------------------------
(* Layer 2: the daily quota *)

\* The day of the file.  The ledger is at that day or past it once it has a
\* day; just after a restart that found an old file it has none.
FileBehindLedger ==
    /\ file.day = NoDay => file.bytes = 0
    /\ ~running => day = NoDay /\ daily = 0
    /\ running /\ day = NoDay => file.day < today
    /\ running /\ day # NoDay => file.day <= day

\* What the counters in memory and on disk are worth in each phase of reserve.
CountersAgree ==
    /\ daily \in 0..Limit /\ file.bytes \in 0..Limit
    /\ running /\ ~Locked => daily = IF day = file.day THEN file.bytes ELSE 0
    /\ \A h \in Handlers :
          /\ pc[h] = "charged" =>
                daily = (IF day = file.day THEN file.bytes ELSE 0) + ByteCount(call[h])
          /\ pc[h] = "renamed" =>
                /\ day = file.day /\ daily = file.bytes
                /\ admitted[day] + ByteCount(call[h]) <= file.bytes

QuotaInv ==
    FileBehindLedger /\ CountersAgree /\ FileCoversAdmitted /\ DailyQuotaHolds

LEMMA QuotaInit == Init => QuotaInv
  BY LedgerAssumption
  DEF Init, QuotaInv, FileBehindLedger, CountersAgree, FileCoversAdmitted,
      DailyQuotaHolds, Locked, Holding, Days, NoDay

\* The numbers the arithmetic below is about are numbers.
LEMMA QuotaTypes ==
  ASSUME BaseInv
  PROVE  /\ today \in Days /\ Days \subseteq Int /\ NoDay \in Int /\ NoDay \notin Days
         /\ day \in Int /\ file.day \in Int
         /\ daily \in Int /\ file.bytes \in Int /\ Limit \in Nat
         /\ \A d \in Days : admitted[d] \in Nat
         /\ \A h \in Handlers : ByteCount(call[h]) \in Nat
  BY LedgerAssumption DEF BaseInv, Shape, Days, NoDay, Calls, ByteCount

LEMMA QuotaStep == BaseInv /\ BaseInv' /\ QuotaInv /\ [Next]_vars => QuotaInv'
<1> SUFFICES ASSUME BaseInv, BaseInv', QuotaInv, [Next]_vars PROVE QuotaInv'
  OBVIOUS
<1> USE QuotaTypes DEF QuotaInv
<1>1. ASSUME NEW g \in Grants, Issue(g) \/ Expire(g) PROVE QuotaInv'
  BY <1>1 DEF Issue, Expire, ledgerVars, historyVars, FileBehindLedger, CountersAgree,
              FileCoversAdmitted, DailyQuotaHolds, Locked, Holding
<1>2. CASE Midnight
  BY <1>2 DEF Midnight, ledgerVars, historyVars, FileBehindLedger, CountersAgree,
              FileCoversAdmitted, DailyQuotaHolds, Locked, Holding
<1>3. ASSUME NEW h \in Handlers, NEW g \in Grants, NEW down \in 0..MaxDown,
             NEW up \in 0..MaxUp, Authorize(h, g, down, up)
      PROVE  QuotaInv'
  <2>1. \A i \in Handlers : /\ Holding(i)' <=> Holding(i)
                            /\ Holding(i) => call'[i] = call[i] /\ pc'[i] = pc[i]
    BY <1>3 DEF Authorize, Holding, BaseInv, Shape
  <2> QED
    BY <1>3, <2>1
    DEF Authorize, ledgerVars, historyVars, FileBehindLedger, CountersAgree,
        FileCoversAdmitted, DailyQuotaHolds, Locked, Holding, ByteCount
<1>4. ASSUME NEW h \in Handlers, TakeLock(h)
      PROVE  /\ running /\ ~Locked /\ day' = today
             /\ day' = file.day => DailyNow = file.bytes
             /\ day' # file.day => DailyNow = 0
             /\ file.day <= day' /\ DailyNow \in Int /\ DailyNow <= Limit
  BY <1>4, LedgerAssumption
  DEF TakeLock, DailyNow, Rolls, FileBehindLedger, CountersAgree, BaseInv,
      LedgerBehindClock
<1>5. ASSUME NEW h \in Handlers, Refuse(h) PROVE QuotaInv'
  <2>1. \A i \in Handlers : ~Holding(i)'
    BY <1>5 DEF Refuse, TakeLock, Locked, Holding, BaseInv, Shape
  <2>2. FileBehindLedger' /\ FileCoversAdmitted' /\ DailyQuotaHolds'
    BY <1>5, <1>4 DEF Refuse, FileBehindLedger, FileCoversAdmitted, DailyQuotaHolds
  <2>3. CountersAgree'
    BY <1>5, <1>4, <2>1 DEF Refuse, CountersAgree, Locked, Holding
  <2> QED BY <2>2, <2>3
<1>6. ASSUME NEW h \in Handlers, Charge(h) PROVE QuotaInv'
  <2>1. TakeLock(h) /\ daily' = DailyNow + ByteCount(call[h]) /\ UNCHANGED file
        /\ DailyNow + ByteCount(call[h]) <= Limit
    BY <1>6, <1>4 DEF Charge, OverQuota
  <2>2. /\ pc'[h] = "charged" /\ ByteCount(call'[h]) = ByteCount(call[h])
        /\ \A i \in Handlers : i # h => ~Holding(i)'
    BY <1>6 DEF Charge, TakeLock, Locked, Holding, BaseInv, Shape, Calls, ByteCount
  <2>3. FileBehindLedger' /\ FileCoversAdmitted' /\ DailyQuotaHolds'
    BY <1>6, <1>4, <2>1 DEF Charge, FileBehindLedger, FileCoversAdmitted, DailyQuotaHolds
  <2>4. CountersAgree'
    BY <1>4, <2>1, <2>2 DEF CountersAgree, Locked, Holding
  <2> QED BY <2>3, <2>4
<1>7. ASSUME NEW h \in Handlers, Persist(h) PROVE QuotaInv'
  <2>1. /\ day \in Days /\ running /\ Holding(h)
        /\ daily = (IF day = file.day THEN file.bytes ELSE 0) + ByteCount(call[h])
    BY <1>7 DEF Persist, BaseInv, CallsInOrder, Holding, CountersAgree
  <2>2. admitted[day] + ByteCount(call[h]) <= daily
    BY <2>1 DEF FileCoversAdmitted, FileBehindLedger
  <2>3. /\ file'.day = day /\ file'.bytes = daily
        /\ UNCHANGED <<day, daily, running, call, admitted, today>>
        /\ pc'[h] = "renamed" /\ Holding(h)'
        /\ \A i \in Handlers : i # h => ~Holding(i)'
    BY <1>7, <2>1
    DEF Persist, ledgerVars, historyVars, BaseInv, Shape, MutualExclusion, Holding
  <2>4. FileBehindLedger' /\ DailyQuotaHolds'
    BY <2>1, <2>3 DEF FileBehindLedger, DailyQuotaHolds
  <2>5. FileCoversAdmitted'
    BY <2>1, <2>2, <2>3 DEF FileCoversAdmitted, FileBehindLedger
  <2>6. CountersAgree'
    BY <2>1, <2>2, <2>3 DEF CountersAgree, Locked, Holding, ByteCount
  <2> QED BY <2>4, <2>5, <2>6
<1>8. ASSUME NEW h \in Handlers, PersistFails(h) PROVE QuotaInv'
  <2>1. /\ running /\ Holding(h)
        /\ daily = (IF day = file.day THEN file.bytes ELSE 0) + ByteCount(call[h])
    BY <1>8 DEF PersistFails, BaseInv, CallsInOrder, Holding, CountersAgree
  <2>2. \A i \in Handlers : ~Holding(i)'
    BY <1>8 DEF PersistFails, BaseInv, Shape, MutualExclusion, Holding
  <2>3. FileBehindLedger' /\ FileCoversAdmitted' /\ DailyQuotaHolds'
    BY <1>8, <2>1 DEF PersistFails, FileBehindLedger, FileCoversAdmitted, DailyQuotaHolds
  <2>4. CountersAgree'
    <3>1. daily' = IF day = file.day THEN file.bytes ELSE 0
      BY <1>8, <2>1 DEF PersistFails
    <3>2. /\ UNCHANGED <<file, day, running, admitted>>
          /\ \A i \in Handlers : pc'[i] \notin {"charged", "renamed"}
      BY <1>8, <2>2 DEF PersistFails, Holding
    <3> QED BY <3>1, <3>2, LedgerAssumption DEF CountersAgree
  <2> QED BY <2>3, <2>4
<1>9. ASSUME NEW h \in Handlers, Admit(h) PROVE QuotaInv'
  <2>1. /\ Holding(h) /\ running /\ call[h].day = day /\ day \in Days
        /\ day = file.day /\ daily = file.bytes
        /\ admitted[day] + ByteCount(call[h]) <= file.bytes
    BY <1>9 DEF Admit, BaseInv, CallsInOrder, Holding, CountersAgree
  <2>2. /\ admitted' = [admitted EXCEPT ![day] = @ + ByteCount(call[h])]
        /\ UNCHANGED <<day, daily, running, call, file, today>>
        /\ \A i \in Handlers : ~Holding(i)'
    BY <1>9, <2>1
    DEF Admit, ledgerVars, BaseInv, Shape, MutualExclusion, Holding
  <2>3. /\ admitted'[day] = admitted[day] + ByteCount(call[h])
        /\ \A d \in Days : d # day => admitted'[d] = admitted[d]
    BY <2>1, <2>2 DEF BaseInv, Shape
  <2>4. FileBehindLedger' /\ CountersAgree'
    BY <2>1, <2>2 DEF FileBehindLedger, CountersAgree, Locked, Holding
  <2>5. FileCoversAdmitted' /\ DailyQuotaHolds'
    BY <2>1, <2>2, <2>3 DEF FileCoversAdmitted, DailyQuotaHolds, CountersAgree
  <2> QED BY <2>4, <2>5
<1>10. ASSUME NEW h \in Handlers, Release(h) PROVE QuotaInv'
  <2>1. running /\ ~Locked /\ \A i \in Handlers : ~Holding(i)'
    BY <1>10 DEF Release, BaseInv, Shape, CallsInOrder, Locked, Holding
  <2> QED
    BY <1>10, <2>1 DEF Release, FileBehindLedger, CountersAgree, FileCoversAdmitted,
                       DailyQuotaHolds, Locked, Holding
<1>11. CASE Crash
  BY <1>11, LedgerAssumption
  DEF Crash, FileBehindLedger, CountersAgree, FileCoversAdmitted, DailyQuotaHolds,
      Locked, Holding
<1>12. CASE Restart
  <2>1. ~running /\ \A h \in Handlers : pc[h] = "idle"
    BY <1>12 DEF Restart, BaseInv, CallsInOrder
  <2> QED
    BY <1>12, <2>1
    DEF Restart, historyVars, FileBehindLedger, CountersAgree, FileCoversAdmitted,
        DailyQuotaHolds, Locked, Holding, BaseInv, LedgerBehindClock
<1>13. CASE UNCHANGED vars
  BY <1>13 DEF vars, FileBehindLedger, CountersAgree, FileCoversAdmitted,
               DailyQuotaHolds, Locked, Holding, ByteCount
<1> QED
  BY <1>1, <1>2, <1>3, <1>5, <1>6, <1>7, <1>8, <1>9, <1>10, <1>11, <1>12, <1>13
  DEF Next, HandlerStep

LEMMA QuotaInvariant == Spec => []QuotaInv
<1>1. Init => QuotaInv
  BY QuotaInit
<1>2. BaseInv /\ BaseInv' /\ QuotaInv /\ [Next]_vars => QuotaInv'
  BY QuotaStep
<1> QED BY <1>1, <1>2, BaseTheorem, PTL DEF Spec

\* The bytes admitted in a day by all incarnations of the agent stay within the
\* daily quota, for any number of grants, handlers, days, crashes and failed writes.
THEOREM DailyQuotaTheorem == Spec => []DailyQuotaHolds
<1>1. QuotaInv => DailyQuotaHolds
  BY DEF QuotaInv
<1> QED BY <1>1, QuotaInvariant, PTL

\* Whatever has been admitted on the file's day is counted in the file.
THEOREM FileCoversTheorem == Spec => []FileCoversAdmitted
<1>1. QuotaInv => FileCoversAdmitted
  BY DEF QuotaInv
<1> QED BY <1>1, QuotaInvariant, PTL

\* With l.mu free, the count in memory is the count on disk.
THEOREM MemoryFileTheorem == Spec => []MemoryAgreesWithFile
<1>1. QuotaInv => MemoryAgreesWithFile
  BY DEF QuotaInv, CountersAgree, MemoryAgreesWithFile
<1> QED BY <1>1, QuotaInvariant, PTL

-----------------------------------------------------------------------------
(* Layer 2, continued: steps of the file, and the abstract specification *)

\* Only Persist writes the file, and it never writes less than is there.
LEMMA FileStep ==
  BaseInv /\ QuotaInv /\ [Next]_vars =>
      [/\ file'.day >= file.day
       /\ file'.day = file.day => file'.bytes >= file.bytes]_vars
<1> SUFFICES ASSUME BaseInv, QuotaInv, [Next]_vars
             PROVE  file'.day >= file.day
                    /\ (file'.day = file.day => file'.bytes >= file.bytes)
  OBVIOUS
<1>1. ASSUME NEW h \in Handlers, Persist(h)
      PROVE  file'.day >= file.day
             /\ (file'.day = file.day => file'.bytes >= file.bytes)
  BY <1>1, QuotaTypes
  DEF Persist, QuotaInv, FileBehindLedger, CountersAgree, BaseInv, CallsInOrder, Holding
<1>2. CASE UNCHANGED file
  BY <1>2, QuotaTypes
<1> QED
  BY <1>1, <1>2
  DEF Next, HandlerStep, Issue, Expire, Midnight, Authorize, Refuse, Charge,
      PersistFails, Admit, Release, Crash, Restart, vars

\* The file never counts fewer bytes of a day than before, nor goes back a day.
THEOREM FileTheorem == Spec => FileNeverForgets
  BY FileStep, BaseTheorem, QuotaInvariant, PTL DEF Spec, FileNeverForgets

LEMMA AbstractInit == Init => Abstract!Init
  BY DEF Init, Abstract!Init, Days, Abstract!Days

\* Admit is the abstract admission, Midnight is Midnight, the rest stutters.
LEMMA AbstractStep ==
  BaseInv /\ QuotaInv /\ QuotaInv' /\ [Next]_vars => [Abstract!Next]_(Abstract!vars)
<1> SUFFICES ASSUME BaseInv, QuotaInv, QuotaInv', [Next]_vars
             PROVE  [Abstract!Next]_(Abstract!vars)
  OBVIOUS
<1> USE DEF Abstract!vars
<1>1. ASSUME NEW h \in Handlers, Admit(h) PROVE Abstract!Next
  <2> DEFINE n == ByteCount(call[h])
  <2>1. /\ call[h].day = day /\ day \in Days /\ day <= today /\ n \in Nat
        /\ admitted[day] + n <= file.bytes /\ file.bytes <= Limit
    BY <1>1, QuotaTypes
    DEF Admit, BaseInv, CallsInOrder, LedgerBehindClock, Holding, QuotaInv, CountersAgree
  <2>2. admitted[day] + n <= Limit /\ n \in 0..Limit
    BY <2>1, QuotaTypes
  <2>3. Abstract!Admit(day, n)
    BY <1>1, <2>1, <2>2 DEF Admit, Abstract!Admit
  <2> QED BY <2>1, <2>2, <2>3 DEF Abstract!Next, Days, Abstract!Days
<1>2. CASE Midnight
  BY <1>2 DEF Midnight, historyVars, Abstract!Next, Abstract!Midnight
<1>3. CASE UNCHANGED <<today, admitted>>
  BY <1>3
<1> QED
  BY <1>1, <1>2, <1>3
  DEF Next, HandlerStep, Issue, Expire, Authorize, Refuse, Charge, Persist,
      PersistFails, Release, Crash, Restart, vars, historyVars

\* The ledger, with its crashes, restarts and failed writes, implements a quota
\* per day.
THEOREM Refinement == Spec => ImplementsDailyQuota
  BY AbstractInit, AbstractStep, BaseTheorem, QuotaInvariant, PTL
  DEF Spec, ImplementsDailyQuota, Abstract!Spec

-----------------------------------------------------------------------------
(* Layer 3: concurrency slots *)

\* l.active never counts more than is in flight; it counts exactly that for every
\* test that has had no request in flight at some moment since the last rollover;
\* and it never has more keys than slots.
SlotsInv ==
    /\ SlotsNeverLeak
    /\ \A k \in Keys \ straddled : active[k] = Cardinality(RequestsOf(k))
    /\ Cardinality(ActiveKeys(active)) <= MaxActive

LEMMA FiniteSets ==
  /\ IsFiniteSet(Keys)
  /\ \A k : IsFiniteSet(RequestsOf(k)) /\ Cardinality(RequestsOf(k)) \in Nat
  /\ \A a : IsFiniteSet(ActiveKeys(a)) /\ Cardinality(ActiveKeys(a)) \in Nat
<1>1. IsFiniteSet(Keys)
  BY LedgerAssumption, FS_Union DEF Keys
<1>2. \A k : RequestsOf(k) \subseteq Handlers
  BY DEF RequestsOf
<1>3. \A a : ActiveKeys(a) \subseteq Keys
  BY DEF ActiveKeys
<1> QED BY <1>1, <1>2, <1>3, LedgerAssumption, FS_Subset, FS_CardinalityType

\* The requests in flight change only when one is charged, undone or released.
LEMMA RequestsKept ==
  ASSUME \A h \in Handlers : /\ InFlight(h)' <=> InFlight(h)
                             /\ InFlight(h) => call'[h].grant = call[h].grant
  PROVE  \A k : RequestsOf(k)' = RequestsOf(k)
  BY DEF RequestsOf

LEMMA RequestsGrow ==
  ASSUME NEW h \in Handlers, ~InFlight(h), InFlight(h)',
         call'[h].grant = call[h].grant,
         \A i \in Handlers \ {h} : pc'[i] = pc[i] /\ call'[i] = call[i]
  PROVE  \A k : /\ RequestsOf(k)' = IF k = TestKey(call[h].grant)
                                    THEN RequestsOf(k) \cup {h} ELSE RequestsOf(k)
                /\ h \notin RequestsOf(k)
  BY DEF RequestsOf, InFlight

LEMMA RequestsShrink ==
  ASSUME NEW h \in Handlers, InFlight(h), ~InFlight(h)',
         \A i \in Handlers \ {h} : pc'[i] = pc[i] /\ call'[i] = call[i]
  PROVE  \A k : /\ RequestsOf(k)' = RequestsOf(k) \ {h}
                /\ h \in RequestsOf(k) <=> k = TestKey(call[h].grant)
  BY DEF RequestsOf, InFlight

LEMMA SlotsInit == Init => SlotsInv
<1> SUFFICES ASSUME Init PROVE SlotsInv
  OBVIOUS
<1>1. \A k \in Keys : active[k] = 0 /\ RequestsOf(k) = {}
  BY DEF Init, RequestsOf, InFlight
<1>2. ActiveKeys(active) = {}
  BY <1>1 DEF ActiveKeys
<1> QED
  BY <1>1, <1>2, FS_EmptySet, LedgerAssumption DEF SlotsInv, SlotsNeverLeak

\* A step that leaves active, straddled and the requests in flight alone.
LEMMA SlotsKept ==
  ASSUME BaseInv, SlotsInv, UNCHANGED <<active, straddled>>,
         \A k : RequestsOf(k)' = RequestsOf(k)
  PROVE  SlotsInv'
  BY DEF SlotsInv, SlotsNeverLeak, ActiveKeys

\* Taking l.mu keeps the invariant for the maps that reserve works on.
LEMMA SlotsNow ==
  ASSUME BaseInv, SlotsInv, NEW h \in Handlers, TakeLock(h)
  PROVE  /\ \A k \in Keys : ActiveNow[k] <= Cardinality(RequestsOf(k))
         /\ \A k \in Keys \ straddled' : ActiveNow[k] = Cardinality(RequestsOf(k))
         /\ Cardinality(ActiveKeys(ActiveNow)) <= MaxActive
<1>1. CASE Rolls
  <2>1. ActiveNow = [k \in Keys |-> 0]
    BY <1>1 DEF ActiveNow
  <2>2. ActiveKeys(ActiveNow) = {}
    BY <2>1 DEF ActiveKeys
  <2>3. \A k \in Keys \ straddled' : RequestsOf(k) = {}
    BY <1>1 DEF TakeLock, TestsInFlight
  <2> QED BY <2>1, <2>2, <2>3, FiniteSets, FS_EmptySet, LedgerAssumption
<1>2. CASE ~Rolls
  BY <1>2 DEF ActiveNow, TakeLock, SlotsInv, SlotsNeverLeak
<1> QED BY <1>1, <1>2

\* The decrement of a release or an undone charge.
LEMMA SlotsRelease ==
  ASSUME BaseInv, SlotsInv, NEW h \in Handlers, InFlight(h), ~InFlight(h)',
         call[h].grant \in Grants,
         \A i \in Handlers \ {h} : pc'[i] = pc[i] /\ call'[i] = call[i],
         active' = Decrement(active, TestKey(call[h].grant)),
         straddled' = StraddledWithout(h)
  PROVE  SlotsInv'
<1>0. PICK K \in Keys : K = TestKey(call[h].grant)
  BY KeysType
<1>1. active \in [Keys -> Nat] /\ active' = Decrement(active, K)
  BY <1>0 DEF BaseInv, Shape
<1>2. \A k \in Keys : active'[k] = IF k = K THEN (IF active[K] > 1 THEN active[K] - 1 ELSE 0)
                                   ELSE active[k]
  BY <1>1 DEF Decrement
<1>3. /\ Cardinality(RequestsOf(K)') = Cardinality(RequestsOf(K)) - 1
      /\ \A k \in Keys : k # K => RequestsOf(k)' = RequestsOf(k)
  <2>1. /\ RequestsOf(K)' = RequestsOf(K) \ {h} /\ h \in RequestsOf(K)
        /\ \A k \in Keys : k # K => RequestsOf(k)' = RequestsOf(k) \ {h}
                                   /\ h \notin RequestsOf(k)
    BY <1>0, RequestsShrink
  <2>2. Cardinality(RequestsOf(K) \ {h}) = Cardinality(RequestsOf(K)) - 1
    BY <2>1, FiniteSets, FS_RemoveElement
  <2> QED BY <2>1, <2>2
<1>4. Cardinality(RequestsOf(K)') \in Nat
  <2>1. RequestsOf(K)' = RequestsOf(K) \ {h}
    BY RequestsShrink
  <2> QED BY <2>1, FiniteSets, FS_RemoveElement, FS_CardinalityType
<1>5. SlotsNeverLeak'
  BY <1>1, <1>2, <1>3, <1>4, FiniteSets DEF SlotsInv, SlotsNeverLeak
<1>6. ASSUME NEW k \in Keys \ straddled'
      PROVE  active'[k] = Cardinality(RequestsOf(k)')
  <2>1. CASE k \notin straddled
    BY <2>1, <1>1, <1>2, <1>3, <1>4, FiniteSets DEF SlotsInv
  <2>2. CASE k \in straddled
    <3>1. RequestsOf(k)' = {}
      <4>1. RequestsOf(k) \ {h} = {}
        BY <2>2 DEF StraddledWithout
      <4> QED BY <4>1, RequestsShrink
    <3>2. active'[k] \in Nat
      BY <1>1, <1>2
    <3>3. active'[k] <= Cardinality(RequestsOf(k)')
      BY <1>5 DEF SlotsNeverLeak
    <3> QED BY <3>1, <3>2, <3>3, FS_EmptySet
  <2> QED BY <2>1, <2>2
<1>7. Cardinality(ActiveKeys(active')) <= MaxActive
  <2>1. ActiveKeys(active') \subseteq ActiveKeys(active)
    BY <1>1, <1>2 DEF ActiveKeys
  <2>2. Cardinality(ActiveKeys(active')) <= Cardinality(ActiveKeys(active))
    BY <2>1, FiniteSets, FS_Subset
  <2> QED BY <2>2, FiniteSets, LedgerAssumption DEF SlotsInv
<1> QED BY <1>5, <1>6, <1>7 DEF SlotsInv, ActiveKeys

LEMMA SlotsStep == BaseInv /\ SlotsInv /\ [Next]_vars => SlotsInv'
<1> SUFFICES ASSUME BaseInv, SlotsInv, [Next]_vars PROVE SlotsInv'
  OBVIOUS
<1>1. CASE UNCHANGED <<active, straddled, pc, call>>
  BY <1>1, SlotsKept DEF RequestsOf, InFlight
<1>2. ASSUME NEW h \in Handlers, NEW g \in Grants, NEW down \in 0..MaxDown,
             NEW up \in 0..MaxUp, Authorize(h, g, down, up)
      PROVE  SlotsInv'
  <2>1. \A i \in Handlers : /\ InFlight(i)' <=> InFlight(i)
                            /\ InFlight(i) => call'[i].grant = call[i].grant
    BY <1>2 DEF Authorize, BaseInv, Shape, InFlight
  <2> QED BY <1>2, <2>1, RequestsKept, SlotsKept DEF Authorize, ledgerVars, historyVars
<1>3. ASSUME NEW h \in Handlers, Refuse(h) PROVE SlotsInv'
  <2>1. \A i \in Handlers : /\ InFlight(i)' <=> InFlight(i)
                            /\ InFlight(i) => call'[i].grant = call[i].grant
    BY <1>3 DEF Refuse, TakeLock, BaseInv, Shape, InFlight
  <2>2. \A k : RequestsOf(k)' = RequestsOf(k)
    BY <2>1, RequestsKept
  <2>3. active' = ActiveNow /\ TakeLock(h)
    BY <1>3 DEF Refuse
  <2> QED BY <2>2, <2>3, SlotsNow DEF SlotsInv, SlotsNeverLeak, ActiveKeys
<1>4. ASSUME NEW h \in Handlers, Charge(h) PROVE SlotsInv'
  <2>0. PICK K \in Keys : K = TestKey(call[h].grant)
    BY <1>4, KeysType DEF Charge, TakeLock, BaseInv, CallsInOrder
  <2>1. TakeLock(h) /\ ~OverConcurrency(call[h].grant) /\ ~InFlight(h)
        /\ active' = [ActiveNow EXCEPT ![K] = @ + 1]
    BY <1>4, <2>0 DEF Charge, TakeLock, InFlight
  <2>2. ActiveNow \in [Keys -> Nat] /\ call[h] \in Calls
    BY <1>4, KeysType, NowShape DEF Charge, TakeLock, BaseInv, Shape, CallsInOrder
  <2>3. /\ InFlight(h)' /\ call'[h].grant = call[h].grant
        /\ \A i \in Handlers \ {h} : pc'[i] = pc[i] /\ call'[i] = call[i]
    BY <1>4, <2>2 DEF Charge, BaseInv, Shape, InFlight, Calls
  <2>4. /\ Cardinality(RequestsOf(K)') = Cardinality(RequestsOf(K)) + 1
        /\ \A k \in Keys : k # K => RequestsOf(k)' = RequestsOf(k)
    <3>1. /\ RequestsOf(K)' = RequestsOf(K) \cup {h} /\ h \notin RequestsOf(K)
          /\ \A k \in Keys : k # K => RequestsOf(k)' = RequestsOf(k)
      BY <2>0, <2>1, <2>3, RequestsGrow
    <3>2. Cardinality(RequestsOf(K) \cup {h}) = Cardinality(RequestsOf(K)) + 1
      BY <3>1, FiniteSets, FS_AddElement
    <3> QED BY <3>1, <3>2
  <2>5. /\ active'[K] = ActiveNow[K] + 1
        /\ \A k \in Keys : k # K => active'[k] = ActiveNow[k]
    BY <2>1, <2>2
  <2>6. Cardinality(ActiveKeys(active')) <= MaxActive
    <3>1. CASE ActiveNow[K] = 0
      <4>1. Cardinality(ActiveKeys(ActiveNow)) < MaxActive
        BY <2>0, <2>1, <3>1, FiniteSets, LedgerAssumption DEF OverConcurrency
      <4>2. ActiveKeys(active') = ActiveKeys(ActiveNow) \cup {K}
            /\ K \notin ActiveKeys(ActiveNow)
        BY <2>2, <2>5, <3>1 DEF ActiveKeys
      <4>3. Cardinality(ActiveKeys(active')) = Cardinality(ActiveKeys(ActiveNow)) + 1
        BY <4>2, FiniteSets, FS_AddElement
      <4> QED BY <4>1, <4>3, FiniteSets, LedgerAssumption
    <3>2. CASE ActiveNow[K] # 0
      <4>1. ActiveKeys(active') = ActiveKeys(ActiveNow)
        BY <2>2, <2>5, <3>2 DEF ActiveKeys
      <4> QED BY <4>1, <2>1, SlotsNow
    <3> QED BY <3>1, <3>2
  <2>7. SlotsNeverLeak'
    BY <2>1, <2>2, <2>4, <2>5, SlotsNow, FiniteSets DEF SlotsNeverLeak
  <2>8. \A k \in Keys \ straddled' : active'[k] = Cardinality(RequestsOf(k)')
    BY <2>1, <2>2, <2>4, <2>5, SlotsNow, FiniteSets
  <2> QED BY <2>6, <2>7, <2>8 DEF SlotsInv, ActiveKeys
<1>5. ASSUME NEW h \in Handlers, Persist(h) \/ Admit(h) PROVE SlotsInv'
  <2>1. \A i \in Handlers : /\ InFlight(i)' <=> InFlight(i)
                            /\ InFlight(i) => call'[i].grant = call[i].grant
    BY <1>5 DEF Persist, Admit, BaseInv, Shape, InFlight
  <2> QED
    BY <1>5, <2>1, RequestsKept, SlotsKept DEF Persist, Admit, ledgerVars, historyVars
<1>6. ASSUME NEW h \in Handlers, PersistFails(h) \/ Release(h) PROVE SlotsInv'
  <2>1. /\ InFlight(h) /\ ~InFlight(h)' /\ call[h].grant \in Grants
        /\ \A i \in Handlers \ {h} : pc'[i] = pc[i] /\ call'[i] = call[i]
    BY <1>6 DEF PersistFails, Release, BaseInv, Shape, CallsInOrder, InFlight
  <2> QED BY <1>6, <2>1, SlotsRelease DEF PersistFails, Release
<1>7. CASE Crash
  <2>1. \A k \in Keys : active'[k] = 0 /\ RequestsOf(k)' = {}
    BY <1>7 DEF Crash, RequestsOf, InFlight
  <2>2. ActiveKeys(active)' = {}
    BY <2>1 DEF ActiveKeys
  <2> QED BY <2>1, <2>2, FS_EmptySet, LedgerAssumption DEF SlotsInv, SlotsNeverLeak
<1> QED
  BY <1>1, <1>2, <1>3, <1>4, <1>5, <1>6, <1>7
  DEF Next, HandlerStep, Issue, Expire, Midnight, Restart, ledgerVars, historyVars, vars

LEMMA SlotsInvariant == Spec => []SlotsInv
  BY SlotsInit, SlotsStep, BaseTheorem, PTL DEF Spec

\* No slot of l.active is ever leaked, whatever fails and wherever the release
\* closures fall around midnight.
THEOREM SlotsTheorem == Spec => []SlotsNeverLeak
<1>1. SlotsInv => SlotsNeverLeak
  BY DEF SlotsInv
<1> QED BY <1>1, SlotsInvariant, PTL

\* The limit on concurrent tests holds of all tests in flight but those that have
\* been in flight without a gap since before a rollover of the ledger.
THEOREM ConcurrencyTheorem == Spec => []ConcurrencyWithinDay
<1>1. BaseInv /\ SlotsInv => ConcurrencyWithinDay
  <2> SUFFICES ASSUME BaseInv, SlotsInv
               PROVE  Cardinality(TestsInFlight \ straddled) <= MaxActive
    BY DEF ConcurrencyWithinDay
  <2>1. \A k \in Keys \ straddled : active[k] = 0 <=> RequestsOf(k) = {}
    BY FiniteSets, FS_EmptySet DEF SlotsInv
  <2>2. TestsInFlight \ straddled \subseteq ActiveKeys(active)
    BY <2>1 DEF TestsInFlight, ActiveKeys, BaseInv, Shape
  <2>3. /\ Cardinality(TestsInFlight \ straddled) <= Cardinality(ActiveKeys(active))
        /\ Cardinality(TestsInFlight \ straddled) \in Nat
    BY <2>2, FiniteSets, FS_Subset, FS_CardinalityType
  <2> QED BY <2>3, FiniteSets, LedgerAssumption DEF SlotsInv
<1> QED BY <1>1, SlotsInvariant, BaseTheorem, PTL

-----------------------------------------------------------------------------
(* Layer 4: streams of a grant *)

LEMMA StreamsFinite ==
  \A g : IsFiniteSet(StreamsOf(g)) /\ Cardinality(StreamsOf(g)) \in Nat
<1>1. \A g : StreamsOf(g) \subseteq Handlers
  BY DEF StreamsOf
<1> QED BY <1>1, LedgerAssumption, FS_Subset, FS_CardinalityType

LEMMA StreamsInit == Init => StreamsExact
<1> SUFFICES ASSUME Init PROVE StreamsExact
  OBVIOUS
<1>1. \A g \in Grants : byNonce[g].streams = 0 /\ StreamsOf(g) = {}
  BY DEF Init, Unused, StreamsOf, InFlight
<1> QED BY <1>1, FS_EmptySet, LedgerAssumption DEF StreamsExact

LEMMA StreamsKept ==
  ASSUME StreamsExact, UNCHANGED byNonce, \A g : StreamsOf(g)' = StreamsOf(g)
  PROVE  StreamsExact'
  BY DEF StreamsExact

\* A rollover leaves no request that the new usage map should count.
LEMMA StreamsNow ==
  ASSUME BaseInv, StreamsExact, NEW h \in Handlers, TakeLock(h), NEW g \in Grants
  PROVE  LET now == {i \in Handlers : InFlight(i) /\ call[i].grant = g
                                                  /\ call[i].day = today}
         IN  /\ UsageNow[g].streams = Cardinality(now)
             /\ UsageNow[g].streams <= MaxStreams
             /\ IsFiniteSet(now) /\ Cardinality(now) \in Nat
<1> DEFINE now == {i \in Handlers : InFlight(i) /\ call[i].grant = g
                                                /\ call[i].day = today}
<1>1. IsFiniteSet(now) /\ Cardinality(now) \in Nat
  BY LedgerAssumption, FS_Subset, FS_CardinalityType
<1>2. CASE Rolls
  <2>1. \A i \in Handlers : InFlight(i) => call[i].day # today
    BY <1>2, LedgerAssumption
    DEF Rolls, TakeLock, Locked, Holding, InFlight, BaseInv, Shape, CallsInOrder,
        LedgerBehindClock, Days, NoDay
  <2>2. now = {} /\ UsageNow[g].streams = 0
    BY <1>2, <2>1 DEF UsageNow, Unused
  <2> QED BY <1>1, <2>2, FS_EmptySet, LedgerAssumption
<1>3. CASE ~Rolls
  <2>1. now = StreamsOf(g) /\ UsageNow[g] = byNonce[g]
    BY <1>3 DEF Rolls, StreamsOf, UsageNow
  <2> QED BY <1>1, <2>1 DEF StreamsExact
<1> QED BY <1>2, <1>3

\* A request that ends is taken off the usage entry that counted it, if any.
LEMMA StreamsEnd ==
  ASSUME BaseInv, StreamsExact, NEW h \in Handlers, InFlight(h), ~InFlight(h)',
         \A i \in Handlers \ {h} : pc'[i] = pc[i] /\ call'[i] = call[i],
         UNCHANGED day,
         NEW g \in Grants,
         byNonce'[g].streams =
            IF call[h].grant = g /\ call[h].day = day
            THEN byNonce[g].streams - 1 ELSE byNonce[g].streams
  PROVE  /\ byNonce'[g].streams = Cardinality(StreamsOf(g)')
         /\ byNonce'[g].streams <= MaxStreams
<1>0. StreamsOf(g)' = StreamsOf(g) \ {h}
  BY DEF StreamsOf, InFlight
<1>1. CASE call[h].grant = g /\ call[h].day = day
  <2>1. h \in StreamsOf(g)
    BY <1>1 DEF StreamsOf
  <2>2. Cardinality(StreamsOf(g) \ {h}) = Cardinality(StreamsOf(g)) - 1
    BY <2>1, StreamsFinite, FS_RemoveElement
  <2> QED BY <1>0, <1>1, <2>2, StreamsFinite, LedgerAssumption DEF StreamsExact
<1>2. CASE ~(call[h].grant = g /\ call[h].day = day)
  <2>1. StreamsOf(g) \ {h} = StreamsOf(g)
    BY <1>2 DEF StreamsOf
  <2> QED BY <1>0, <1>2, <2>1 DEF StreamsExact
<1> QED BY <1>1, <1>2

LEMMA StreamsStep == BaseInv /\ StreamsExact /\ [Next]_vars => StreamsExact'
<1> SUFFICES ASSUME BaseInv, StreamsExact, [Next]_vars PROVE StreamsExact'
  OBVIOUS
<1>1. CASE UNCHANGED <<byNonce, day, pc, call>>
  BY <1>1, StreamsKept DEF StreamsOf, InFlight
<1>2. ASSUME NEW h \in Handlers, NEW g \in Grants, NEW down \in 0..MaxDown,
             NEW up \in 0..MaxUp, Authorize(h, g, down, up)
      PROVE  StreamsExact'
  <2>1. \A i : StreamsOf(i)' = StreamsOf(i)
    BY <1>2 DEF Authorize, ledgerVars, BaseInv, Shape, StreamsOf, InFlight
  <2> QED BY <1>2, <2>1, StreamsKept DEF Authorize, ledgerVars
<1>3. ASSUME NEW h \in Handlers, Refuse(h), NEW g \in Grants
      PROVE  /\ byNonce'[g].streams = Cardinality(StreamsOf(g)')
             /\ byNonce'[g].streams <= MaxStreams
  <2>1. StreamsOf(g)' = {i \in Handlers : InFlight(i) /\ call[i].grant = g
                                                      /\ call[i].day = today}
    BY <1>3 DEF Refuse, TakeLock, BaseInv, Shape, StreamsOf, InFlight
  <2> QED BY <1>3, <2>1, StreamsNow DEF Refuse
<1>4. ASSUME NEW h \in Handlers, Charge(h), NEW g \in Grants
      PROVE  /\ byNonce'[g].streams = Cardinality(StreamsOf(g)')
             /\ byNonce'[g].streams <= MaxStreams
  <2> DEFINE now == {i \in Handlers : InFlight(i) /\ call[i].grant = g
                                                  /\ call[i].day = today}
  <2>1. /\ call[h].grant \in Grants /\ call[h] \in Calls /\ ~InFlight(h)
        /\ TakeLock(h) /\ day' = today
    BY <1>4 DEF Charge, TakeLock, BaseInv, Shape, CallsInOrder, InFlight
  <2>2. /\ InFlight(h)' /\ call'[h].grant = call[h].grant /\ call'[h].day = today
        /\ \A i \in Handlers \ {h} : pc'[i] = pc[i] /\ call'[i] = call[i]
    BY <1>4, <2>1 DEF Charge, BaseInv, Shape, Calls, InFlight
  <2>3. StreamsOf(g)' = IF g = call[h].grant THEN now \cup {h} ELSE now
    BY <2>1, <2>2 DEF StreamsOf, InFlight
  <2>4. h \notin now
    BY <2>1
  <2>5. byNonce'[g].streams = IF g = call[h].grant THEN UsageNow[g].streams + 1
                              ELSE UsageNow[g].streams
    BY <1>4, <2>1, NowShape DEF Charge, BaseInv
  <2>6. g = call[h].grant => UsageNow[g].streams < MaxStreams
    BY <1>4, <2>1, NowShape, LedgerAssumption DEF Charge, OverQuota, BaseInv
  <2>7. /\ UsageNow[g].streams = Cardinality(now) /\ UsageNow[g].streams <= MaxStreams
        /\ IsFiniteSet(now) /\ Cardinality(now) \in Nat
    BY <2>1, StreamsNow
  <2>8. Cardinality(now \cup {h}) = Cardinality(now) + 1
    BY <2>4, <2>7, FS_AddElement
  <2> QED BY <2>3, <2>5, <2>6, <2>7, <2>8, LedgerAssumption
<1>5. ASSUME NEW h \in Handlers, Persist(h) \/ Admit(h) PROVE StreamsExact'
  <2>1. \A i : StreamsOf(i)' = StreamsOf(i)
    BY <1>5 DEF Persist, Admit, ledgerVars, BaseInv, Shape, StreamsOf, InFlight
  <2> QED BY <1>5, <2>1, StreamsKept DEF Persist, Admit, ledgerVars
<1>6. ASSUME NEW h \in Handlers, PersistFails(h) \/ Release(h), NEW g \in Grants
      PROVE  /\ byNonce'[g].streams = Cardinality(StreamsOf(g)')
             /\ byNonce'[g].streams <= MaxStreams
  <2>1. /\ InFlight(h) /\ ~InFlight(h)' /\ call[h].grant \in Grants
        /\ \A i \in Handlers \ {h} : pc'[i] = pc[i] /\ call'[i] = call[i]
        /\ UNCHANGED day
    BY <1>6 DEF PersistFails, Release, BaseInv, Shape, CallsInOrder, InFlight
  <2>2. byNonce'[g].streams = IF call[h].grant = g /\ call[h].day = day
                              THEN byNonce[g].streams - 1 ELSE byNonce[g].streams
    <3>1. CASE PersistFails(h)
      <4>1. call[h].day = day
        BY <3>1 DEF PersistFails, BaseInv, CallsInOrder, Holding
      <4>2. byNonce'[g] = IF call[h].grant = g THEN Refund(byNonce[g], call[h])
                          ELSE byNonce[g]
        <5>1. byNonce' = [byNonce EXCEPT ![call[h].grant] =
                             Refund(byNonce[call[h].grant], call[h])]
          BY <3>1 DEF PersistFails
        <5>2. byNonce \in [Grants -> [down : Int, up : Int, streams : Int]]
          BY DEF BaseInv, Shape
        <5> QED BY <5>1, <5>2
      <4>3. Refund(byNonce[g], call[h]).streams = byNonce[g].streams - 1
        BY DEF Refund
      <4> QED BY <4>1, <4>2, <4>3
    <3>2. CASE Release(h)
      BY <3>2, <2>1 DEF Release, BaseInv, Shape
    <3> QED BY <1>6, <3>1, <3>2
  <2> QED BY <2>1, <2>2, StreamsEnd
<1>7. ASSUME Crash, NEW g \in Grants
      PROVE  /\ byNonce'[g].streams = Cardinality(StreamsOf(g)')
             /\ byNonce'[g].streams <= MaxStreams
  <2>1. byNonce'[g].streams = 0
    BY <1>7 DEF Crash, Unused
  <2>2. StreamsOf(g)' = {}
    BY <1>7 DEF Crash, StreamsOf, InFlight
  <2>3. Cardinality(StreamsOf(g)') = 0
    BY <2>2, FS_EmptySet
  <2> QED BY <2>1, <2>3, LedgerAssumption
<1>8. CASE Restart
  <2>1. \A h \in Handlers : ~InFlight(h)
    BY <1>8 DEF Restart, BaseInv, CallsInOrder, InFlight
  <2>2. \A g : StreamsOf(g)' = StreamsOf(g)
    BY <1>8, <2>1 DEF Restart, StreamsOf, InFlight
  <2> QED BY <1>8, <2>2, StreamsKept DEF Restart
<1>9. ASSUME \A g \in Grants : /\ byNonce'[g].streams = Cardinality(StreamsOf(g)')
                               /\ byNonce'[g].streams <= MaxStreams
      PROVE  StreamsExact'
  BY <1>9 DEF StreamsExact
<1> QED
  BY <1>1, <1>2, <1>3, <1>4, <1>5, <1>6, <1>7, <1>8, <1>9
  DEF Next, HandlerStep, Issue, Expire, Midnight, ledgerVars, vars

\* The usage entry of a grant counts exactly its requests since the rollover.
THEOREM StreamsTheorem == Spec => []StreamsExact
  BY StreamsInit, StreamsStep, BaseTheorem, PTL DEF Spec

-----------------------------------------------------------------------------
(* Layer 5: byte caps of a grant *)

\* What the usage entry of a grant holds, besides ChargedIsAdmitted: no more than
\* the caps, and at least the reservation at hand, which may yet be refunded.
UsageWithinCaps ==
    \A g \in Grants :
        /\ byNonce[g].down \in 0..MaxDown /\ byNonce[g].up \in 0..MaxUp
        /\ \A h \in Pending(g) : /\ byNonce[g].down >= call[h].down
                                 /\ byNonce[g].up >= call[h].up

GrantInv == UsageWithinCaps /\ ChargedIsAdmitted

LEMMA GrantInit == Init => GrantInv
  BY LedgerAssumption
  DEF Init, GrantInv, UsageWithinCaps, ChargedIsAdmitted, Unused, NoBytes, Pending, Holding

\* Usage, history and the reservation at hand unchanged.
LEMMA GrantKept ==
  ASSUME GrantInv, UNCHANGED <<byNonce, moved, forgotten>>,
         \A h \in Handlers : /\ Holding(h)' <=> Holding(h)
                             /\ Holding(h) => call'[h] = call[h]
  PROVE  GrantInv'
<1>1. \A g : Pending(g)' = Pending(g)
  BY DEF Pending
<1>2. \A g : \A h \in Pending(g) : call'[h] = call[h]
  BY DEF Pending
<1> QED BY <1>1, <1>2 DEF GrantInv, UsageWithinCaps, ChargedIsAdmitted

\* With l.mu taken and no reservation at hand, the usage that reserve works on
\* is exactly what was admitted under the grants that are not forgotten.
LEMMA GrantNow ==
  ASSUME BaseInv, GrantInv, NEW h \in Handlers, TakeLock(h), NEW g \in Grants
  PROVE  /\ UsageNow[g].down \in 0..MaxDown /\ UsageNow[g].up \in 0..MaxUp
         /\ g \notin forgotten' => /\ UsageNow[g].down = moved[g].down
                                   /\ UsageNow[g].up = moved[g].up
<1>1. Pending(g) = {}
  BY DEF TakeLock, Locked, Pending
<1>2. CASE Rolls
  BY <1>2, LedgerAssumption DEF TakeLock, UsageNow, Unused, NoBytes
<1>3. CASE ~Rolls
  BY <1>1, <1>3 DEF TakeLock, UsageNow, GrantInv, UsageWithinCaps, ChargedIsAdmitted
<1> QED BY <1>2, <1>3

LEMMA GrantStep == BaseInv /\ BaseInv' /\ GrantInv /\ [Next]_vars => GrantInv'
<1> SUFFICES ASSUME BaseInv, BaseInv', GrantInv, [Next]_vars PROVE GrantInv'
  OBVIOUS
<1>1. CASE UNCHANGED <<byNonce, moved, forgotten, pc, call>>
  BY <1>1, GrantKept DEF Holding
<1>2. ASSUME NEW h \in Handlers, NEW g \in Grants, NEW down \in 0..MaxDown,
             NEW up \in 0..MaxUp, Authorize(h, g, down, up)
      PROVE  GrantInv'
  <2>1. \A i \in Handlers : /\ Holding(i)' <=> Holding(i)
                            /\ Holding(i) => call'[i] = call[i]
    BY <1>2 DEF Authorize, BaseInv, Shape, Holding
  <2> QED BY <1>2, <2>1, GrantKept DEF Authorize, ledgerVars, historyVars
<1>3. ASSUME NEW h \in Handlers, Refuse(h) PROVE GrantInv'
  <2>1. \A g : Pending(g)' = {}
    BY <1>3 DEF Refuse, TakeLock, Locked, BaseInv, Shape, Pending, Holding
  <2>2. TakeLock(h) /\ byNonce' = UsageNow /\ moved' = moved
    BY <1>3 DEF Refuse
  <2> QED BY <2>1, <2>2, GrantNow DEF GrantInv, UsageWithinCaps, ChargedIsAdmitted
<1>4. ASSUME NEW h \in Handlers, Charge(h) PROVE GrantInv'
  <2>1. PICK c \in Calls : c = call[h]
    BY DEF BaseInv, Shape
  <2>2. c.grant \in Grants /\ TakeLock(h) /\ moved' = moved
    BY <1>4, <2>1 DEF Charge, TakeLock, BaseInv, CallsInOrder
  <2>3. /\ call'[h].grant = c.grant /\ call'[h].down = c.down /\ call'[h].up = c.up
        /\ \A g : Pending(g)' = IF g = c.grant THEN {h} ELSE {}
    BY <1>4, <2>1
    DEF Charge, TakeLock, Locked, BaseInv, Shape, Calls, Pending, Holding
  <2>4. \A g \in Grants : g # c.grant => byNonce'[g] = UsageNow[g]
    BY <1>4, <2>1, NowShape DEF Charge, BaseInv
  <2>5. /\ byNonce'[c.grant].down = UsageNow[c.grant].down + c.down
        /\ byNonce'[c.grant].up = UsageNow[c.grant].up + c.up
        /\ byNonce'[c.grant].down <= MaxDown /\ byNonce'[c.grant].up <= MaxUp
    <3>1. byNonce'[c.grant] = [down |-> UsageNow[c.grant].down + c.down,
                               up |-> UsageNow[c.grant].up + c.up,
                               streams |-> UsageNow[c.grant].streams + 1]
      BY <1>4, <2>1, <2>2, NowShape DEF Charge, BaseInv
    <3>2. /\ UsageNow[c.grant].down + c.down <= MaxDown
          /\ UsageNow[c.grant].up + c.up <= MaxUp
      BY <1>4, <2>1, <2>2, GrantNow, LedgerAssumption DEF Charge, OverQuota, Calls
    <3> QED BY <3>1, <3>2
  <2>6. \A g \in Grants : /\ UsageNow[g].down \in 0..MaxDown /\ UsageNow[g].up \in 0..MaxUp
                          /\ g \notin forgotten' => /\ UsageNow[g].down = moved[g].down
                                                    /\ UsageNow[g].up = moved[g].up
    BY <2>2, GrantNow
  <2>7. c.down \in Nat /\ c.up \in Nat
    BY DEF Calls
  <2>8. UsageWithinCaps'
    BY <2>2, <2>3, <2>4, <2>5, <2>6, <2>7, LedgerAssumption DEF UsageWithinCaps
  <2>9. ChargedIsAdmitted'
    BY <2>2, <2>3, <2>4, <2>5, <2>6 DEF ChargedIsAdmitted
  <2> QED BY <2>8, <2>9 DEF GrantInv
<1>5. ASSUME NEW h \in Handlers, Persist(h) PROVE GrantInv'
  <2>1. \A i \in Handlers : /\ Holding(i)' <=> Holding(i)
                            /\ Holding(i) => call'[i] = call[i]
    BY <1>5 DEF Persist, BaseInv, Shape, Holding
  <2> QED BY <1>5, <2>1, GrantKept DEF Persist, ledgerVars, historyVars
<1>6. ASSUME NEW h \in Handlers, PersistFails(h) \/ Admit(h)
      PROVE  /\ h \in Pending(call[h].grant)
             /\ \A g : g # call[h].grant => Pending(g) = {}
             /\ \A g : Pending(g)' = {}
             /\ call[h].grant \in Grants /\ call[h].down \in Nat /\ call[h].up \in Nat
  <2>1. Holding(h) /\ call[h].grant \in Grants /\ call[h] \in Calls
    BY <1>6 DEF PersistFails, Admit, BaseInv, Shape, CallsInOrder, Holding
  <2>2. \A i \in Handlers : (Holding(i) => i = h) /\ ~Holding(i)'
    BY <1>6, <2>1
    DEF PersistFails, Admit, BaseInv, Shape, MutualExclusion, Holding
  <2> QED BY <2>1, <2>2 DEF Pending, Calls
<1>7. ASSUME NEW h \in Handlers, PersistFails(h) PROVE GrantInv'
  <2>1. PICK c : c = call[h]
    OBVIOUS
  <2>2. /\ byNonce'[c.grant].down = byNonce[c.grant].down - c.down
        /\ byNonce'[c.grant].up = byNonce[c.grant].up - c.up
    <3>1. byNonce'[c.grant] = Refund(byNonce[c.grant], c)
      BY <1>6, <1>7, <2>1 DEF PersistFails, BaseInv, Shape
    <3> QED BY <3>1 DEF Refund
  <2>3. \A g \in Grants : g # c.grant => byNonce'[g] = byNonce[g]
    BY <1>7, <2>1 DEF PersistFails, BaseInv, Shape
  <2>4. UNCHANGED <<moved, forgotten>>
    BY <1>7 DEF PersistFails
  <2>5. UsageWithinCaps'
    BY <1>6, <1>7, <2>1, <2>2, <2>3, LedgerAssumption DEF GrantInv, UsageWithinCaps
  <2>6. ChargedIsAdmitted'
    BY <1>6, <1>7, <2>1, <2>2, <2>3, <2>4
    DEF GrantInv, ChargedIsAdmitted, BaseInv, Shape
  <2> QED BY <2>5, <2>6 DEF GrantInv
<1>8. ASSUME NEW h \in Handlers, Admit(h) PROVE GrantInv'
  <2>1. PICK c : c = call[h]
    OBVIOUS
  <2>2. /\ moved'[c.grant].down = moved[c.grant].down + c.down
        /\ moved'[c.grant].up = moved[c.grant].up + c.up
    BY <1>6, <1>8, <2>1 DEF Admit, BaseInv, Shape
  <2>3. \A g \in Grants : g # c.grant => moved'[g] = moved[g]
    BY <1>8, <2>1 DEF Admit, BaseInv, Shape
  <2>4. UNCHANGED <<byNonce, forgotten>>
    BY <1>8 DEF Admit, ledgerVars
  <2>5. UsageWithinCaps'
    BY <1>6, <1>8, <2>4 DEF GrantInv, UsageWithinCaps
  <2>6. ChargedIsAdmitted'
    BY <1>6, <1>8, <2>1, <2>2, <2>3, <2>4 DEF GrantInv, ChargedIsAdmitted
  <2> QED BY <2>5, <2>6 DEF GrantInv
<1>9. ASSUME NEW h \in Handlers, Release(h) PROVE GrantInv'
  <2>1. \A g : Pending(g)' = {} /\ Pending(g) = {}
    BY <1>9 DEF Release, Locked, BaseInv, Shape, Pending, Holding
  <2>2. \A g \in Grants : byNonce'[g].down = byNonce[g].down /\ byNonce'[g].up = byNonce[g].up
    BY <1>9 DEF Release, BaseInv, Shape
  <2> QED
    BY <1>9, <2>1, <2>2 DEF Release, GrantInv, UsageWithinCaps, ChargedIsAdmitted
<1>10. CASE Crash
  <2>1. \A g : Pending(g)' = {}
    BY <1>10 DEF Crash, Pending, Holding
  <2> QED
    BY <1>10, <2>1, LedgerAssumption
    DEF Crash, GrantInv, UsageWithinCaps, ChargedIsAdmitted, Unused, NoBytes
<1> QED
  BY <1>1, <1>2, <1>3, <1>4, <1>5, <1>7, <1>8, <1>9, <1>10
  DEF Next, HandlerStep, Issue, Expire, Midnight, Restart, ledgerVars, historyVars, vars

LEMMA GrantInvariant == Spec => []GrantInv
  BY GrantInit, GrantStep, BaseTheorem, PTL DEF Spec

\* A reservation that failed costs its grant nothing.
THEOREM ChargedTheorem == Spec => []ChargedIsAdmitted
<1>1. GrantInv => ChargedIsAdmitted
  BY DEF GrantInv
<1> QED BY <1>1, GrantInvariant, PTL

\* The byte caps hold for every grant whose usage was never dropped.
THEOREM GrantCapsTheorem == Spec => []GrantCapsWhileKnown
<1>1. BaseInv /\ GrantInv => GrantCapsWhileKnown
  <2> SUFFICES ASSUME BaseInv, GrantInv, NEW g \in Grants \ forgotten
               PROVE  moved[g].down <= MaxDown /\ moved[g].up <= MaxUp
    BY DEF GrantCapsWhileKnown
  <2>1. /\ byNonce[g].down \in 0..MaxDown /\ byNonce[g].up \in 0..MaxUp
        /\ moved[g].down \in Nat /\ moved[g].up \in Nat
    BY DEF GrantInv, UsageWithinCaps, BaseInv, Shape
  <2>2. CASE Pending(g) = {}
    BY <2>1, <2>2 DEF GrantInv, ChargedIsAdmitted
  <2>3. ASSUME NEW h \in Pending(g)
        PROVE  moved[g].down <= MaxDown /\ moved[g].up <= MaxUp
    <3>1. call[h].down \in Nat /\ call[h].up \in Nat
      BY DEF Pending, BaseInv, Shape, Calls
    <3> QED BY <2>1, <3>1, LedgerAssumption DEF GrantInv, ChargedIsAdmitted
  <2> QED BY <2>2, <2>3
<1> QED BY <1>1, GrantInvariant, BaseTheorem, PTL

-----------------------------------------------------------------------------
\* Type correctness: with the layers above, no counter of the ledger or of the
\* file ever goes below zero.
THEOREM TypeTheorem == Spec => []TypeOK
<1>1. BaseInv /\ QuotaInv /\ StreamsExact /\ GrantInv => TypeOK
  <2> SUFFICES ASSUME BaseInv, QuotaInv, StreamsExact, GrantInv PROVE TypeOK
    OBVIOUS
  <2>1. daily \in Nat
    BY DEF QuotaInv, CountersAgree
  <2>2. file \in [day : Days \cup {NoDay}, bytes : Nat]
    BY DEF QuotaInv, CountersAgree, BaseInv, Shape
  <2>3. byNonce \in [Grants -> [down : Nat, up : Nat, streams : Nat]]
    <3>1. \A g \in Grants : byNonce[g].streams \in Nat
      BY StreamsFinite DEF StreamsExact
    <3>2. \A g \in Grants : byNonce[g].down \in Nat /\ byNonce[g].up \in Nat
      BY DEF GrantInv, UsageWithinCaps
    <3>3. \A g \in Grants : byNonce[g] \in [down : Nat, up : Nat, streams : Nat]
      BY <3>1, <3>2 DEF BaseInv, Shape
    <3> QED BY <3>3 DEF BaseInv, Shape
  <2> QED BY <2>1, <2>2, <2>3 DEF BaseInv, Shape, TypeOK
<1> QED
  BY <1>1, BaseTheorem, QuotaInvariant, StreamsTheorem, GrantInvariant, PTL
=============================================================================
