---------------------------- MODULE QuotaLedger ----------------------------
(***************************************************************************)
(* The quota ledger of an agent (internal/agent/agent.go): the state that  *)
(* reserve, its release closure, load and persistLocked share under l.mu,  *)
(* driven by the download and upload handlers, midnight, and the crash and *)
(* restart of the agent process.                                           *)
(*                                                                         *)
(* A handler goroutine h walks through pc[h]:                              *)
(*   idle -> authorized -> charged -> renamed -> serving -> idle           *)
(* It holds l.mu while charged or renamed, so those steps of two handlers  *)
(* never interleave, but a crash or midnight can fall between them.        *)
(***************************************************************************)
EXTENDS Integers, FiniteSets

CONSTANTS
    Grants,       \* signed grants, each with its own nonce
    NoGrant,      \* no grant: the call of an idle handler
    Tests,        \* diagnostic tests
    NoTest,       \* a grant whose TestID is empty
    TestOf,       \* the TestID claim of each grant
    Handlers,     \* handler goroutines of the agent's HTTP server
    MaxDown,      \* max_download_bytes of a grant
    MaxUp,        \* max_upload_bytes of a grant
    MaxStreams,   \* max_streams of a grant
    Limit,        \* daily_quota_bytes
    MaxActive,    \* max_concurrent_tests
    LastDay       \* bound: the UTC days are 1..LastDay

ASSUME LedgerAssumption ==
    /\ NoGrant \notin Grants
    /\ NoTest \notin Tests
    /\ TestOf \in [Grants -> Tests \cup {NoTest}]
    /\ IsFiniteSet(Grants) /\ IsFiniteSet(Tests) /\ IsFiniteSet(Handlers)
    /\ MaxDown \in Nat \ {0} /\ MaxUp \in Nat /\ MaxStreams \in Nat \ {0}
    /\ Limit \in Nat /\ MaxActive \in Nat \ {0} /\ LastDay \in Nat \ {0}

VARIABLES
    today,        \* the UTC day on the wall clock; it never goes back
    grant,        \* none, fresh, old (issued before midnight) or expired
    running,      \* whether the agent process is up
    day,          \* l.day, NoDay standing for the empty string
    daily,        \* l.daily
    byNonce,      \* l.byNonce: what each grant has used; an absent entry is Unused
    active,       \* l.active: requests per test; 0 is an absent entry
    file,         \* quota.json on disk; day NoDay when there is none
    pc,           \* where each handler is
    call,         \* the request each handler serves
    \* Variables only properties read.
    admitted,     \* bytes whose reservation succeeded, per day charged
    moved,        \* bytes whose reservation succeeded, per grant
    forgotten,    \* grants in use when the ledger dropped byNonce
    straddled     \* tests never without a request in flight since before a rollover

ledgerVars  == <<day, daily, byNonce, active>>
historyVars == <<admitted, moved, forgotten, straddled>>
vars == <<today, grant, running, day, daily, byNonce, active, file, pc, call,
          admitted, moved, forgotten, straddled>>

-----------------------------------------------------------------------------
Days  == 1..LastDay
NoDay == 0

\* The key of l.active: the grant's test, or its nonce when it names no test.
TestKey(g) == IF TestOf[g] = NoTest THEN g ELSE TestOf[g]
Keys == Tests \cup Grants

Unused   == [down |-> 0, up |-> 0, streams |-> 0]
NoBytes  == [down |-> 0, up |-> 0]
NoCall   == [grant |-> NoGrant, down |-> 0, up |-> 0, day |-> NoDay]

Holding(h)  == pc[h] \in {"charged", "renamed"}
InFlight(h) == pc[h] \in {"charged", "renamed", "serving"}
Locked      == \E h \in Handlers : Holding(h)

RequestsOf(k) == {h \in Handlers : InFlight(h) /\ TestKey(call[h].grant) = k}
TestsInFlight == {k \in Keys : RequestsOf(k) # {}}

\* The tests of straddled that are still in flight when h's request is not.
StraddledWithout(h) == {k \in straddled : RequestsOf(k) \ {h} # {}}

ByteCount(c) == c.down + c.up

ActiveKeys(a) == {k \in Keys : a[k] > 0}

\* Mutant: the last decrement forgets to delete the entry.
DecrementKeepsLast(a, k) == [a EXCEPT ![k] = IF @ > 1 THEN @ - 1 ELSE @]

\* delete(l.active, k) when the count drops to 0 or below, an absent key
\* counting as 0: the entry is never negative.
Decrement(a, k) == [a EXCEPT ![k] = IF @ > 1 THEN @ - 1 ELSE 0]

\* Mutant: the bytes of a failed reservation stay charged to the grant.
RefundStreamOnly(u, c) == [down |-> u.down, up |-> u.up, streams |-> u.streams - 1]

Refund(u, c) == [down |-> u.down - c.down, up |-> u.up - c.up,
                 streams |-> u.streams - 1]

\* The ledger that reserve works on: the first call of a new day finds it empty.
Rolls     == day # today
DailyNow  == IF Rolls THEN 0 ELSE daily
UsageNow  == IF Rolls THEN [g \in Grants |-> Unused] ELSE byNonce
ActiveNow == IF Rolls THEN [k \in Keys |-> 0] ELSE active

-----------------------------------------------------------------------------
Init ==
    /\ today = 1
    /\ grant = [g \in Grants |-> "none"]
    /\ running = TRUE
    /\ day = NoDay
    /\ daily = 0
    /\ byNonce = [g \in Grants |-> Unused]
    /\ active = [k \in Keys |-> 0]
    /\ file = [day |-> NoDay, bytes |-> 0]
    /\ pc = [h \in Handlers |-> "idle"]
    /\ call = [h \in Handlers |-> NoCall]
    /\ admitted = [d \in Days |-> 0]
    /\ moved = [g \in Grants |-> NoBytes]
    /\ forgotten = {}
    /\ straddled = {}

\* The server signs a grant for 60 seconds.
Issue(g) ==
    /\ grant[g] = "none"
    /\ grant' = [grant EXCEPT ![g] = "fresh"]
    /\ UNCHANGED <<today, running, ledgerVars, file, pc, call, historyVars>>

\* Its 60 seconds are over: grant.Verify refuses it from now on.
Expire(g) ==
    /\ grant[g] \in {"fresh", "old"}
    /\ grant' = [grant EXCEPT ![g] = "expired"]
    /\ UNCHANGED <<today, running, ledgerVars, file, pc, call, historyVars>>

\* The wall clock passes midnight UTC.  A grant lives through one midnight at most.
Midnight ==
    /\ today < LastDay
    /\ \A g \in Grants : grant[g] # "old"
    /\ today' = today + 1
    /\ grant' = [g \in Grants |-> IF grant[g] = "fresh" THEN "old" ELSE grant[g]]
    /\ UNCHANGED <<running, ledgerVars, file, pc, call, historyVars>>

\* download and upload: authorize accepts the grant and the byte count passes
\* the handler's own checks.  A refused request changes nothing.
Authorize(h, g, down, up) ==
    /\ running
    /\ pc[h] = "idle"
    /\ grant[g] \in {"fresh", "old"}
    /\ \/ down \in 1..MaxDown /\ up = 0
       \/ down = 0 /\ up \in 0..MaxUp
    /\ pc' = [pc EXCEPT ![h] = "authorized"]
    /\ call' = [call EXCEPT ![h] = [grant |-> g, down |-> down, up |-> up,
                                    day |-> NoDay]]
    /\ UNCHANGED <<today, grant, running, ledgerVars, file, historyVars>>

-----------------------------------------------------------------------------
\* The conditions under which reserve answers false before it charges anything.
\* Mutant: off by one at the limit.
OverConcurrencyByOne(g) ==
    /\ ActiveNow[TestKey(g)] = 0
    /\ Cardinality(ActiveKeys(ActiveNow)) > MaxActive

OverConcurrency(g) ==
    /\ ActiveNow[TestKey(g)] = 0
    /\ Cardinality(ActiveKeys(ActiveNow)) >= MaxActive

\* Mutant: the caps are compared with what was used before this request.
OverQuotaBefore(c) ==
    LET u == UsageNow[c.grant]
    IN  \/ u.streams >= MaxStreams
        \/ u.down > MaxDown \/ u.up > MaxUp
        \/ DailyNow + ByteCount(c) > Limit

OverQuota(c) ==
    LET u == UsageNow[c.grant]
    IN  \/ u.streams >= MaxStreams
        \/ u.down + c.down > MaxDown
        \/ u.up + c.up > MaxUp
        \/ DailyNow + ByteCount(c) > Limit

\* h takes l.mu and reserve brings the ledger to the present day.
TakeLock(h) ==
    /\ running
    /\ ~Locked
    /\ pc[h] = "authorized"
    /\ day' = today
    /\ forgotten' = IF Rolls THEN forgotten \cup {g \in Grants : moved[g] # NoBytes}
                             ELSE forgotten
    /\ straddled' = IF Rolls THEN TestsInFlight ELSE straddled

Refuse(h) ==
    /\ TakeLock(h)
    /\ OverConcurrency(call[h].grant) \/ OverQuota(call[h])
    /\ daily' = DailyNow
    /\ byNonce' = UsageNow
    /\ active' = ActiveNow
    /\ pc' = [pc EXCEPT ![h] = "idle"]
    /\ call' = [call EXCEPT ![h] = NoCall]
    /\ UNCHANGED <<today, grant, running, file, admitted, moved>>

\* reserve up to persistLocked: everything is charged in memory.
Charge(h) ==
    LET c == call[h]
    IN  /\ TakeLock(h)
        /\ ~OverConcurrency(c.grant) /\ ~OverQuota(c)
        /\ daily' = DailyNow + ByteCount(c)
        /\ byNonce' = [UsageNow EXCEPT ![c.grant] =
                          [down |-> @.down + c.down, up |-> @.up + c.up,
                           streams |-> @.streams + 1]]
        /\ active' = [ActiveNow EXCEPT ![TestKey(c.grant)] = @ + 1]
        /\ pc' = [pc EXCEPT ![h] = "charged"]
        /\ call' = [call EXCEPT ![h].day = today]
        /\ UNCHANGED <<today, grant, running, file, admitted, moved>>

\* persistLocked: quota.json.tmp is written and renamed over quota.json.
Persist(h) ==
    /\ pc[h] = "charged"
    /\ file' = [day |-> day, bytes |-> daily]
    /\ pc' = [pc EXCEPT ![h] = "renamed"]
    /\ UNCHANGED <<today, grant, running, ledgerVars, call, historyVars>>

\* The write or the rename fails: quota.json is the old one, and reserve undoes
\* its charge and answers false.
PersistFails(h) ==
    LET c == call[h]
    IN  /\ pc[h] = "charged"
        /\ daily' = daily - ByteCount(c)
        /\ byNonce' = [byNonce EXCEPT ![c.grant] = Refund(@, c)]
        /\ active' = Decrement(active, TestKey(c.grant))
        /\ pc' = [pc EXCEPT ![h] = "idle"]
        /\ call' = [call EXCEPT ![h] = NoCall]
        /\ straddled' = StraddledWithout(h)
        /\ UNCHANGED <<today, grant, running, day, file, admitted, moved, forgotten>>

\* reserve returns true and gives up l.mu; the handler starts moving bytes.
Admit(h) ==
    LET c == call[h]
    IN  /\ pc[h] = "renamed"
        /\ pc' = [pc EXCEPT ![h] = "serving"]
        /\ admitted' = [admitted EXCEPT ![c.day] = @ + ByteCount(c)]
        /\ moved' = [moved EXCEPT ![c.grant] = [down |-> @.down + c.down,
                                                up |-> @.up + c.up]]
        /\ UNCHANGED <<today, grant, running, ledgerVars, file, call, forgotten,
                       straddled>>

\* Mutant: the closure looks its usage entry up by nonce when it runs.
ReleaseByNonce(h) ==
    LET c == call[h]
    IN  /\ pc[h] = "serving"
        /\ ~Locked
        /\ byNonce' = [byNonce EXCEPT ![c.grant].streams = @ - 1]
        /\ active' = Decrement(active, TestKey(c.grant))
        /\ pc' = [pc EXCEPT ![h] = "idle"]
        /\ call' = [call EXCEPT ![h] = NoCall]
        /\ straddled' = StraddledWithout(h)
        /\ UNCHANGED <<today, grant, running, day, daily, file, admitted, moved,
                       forgotten>>

\* The body is done or broken off and the deferred closure runs.  It decrements
\* the usage entry it captured, which is the ledger's own only if no rollover
\* replaced byNonce since, but whatever map l.active is now.
Release(h) ==
    LET c == call[h]
    IN  /\ pc[h] = "serving"
        /\ ~Locked
        /\ byNonce' = IF c.day = day
                      THEN [byNonce EXCEPT ![c.grant].streams = @ - 1]
                      ELSE byNonce
        /\ active' = Decrement(active, TestKey(c.grant))
        /\ pc' = [pc EXCEPT ![h] = "idle"]
        /\ call' = [call EXCEPT ![h] = NoCall]
        /\ straddled' = StraddledWithout(h)
        /\ UNCHANGED <<today, grant, running, day, daily, file, admitted, moved,
                       forgotten>>

-----------------------------------------------------------------------------
\* The process is killed or stops; Run does not wait for requests in flight.
Crash ==
    /\ running
    /\ running' = FALSE
    /\ day' = NoDay
    /\ daily' = 0
    /\ byNonce' = [g \in Grants |-> Unused]
    /\ active' = [k \in Keys |-> 0]
    /\ pc' = [h \in Handlers |-> "idle"]
    /\ call' = [h \in Handlers |-> NoCall]
    /\ forgotten' = forgotten \cup {g \in Grants : moved[g] # NoBytes}
    /\ straddled' = {}
    /\ UNCHANGED <<today, grant, file, admitted, moved>>

\* Mutant: a restart starts counting from zero.
RestartFromZero ==
    /\ ~running
    /\ running' = TRUE
    /\ UNCHANGED <<today, grant, ledgerVars, file, pc, call, historyVars>>

\* New and load: the counter on disk counts only if it is today's.
Restart ==
    /\ ~running
    /\ running' = TRUE
    /\ IF file.day = today
       THEN day' = file.day /\ daily' = file.bytes
       ELSE UNCHANGED <<day, daily>>
    /\ UNCHANGED <<today, grant, byNonce, active, file, pc, call, historyVars>>

HandlerStep(h) ==
    \/ \E g \in Grants, down \in 0..MaxDown, up \in 0..MaxUp :
            Authorize(h, g, down, up)
    \/ Refuse(h)
    \/ Charge(h)
    \/ Persist(h)
    \/ PersistFails(h)
    \/ Admit(h)
    \/ Release(h)

Next ==
    \/ \E g \in Grants : Issue(g) \/ Expire(g)
    \/ Midnight
    \/ \E h \in Handlers : HandlerStep(h)
    \/ Crash
    \/ Restart

Spec == Init /\ [][Next]_vars

\* sync.Mutex starves nobody, so a handler that waits for it gets it (SF); file
\* writes return; systemd restarts the agent; the clock runs on; and a client
\* either takes its bytes or its connection breaks.
Fairness ==
    /\ \A g \in Grants : WF_vars(Expire(g))
    /\ WF_vars(Restart)
    /\ \A h \in Handlers :
          /\ SF_vars(Refuse(h) \/ Charge(h))
          /\ WF_vars(Persist(h) \/ PersistFails(h))
          /\ WF_vars(Admit(h))
          /\ SF_vars(Release(h))

FairSpec == Spec /\ Fairness

-----------------------------------------------------------------------------
(* Properties *)

Calls == [grant : Grants \cup {NoGrant}, down : Nat, up : Nat, day : Nat]

\* Every variable has its type; the ledger's counters are never negative.
TypeOK ==
    /\ today \in Days
    /\ grant \in [Grants -> {"none", "fresh", "old", "expired"}]
    /\ running \in BOOLEAN
    /\ day \in Days \cup {NoDay}
    /\ daily \in Nat
    /\ byNonce \in [Grants -> [down : Nat, up : Nat, streams : Nat]]
    /\ active \in [Keys -> Nat]
    /\ file \in [day : Days \cup {NoDay}, bytes : Nat]
    /\ pc \in [Handlers -> {"idle", "authorized", "charged", "renamed", "serving"}]
    /\ call \in [Handlers -> Calls]
    /\ admitted \in [Days -> Nat]
    /\ moved \in [Grants -> [down : Nat, up : Nat]]
    /\ forgotten \subseteq Grants
    /\ straddled \subseteq Keys

\* The daily quota holds over a day as a whole: the bytes admitted by all the
\* incarnations of the agent on one day, crashes between any two steps of
\* reserve included, never exceed daily_quota_bytes.
DailyQuotaHolds == \A d \in Days : admitted[d] <= Limit

\* No byte is served before the file accounts for it: whatever was admitted on
\* the day the file is about is counted there, and nothing was admitted on a
\* later day.  This is what a restart relies on.
FileCoversAdmitted ==
    \A d \in Days : /\ d = file.day => admitted[d] <= file.bytes
                    /\ d > file.day => admitted[d] = 0

\* The mutex free, memory and disk agree: a failed write was undone entirely,
\* and a restart found the day's count.
MemoryAgreesWithFile ==
    running /\ ~Locked =>
        IF day = file.day THEN daily = file.bytes ELSE daily = 0

\* Quota persistence within a day is monotone: no crash, failed write, restart
\* or midnight ever makes quota.json count fewer bytes of a day, or go back a day.
FileNeverForgets ==
    [][/\ file'.day >= file.day
       /\ file'.day = file.day => file'.bytes >= file.bytes]_vars

StreamsOf(g) == {h \in Handlers : InFlight(h) /\ call[h].grant = g
                                              /\ call[h].day = day}

\* A slot is never leaked: l.active counts no more requests of a test than are
\* in flight, whatever failed, however the release closures fall around
\* midnight; so an idle agent has all its slots back.
SlotsNeverLeak == \A k \in Keys : active[k] <= Cardinality(RequestsOf(k))

\* max_concurrent_tests holds of the tests that started after the last rollover,
\* whatever else is in flight.  A test that has always had a request in flight
\* since before a rollover is exempt: the rollover forgot it, and the release of
\* its old request deletes the entry of the requests it made since.
ConcurrencyWithinDay == Cardinality(TestsInFlight \ straddled) <= MaxActive

\* The usage entry of a grant counts exactly its requests admitted since the
\* last rollover, stale release closures notwithstanding, so those are never
\* more than max_streams.
StreamsExact ==
    \A g \in Grants : /\ byNonce[g].streams = Cardinality(StreamsOf(g))
                      /\ byNonce[g].streams <= MaxStreams

\* The byte caps of a grant hold as long as the ledger has not dropped the
\* grant's usage, at midnight or in a crash, after it was first used.
GrantCapsWhileKnown ==
    \A g \in Grants \ forgotten : moved[g].down <= MaxDown /\ moved[g].up <= MaxUp

\* A reservation that failed costs the grant nothing: what is charged to a grant
\* the ledger remembers is what was admitted under it, plus the reservation at
\* hand.
Pending(g) == {h \in Handlers : Holding(h) /\ call[h].grant = g}
ChargedIsAdmitted ==
    \A g \in Grants \ forgotten :
        /\ Pending(g) = {} => /\ byNonce[g].down = moved[g].down
                              /\ byNonce[g].up = moved[g].up
        /\ \A h \in Pending(g) : /\ byNonce[g].down = moved[g].down + call[h].down
                                 /\ byNonce[g].up = moved[g].up + call[h].up

\* Once every grant has expired the agent gets all its slots back, even with
\* release closures from before midnight among those still to run.
SlotsComeBack ==
    (\A g \in Grants : grant[g] = "expired") ~> (\A k \in Keys : active[k] = 0)

\* The ledger implements the promise of a quota per day.
Abstract == INSTANCE DailyQuota WITH today <- today, admitted <- admitted,
                                     Limit <- Limit, LastDay <- LastDay
ImplementsDailyQuota == Abstract!Spec
=============================================================================
