---------------------------- MODULE SessionStore ----------------------------
(***************************************************************************)
(* Access sessions, diagnostic tests and their results in the server's     *)
(* database (internal/server/server.go, internal/store/store.go).          *)
(*                                                                         *)
(* The pool has one connection, so a statement, or a transaction, is one   *)
(* step; the handler of a request takes several, and the requests          *)
(* interleave between them.  Refusals that change nothing are left out     *)
(* where the handler has done nothing before.                              *)
(***************************************************************************)
EXTENDS Integers, FiniteSets

CONSTANTS
    Sessions, Invites, Tests,   \* random ids, each used once
    Requests,     \* requests handled at the same time
    None,         \* no session, invite or test
    MaxTests,     \* tests of a session per Window: 5 in the code
    Cooldown,     \* between two tests of a session: 30 s
    Window,       \* 10 min
    Lifetime,     \* of a session, and of an invite: 30 min
    Retention,    \* of a test: 30 days
    LastTick      \* bound on the clock

ASSUME StoreAssumption ==
    /\ IsFiniteSet(Requests) /\ IsFiniteSet(Tests)
    /\ None \notin Sessions \cup Invites \cup Tests
    /\ MaxTests \in Nat \ {0} /\ Cooldown \in Nat /\ Window \in Nat /\ LastTick \in Nat
    /\ Lifetime \in Nat /\ Retention \in Nat /\ Lifetime <= Retention

VARIABLES
    now,          \* Unix time
    session,      \* access_sessions; invite is the one that opened it
    invite,       \* invites
    test,         \* tests
    results,      \* tests that test_node_results refers to
    hops,         \* tests that route_hops refers to
    req,          \* the request each handler serves, and how far it has come
    loggedOut     \* sessions whose logout was answered with 204

vars == <<now, session, invite, test, results, hops, req, loggedOut>>

-----------------------------------------------------------------------------
Request(pc, s, i, t) == [pc |-> pc, session |-> s, invite |-> i, test |-> t]
NoRequest == Request("idle", None, None, None)

Rows(table) == {i \in DOMAIN table : table[i].row}

\* getAccess: the cookie's session is there and has not expired.
Valid(s) == session[s].row /\ session[s].expires >= now

TestsOf(s)   == {t \in Rows(test) : test[t].session = s}
InWindow(s)  == {t \in TestsOf(s) : test[t].created > now - Window}
Recent(s)    == {t \in TestsOf(s) : test[t].created > now - Cooldown}

Goto(r, pc) == req' = [req EXCEPT ![r].pc = pc]
Done(r)     == req' = [req EXCEPT ![r] = NoRequest]

Init ==
    /\ now = 0
    /\ session = [s \in Sessions |-> [used |-> FALSE, row |-> FALSE, expires |-> 0,
                                      invite |-> None]]
    /\ invite = [i \in Invites |-> [row |-> FALSE, used |-> FALSE, expires |-> 0]]
    /\ test = [t \in Tests |-> [used |-> FALSE, row |-> FALSE, session |-> None,
                                created |-> 0]]
    /\ results = {}
    /\ hops = {}
    /\ req = [r \in Requests |-> NoRequest]
    /\ loggedOut = {}

Tick ==
    /\ now < LastTick
    /\ now' = now + 1
    /\ UNCHANGED <<session, invite, test, results, hops, req, loggedOut>>

-----------------------------------------------------------------------------
(* Signing in *)

\* newAccess inserts a session under a new id.
NewAccess(s, i) ==
    /\ ~session[s].used
    /\ session' = [session EXCEPT ![s] = [used |-> TRUE, row |-> TRUE,
                                          expires |-> now + Lifetime, invite |-> i]]

\* accessCode, once the code is right: see AccessCode for when it is.
SignInByCode(s) ==
    /\ NewAccess(s, None)
    /\ UNCHANGED <<now, invite, test, results, hops, req, loggedOut>>

CreateInvite(i) ==
    /\ ~invite[i].row
    /\ invite' = [invite EXCEPT ![i] = [row |-> TRUE, used |-> FALSE,
                                        expires |-> now + Lifetime]]
    /\ UNCHANGED <<now, session, test, results, hops, req, loggedOut>>

\* Mutant: the UPDATE does not ask whether the invite has been used.
ConsumeAgain(i) == invite[i].row /\ invite[i].expires >= now

\* ConsumeOneTime: the guard and the mark are one UPDATE.
Consumable(i) == invite[i].row /\ ~invite[i].used /\ invite[i].expires >= now

ConsumeInvite(r, i) ==
    /\ req[r].pc = "idle"
    /\ Consumable(i)
    /\ invite' = [invite EXCEPT ![i].used = TRUE]
    /\ req' = [req EXCEPT ![r] = Request("opening", None, i, None)]
    /\ UNCHANGED <<now, session, test, results, hops, loggedOut>>

OpenSession(r, s) ==
    /\ req[r].pc = "opening"
    /\ NewAccess(s, req[r].invite)
    /\ Done(r)
    /\ UNCHANGED <<now, invite, test, results, hops, loggedOut>>

\* The INSERT fails (the client is gone and its context cancelled, the disk is
\* full): 500, and the invite stays used.
OpenFails(r) ==
    /\ req[r].pc = "opening"
    /\ Done(r)
    /\ UNCHANGED <<now, session, invite, test, results, hops, loggedOut>>

-----------------------------------------------------------------------------
(* createTest, statement by statement *)

BeginCreate(r, s) ==
    /\ req[r].pc = "idle"
    /\ Valid(s)
    /\ req' = [req EXCEPT ![r] = Request("counting", s, None, None)]
    /\ UNCHANGED <<now, session, invite, test, results, hops, loggedOut>>

\* Mutant: off by one at the limit.
OverRateByOne(s) == Cardinality(InWindow(s)) > MaxTests

OverRate(s) == Cardinality(InWindow(s)) >= MaxTests

CountTests(r) ==
    /\ req[r].pc = "counting"
    /\ IF OverRate(req[r].session) THEN Done(r) ELSE Goto(r, "cooling")
    /\ UNCHANGED <<now, session, invite, test, results, hops, loggedOut>>

\* Mutant: the comparison is the wrong way round.
CoolingReversed(s) == TestsOf(s) # {} /\ Recent(s) = {}

Cooling(s) == Recent(s) # {}

CheckCooldown(r) ==
    /\ req[r].pc = "cooling"
    /\ IF Cooling(req[r].session) THEN Done(r) ELSE Goto(r, "inserting")
    /\ UNCHANGED <<now, session, invite, test, results, hops, loggedOut>>

\* Mutant: foreign keys are not enforced, as without the pragma of Open.
InsertTestUnchecked(r, t) ==
    /\ req[r].pc = "inserting"
    /\ ~test[t].used
    /\ test' = [test EXCEPT ![t] = [used |-> TRUE, row |-> TRUE,
                                    session |-> req[r].session, created |-> now]]
    /\ Done(r)
    /\ UNCHANGED <<now, session, invite, results, hops, loggedOut>>

\* The foreign key of the INSERT holds if the session is still there, expired or not.
InsertTest(r, t) ==
    /\ req[r].pc = "inserting"
    /\ ~test[t].used
    /\ IF session[req[r].session].row
       THEN test' = [test EXCEPT ![t] = [used |-> TRUE, row |-> TRUE,
                                         session |-> req[r].session, created |-> now]]
       ELSE UNCHANGED test
    /\ Done(r)
    /\ UNCHANGED <<now, session, invite, results, hops, loggedOut>>

-----------------------------------------------------------------------------
(* probes and results: testOwned, then the INSERT *)

BeginStore(r, s, t) ==
    /\ req[r].pc = "idle"
    /\ Valid(s)
    /\ req' = [req EXCEPT ![r] = Request("owning", s, None, t)]
    /\ UNCHANGED <<now, session, invite, test, results, hops, loggedOut>>

CheckOwner(r) ==
    /\ req[r].pc = "owning"
    /\ IF req[r].test \in TestsOf(req[r].session) THEN Goto(r, "storing") ELSE Done(r)
    /\ UNCHANGED <<now, session, invite, test, results, hops, loggedOut>>

\* INSERT ... ON CONFLICT DO UPDATE: one row per test and node.
StoreResult(r) ==
    /\ req[r].pc = "storing"
    /\ results' = results \cup ({req[r].test} \cap Rows(test))
    /\ Done(r)
    /\ UNCHANGED <<now, session, invite, test, hops, loggedOut>>

\* A route result of an agent, whoever owns the test and however long ago it was
\* asked for: the node's hops are deleted, and those of the result, which may have
\* none, inserted.  The inserts fail if the test has gone.
StoreHops(t) ==
    /\ hops' \in {hops \ {t}, hops \cup ({t} \cap Rows(test))}
    /\ UNCHANGED <<now, session, invite, test, results, req, loggedOut>>

-----------------------------------------------------------------------------
(* Ending a session *)

BeginLogout(r, s) ==
    /\ req[r].pc = "idle"
    /\ Valid(s)
    /\ req' = [req EXCEPT ![r] = Request("leaving", s, None, None)]
    /\ UNCHANGED <<now, session, invite, test, results, hops, loggedOut>>

\* DELETE FROM access_sessions: the foreign key of tests makes it fail.
Delete(ended) == session' = [s \in Sessions |->
                    IF s \in ended THEN [session[s] EXCEPT !.row = FALSE] ELSE session[s]]

\* accessLogout does not look at the error of its DELETE.
Logout(r) ==
    LET s == req[r].session
    IN  /\ req[r].pc = "leaving"
        /\ IF TestsOf(s) = {} THEN Delete({s}) ELSE UNCHANGED session
        /\ loggedOut' = loggedOut \cup {s}
        /\ Done(r)
        /\ UNCHANGED <<now, invite, test, results, hops>>

\* revokeSession answers 500 when the DELETE fails.
Revoke(s) ==
    /\ session[s].row
    /\ TestsOf(s) = {}
    /\ Delete({s})
    /\ UNCHANGED <<now, invite, test, results, hops, req, loggedOut>>

\* Store.Cleanup: one transaction, rolled back as soon as a DELETE fails.
Expired  == {s \in Rows(session) : session[s].expires < now}
OldTests == {t \in Rows(test) : test[t].created < now - Retention}

Cleanup ==
    /\ \A s \in Expired : TestsOf(s) = {}
    /\ OldTests \cap (results \cup hops) = {}
    /\ Delete(Expired)
    /\ test' = [t \in Tests |->
                  IF t \in OldTests THEN [test[t] EXCEPT !.row = FALSE] ELSE test[t]]
    /\ UNCHANGED <<now, invite, results, hops, req, loggedOut>>

-----------------------------------------------------------------------------
RequestStep(r) ==
    \/ \E i \in Invites : ConsumeInvite(r, i)
    \/ \E s \in Sessions : OpenSession(r, s) \/ BeginCreate(r, s) \/ BeginLogout(r, s)
    \/ OpenFails(r)
    \/ CountTests(r) \/ CheckCooldown(r)
    \/ \E t \in Tests : InsertTest(r, t)
    \/ \E s \in Sessions, t \in Tests : BeginStore(r, s, t)
    \/ CheckOwner(r) \/ StoreResult(r)
    \/ Logout(r)

Next ==
    \/ Tick
    \/ \E s \in Sessions : SignInByCode(s) \/ Revoke(s)
    \/ \E i \in Invites : CreateInvite(i)
    \/ \E r \in Requests : RequestStep(r)
    \/ \E t \in Tests : StoreHops(t)
    \/ Cleanup

Spec == Init /\ [][Next]_vars

-----------------------------------------------------------------------------
(* Properties *)

\* Every variable has its type, and a request carries what its step needs.
TypeOK ==
    /\ now \in 0..LastTick
    /\ session \in [Sessions -> [used : BOOLEAN, row : BOOLEAN, expires : Nat,
                                 invite : Invites \cup {None}]]
    /\ invite \in [Invites -> [row : BOOLEAN, used : BOOLEAN, expires : Nat]]
    /\ test \in [Tests -> [used : BOOLEAN, row : BOOLEAN,
                           session : Sessions \cup {None}, created : 0..LastTick]]
    /\ results \subseteq Tests /\ hops \subseteq Tests
    /\ req \in [Requests -> [pc : {"idle", "opening", "counting", "cooling", "inserting",
                                   "owning", "storing", "leaving"},
                             session : Sessions \cup {None},
                             invite : Invites \cup {None}, test : Tests \cup {None}]]
    /\ \A r \in Requests :
          /\ req[r].pc \in {"counting", "cooling", "inserting", "owning", "storing",
                            "leaving"} => req[r].session # None
          /\ req[r].pc \in {"owning", "storing"} => req[r].test # None
          /\ req[r].pc = "opening" <=> req[r].invite # None
    /\ \A t \in Rows(test) : test[t].session # None
    /\ loggedOut \subseteq Sessions

\* An invite opens at most one session, however many requests present it at once
\* and whichever of them fail.
Opened(i)  == {s \in Sessions : session[s].invite = i}
Opening(i) == {r \in Requests : req[r].invite = i}
InviteOpensOnce == \A i \in Invites :
    /\ \A s1, s2 \in Opened(i) : s1 = s2
    /\ \A r1, r2 \in Opening(i) : r1 = r2
    /\ Opened(i) = {} \/ Opening(i) = {}

\* An invite is a secret that is good once: it is open until it is consumed or expires,
\* taken while a request opens a session with it, and exchanged for that session or
\* lost, for good, although requests that present it overlap and fail at any statement.
InviteFate(i) ==
    IF ~invite[i].row THEN "unissued"
    ELSE IF Opening(i) # {} THEN "taken"
    ELSE IF Opened(i) # {} THEN "exchanged"
    ELSE IF invite[i].used \/ invite[i].expires < now THEN "lost" ELSE "open"

InviteSession(i) == IF Opened(i) = {} THEN None ELSE CHOOSE s \in Opened(i) : TRUE

Invitation == INSTANCE OneTime WITH
    Secrets <- Invites, Products <- Sessions, Nothing <- None,
    fate <- [i \in Invites |-> InviteFate(i)],
    product <- [i \in Invites |-> InviteSession(i)]
InvitesAreOneTime == Invitation!Spec

\* createTest checks and inserts in separate statements.  It exceeds the limit by
\* no more than the requests that can be between the two: with one request at a
\* time the limit is exact.
RateBounded == \A s \in Sessions :
    Cardinality(InWindow(s)) <= MaxTests - 1 + Cardinality(Requests)

\* Of the tests of a session within a cooldown there are no more than requests at
\* once: with one request at a time they are a cooldown apart.
CooldownBounded == \A s \in Sessions : Cardinality(Recent(s)) <= Cardinality(Requests)

\* No test without its session and no result without its test: a request that has
\* passed its checks creates nothing for a session that was ended, and stores
\* nothing for a test that was removed, in the meantime.
ReferencesHold ==
    /\ \A t \in Rows(test) : test[t].session \in Rows(session)
    /\ results \cup hops \subseteq Rows(test)

\* A session that has run no test is gone once its logout was answered, whatever
\* requests of it were underway.
UnusedLogoutEnds == \A s \in loggedOut : TestsOf(s) # {} \/ ~session[s].row

\* What the answer 204 says: the session is gone or has expired.
LogoutEnds == \A s \in loggedOut : ~Valid(s)
=============================================================================
