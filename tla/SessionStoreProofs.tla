------------------------- MODULE SessionStoreProofs -------------------------
(* Theorems about sessions, tests and results, for any number of sessions, tests,
   invites and concurrent requests, and any limits and durations. *)
EXTENDS SessionStore, FiniteSetTheorems, TLAPS

-----------------------------------------------------------------------------
(* The type invariant *)

\* Requests and the steps that change nothing but where a request is.
ReqType == [pc : {"idle", "opening", "counting", "cooling", "inserting", "owning",
                  "storing", "leaving"},
            session : Sessions \cup {None}, invite : Invites \cup {None},
            test : Tests \cup {None}]

ReqOnly(r) ==
    \/ \E s \in Sessions : BeginCreate(r, s) \/ BeginLogout(r, s)
    \/ \E s \in Sessions, t \in Tests : BeginStore(r, s, t)
    \/ OpenFails(r) \/ CountTests(r) \/ CheckCooldown(r) \/ CheckOwner(r)

\* Assigning one request leaves the others and the types alone.
LEMMA AssignEffect ==
    ASSUME TypeOK, NEW r \in Requests, NEW v \in ReqType, req' = [req EXCEPT ![r] = v]
    PROVE  /\ req' \in [Requests -> ReqType] /\ req'[r] = v
           /\ \A q \in Requests : q # r => req'[q] = req[q]
  BY DEF TypeOK, ReqType

LEMMA DoneEffect ==
    ASSUME TypeOK, NEW r \in Requests, Done(r)
    PROVE  /\ req' \in [Requests -> ReqType] /\ req'[r] = NoRequest
           /\ \A q \in Requests : q # r => req'[q] = req[q]
<1>1. NoRequest \in ReqType
  BY DEF NoRequest, Request, ReqType
<1> QED
  BY <1>1, AssignEffect DEF Done

LEMMA GotoEffect ==
    ASSUME TypeOK, NEW r \in Requests, NEW pc, Goto(r, pc),
           pc \in {"cooling", "inserting", "storing"}
    PROVE  /\ req' \in [Requests -> ReqType]
           /\ req'[r].pc = pc /\ req'[r].session = req[r].session
           /\ req'[r].invite = req[r].invite /\ req'[r].test = req[r].test
           /\ \A q \in Requests : q # r => req'[q] = req[q]
<1>1. [req[r] EXCEPT !.pc = pc] \in ReqType
  BY DEF ReqType, TypeOK
<1>2. req' = [req EXCEPT ![r] = [req[r] EXCEPT !.pc = pc]]
  BY DEF Goto, TypeOK
<1>3. req'[r] = [req[r] EXCEPT !.pc = pc]
  BY <1>1, <1>2, AssignEffect
<1>4. req[r] \in ReqType
  BY DEF ReqType, TypeOK
<1>5. /\ req'[r].pc = pc /\ req'[r].session = req[r].session
      /\ req'[r].invite = req[r].invite /\ req'[r].test = req[r].test
  BY <1>3, <1>4 DEF ReqType
<1> QED
  BY <1>1, <1>2, <1>5, AssignEffect

\* DELETE FROM access_sessions takes the rows away and leaves the rest.
SessionType == [used : BOOLEAN, row : BOOLEAN, expires : Nat, invite : Invites \cup {None}]

LEMMA DeleteEffect ==
    ASSUME TypeOK, NEW ended, Delete(ended)
    PROVE  /\ session' \in [Sessions -> SessionType]
           /\ \A s \in Sessions :
                /\ session'[s].used = session[s].used /\ session'[s].expires = session[s].expires
                /\ session'[s].invite = session[s].invite
                /\ s \notin ended => session'[s].row = session[s].row
                /\ s \in ended => ~session'[s].row
<1>1. ASSUME NEW s \in Sessions
      PROVE  /\ session'[s] \in SessionType
             /\ session'[s].used = session[s].used /\ session'[s].expires = session[s].expires
             /\ session'[s].invite = session[s].invite
             /\ s \notin ended => session'[s].row = session[s].row
             /\ s \in ended => ~session'[s].row
  <2>1. session[s] \in SessionType
    BY DEF TypeOK, SessionType
  <2>2. session'[s] = IF s \in ended THEN [session[s] EXCEPT !.row = FALSE] ELSE session[s]
    BY DEF Delete
  <2> QED
    BY <2>1, <2>2 DEF SessionType
<1>2. session' = [s \in Sessions |-> session'[s]]
  BY DEF Delete
<1> QED
  BY <1>1, <1>2

\* Cleanup may take tests away, and changes nothing of the others.
TestType == [used : BOOLEAN, row : BOOLEAN, session : Sessions \cup {None},
             created : 0..LastTick]

LEMMA CleanupEffect ==
    ASSUME TypeOK, Cleanup
    PROVE  /\ test' \in [Tests -> TestType]
           /\ \A t \in Tests :
                /\ test'[t].used = test[t].used /\ test'[t].session = test[t].session
                /\ test'[t].created = test[t].created
                /\ t \in Rows(test') <=> t \in Rows(test) /\ t \notin OldTests
<1>1. ASSUME NEW t \in Tests
      PROVE  /\ test'[t] \in TestType
             /\ test'[t].used = test[t].used /\ test'[t].session = test[t].session
             /\ test'[t].created = test[t].created
             /\ test'[t].row <=> test[t].row /\ t \notin OldTests
  <2>1. test[t] \in TestType
    BY DEF TypeOK, TestType
  <2>2. test'[t] = IF t \in OldTests THEN [test[t] EXCEPT !.row = FALSE] ELSE test[t]
    BY DEF Cleanup
  <2> QED
    BY <2>1, <2>2 DEF TestType
<1>2. test' = [t \in Tests |-> test'[t]]
  BY DEF Cleanup
<1>3. test' \in [Tests -> TestType]
  BY <1>1, <1>2
<1>4. \A t \in Tests : (t \in Rows(test') <=> test'[t].row) /\ (t \in Rows(test) <=> test[t].row)
  BY <1>3 DEF Rows, TypeOK
<1> QED
  BY <1>1, <1>3, <1>4

\* What a request has become, in each of the three ways.
LEMMA ReqOnlyEffect ==
    ASSUME TypeOK, NEW r \in Requests, ReqOnly(r)
    PROVE  /\ UNCHANGED <<now, session, invite, test, results, hops, loggedOut>>
           /\ req' \in [Requests -> ReqType]
           /\ \A q \in Requests : q # r => req'[q] = req[q]
           /\ \/ req'[r] = NoRequest
              \/ /\ req'[r].pc \in {"counting", "owning", "leaving"}
                 /\ req'[r].session \in Sessions /\ session[req'[r].session].row
                 /\ req'[r].pc = "owning" => req'[r].test \in Tests
                 /\ req'[r].invite = None
              \/ /\ \/ req[r].pc = "counting" /\ req'[r].pc = "cooling"
                         /\ ~OverRate(req[r].session)
                    \/ req[r].pc = "cooling" /\ req'[r].pc = "inserting"
                         /\ ~Cooling(req[r].session)
                    \/ req[r].pc = "owning" /\ req'[r].pc = "storing"
                 /\ req'[r].session = req[r].session /\ req'[r].invite = req[r].invite
                 /\ req'[r].test = req[r].test
<1>1. ASSUME NEW s \in Sessions, BeginCreate(r, s) \/ BeginLogout(r, s)
      PROVE  /\ UNCHANGED <<now, session, invite, test, results, hops, loggedOut>>
             /\ session[s].row
             /\ \E pc \in {"counting", "leaving"} : req' = [req EXCEPT ![r] =
                    [pc |-> pc, session |-> s, invite |-> None, test |-> None]]
  BY <1>1 DEF BeginCreate, BeginLogout, Valid, Request
<1>2. ASSUME NEW s \in Sessions, NEW t \in Tests, BeginStore(r, s, t)
      PROVE  /\ UNCHANGED <<now, session, invite, test, results, hops, loggedOut>>
             /\ session[s].row
             /\ req' = [req EXCEPT ![r] =
                    [pc |-> "owning", session |-> s, invite |-> None, test |-> t]]
  BY <1>2 DEF BeginStore, Valid, Request
<1>3. CASE \E s \in Sessions : BeginCreate(r, s) \/ BeginLogout(r, s)
  <2>1. PICK s \in Sessions, pc \in {"counting", "leaving"} :
           /\ UNCHANGED <<now, session, invite, test, results, hops, loggedOut>>
           /\ session[s].row
           /\ req' = [req EXCEPT ![r] =
                    [pc |-> pc, session |-> s, invite |-> None, test |-> None]]
    BY <1>1, <1>3
  <2>2. [pc |-> pc, session |-> s, invite |-> None, test |-> None] \in ReqType
    BY DEF ReqType
  <2> QED
    BY <2>1, <2>2, AssignEffect
<1>4. CASE \E s \in Sessions, t \in Tests : BeginStore(r, s, t)
  <2>1. PICK s \in Sessions, t \in Tests : BeginStore(r, s, t)
    BY <1>4
  <2>2. [pc |-> "owning", session |-> s, invite |-> None, test |-> t] \in ReqType
    BY DEF ReqType
  <2> QED
    BY <2>1, <2>2, <1>2, AssignEffect
<1>5. CASE OpenFails(r) \/ CountTests(r) \/ CheckCooldown(r) \/ CheckOwner(r)
  <2>1. UNCHANGED <<now, session, invite, test, results, hops, loggedOut>>
    BY <1>5 DEF OpenFails, CountTests, CheckCooldown, CheckOwner
  <2>2. CASE Done(r)
    BY <2>1, <2>2, DoneEffect
  <2>3. CASE req[r].pc = "counting" /\ Goto(r, "cooling") /\ ~OverRate(req[r].session)
    BY <2>1, <2>3, GotoEffect DEF TypeOK
  <2>4. CASE req[r].pc = "cooling" /\ Goto(r, "inserting") /\ ~Cooling(req[r].session)
    BY <2>1, <2>4, GotoEffect DEF TypeOK
  <2>5. CASE req[r].pc = "owning" /\ Goto(r, "storing")
    BY <2>1, <2>5, GotoEffect DEF TypeOK
  <2> QED
    BY <1>5, <2>2, <2>3, <2>4, <2>5 DEF OpenFails, CountTests, CheckCooldown, CheckOwner
<1> QED
  BY <1>3, <1>4, <1>5 DEF ReqOnly

LEMMA TypeInit == Init => TypeOK
<1> SUFFICES ASSUME Init PROVE TypeOK
  OBVIOUS
<1>1. now \in 0..LastTick
  BY StoreAssumption DEF Init
<1> QED
  BY <1>1 DEF Init, TypeOK, NoRequest, Request, Rows

LEMMA TypeStep == TypeOK /\ [Next]_vars => TypeOK'
<1> SUFFICES ASSUME TypeOK, [Next]_vars PROVE TypeOK'
  OBVIOUS
<1> USE StoreAssumption
<1>1. ASSUME NEW r \in Requests, ReqOnly(r) PROVE TypeOK'
  <2>1. UNCHANGED <<now, session, invite, test, results, hops, loggedOut>>
    BY <1>1, ReqOnlyEffect
  <2>2. req' \in [Requests -> ReqType] /\ \A q \in Requests : q # r => req'[q] = req[q]
    BY <1>1, ReqOnlyEffect
  <2>3. /\ req'[r].pc \in {"counting", "cooling", "inserting", "owning", "storing",
                           "leaving"} => req'[r].session # None
        /\ req'[r].pc \in {"owning", "storing"} => req'[r].test # None
        /\ req'[r].pc = "opening" <=> req'[r].invite # None
    BY <1>1, ReqOnlyEffect DEF NoRequest, Request, TypeOK
  <2> QED
    BY <2>1, <2>2, <2>3 DEF TypeOK, ReqType, Rows
<1>2. CASE Tick
  <2>1. now' \in 0..LastTick
    BY <1>2 DEF Tick, TypeOK
  <2> QED
    BY <2>1, <1>2 DEF Tick, TypeOK, Rows
<1>3. ASSUME NEW s \in Sessions, SignInByCode(s) PROVE TypeOK'
  <2>1. now + Lifetime \in Nat
    BY DEF TypeOK
  <2> QED
    BY <2>1, <1>3 DEF SignInByCode, NewAccess, TypeOK, Rows
<1>4. ASSUME NEW i \in Invites, CreateInvite(i) PROVE TypeOK'
  <2>1. now + Lifetime \in Nat
    BY DEF TypeOK
  <2> QED
    BY <2>1, <1>4 DEF CreateInvite, TypeOK, Rows
<1>5. ASSUME NEW r \in Requests, NEW i \in Invites, ConsumeInvite(r, i) PROVE TypeOK'
  <2> DEFINE v == Request("opening", None, i, None)
  <2>1. v = [pc |-> "opening", session |-> None, invite |-> i, test |-> None]
    BY DEF Request
  <2>2. v \in ReqType
    BY <2>1 DEF ReqType
  <2>3. req' = [req EXCEPT ![r] = v]
    BY <1>5 DEF ConsumeInvite
  <2>4. /\ req' \in [Requests -> ReqType] /\ req'[r] = v
        /\ \A q \in Requests : q # r => req'[q] = req[q]
    BY <2>2, <2>3, AssignEffect
  <2>5. \A q \in Requests :
          /\ req'[q].pc \in {"counting", "cooling", "inserting", "owning", "storing",
                              "leaving"} => req'[q].session # None
          /\ req'[q].pc \in {"owning", "storing"} => req'[q].test # None
          /\ req'[q].pc = "opening" <=> req'[q].invite # None
    BY <2>1, <2>4, StoreAssumption DEF TypeOK
  <2>6. invite' \in [Invites -> [row : BOOLEAN, used : BOOLEAN, expires : Nat]]
    <3> DEFINE InviteType == [row : BOOLEAN, used : BOOLEAN, expires : Nat]
    <3>1. invite[i] \in InviteType /\ invite \in [Invites -> InviteType]
      BY DEF TypeOK
    <3>2. [invite[i] EXCEPT !.used = TRUE] \in InviteType
      BY <3>1
    <3>3. invite' = [invite EXCEPT ![i] = [invite[i] EXCEPT !.used = TRUE]]
      BY <1>5, <3>1 DEF ConsumeInvite
    <3> HIDE DEF InviteType
    <3>4. invite' \in [Invites -> InviteType]
      BY <3>1, <3>2, <3>3
    <3> QED
      BY <3>4 DEF InviteType
  <2> QED
    BY <1>5, <2>4, <2>5, <2>6 DEF ConsumeInvite, ReqType, TypeOK, Rows
<1>6. ASSUME NEW r \in Requests, Done(r)
      PROVE  /\ req' \in [Requests -> ReqType]
             /\ \A q \in Requests :
                  /\ req'[q].pc \in {"counting", "cooling", "inserting", "owning",
                                     "storing", "leaving"} => req'[q].session # None
                  /\ req'[q].pc \in {"owning", "storing"} => req'[q].test # None
                  /\ req'[q].pc = "opening" <=> req'[q].invite # None
  BY <1>6, DoneEffect DEF TypeOK, NoRequest, Request
<1>7. ASSUME NEW r \in Requests, NEW s \in Sessions, OpenSession(r, s) PROVE TypeOK'
  <2>1. now + Lifetime \in Nat /\ req[r].invite \in Invites \cup {None}
    BY DEF TypeOK
  <2>2. session' \in [Sessions -> SessionType]
    BY <2>1, <1>7 DEF OpenSession, NewAccess, SessionType, TypeOK
  <2> QED
    BY <2>2, <1>6, <1>7 DEF OpenSession, SessionType, ReqType, TypeOK, Rows
<1>8. ASSUME NEW r \in Requests, NEW t \in Tests, InsertTest(r, t) PROVE TypeOK'
  <2>1. req[r].session \in Sessions
    BY <1>8 DEF InsertTest, TypeOK
  <2>2. /\ test' \in [Tests -> TestType]
        /\ \A u \in Rows(test') : test'[u].session # None
    <3>1. CASE UNCHANGED test
      BY <3>1 DEF TestType, TypeOK, Rows
    <3>2. CASE test' = [test EXCEPT ![t] = [used |-> TRUE, row |-> TRUE,
                                            session |-> req[r].session, created |-> now]]
      <4>1. [used |-> TRUE, row |-> TRUE, session |-> req[r].session, created |-> now]
              \in TestType
        BY <2>1 DEF TestType, TypeOK
      <4> QED
        BY <4>1, <3>2, <2>1, StoreAssumption DEF TestType, TypeOK, Rows
    <3> QED
      BY <3>1, <3>2, <1>8 DEF InsertTest
  <2> QED
    BY <2>2, <1>6, <1>8 DEF InsertTest, TestType, ReqType, TypeOK
<1>9. ASSUME NEW r \in Requests, StoreResult(r) PROVE TypeOK'
  BY <1>6, <1>9 DEF StoreResult, ReqType, TypeOK, Rows
<1>10. ASSUME NEW t \in Tests, StoreHops(t) PROVE TypeOK'
  BY <1>10 DEF StoreHops, TypeOK, Rows
<1>11. ASSUME NEW r \in Requests, Logout(r) PROVE TypeOK'
  <2>1. session' \in [Sessions -> SessionType]
    BY <1>11, DeleteEffect DEF Logout, SessionType, TypeOK
  <2>2. loggedOut' \subseteq Sessions
    BY <1>11 DEF Logout, TypeOK
  <2>3. Done(r) /\ UNCHANGED <<now, invite, test, results, hops>>
    BY <1>11 DEF Logout
  <2> QED
    BY <2>1, <2>2, <2>3, <1>6 DEF SessionType, ReqType, TypeOK, Rows
<1>12. ASSUME NEW s \in Sessions, Revoke(s) PROVE TypeOK'
  BY <1>12, DeleteEffect DEF Revoke, SessionType, TypeOK, Rows
<1>14. CASE Cleanup
  <2>1. session' \in [Sessions -> SessionType]
    BY <1>14, DeleteEffect DEF Cleanup
  <2>2. test' \in [Tests -> TestType] /\ \A t \in Rows(test') : test'[t].session # None
    BY <1>14, CleanupEffect DEF TypeOK, Rows
  <2>3. UNCHANGED <<now, invite, results, hops, req, loggedOut>>
    BY <1>14 DEF Cleanup
  <2> QED
    BY <2>1, <2>2, <2>3 DEF TypeOK, SessionType, TestType
<1>13. CASE UNCHANGED vars
  BY <1>13 DEF vars, TypeOK, Rows
<1> QED
  BY <1>1, <1>2, <1>3, <1>4, <1>5, <1>6, <1>7, <1>8, <1>9, <1>10, <1>11, <1>12, <1>13, <1>14
  DEF Next, RequestStep, ReqOnly

\* Every variable has its type, and a request carries what its next statement needs.
THEOREM TypeTheorem == Spec => []TypeOK
  BY TypeInit, TypeStep, PTL DEF Spec

-----------------------------------------------------------------------------
(* Rows, the rows they refer to, and why Cleanup finds no old test to remove *)

\* Rows and requests carry ids that have been drawn, so a new id is nowhere.
IdsUsed ==
    /\ \A s \in Sessions :
          /\ session[s].row => session[s].used
          /\ s \in loggedOut => session[s].used
          /\ session[s].invite # None => session[s].used
    /\ \A r \in Requests : req[r].session # None => session[req[r].session].used
    /\ \A t \in Tests : test[t].row => test[t].used

\* A session has ended a lifetime after its last test: an old test's session has
\* expired, and the foreign key keeps Cleanup from deleting it.
TestsOutlive ==
    /\ \A s \in Sessions : session[s].expires <= now + Lifetime
    /\ \A t \in Rows(test) :
          session[test[t].session].expires <= test[t].created + Lifetime

StoreInv ==
    /\ TypeOK
    /\ IdsUsed
    /\ ReferencesHold
    /\ TestsOutlive

LEMMA RowsAre ==
    ASSUME TypeOK
    PROVE  /\ \A t : t \in Rows(test) <=> t \in Tests /\ test[t].row
           /\ \A s : s \in Rows(session) <=> s \in Sessions /\ session[s].row
           /\ \A t \in Rows(test) : test[t].session \in Sessions
  BY DEF TypeOK, Rows

LEMMA CleanupRemovesNoTest ==
    ASSUME StoreInv, Cleanup
    PROVE  OldTests = {}
<1> SUFFICES ASSUME NEW t \in OldTests PROVE FALSE
  OBVIOUS
<1> USE StoreAssumption DEF StoreInv
<1>1. t \in Rows(test) /\ test[t].created < now - Retention
  BY DEF OldTests
<1> DEFINE s == test[t].session
<1>2. s \in Sessions /\ s \in Rows(session)
  BY <1>1, RowsAre DEF ReferencesHold
<1>3. session[s].expires \in Nat /\ test[t].created \in Nat /\ now \in Nat
  BY <1>1, <1>2, RowsAre DEF TypeOK
<1>4. session[s].expires <= test[t].created + Lifetime
  BY <1>1 DEF TestsOutlive
<1>5. session[s].expires < now
  BY <1>1, <1>3, <1>4
<1>6. s \in Expired
  BY <1>2, <1>5 DEF Expired
<1>7. t \in TestsOf(s)
  BY <1>1 DEF TestsOf
<1> QED
  BY <1>6, <1>7 DEF Cleanup

LEMMA StoreInit == Init => StoreInv
<1> SUFFICES ASSUME Init PROVE StoreInv
  OBVIOUS
<1>1. TypeOK
  BY TypeInit
<1>2. IdsUsed
  BY DEF Init, IdsUsed, NoRequest, Request
<1>3. Rows(test) = {}
  BY <1>1, RowsAre DEF Init
<1>4. ReferencesHold
  BY <1>3 DEF Init, ReferencesHold
<1>5. TestsOutlive
  <2>1. \A s \in Sessions : session[s].expires = 0 /\ now = 0
    BY DEF Init
  <2> QED
    BY <2>1, <1>3, StoreAssumption DEF TestsOutlive
<1> QED
  BY <1>1, <1>2, <1>4, <1>5 DEF StoreInv

\* Statements that touch neither table.
LEMMA StoreQuiet ==
    ASSUME StoreInv, TypeOK', UNCHANGED <<now, session, test, results, hops, loggedOut>>,
           \A r \in Requests : req'[r].session # None => session[req'[r].session].used
    PROVE  StoreInv'
<1> USE DEF StoreInv
<1>1. IdsUsed'
  BY DEF IdsUsed
<1>2. ReferencesHold' /\ TestsOutlive'
  BY DEF ReferencesHold, TestsOutlive, Rows
<1> QED
  BY <1>1, <1>2

LEMMA StoreDone ==
    ASSUME StoreInv, NEW r \in Requests, Done(r)
    PROVE  \A q \in Requests : req'[q].session # None => req'[q].session = req[q].session
  BY DoneEffect DEF StoreInv, NoRequest, Request

LEMMA StoreReqOnly ==
    ASSUME StoreInv, TypeOK', NEW r \in Requests, ReqOnly(r)
    PROVE  StoreInv'
<1>1. \A q \in Requests : req'[q].session # None => session[req'[q].session].used
  BY ReqOnlyEffect DEF StoreInv, IdsUsed, NoRequest, Request
<1> QED
  BY <1>1, StoreQuiet, ReqOnlyEffect DEF StoreInv

LEMMA StoreConsume ==
    ASSUME StoreInv, TypeOK', NEW r \in Requests, NEW i \in Invites, ConsumeInvite(r, i)
    PROVE  StoreInv'
<1>1. \A q \in Requests : req'[q].session # None => req'[q].session = req[q].session
  BY DEF ConsumeInvite, Request, StoreInv, TypeOK
<1> QED
  BY <1>1, StoreQuiet DEF ConsumeInvite, StoreInv, IdsUsed

LEMMA StoreNewAccess ==
    ASSUME StoreInv, TypeOK', NEW s \in Sessions, NEW i, NewAccess(s, i),
           UNCHANGED <<now, test, results, hops, loggedOut>>,
           \A q \in Requests : req'[q].session # None => req'[q].session = req[q].session
    PROVE  StoreInv'
<1> USE DEF StoreInv
<1>1. session'[s].used /\ session'[s].expires = now + Lifetime /\ session'[s].row
  BY DEF NewAccess, TypeOK
<1>2. \A u \in Sessions : u # s => session'[u] = session[u]
  BY DEF NewAccess, TypeOK
<1>3. ~session[s].used
  BY DEF NewAccess
<1>4. IdsUsed'
  <2>1. \A u \in Sessions : session[u].used => session'[u].used
    BY <1>1, <1>2
  <2>2. \A u \in Sessions :
          /\ session'[u].row => session'[u].used
          /\ u \in loggedOut => session'[u].used
          /\ session'[u].invite # None => session'[u].used
    BY <1>1, <1>2 DEF IdsUsed
  <2>3. \A q \in Requests : req'[q].session # None => session'[req'[q].session].used
    BY <2>1 DEF IdsUsed, TypeOK
  <2> QED
    BY <2>2, <2>3 DEF IdsUsed
<1>5. \A t \in Rows(test) : test[t].session \in Sessions /\ test[t].session # s
  BY <1>3, RowsAre DEF IdsUsed, ReferencesHold
<1>6. ReferencesHold'
  <2>1. \A t \in Rows(test) : test[t].session \in Rows(session')
    BY <1>2, <1>5, RowsAre DEF ReferencesHold, Rows, TypeOK
  <2> QED
    BY <2>1 DEF ReferencesHold, Rows
<1>7. TestsOutlive'
  <2>1. \A u \in Sessions : session'[u].expires <= now + Lifetime
    BY <1>1, <1>2, StoreAssumption DEF TestsOutlive, TypeOK
  <2>2. \A t \in Rows(test) : session'[test[t].session].expires <= test[t].created + Lifetime
    BY <1>2, <1>5 DEF TestsOutlive
  <2> QED
    BY <2>1, <2>2 DEF TestsOutlive, Rows
<1> QED
  BY <1>4, <1>6, <1>7

LEMMA StoreInsert ==
    ASSUME StoreInv, TypeOK', NEW r \in Requests, NEW t \in Tests, InsertTest(r, t)
    PROVE  StoreInv'
<1> USE DEF StoreInv
<1> DEFINE s == req[r].session
<1>1. s \in Sessions /\ UNCHANGED <<now, session, invite, results, hops, loggedOut>>
  BY DEF InsertTest, TypeOK
<1>2. \A q \in Requests : req'[q].session # None => req'[q].session = req[q].session
  BY StoreDone DEF InsertTest
<1>3. CASE UNCHANGED test
  BY <1>1, <1>2, <1>3, StoreQuiet DEF IdsUsed
<1>4. CASE session[s].row /\ test' = [test EXCEPT ![t] =
             [used |-> TRUE, row |-> TRUE, session |-> s, created |-> now]]
  <2>1. /\ test'[t].used /\ test'[t].row /\ test'[t].session = s /\ test'[t].created = now
        /\ \A u \in Tests : u # t => test'[u] = test[u]
    BY <1>4 DEF TypeOK
  <2>2. IdsUsed'
    BY <1>1, <1>2, <2>1 DEF IdsUsed
  <2>3. \A u \in Rows(test') : u = t \/ (u \in Rows(test) /\ test'[u] = test[u])
    <3>1. DOMAIN test' = Tests /\ DOMAIN test = Tests
      BY DEF TypeOK
    <3>2. ASSUME NEW u \in Rows(test'), u # t
          PROVE  u \in Rows(test) /\ test'[u] = test[u]
      <4>1. u \in Tests /\ test'[u].row
        BY <3>1 DEF Rows
      <4>2. test'[u] = test[u]
        BY <4>1, <3>2, <2>1
      <4> QED
        BY <4>1, <4>2, <3>1 DEF Rows
    <3> QED
      BY <3>2
  <2>4. Rows(test) \subseteq Rows(test')
    BY <2>1, RowsAre DEF Rows, TypeOK
  <2>5. s \in Rows(session)
    BY <1>1, <1>4, RowsAre
  <2>6. ReferencesHold'
    <3>1. \A u \in Rows(test') : test'[u].session \in Rows(session)
      BY <2>1, <2>3, <2>5 DEF ReferencesHold
    <3>2. results \cup hops \subseteq Rows(test')
      BY <2>4 DEF ReferencesHold
    <3> QED
      BY <3>1, <3>2, <1>1 DEF ReferencesHold, Rows
  <2>7. TestsOutlive'
    BY <1>1, <2>1, <2>3 DEF TestsOutlive
  <2> QED
    BY <2>2, <2>6, <2>7
<1> QED
  BY <1>3, <1>4 DEF InsertTest

LEMMA StoreResults ==
    ASSUME StoreInv, TypeOK',
           (\E r \in Requests : StoreResult(r)) \/ (\E t \in Tests : StoreHops(t))
    PROVE  StoreInv'
<1> USE DEF StoreInv
<1>1. UNCHANGED <<now, session, test, loggedOut>>
  BY DEF StoreResult, StoreHops
<1>2. \A q \in Requests : req'[q].session # None => req'[q].session = req[q].session
  BY StoreDone DEF StoreResult, StoreHops
<1>3. results' \cup hops' \subseteq Rows(test)
  BY DEF StoreResult, StoreHops, ReferencesHold
<1>4. IdsUsed'
  BY <1>1, <1>2 DEF IdsUsed
<1>5. ReferencesHold' /\ TestsOutlive'
  BY <1>1, <1>3 DEF ReferencesHold, TestsOutlive, Rows
<1> QED
  BY <1>4, <1>5

LEMMA StoreDelete ==
    ASSUME StoreInv, TypeOK', NEW ended, Delete(ended),
           UNCHANGED <<now, test, results, hops>>,
           \A t \in Rows(test) : test[t].session \notin ended,
           \A u \in loggedOut' : session[u].used,
           \A q \in Requests : req'[q].session # None => req'[q].session = req[q].session
    PROVE  StoreInv'
<1> USE DEF StoreInv
<1>1. IdsUsed'
  BY DeleteEffect DEF IdsUsed, TypeOK
<1>2. ReferencesHold'
  <2>1. \A t \in Rows(test) : test[t].session \in Rows(session')
    BY DeleteEffect, RowsAre DEF ReferencesHold, Rows, TypeOK
  <2> QED
    BY <2>1 DEF ReferencesHold, Rows
<1>3. TestsOutlive'
  BY DeleteEffect, RowsAre DEF TestsOutlive, Rows
<1> QED
  BY <1>1, <1>2, <1>3

LEMMA StoreLogout ==
    ASSUME StoreInv, TypeOK', NEW r \in Requests, Logout(r)
    PROVE  StoreInv'
<1> USE DEF StoreInv
<1> DEFINE s == req[r].session
<1>1. /\ s \in Sessions /\ session[s].used
      /\ UNCHANGED <<now, test, results, hops>> /\ loggedOut' = loggedOut \cup {s}
  BY DEF Logout, IdsUsed, TypeOK
<1>2. \A q \in Requests : req'[q].session # None => req'[q].session = req[q].session
  BY StoreDone DEF Logout
<1>3. \A u \in loggedOut' : session[u].used
  BY <1>1 DEF IdsUsed, TypeOK
<1>4. CASE TestsOf(s) = {} /\ Delete({s})
  BY <1>1, <1>2, <1>3, <1>4, StoreDelete DEF TestsOf
<1>5. CASE UNCHANGED session
  <2>1. IdsUsed'
    BY <1>1, <1>2, <1>3, <1>5 DEF IdsUsed
  <2>2. ReferencesHold' /\ TestsOutlive'
    BY <1>1, <1>5 DEF ReferencesHold, TestsOutlive, Rows
  <2> QED
    BY <2>1, <2>2
<1> QED
  BY <1>4, <1>5 DEF Logout

\* The tests that Cleanup finds are not old, so it is a Delete of sessions.
LEMMA CleanupKeepsTests ==
    ASSUME StoreInv, TypeOK', Cleanup
    PROVE  UNCHANGED <<now, test, results, hops, req, loggedOut>> /\ Delete(Expired)
<1>1. test' = [t \in Tests |-> test[t]]
  BY CleanupRemovesNoTest DEF Cleanup
<1>2. test = [t \in Tests |-> test[t]]
  BY DEF StoreInv, TypeOK
<1> QED
  BY <1>1, <1>2 DEF Cleanup

LEMMA StoreCleanup ==
    ASSUME StoreInv, TypeOK', Cleanup
    PROVE  StoreInv'
<1>1. \A t \in Rows(test) : test[t].session \notin Expired
  BY DEF Cleanup, TestsOf
<1> QED
  BY <1>1, CleanupKeepsTests, StoreDelete DEF StoreInv, IdsUsed, TypeOK

LEMMA StoreRevoke ==
    ASSUME StoreInv, TypeOK', NEW s \in Sessions, Revoke(s)
    PROVE  StoreInv'
<1>1. \A t \in Rows(test) : test[t].session \notin {s}
  BY DEF Revoke, TestsOf
<1> QED
  BY <1>1, StoreDelete DEF Revoke, StoreInv, IdsUsed, TypeOK

LEMMA StoreTick ==
    ASSUME StoreInv, TypeOK', Tick
    PROVE  StoreInv'
<1> USE DEF StoreInv, Tick
<1>1. IdsUsed' /\ ReferencesHold'
  BY DEF IdsUsed, ReferencesHold, Rows
<1>2. \A s \in Sessions : session[s].expires <= now' + Lifetime
  BY StoreAssumption DEF TestsOutlive, TypeOK
<1>3. TestsOutlive'
  BY <1>2 DEF TestsOutlive, Rows
<1> QED
  BY <1>1, <1>3

LEMMA StoreStep == StoreInv /\ TypeOK' /\ [Next]_vars => StoreInv'
<1> SUFFICES ASSUME StoreInv, TypeOK', [Next]_vars PROVE StoreInv'
  OBVIOUS
<1>1. ASSUME NEW s \in Sessions, SignInByCode(s) PROVE StoreInv'
  BY <1>1, StoreNewAccess DEF SignInByCode
<1>2. ASSUME NEW r \in Requests, NEW s \in Sessions, OpenSession(r, s) PROVE StoreInv'
  BY <1>2, StoreNewAccess, StoreDone DEF OpenSession
<1>3. CASE (\E i \in Invites : CreateInvite(i)) \/ UNCHANGED vars
  BY <1>3, StoreQuiet DEF CreateInvite, vars, StoreInv, IdsUsed
<1> QED
  BY <1>1, <1>2, <1>3, StoreReqOnly, StoreConsume, StoreInsert, StoreResults, StoreLogout,
     StoreCleanup, StoreRevoke, StoreTick
  DEF Next, RequestStep, ReqOnly

\* The invariant behind the properties of the tables.
THEOREM StoreTheorem == Spec => []StoreInv
  BY StoreInit, StoreStep, TypeTheorem, PTL DEF Spec

\* No test without its session and no result without its test, whatever requests
\* are underway when a session ends.
THEOREM ReferencesTheorem == Spec => []ReferencesHold
<1>1. StoreInv => ReferencesHold
  BY DEF StoreInv
<1> QED
  BY <1>1, StoreTheorem, PTL

-----------------------------------------------------------------------------
(* Invites *)

\* An invite that has opened a session, or is opening one, is marked.
InvitesMarked ==
    /\ \A s \in Sessions : session[s].invite \in Invites =>
          invite[session[s].invite].row /\ invite[session[s].invite].used
    /\ \A r \in Requests : req[r].invite \in Invites =>
          invite[req[r].invite].row /\ invite[req[r].invite].used

InviteInv == InvitesMarked /\ InviteOpensOnce

LEMMA InviteInit == Init => InviteInv
  BY StoreAssumption DEF Init, InviteInv, InvitesMarked, InviteOpensOnce, Opened, Opening,
                         NoRequest, Request

\* Statements after which no more sessions and requests carry an invite, and whatever
\* was marked still is.
LEMMA InviteQuiet ==
    ASSUME InviteInv,
           \A s \in Sessions : session'[s].invite \in Invites =>
               session'[s].invite = session[s].invite,
           \A r \in Requests : req'[r].invite \in Invites =>
               req'[r].invite = req[r].invite,
           \A i \in Invites : invite[i].row /\ invite[i].used =>
               invite'[i].row /\ invite'[i].used
    PROVE  InviteInv'
<1> USE DEF InviteInv
<1>1. InvitesMarked'
  BY DEF InvitesMarked
<1>2. \A i \in Invites : Opened(i)' \subseteq Opened(i) /\ Opening(i)' \subseteq Opening(i)
  BY DEF Opened, Opening
<1>3. InviteOpensOnce'
  BY <1>2 DEF InviteOpensOnce
<1> QED
  BY <1>1, <1>3

LEMMA InviteDone ==
    ASSUME TypeOK, NEW r \in Requests, Done(r)
    PROVE  \A q \in Requests : req'[q].invite \in Invites => req'[q].invite = req[q].invite
  BY DoneEffect, StoreAssumption DEF NoRequest, Request

LEMMA InviteConsume ==
    ASSUME StoreInv, InviteInv, NEW r \in Requests, NEW i \in Invites, ConsumeInvite(r, i)
    PROVE  InviteInv'
<1> USE DEF InviteInv, StoreInv
<1>1. ~invite[i].used /\ UNCHANGED session
  BY DEF ConsumeInvite, Consumable
<1>2. Opened(i) = {} /\ Opening(i) = {}
  BY <1>1 DEF InvitesMarked, Opened, Opening
<1>3. req'[r].invite = i /\ \A q \in Requests : q # r => req'[q] = req[q]
  BY DEF ConsumeInvite, Request, TypeOK
<1>4. req[r].invite = None
  BY DEF ConsumeInvite, TypeOK
<1>5. invite'[i].row /\ invite'[i].used /\ \A j \in Invites : j # i => invite'[j] = invite[j]
  BY DEF ConsumeInvite, Consumable, TypeOK
<1>6. InvitesMarked'
  BY <1>1, <1>3, <1>5 DEF InvitesMarked
<1>7. Opening(i)' = {r} /\ Opened(i)' = {}
  BY <1>1, <1>2, <1>3 DEF Opening, Opened
<1>8. \A j \in Invites : j # i => Opening(j)' = Opening(j) /\ Opened(j)' = Opened(j)
  BY <1>1, <1>3, <1>4, StoreAssumption DEF Opening, Opened
<1>9. InviteOpensOnce'
  BY <1>7, <1>8 DEF InviteOpensOnce
<1> QED
  BY <1>6, <1>9

LEMMA InviteOpenSession ==
    ASSUME StoreInv, InviteInv, NEW r \in Requests, NEW s \in Sessions, OpenSession(r, s)
    PROVE  InviteInv'
<1> USE DEF InviteInv, StoreInv
<1>1. PICK i \in Invites : i = req[r].invite /\ UNCHANGED invite
  BY DEF OpenSession, TypeOK
<1>2. session'[s].invite = i /\ \A u \in Sessions : u # s => session'[u] = session[u]
  BY <1>1 DEF OpenSession, NewAccess, TypeOK
<1>3. session[s].invite = None
  BY DEF OpenSession, NewAccess, IdsUsed
<1>4. req'[r].invite = None /\ \A q \in Requests : q # r => req'[q] = req[q]
  BY DoneEffect DEF OpenSession, NoRequest, Request
<1>5. InvitesMarked'
  BY <1>1, <1>2, <1>4, StoreAssumption DEF InvitesMarked
<1>6. r \in Opening(i) /\ Opened(i) = {}
  BY <1>1 DEF Opening, InviteOpensOnce
<1>7. Opening(i)' = {} /\ Opened(i)' = {s}
  <2>1. \A q \in Opening(i) : q = r
    BY <1>1, <1>6 DEF InviteOpensOnce
  <2>2. \A q \in Requests : req'[q].invite # i
    BY <2>1, <1>1, <1>4, StoreAssumption DEF Opening
  <2> QED
    BY <2>2, <1>2, <1>6 DEF Opening, Opened
<1>8. \A j \in Invites : j # i => Opening(j)' = Opening(j) /\ Opened(j)' = Opened(j)
  BY <1>1, <1>2, <1>3, <1>4, StoreAssumption DEF Opening, Opened
<1>9. InviteOpensOnce'
  <2>1. \A j \in Invites :
          /\ \A s1, s2 \in Opened(j)' : s1 = s2
          /\ \A r1, r2 \in Opening(j)' : r1 = r2
          /\ Opened(j)' = {} \/ Opening(j)' = {}
    BY <1>7, <1>8 DEF InviteOpensOnce
  <2> QED
    BY <2>1 DEF InviteOpensOnce
<1> QED
  BY <1>5, <1>9

LEMMA InviteStep == StoreInv /\ InviteInv /\ [Next]_vars => InviteInv'
<1> SUFFICES ASSUME StoreInv, InviteInv, [Next]_vars PROVE InviteInv'
  OBVIOUS
<1> USE DEF StoreInv
<1>1. ASSUME NEW r \in Requests, ReqOnly(r) PROVE InviteInv'
  <2>1. \A q \in Requests : req'[q].invite \in Invites => req'[q].invite = req[q].invite
    BY <1>1, ReqOnlyEffect, StoreAssumption DEF NoRequest, Request
  <2> QED
    BY <2>1, <1>1, ReqOnlyEffect, InviteQuiet
<1>2. ASSUME NEW s \in Sessions, SignInByCode(s) PROVE InviteInv'
  <2>1. \A u \in Sessions : session'[u].invite \in Invites =>
            session'[u].invite = session[u].invite
    BY <1>2, StoreAssumption DEF SignInByCode, NewAccess, TypeOK
  <2> QED
    BY <2>1, <1>2, InviteQuiet DEF SignInByCode
<1>3. ASSUME NEW i \in Invites, CreateInvite(i) PROVE InviteInv'
  <2>1. \A j \in Invites : invite[j].row /\ invite[j].used => invite'[j].row /\ invite'[j].used
    BY <1>3 DEF CreateInvite, TypeOK
  <2> QED
    BY <2>1, <1>3, InviteQuiet DEF CreateInvite
<1>4. ASSUME NEW r \in Requests,
             StoreResult(r) \/ (\E t \in Tests : InsertTest(r, t))
      PROVE  InviteInv'
  <2>1. Done(r) /\ UNCHANGED <<session, invite>>
    BY <1>4 DEF StoreResult, InsertTest
  <2> QED
    BY <2>1, InviteDone, InviteQuiet
<1>5. ASSUME NEW ended, Delete(ended), UNCHANGED invite,
             UNCHANGED req \/ \E r \in Requests : Done(r)
      PROVE  InviteInv'
  <2>1. \A q \in Requests : req'[q].invite \in Invites => req'[q].invite = req[q].invite
    BY <1>5, InviteDone
  <2> QED
    BY <2>1, <1>5, DeleteEffect, InviteQuiet
<1>6. ASSUME NEW r \in Requests, Logout(r) PROVE InviteInv'
  <2>1. CASE UNCHANGED session
    BY <2>1, <1>6, InviteDone, InviteQuiet DEF Logout
  <2>2. CASE Delete({req[r].session})
    BY <2>2, <1>5, <1>6 DEF Logout
  <2> QED
    BY <2>1, <2>2, <1>6 DEF Logout
<1>7. CASE Cleanup \/ \E s \in Sessions : Revoke(s)
  BY <1>5, <1>7 DEF Cleanup, Revoke
<1>8. CASE Tick \/ (\E t \in Tests : StoreHops(t)) \/ UNCHANGED vars
  BY <1>8, InviteQuiet DEF Tick, StoreHops, vars
<1> QED
  BY <1>1, <1>2, <1>3, <1>4, <1>6, <1>7, <1>8, InviteConsume, InviteOpenSession
  DEF Next, RequestStep, ReqOnly

\* An invite opens one session at most, however many requests present it at once.
THEOREM InviteTheorem == Spec => []InviteOpensOnce
<1>1. InviteInv => InviteOpensOnce
  BY DEF InviteInv
<1> QED
  BY <1>1, InviteInit, InviteStep, StoreTheorem, PTL DEF Spec

-----------------------------------------------------------------------------
(* Invites implement OneTime *)

\* What becomes of an invite depends on its row, the clock, and who carries it.
LEMMA InviteKept ==
    ASSUME NEW i \in Invites, invite'[i] = invite[i], now' = now,
           Opening(i)' = Opening(i), Opened(i)' = Opened(i)
    PROVE  InviteFate(i)' = InviteFate(i) /\ InviteSession(i)' = InviteSession(i)
  BY DEF InviteFate, InviteSession

LEMMA InviteSessionKept ==
    ASSUME NEW i \in Invites, Opened(i)' = Opened(i)
    PROVE  InviteSession(i)' = InviteSession(i)
  BY DEF InviteSession

LEMMA InvitesKept ==
    ASSUME \A i \in Invites : InviteFate(i)' = InviteFate(i)
                              /\ InviteSession(i)' = InviteSession(i)
    PROVE  UNCHANGED Invitation!vars
  BY DEF Invitation!vars

LEMMA CarriersKept ==
    ASSUME UNCHANGED <<now, invite>>,
           \A s \in Sessions : session'[s].invite = session[s].invite,
           \A r \in Requests : req'[r].invite = req[r].invite
    PROVE  UNCHANGED Invitation!vars
<1>1. \A i \in Invites : Opening(i)' = Opening(i) /\ Opened(i)' = Opened(i)
  BY DEF Opening, Opened
<1>2. \A i \in Invites : InviteFate(i)' = InviteFate(i) /\ InviteSession(i)' = InviteSession(i)
  BY <1>1, InviteKept
<1> QED BY <1>2, InvitesKept

\* A request that is not opening a session carries no invite, when it ends as before.
LEMMA DoneCarries ==
    ASSUME StoreInv, NEW r \in Requests, Done(r), req[r].pc # "opening"
    PROVE  \A q \in Requests : req'[q].invite = req[q].invite
<1>1. req[r].invite = None
  BY DEF StoreInv, TypeOK
<1> QED BY <1>1, DoneEffect DEF StoreInv, NoRequest, Request

LEMMA InvitationInit == Init => Invitation!Init
  BY StoreAssumption
  DEF Init, Invitation!Init, InviteFate, InviteSession, Opened

LEMMA IssueInvite ==
    ASSUME StoreInv, InviteInv, NEW i \in Invites, CreateInvite(i)
    PROVE  Invitation!Next
<1>1. ~invite[i].row /\ UNCHANGED <<now, session, req>>
  BY DEF CreateInvite
<1>2. /\ invite'[i].row /\ ~invite'[i].used /\ invite'[i].expires = now + Lifetime
      /\ \A j \in Invites : j # i => invite'[j] = invite[j]
  BY DEF CreateInvite, StoreInv, TypeOK
<1>3. \A j \in Invites : Opening(j)' = Opening(j) /\ Opened(j)' = Opened(j)
  BY <1>1 DEF Opening, Opened
<1>4. Opening(i) = {} /\ Opened(i) = {}
  BY <1>1 DEF InviteInv, InvitesMarked, Opening, Opened
<1>5. ~(now + Lifetime < now)
  BY StoreAssumption DEF StoreInv, TypeOK
<1>6. InviteFate(i) = "unissued" /\ InviteFate(i)' = "open"
  BY <1>1, <1>2, <1>3, <1>4, <1>5 DEF InviteFate
<1>7. InviteSession(i)' = InviteSession(i)
  BY <1>3, InviteSessionKept
<1>8. \A j \in Invites : j # i => InviteFate(j)' = InviteFate(j)
                                  /\ InviteSession(j)' = InviteSession(j)
  BY <1>1, <1>2, <1>3, InviteKept
<1>9. Invitation!Issue(i)
  BY <1>6, <1>7, <1>8 DEF Invitation!Issue, Invitation!Becomes
<1> QED BY <1>9 DEF Invitation!Next

LEMMA TakeInvite ==
    ASSUME StoreInv, InviteInv, NEW r \in Requests, NEW i \in Invites, ConsumeInvite(r, i)
    PROVE  Invitation!Next
<1>1. /\ invite[i].row /\ ~invite[i].used /\ ~(invite[i].expires < now)
      /\ UNCHANGED <<now, session>>
  BY DEF ConsumeInvite, Consumable, StoreInv, TypeOK
<1>2. invite'[i].row /\ \A j \in Invites : j # i => invite'[j] = invite[j]
  BY <1>1 DEF ConsumeInvite, StoreInv, TypeOK
<1>3. /\ req[r].invite = None /\ req'[r].invite = i
      /\ \A q \in Requests : q # r => req'[q] = req[q]
  BY DEF ConsumeInvite, Request, StoreInv, TypeOK
<1>4. Opening(i) = {} /\ Opened(i) = {}
  BY <1>1 DEF InviteInv, InvitesMarked, Opening, Opened
<1>5. r \in Opening(i)' /\ \A j \in Invites : Opened(j)' = Opened(j)
  BY <1>1, <1>3 DEF Opening, Opened
<1>6. \A j \in Invites : j # i => Opening(j)' = Opening(j)
  BY <1>3, StoreAssumption DEF Opening
<1>7. InviteFate(i) = "open" /\ InviteFate(i)' = "taken"
  BY <1>1, <1>2, <1>4, <1>5 DEF InviteFate
<1>8. InviteSession(i)' = InviteSession(i)
  BY <1>5, InviteSessionKept
<1>9. \A j \in Invites : j # i => InviteFate(j)' = InviteFate(j)
                                  /\ InviteSession(j)' = InviteSession(j)
  BY <1>1, <1>2, <1>5, <1>6, InviteKept
<1>10. Invitation!Take(i)
  BY <1>7, <1>8, <1>9 DEF Invitation!Take, Invitation!Becomes
<1> QED BY <1>10 DEF Invitation!Next

\* The request that is opening a session with an invite is the only one to have it.
LEMMA OpeningTakes ==
    ASSUME StoreInv, InviteInv, NEW r \in Requests, req[r].pc = "opening"
    PROVE  \E i \in Invites :
              /\ req[r].invite = i /\ invite[i].row /\ invite[i].used
              /\ Opening(i) = {r} /\ Opened(i) = {}
              /\ InviteFate(i) = "taken" /\ InviteSession(i) = None
<1>1. PICK i \in Invites : req[r].invite = i
  BY DEF StoreInv, TypeOK
<1>2. invite[i].row /\ invite[i].used
  BY <1>1 DEF InviteInv, InvitesMarked
<1>3. r \in Opening(i)
  BY <1>1 DEF Opening
<1>4. Opening(i) = {r} /\ Opened(i) = {}
  BY <1>3 DEF InviteInv, InviteOpensOnce
<1>5. InviteFate(i) = "taken" /\ InviteSession(i) = None
  BY <1>2, <1>4 DEF InviteFate, InviteSession
<1> QED BY <1>1, <1>2, <1>4, <1>5

\* When that request ends, what the others carry is as before.
LEMMA OpeningEnds ==
    ASSUME StoreInv, NEW r \in Requests, NEW i \in Invites, Done(r), req[r].invite = i,
           Opening(i) = {r}
    PROVE  /\ Opening(i)' = {}
           /\ \A j \in Invites : j # i => Opening(j)' = Opening(j)
<1>1. req'[r].invite = None /\ \A q \in Requests : q # r => req'[q] = req[q]
  BY DoneEffect DEF StoreInv, NoRequest, Request
<1>2. \A q \in Requests : q # r => req[q].invite # i
  BY DEF Opening
<1> QED BY <1>1, <1>2, StoreAssumption DEF Opening

LEMMA ExchangeInvite ==
    ASSUME StoreInv, InviteInv, NEW r \in Requests, NEW s \in Sessions, OpenSession(r, s)
    PROVE  Invitation!Next
<1>1. req[r].pc = "opening" /\ Done(r) /\ UNCHANGED <<now, invite>>
  BY DEF OpenSession
<1>2. PICK i \in Invites :
         /\ req[r].invite = i /\ invite[i].row /\ invite[i].used
         /\ Opening(i) = {r} /\ Opened(i) = {}
         /\ InviteFate(i) = "taken" /\ InviteSession(i) = None
  BY <1>1, OpeningTakes
<1>3. /\ session[s].invite = None /\ session'[s].invite = i
      /\ \A u \in Sessions : u # s => session'[u] = session[u]
  BY <1>2 DEF OpenSession, NewAccess, StoreInv, IdsUsed, TypeOK
<1>4. Opening(i)' = {} /\ \A j \in Invites : j # i => Opening(j)' = Opening(j)
  BY <1>1, <1>2, OpeningEnds
<1>5. Opened(i)' = {s} /\ \A j \in Invites : j # i => Opened(j)' = Opened(j)
  <2>1. \A u \in Sessions : session[u].invite # i
    BY <1>2 DEF Opened
  <2> QED BY <1>3, <2>1, StoreAssumption DEF Opened
<1>6. InviteFate(i)' = "exchanged" /\ InviteSession(i)' = s
  BY <1>1, <1>2, <1>4, <1>5 DEF InviteFate, InviteSession
<1>7. \A j \in Invites : j # i => InviteFate(j)' = InviteFate(j)
                                  /\ InviteSession(j)' = InviteSession(j)
  BY <1>1, <1>4, <1>5, InviteKept
<1>8. \A j \in Invites : InviteSession(j) # s
  <2>1. s # None /\ \A j \in Invites : s \notin Opened(j)
    BY <1>3, StoreAssumption DEF Opened
  <2> QED BY <2>1 DEF InviteSession
<1>9. Invitation!Exchange(i, s)
  BY <1>2, <1>6, <1>7, <1>8 DEF Invitation!Exchange, Invitation!Becomes
<1> QED BY <1>9 DEF Invitation!Next

LEMMA AbandonInvite ==
    ASSUME StoreInv, InviteInv, NEW r \in Requests, OpenFails(r)
    PROVE  Invitation!Next
<1>1. req[r].pc = "opening" /\ Done(r) /\ UNCHANGED <<now, invite, session>>
  BY DEF OpenFails
<1>2. PICK i \in Invites :
         /\ req[r].invite = i /\ invite[i].row /\ invite[i].used
         /\ Opening(i) = {r} /\ Opened(i) = {}
         /\ InviteFate(i) = "taken" /\ InviteSession(i) = None
  BY <1>1, OpeningTakes
<1>3. Opening(i)' = {} /\ \A j \in Invites : j # i => Opening(j)' = Opening(j)
  BY <1>1, <1>2, OpeningEnds
<1>4. \A j \in Invites : Opened(j)' = Opened(j)
  BY <1>1 DEF Opened
<1>5. InviteFate(i)' = "lost" /\ InviteSession(i)' = None
  BY <1>1, <1>2, <1>3, <1>4 DEF InviteFate, InviteSession
<1>6. \A j \in Invites : j # i => InviteFate(j)' = InviteFate(j)
                                  /\ InviteSession(j)' = InviteSession(j)
  BY <1>1, <1>3, <1>4, InviteKept
<1>7. Invitation!Abandon(i)
  BY <1>2, <1>5, <1>6 DEF Invitation!Abandon, Invitation!Becomes
<1> QED BY <1>7 DEF Invitation!Next

\* A tick ends the time of the invites that expired a moment ago.
LEMMA LapseInvites ==
    ASSUME StoreInv, Tick
    PROVE  Invitation!Next
<1> DEFINE S == {i \in Invites : InviteFate(i) = "open" /\ invite[i].expires < now + 1}
<1>1. now' = now + 1 /\ UNCHANGED <<invite, session, req>>
  BY DEF Tick
<1>2. \A i \in Invites : Opening(i)' = Opening(i) /\ Opened(i)' = Opened(i)
  BY <1>1 DEF Opening, Opened
<1>3. \A i \in Invites : InviteSession(i)' = InviteSession(i)
  BY <1>2, InviteSessionKept
<1>4. \A i \in Invites : invite[i].expires < now => invite[i].expires < now + 1
  BY DEF StoreInv, TypeOK
<1>5. \A i \in Invites : InviteFate(i)' = IF i \in S THEN "lost" ELSE InviteFate(i)
  BY <1>1, <1>2, <1>4 DEF InviteFate
<1>6. Invitation!Lapse(S)
  BY <1>3, <1>5 DEF Invitation!Lapse
<1>7. S \in SUBSET Invites
  OBVIOUS
<1> QED BY <1>6, <1>7 DEF Invitation!Next

LEMMA InvitationStep ==
    ASSUME StoreInv, InviteInv, [Next]_vars
    PROVE  [Invitation!Next]_(Invitation!vars)
<1>1. ASSUME NEW r \in Requests, ReqOnly(r), ~OpenFails(r) PROVE UNCHANGED Invitation!vars
  <2>1. req[r].pc # "opening"
    BY <1>1 DEF ReqOnly, BeginCreate, BeginLogout, BeginStore, CountTests, CheckCooldown,
                CheckOwner
  <2>2. req[r].invite = None /\ req'[r].invite = None
    BY <1>1, <2>1, ReqOnlyEffect DEF StoreInv, TypeOK, NoRequest, Request
  <2>3. \A q \in Requests : req'[q].invite = req[q].invite
    BY <1>1, <2>2, ReqOnlyEffect DEF StoreInv
  <2> QED BY <1>1, <2>3, ReqOnlyEffect, CarriersKept DEF StoreInv
<1>2. ASSUME NEW s \in Sessions, SignInByCode(s) PROVE UNCHANGED Invitation!vars
  <2>1. \A u \in Sessions : session'[u].invite = session[u].invite
    BY <1>2 DEF SignInByCode, NewAccess, StoreInv, IdsUsed, TypeOK
  <2> QED BY <1>2, <2>1, CarriersKept DEF SignInByCode
<1>3. ASSUME NEW r \in Requests, StoreResult(r) \/ (\E t \in Tests : InsertTest(r, t))
      PROVE  UNCHANGED Invitation!vars
  <2>1. Done(r) /\ req[r].pc # "opening" /\ UNCHANGED <<now, session, invite>>
    BY <1>3 DEF StoreResult, InsertTest
  <2> QED BY <2>1, DoneCarries, CarriersKept
<1>4. ASSUME NEW ended, Delete(ended), UNCHANGED <<now, invite>>,
             \A q \in Requests : req'[q].invite = req[q].invite
      PROVE  UNCHANGED Invitation!vars
  BY <1>4, DeleteEffect, CarriersKept DEF StoreInv
<1>5. ASSUME NEW r \in Requests, Logout(r) PROVE UNCHANGED Invitation!vars
  <2>1. Done(r) /\ req[r].pc # "opening" /\ UNCHANGED <<now, invite>>
    BY <1>5 DEF Logout
  <2>2. \A q \in Requests : req'[q].invite = req[q].invite
    BY <2>1, DoneCarries
  <2>3. CASE UNCHANGED session
    BY <2>1, <2>2, <2>3, CarriersKept
  <2>4. CASE Delete({req[r].session})
    BY <2>1, <2>2, <2>4, <1>4
  <2> QED BY <1>5, <2>3, <2>4 DEF Logout
<1>6. CASE Cleanup \/ \E s \in Sessions : Revoke(s)
  BY <1>4, <1>6 DEF Cleanup, Revoke
<1>7. CASE (\E t \in Tests : StoreHops(t)) \/ UNCHANGED vars
  BY <1>7, CarriersKept DEF StoreHops, vars
<1> QED
  BY <1>1, <1>2, <1>3, <1>5, <1>6, <1>7, IssueInvite, TakeInvite, ExchangeInvite,
     AbandonInvite, LapseInvites
  DEF Next, RequestStep, ReqOnly

\* An invite keeps the promise of a secret that is good once: it is exchanged for one
\* session, which no other invite opened, and what it has become stays so.
THEOREM InvitationTheorem == Spec => InvitesAreOneTime
<1>1. Spec => [](StoreInv /\ InviteInv)
  BY InviteInit, InviteStep, StoreTheorem, PTL DEF Spec
<1>2. StoreInv /\ InviteInv /\ [Next]_vars => [Invitation!Next]_(Invitation!vars)
  BY InvitationStep
<1> QED
  BY <1>1, <1>2, InvitationInit, PTL DEF Spec, InvitesAreOneTime, Invitation!Spec

-----------------------------------------------------------------------------
(* Logout *)

LEMMA LogoutQuiet ==
    ASSUME UnusedLogoutEnds, UNCHANGED loggedOut,
           \A s \in loggedOut : session'[s].row => session[s].row,
           \A s \in loggedOut : TestsOf(s) \subseteq TestsOf(s)'
    PROVE  UnusedLogoutEnds'
  BY DEF UnusedLogoutEnds

\* Each step adds tests at most, and opens sessions that nobody has left.
LEMMA TestsOfGrow ==
    ASSUME StoreInv, TypeOK', [Next]_vars
    PROVE  \/ UNCHANGED test
           \/ \A s \in Sessions : TestsOf(s) \subseteq TestsOf(s)'
<1>1. CASE \E r \in Requests, t \in Tests : InsertTest(r, t)
  <2>1. PICK r \in Requests, t \in Tests : InsertTest(r, t)
    BY <1>1
  <2>2. ~test[t].row
    BY <2>1 DEF InsertTest, StoreInv, IdsUsed
  <2>3. \A u \in Tests : u # t => test'[u] = test[u]
    BY <2>1 DEF InsertTest, StoreInv, TypeOK
  <2>4. \A u \in Tests : test[u].row => test'[u] = test[u]
    BY <2>2, <2>3
  <2>5. DOMAIN test = Tests /\ DOMAIN test' = Tests
    BY DEF StoreInv, TypeOK
  <2>6. ASSUME NEW s \in Sessions PROVE TestsOf(s) \subseteq TestsOf(s)'
    BY <2>4, <2>5 DEF TestsOf, Rows
  <2> QED
    BY <2>6
<1>2. CASE Cleanup
  BY <1>2, CleanupKeepsTests
<1>3. CASE \E r \in Requests : ReqOnly(r)
  BY <1>3, ReqOnlyEffect DEF StoreInv
<1> QED
  BY <1>1, <1>2, <1>3
  DEF Next, RequestStep, ReqOnly, Tick, SignInByCode, Revoke, CreateInvite, StoreHops,
      ConsumeInvite, OpenSession, StoreResult, Logout, vars

LEMMA LogoutStep ==
    ASSUME StoreInv, TypeOK', UnusedLogoutEnds, [Next]_vars
    PROVE  UnusedLogoutEnds'
<1> USE DEF StoreInv
<1>1. loggedOut \subseteq Sessions
  BY DEF TypeOK
<1>2. \A s \in loggedOut : TestsOf(s) \subseteq TestsOf(s)'
  BY <1>1, TestsOfGrow DEF TestsOf, Rows
<1>3. ASSUME NEW s \in Sessions, NEW i, NewAccess(s, i), UNCHANGED loggedOut
      PROVE  UnusedLogoutEnds'
  <2>1. s \notin loggedOut /\ \A u \in Sessions : u # s => session'[u] = session[u]
    BY <1>3 DEF NewAccess, IdsUsed, TypeOK
  <2>2. \A u \in loggedOut : session'[u].row => session[u].row
    BY <2>1, <1>1
  <2> QED
    BY <2>2, <1>2, <1>3, LogoutQuiet
<1>4. ASSUME NEW ended, Delete(ended), UNCHANGED loggedOut PROVE UnusedLogoutEnds'
  <2>1. \A u \in loggedOut : session'[u].row => session[u].row
    BY <1>1, <1>4, DeleteEffect
  <2> QED
    BY <2>1, <1>2, <1>4, LogoutQuiet
<1>5. ASSUME UNCHANGED <<session, loggedOut>> PROVE UnusedLogoutEnds'
  BY <1>2, <1>5, LogoutQuiet
<1>6. ASSUME NEW r \in Requests, Logout(r) PROVE UnusedLogoutEnds'
  <2>1. PICK s \in Sessions : s = req[r].session
    BY <1>6 DEF Logout, TypeOK
  <2>2. loggedOut' = loggedOut \cup {s} /\ UNCHANGED test
    BY <1>6, <2>1 DEF Logout
  <2>3. \A u \in Sessions : TestsOf(u)' = TestsOf(u)
    BY <2>2 DEF TestsOf, Rows
  <2>4. \A u \in Sessions : session'[u].row => session[u].row
    BY <1>6, <2>1, DeleteEffect DEF Logout
  <2>5. TestsOf(s) # {} \/ ~session'[s].row
    BY <1>6, <2>1, DeleteEffect DEF Logout
  <2>6. \A u \in loggedOut' : TestsOf(u)' # {} \/ ~session'[u].row
    BY <1>1, <2>1, <2>2, <2>3, <2>4, <2>5 DEF UnusedLogoutEnds
  <2> QED
    BY <2>6 DEF UnusedLogoutEnds
<1>7. ASSUME NEW r \in Requests, ReqOnly(r) PROVE UnusedLogoutEnds'
  BY <1>5, <1>7, ReqOnlyEffect
<1>8. CASE \/ \E s \in Sessions : SignInByCode(s)
           \/ \E r \in Requests, s \in Sessions : OpenSession(r, s)
  BY <1>3, <1>8 DEF SignInByCode, OpenSession
<1>9. CASE Cleanup \/ \E s \in Sessions : Revoke(s)
  BY <1>4, <1>9 DEF Cleanup, Revoke
<1>10. CASE UNCHANGED <<session, loggedOut>>
  BY <1>5, <1>10
<1> QED
  BY <1>6, <1>7, <1>8, <1>9, <1>10
  DEF Next, RequestStep, ReqOnly, Tick, CreateInvite, StoreHops, ConsumeInvite,
      StoreResult, InsertTest, vars

\* A session without tests is gone once its logout was answered.
THEOREM LogoutTheorem == Spec => []UnusedLogoutEnds
<1>1. Init => UnusedLogoutEnds
  BY DEF Init, UnusedLogoutEnds
<1> QED
  BY <1>1, LogoutStep, StoreTheorem, TypeTheorem, PTL DEF Spec

-----------------------------------------------------------------------------
(* The limits of createTest *)

\* Requests that have passed the first check, or both, and have not inserted yet.
Counted(s)   == {r \in Requests : req[r].pc \in {"cooling", "inserting"}
                                  /\ req[r].session = s}
Inserting(s) == {r \in Requests : req[r].pc = "inserting" /\ req[r].session = s}

\* Tests and the requests that may still become tests share one budget.
RateInv == \A s \in Sessions :
    Cardinality(InWindow(s)) + Cardinality(Counted(s))
        <= MaxTests - 1 + Cardinality(Requests)
CooldownInv == \A s \in Sessions :
    Cardinality(Recent(s)) + Cardinality(Inserting(s)) <= Cardinality(Requests)

LEMMA Finite ==
    ASSUME StoreInv, NEW s \in Sessions
    PROVE  /\ IsFiniteSet(InWindow(s)) /\ IsFiniteSet(Recent(s))
           /\ IsFiniteSet(Counted(s)) /\ IsFiniteSet(Inserting(s))
           /\ Cardinality(Counted(s)) <= Cardinality(Requests)
           /\ Cardinality(Inserting(s)) <= Cardinality(Requests)
           /\ Cardinality(Requests) \in Nat
<1>1. InWindow(s) \subseteq Tests /\ Recent(s) \subseteq Tests
  BY RowsAre DEF StoreInv, InWindow, Recent, TestsOf
<1>2. Counted(s) \subseteq Requests /\ Inserting(s) \subseteq Requests
  BY DEF Counted, Inserting
<1> QED
  BY <1>1, <1>2, StoreAssumption, FS_Subset, FS_CardinalityType

\* The two ways in which the budget is kept: nothing is added, or a request of B
\* becomes an element of A.
LEMMA Shrink ==
    ASSUME NEW A, NEW B, NEW C, NEW D, IsFiniteSet(A), IsFiniteSet(B),
           C \subseteq A, D \subseteq B
    PROVE  Cardinality(C) + Cardinality(D) <= Cardinality(A) + Cardinality(B)
<1>1. Cardinality(C) <= Cardinality(A) /\ Cardinality(D) <= Cardinality(B)
  BY FS_Subset
<1>2. /\ Cardinality(A) \in Nat /\ Cardinality(B) \in Nat
      /\ Cardinality(C) \in Nat /\ Cardinality(D) \in Nat
  BY FS_Subset, FS_CardinalityType
<1> QED
  BY <1>1, <1>2

LEMMA Exchange ==
    ASSUME NEW A, NEW B, NEW C, NEW D, NEW a, NEW b, IsFiniteSet(A), IsFiniteSet(B),
           C \subseteq A \cup {a}, b \in B, D \subseteq B \ {b}
    PROVE  Cardinality(C) + Cardinality(D) <= Cardinality(A) + Cardinality(B)
<1>1. Cardinality(A) \in Nat /\ Cardinality(B) \in Nat
  BY FS_CardinalityType
<1>2. IsFiniteSet(A \cup {a}) /\ Cardinality(A \cup {a}) \in {Cardinality(A), Cardinality(A) + 1}
  BY FS_AddElement
<1>3. IsFiniteSet(B \ {b}) /\ Cardinality(B \ {b}) = Cardinality(B) - 1
  BY FS_RemoveElement
<1>4. /\ Cardinality(C) \in Nat /\ Cardinality(C) <= Cardinality(A \cup {a})
      /\ Cardinality(D) \in Nat /\ Cardinality(D) <= Cardinality(B \ {b})
  BY <1>2, <1>3, FS_Subset, FS_CardinalityType
<1> QED
  BY <1>1, <1>2, <1>3, <1>4

LEMMA BudgetTransitive ==
    ASSUME StoreInv, RateInv, CooldownInv, NEW s \in Sessions,
           NEW W, NEW C, NEW R, NEW I,
           IsFiniteSet(W), IsFiniteSet(R), C \subseteq Requests, I \subseteq Requests,
           Cardinality(W) + Cardinality(C)
               <= Cardinality(InWindow(s)) + Cardinality(Counted(s)),
           Cardinality(R) + Cardinality(I)
               <= Cardinality(Recent(s)) + Cardinality(Inserting(s))
    PROVE  /\ Cardinality(W) + Cardinality(C) <= MaxTests - 1 + Cardinality(Requests)
           /\ Cardinality(R) + Cardinality(I) <= Cardinality(Requests)
<1>1. /\ Cardinality(W) \in Nat /\ Cardinality(R) \in Nat
      /\ Cardinality(C) \in Nat /\ Cardinality(I) \in Nat
      /\ Cardinality(InWindow(s)) \in Nat /\ Cardinality(Counted(s)) \in Nat
      /\ Cardinality(Recent(s)) \in Nat /\ Cardinality(Inserting(s)) \in Nat
      /\ Cardinality(Requests) \in Nat
  BY Finite, FS_Subset, FS_CardinalityType, StoreAssumption
<1> QED
  BY <1>1, StoreAssumption DEF RateInv, CooldownInv

LEMMA BudgetBelow ==
    ASSUME StoreInv, RateInv, CooldownInv, NEW s \in Sessions,
           NEW W, NEW C, NEW R, NEW I,
           W \subseteq InWindow(s), C \subseteq Counted(s),
           R \subseteq Recent(s), I \subseteq Inserting(s)
    PROVE  /\ Cardinality(W) + Cardinality(C) <= MaxTests - 1 + Cardinality(Requests)
           /\ Cardinality(R) + Cardinality(I) <= Cardinality(Requests)
<1>1. /\ IsFiniteSet(InWindow(s)) /\ IsFiniteSet(Recent(s))
      /\ IsFiniteSet(Counted(s)) /\ IsFiniteSet(Inserting(s))
  BY Finite
<1>2. IsFiniteSet(W) /\ IsFiniteSet(R)
  BY <1>1, FS_Subset
<1>3. C \subseteq Requests /\ I \subseteq Requests
  BY DEF Counted, Inserting
<1>4. Cardinality(W) + Cardinality(C) <= Cardinality(InWindow(s)) + Cardinality(Counted(s))
  BY <1>1, Shrink
<1>5. Cardinality(R) + Cardinality(I) <= Cardinality(Recent(s)) + Cardinality(Inserting(s))
  BY <1>1, Shrink
<1> QED
  BY <1>2, <1>3, <1>4, <1>5, BudgetTransitive

LEMMA BudgetInit == Init => RateInv /\ CooldownInv
<1> SUFFICES ASSUME Init, NEW s \in Sessions
             PROVE  /\ Cardinality(InWindow(s)) + Cardinality(Counted(s))
                         <= MaxTests - 1 + Cardinality(Requests)
                    /\ Cardinality(Recent(s)) + Cardinality(Inserting(s))
                         <= Cardinality(Requests)
  BY DEF RateInv, CooldownInv
<1>1. StoreInv
  BY StoreInit
<1>2. TestsOf(s) = {}
  BY <1>1, RowsAre DEF Init, StoreInv, TestsOf
<1>3. InWindow(s) = {} /\ Recent(s) = {}
  BY <1>2 DEF InWindow, Recent
<1>4. Counted(s) = {} /\ Inserting(s) = {}
  BY DEF Init, NoRequest, Request, Counted, Inserting
<1>5. Cardinality(Requests) \in Nat
  BY <1>1, Finite
<1> QED
  BY <1>3, <1>4, <1>5, FS_EmptySet, StoreAssumption

\* As time passes tests leave the windows; only InsertTest puts one in.
LEMMA WindowShrinks ==
    ASSUME StoreInv, TypeOK', UNCHANGED test, now' \in {now, now + 1},
           NEW s \in Sessions
    PROVE  InWindow(s)' \subseteq InWindow(s) /\ Recent(s)' \subseteq Recent(s)
<1>1. TestsOf(s)' = TestsOf(s)
  BY DEF TestsOf, Rows
<1>2. now \in Nat /\ Window \in Nat /\ Cooldown \in Nat
  BY StoreAssumption DEF StoreInv, TypeOK
<1>3. \A t \in TestsOf(s) : test[t].created \in Nat
  BY RowsAre DEF StoreInv, TypeOK, TestsOf
<1>4. \A t \in InWindow(s)' : t \in InWindow(s)
  BY <1>1, <1>2, <1>3 DEF InWindow
<1>5. \A t \in Recent(s)' : t \in Recent(s)
  BY <1>1, <1>2, <1>3 DEF Recent
<1> QED
  BY <1>4, <1>5

\* Steps that create no test and let no request pass a check.
LEMMA BudgetQuiet ==
    ASSUME StoreInv, TypeOK', RateInv, CooldownInv,
           UNCHANGED test, now' \in {now, now + 1},
           \A q \in Requests : req'[q] = req[q] \/ req'[q].pc \notin {"cooling", "inserting"}
    PROVE  RateInv' /\ CooldownInv'
<1> SUFFICES ASSUME NEW s \in Sessions
             PROVE  /\ Cardinality(InWindow(s)') + Cardinality(Counted(s)')
                         <= MaxTests - 1 + Cardinality(Requests)
                    /\ Cardinality(Recent(s)') + Cardinality(Inserting(s)')
                         <= Cardinality(Requests)
  BY DEF RateInv, CooldownInv
<1>1. InWindow(s)' \subseteq InWindow(s) /\ Recent(s)' \subseteq Recent(s)
  BY WindowShrinks
<1>2. Counted(s)' \subseteq Counted(s) /\ Inserting(s)' \subseteq Inserting(s)
  BY DEF Counted, Inserting
<1> QED
  BY <1>1, <1>2, Finite, BudgetBelow

\* The first check: the tests that are there leave room for one, and every
\* request at once may now count on it.
LEMMA BudgetCount ==
    ASSUME StoreInv, RateInv, CooldownInv, UNCHANGED <<now, test>>,
           NEW r \in Requests, req[r].pc = "counting", ~OverRate(req[r].session),
           req'[r].pc = "cooling", req'[r].session = req[r].session,
           \A q \in Requests : q # r => req'[q] = req[q]
    PROVE  RateInv' /\ CooldownInv'
<1> SUFFICES ASSUME NEW s \in Sessions
             PROVE  /\ Cardinality(InWindow(s)') + Cardinality(Counted(s)')
                         <= MaxTests - 1 + Cardinality(Requests)
                    /\ Cardinality(Recent(s)') + Cardinality(Inserting(s)')
                         <= Cardinality(Requests)
  BY DEF RateInv, CooldownInv
<1>1. InWindow(s)' = InWindow(s) /\ Recent(s)' = Recent(s)
  BY DEF InWindow, Recent, TestsOf, Rows
<1>2. Inserting(s)' = Inserting(s)
  BY DEF Inserting
<1>3. CASE s = req[r].session
  <2>1. Cardinality(InWindow(s)) <= MaxTests - 1
    <3>1. Cardinality(InWindow(s)) \in Nat
      BY Finite, FS_CardinalityType
    <3> QED
      BY <3>1, <1>3, StoreAssumption DEF OverRate
  <2>2. Cardinality(Counted(s)') <= Cardinality(Requests)
    BY StoreAssumption, FS_Subset DEF Counted
  <2>3. /\ Cardinality(InWindow(s)) \in Nat /\ Cardinality(Counted(s)') \in Nat
        /\ Cardinality(Requests) \in Nat
    <3>1. IsFiniteSet(Counted(s)')
      BY StoreAssumption, FS_Subset DEF Counted
    <3> QED
      BY <3>1, Finite, FS_CardinalityType
  <2>4. Cardinality(InWindow(s)') + Cardinality(Counted(s)')
           <= MaxTests - 1 + Cardinality(Requests)
    BY <1>1, <2>1, <2>2, <2>3, StoreAssumption
  <2> QED
    BY <1>1, <1>2, <2>4 DEF CooldownInv
<1>4. CASE s # req[r].session
  <2>1. Counted(s)' = Counted(s)
    BY <1>4 DEF Counted
  <2> QED
    BY <1>1, <1>2, <2>1 DEF RateInv, CooldownInv
<1> QED
  BY <1>3, <1>4

\* The second check: no test of the cooldown is there.
LEMMA BudgetCool ==
    ASSUME StoreInv, RateInv, CooldownInv, UNCHANGED <<now, test>>,
           NEW r \in Requests, req[r].pc = "cooling", ~Cooling(req[r].session),
           req'[r].pc = "inserting", req'[r].session = req[r].session,
           \A q \in Requests : q # r => req'[q] = req[q]
    PROVE  RateInv' /\ CooldownInv'
<1> SUFFICES ASSUME NEW s \in Sessions
             PROVE  /\ Cardinality(InWindow(s)') + Cardinality(Counted(s)')
                         <= MaxTests - 1 + Cardinality(Requests)
                    /\ Cardinality(Recent(s)') + Cardinality(Inserting(s)')
                         <= Cardinality(Requests)
  BY DEF RateInv, CooldownInv
<1>1. InWindow(s)' = InWindow(s) /\ Recent(s)' = Recent(s)
  BY DEF InWindow, Recent, TestsOf, Rows
<1>2. Counted(s)' = Counted(s)
  BY DEF Counted
<1>3. CASE s = req[r].session
  <2>1. Recent(s) = {}
    BY <1>3 DEF Cooling
  <2>2. /\ IsFiniteSet(Inserting(s)')
        /\ Cardinality(Inserting(s)') <= Cardinality(Requests)
    BY StoreAssumption, FS_Subset DEF Inserting
  <2>3. Cardinality(Inserting(s)') \in Nat
    BY <2>2, FS_CardinalityType
  <2>4. Cardinality(Recent(s)') + Cardinality(Inserting(s)') <= Cardinality(Requests)
    BY <1>1, <2>1, <2>2, <2>3, FS_EmptySet
  <2> QED
    BY <1>1, <1>2, <2>4 DEF RateInv
<1>4. CASE s # req[r].session
  <2>1. Inserting(s)' = Inserting(s)
    BY <1>4 DEF Inserting
  <2> QED
    BY <1>1, <1>2, <2>1 DEF RateInv, CooldownInv
<1> QED
  BY <1>3, <1>4

\* The request becomes the test.
LEMMA BudgetInsert ==
    ASSUME StoreInv, TypeOK', RateInv, CooldownInv,
           NEW r \in Requests, NEW t \in Tests, InsertTest(r, t)
    PROVE  RateInv' /\ CooldownInv'
<1> SUFFICES ASSUME NEW s \in Sessions
             PROVE  /\ Cardinality(InWindow(s)') + Cardinality(Counted(s)')
                         <= MaxTests - 1 + Cardinality(Requests)
                    /\ Cardinality(Recent(s)') + Cardinality(Inserting(s)')
                         <= Cardinality(Requests)
  BY DEF RateInv, CooldownInv
<1> USE DEF StoreInv
<1>1. /\ req'[r].pc = "idle"
      /\ \A q \in Requests : q # r => req'[q] = req[q]
  BY DoneEffect DEF InsertTest, NoRequest, Request
<1>2. req[r].pc = "inserting" /\ now' = now
  BY DEF InsertTest
<1>3. /\ Counted(s)' \subseteq Counted(s) /\ Inserting(s)' \subseteq Inserting(s)
      /\ s = req[r].session => /\ r \in Counted(s) /\ Counted(s)' \subseteq Counted(s) \ {r}
                               /\ r \in Inserting(s)
                               /\ Inserting(s)' \subseteq Inserting(s) \ {r}
  BY <1>1, <1>2 DEF Counted, Inserting
<1>4. CASE UNCHANGED test
  <2>1. InWindow(s)' = InWindow(s) /\ Recent(s)' = Recent(s)
    BY <1>2, <1>4 DEF InWindow, Recent, TestsOf, Rows
  <2> QED
    BY <2>1, <1>3, Finite, BudgetBelow
<1>5. CASE test' = [test EXCEPT ![t] = [used |-> TRUE, row |-> TRUE,
                                        session |-> req[r].session, created |-> now]]
  <2>1. /\ test'[t].session = req[r].session
        /\ \A u \in Tests : u # t => test'[u] = test[u]
    BY <1>5 DEF TypeOK
  <2>2. \A u \in TestsOf(s)' :
           \/ u = t /\ s = req[r].session
           \/ u \in TestsOf(s) /\ test'[u] = test[u]
    <3>1. \A u \in Rows(test') : u \in Tests /\ test'[u].row
      BY DEF Rows, TypeOK
    <3> QED
      BY <2>1, <3>1, RowsAre DEF TestsOf
  <2>3. CASE s = req[r].session
    <3>1. InWindow(s)' \subseteq InWindow(s) \cup {t} /\ Recent(s)' \subseteq Recent(s) \cup {t}
      BY <1>2, <2>2 DEF InWindow, Recent
    <3>2. Cardinality(InWindow(s)') + Cardinality(Counted(s)')
             <= Cardinality(InWindow(s)) + Cardinality(Counted(s))
      BY <3>1, <1>3, <2>3, Finite, Exchange
    <3>3. Cardinality(Recent(s)') + Cardinality(Inserting(s)')
             <= Cardinality(Recent(s)) + Cardinality(Inserting(s))
      BY <3>1, <1>3, <2>3, Finite, Exchange
    <3>4. IsFiniteSet(InWindow(s)') /\ IsFiniteSet(Recent(s)')
      BY <3>1, Finite, FS_AddElement, FS_Subset
    <3>5. Counted(s)' \subseteq Requests /\ Inserting(s)' \subseteq Requests
      BY DEF Counted, Inserting
    <3> QED
      BY <3>2, <3>3, <3>4, <3>5, BudgetTransitive
  <2>4. CASE s # req[r].session
    <3>1. InWindow(s)' \subseteq InWindow(s) /\ Recent(s)' \subseteq Recent(s)
      BY <1>2, <2>2, <2>4 DEF InWindow, Recent
    <3> QED
      BY <3>1, <1>3, Finite, BudgetBelow
  <2> QED
    BY <2>3, <2>4
<1> QED
  BY <1>4, <1>5 DEF InsertTest

LEMMA BudgetStep == StoreInv /\ TypeOK' /\ RateInv /\ CooldownInv /\ [Next]_vars
                        => RateInv' /\ CooldownInv'
<1> SUFFICES ASSUME StoreInv, TypeOK', RateInv, CooldownInv, [Next]_vars
             PROVE  RateInv' /\ CooldownInv'
  OBVIOUS
<1>1. ASSUME UNCHANGED <<test, req>>, now' \in {now, now + 1}
      PROVE  RateInv' /\ CooldownInv'
  BY <1>1, BudgetQuiet
<1>2. ASSUME NEW r \in Requests, Done(r), UNCHANGED <<now, test>>
      PROVE  RateInv' /\ CooldownInv'
  <2>1. \A q \in Requests : req'[q] = req[q] \/ req'[q].pc \notin {"cooling", "inserting"}
    BY <1>2, DoneEffect DEF StoreInv, NoRequest, Request
  <2> QED
    BY <1>2, <2>1, BudgetQuiet
<1>3. ASSUME NEW r \in Requests, ReqOnly(r) PROVE RateInv' /\ CooldownInv'
  <2>1. /\ UNCHANGED <<now, test>>
        /\ \A q \in Requests : q # r => req'[q] = req[q]
    BY <1>3, ReqOnlyEffect DEF StoreInv
  <2>2. CASE req'[r].pc \notin {"cooling", "inserting"}
    BY <2>1, <2>2, BudgetQuiet
  <2>3. CASE req'[r].pc \in {"cooling", "inserting"}
    BY <2>1, <2>3, <1>3, ReqOnlyEffect, BudgetCount, BudgetCool
    DEF StoreInv, NoRequest, Request
  <2> QED
    BY <2>2, <2>3
<1>4. ASSUME NEW r \in Requests, NEW i \in Invites, ConsumeInvite(r, i)
      PROVE  RateInv' /\ CooldownInv'
  <2>1. \A q \in Requests : req'[q] = req[q] \/ req'[q].pc = "opening"
    BY <1>4 DEF ConsumeInvite, Request, StoreInv, TypeOK
  <2> QED
    BY <1>4, <2>1, BudgetQuiet DEF ConsumeInvite
<1>5. ASSUME NEW r \in Requests, StoreResult(r) \/ Logout(r)
      PROVE  RateInv' /\ CooldownInv'
  BY <1>2, <1>5 DEF StoreResult, Logout
<1>6. ASSUME NEW r \in Requests, NEW s \in Sessions, OpenSession(r, s)
      PROVE  RateInv' /\ CooldownInv'
  BY <1>2, <1>6 DEF OpenSession
<1>7. CASE Cleanup
  BY <1>1, <1>7, CleanupKeepsTests
<1>8. CASE \/ Tick
           \/ \E s \in Sessions : SignInByCode(s) \/ Revoke(s)
           \/ \E i \in Invites : CreateInvite(i)
           \/ \E t \in Tests : StoreHops(t)
           \/ UNCHANGED vars
  BY <1>1, <1>8 DEF Tick, SignInByCode, Revoke, CreateInvite, StoreHops, vars
<1> QED
  BY <1>3, <1>4, <1>5, <1>6, <1>7, <1>8, BudgetInsert DEF Next, RequestStep, ReqOnly

LEMMA BudgetTheorem == Spec => [](RateInv /\ CooldownInv)
  BY BudgetInit, BudgetStep, StoreTheorem, TypeTheorem, PTL DEF Spec

\* In any window a session gets at most MaxTests - 1 tests and one more for each
\* request that can be handled at once.
THEOREM RateTheorem == Spec => []RateBounded
<1>1. StoreInv /\ RateInv => RateBounded
  <2> SUFFICES ASSUME StoreInv, RateInv, NEW s \in Sessions
               PROVE  Cardinality(InWindow(s)) <= MaxTests - 1 + Cardinality(Requests)
    BY DEF RateBounded
  <2>1. /\ Cardinality(InWindow(s)) \in Nat /\ Cardinality(Counted(s)) \in Nat
        /\ Cardinality(Requests) \in Nat
    BY Finite, FS_CardinalityType
  <2> QED
    BY <2>1, StoreAssumption DEF RateInv
<1> QED
  BY <1>1, StoreTheorem, BudgetTheorem, PTL

\* In any cooldown a session gets at most one test for each request at once.
THEOREM CooldownTheorem == Spec => []CooldownBounded
<1>1. StoreInv /\ CooldownInv => CooldownBounded
  <2> SUFFICES ASSUME StoreInv, CooldownInv, NEW s \in Sessions
               PROVE  Cardinality(Recent(s)) <= Cardinality(Requests)
    BY DEF CooldownBounded
  <2>1. /\ Cardinality(Recent(s)) \in Nat /\ Cardinality(Inserting(s)) \in Nat
        /\ Cardinality(Requests) \in Nat
    BY Finite, FS_CardinalityType
  <2> QED
    BY <2>1 DEF CooldownInv
<1> QED
  BY <1>1, StoreTheorem, BudgetTheorem, PTL
=============================================================================
