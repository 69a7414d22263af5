------------------------------ MODULE NodeProofs ------------------------------
(***************************************************************************)
(* Theorems about the two ends of a node's life: its registration, for any *)
(* number of hosts, tokens, attempts and failures (NodeJoin), and its      *)
(* control channel, for any number of overlapping connections, lost        *)
(* connections, restarts and crashes (NodeControl).                        *)
(***************************************************************************)
EXTENDS NodeControl, NodeJoin, TLAPS


-----------------------------------------------------------------------------
(* The control channel: the type invariant *)

LEMMA TypeInit == Init => TypeOK
<1> SUFFICES ASSUME Init PROVE TypeOK
  OBVIOUS
<1>1. /\ inbox \in [Conns -> SUBSET BOOLEAN] /\ queue \in [Conns -> 0..ChanCap]
      /\ cuts \in 0..MaxCuts /\ crashes \in 0..MaxCrashes
  BY ControlAssumption DEF Init
<1> QED
  BY <1>1 DEF Init, TypeOK

LEMMA TypeAgent ==
    ASSUME TypeOK, Heartbeat \/ Hangup \/ AgentRestart \/ TlsChange \/ Cut
    PROVE  TypeOK'
<1> USE ControlAssumption DEF TypeOK, serverVars, agentVars
<1>1. CASE Heartbeat
  BY <1>1 DEF Heartbeat
<1>2. CASE Hangup \/ TlsChange
  BY <1>2 DEF Hangup, TlsChange
<1>3. CASE AgentRestart \/ Cut
  <2>1. cuts' \in 0..MaxCuts
    BY <1>3 DEF AgentRestart, Cut
  <2>2. conn' \in Conns \cup {None} /\ linkUp' \in BOOLEAN /\ tlsReady' \in BOOLEAN
    BY <1>3 DEF AgentRestart, Cut
  <2>3. UNCHANGED <<server, row, serverVars, crashes, overlap>>
    BY <1>3 DEF AgentRestart, Cut
  <2> QED
    BY <2>1, <2>2, <2>3
<1> QED
  BY <1>1, <1>2, <1>3

LEMMA TypeConn ==
    ASSUME TypeOK, NEW c \in Conns, ConnStep(c)
    PROVE  TypeOK'
<1> USE ControlAssumption DEF TypeOK, agentVars, Update
<1>1. CASE Dial(c)
  <2>1. overlap' \subseteq Conns
    BY <1>1 DEF Dial
  <2> QED
    BY <2>1, <1>1 DEF Dial
<1>2. CASE Register(c)
  BY <1>2 DEF Register
<1>3. CASE MarkOnline(c)
  BY <1>3 DEF MarkOnline
<1>4. CASE WriteCommand(c)
  BY <1>4 DEF WriteCommand
<1>5. CASE WriteFails(c)
  BY <1>5 DEF WriteFails
<1>6. CASE MarkOffline(c)
  BY <1>6 DEF MarkOffline
<1>7. CASE Unregister(c)
  BY <1>7 DEF Unregister, Orphaned
<1>8. CASE ReadHeartbeat(c)
  BY <1>8 DEF ReadHeartbeat
<1>9. CASE ApplyHeartbeat(c)
  BY <1>9 DEF ApplyHeartbeat
<1>10. CASE ReadFails(c)
  BY <1>10 DEF ReadFails
<1> QED
  BY <1>1, <1>2, <1>3, <1>4, <1>5, <1>6, <1>7, <1>8, <1>9, <1>10 DEF ConnStep

LEMMA TypeServer ==
    ASSUME TypeOK,
           \/ \E r \in Requests : RouteLoad(r) \/ RouteSend(r)
           \/ DeleteNode \/ ServerCrash \/ ServerStart \/ UNCHANGED vars
    PROVE  TypeOK'
<1> USE ControlAssumption DEF TypeOK, serverVars, agentVars
<1>1. ASSUME NEW r \in Requests, RouteLoad(r) \/ RouteSend(r) PROVE TypeOK'
  <2>1. CASE RouteLoad(r)
    BY <2>1 DEF RouteLoad
  <2>2. CASE RouteSend(r)
    <3>1. aim' \in [Requests -> Conns \cup {None, Gone}]
      BY <2>2 DEF RouteSend
    <3>2. queue' \in [Conns -> 0..ChanCap]
      BY <2>2 DEF RouteSend
    <3> QED
      BY <2>2, <3>1, <3>2 DEF RouteSend
  <2> QED
    BY <1>1, <2>1, <2>2
<1>2. CASE DeleteNode
  BY <1>2 DEF DeleteNode
<1>3. CASE ServerCrash
  <2>1. crashes' \in 0..MaxCrashes
    BY <1>3 DEF ServerCrash
  <2>2. inbox' \in [Conns -> SUBSET BOOLEAN] /\ queue' \in [Conns -> 0..ChanCap]
    BY <1>3 DEF ServerCrash
  <2> QED
    BY <2>1, <2>2, <1>3 DEF ServerCrash
<1>4. CASE ServerStart
  BY <1>4 DEF ServerStart
<1>5. CASE UNCHANGED vars
  BY <1>5 DEF vars
<1> QED
  BY <1>1, <1>2, <1>3, <1>4, <1>5

\* Every variable has its type: in particular the command channel never exceeds its
\* capacity, however many route requests found it in the registry with room left.
THEOREM TypeTheorem == Spec => []TypeOK
<1>1. TypeOK /\ [Next]_vars => TypeOK'
  BY TypeAgent, TypeConn, TypeServer DEF Next
<1> QED
  BY <1>1, TypeInit, PTL DEF Spec

-----------------------------------------------------------------------------
(* The inductive invariant *)

\* A connection outside overlap has the server to itself for as long as any
\* goroutine of it lives.
AloneIsAlone == \A c \in Conns \ overlap :
    Alive(c) => \A d \in Conns \ {c} : ~Alive(d)

\* Its entry lasts from its Store to its Delete, there being no other to replace or
\* remove it.
AloneHasEntry == \A c \in Conns \ overlap :
    handler[c] \in {"stored", "serving", "leaving", "offline"} => entry = c

\* It alone writes the status.
AloneIsOnline == \A c \in Conns \ overlap :
    handler[c] = "serving" /\ row.present => row.status = "online"

\* A deleted node's row says nothing.
DeletedIsBlank == ~row.present => ~row.tls

ControlInv ==
    /\ TypeOK
    /\ RegistryNamesHandler
    /\ AloneIsAlone
    /\ AloneHasEntry
    /\ AloneIsOnline
    /\ DeletedIsBlank

LEMMA InvInit == Init => ControlInv
  BY TypeInit DEF Init, ControlInv, RegistryNamesHandler, AloneIsAlone, AloneHasEntry,
                  AloneIsOnline, DeletedIsBlank, Alive

\* Steps that leave the handlers, the registry and the row alone.
LEMMA QuietStep ==
    ASSUME ControlInv, TypeOK', UNCHANGED <<row, entry, handler, reader, overlap>>
    PROVE  ControlInv'
<1> USE DEF ControlInv
<1>1. RegistryNamesHandler' /\ AloneIsAlone' /\ AloneHasEntry'
  BY DEF RegistryNamesHandler, AloneIsAlone, AloneHasEntry, Alive
<1>2. AloneIsOnline' /\ DeletedIsBlank'
  BY DEF AloneIsOnline, DeletedIsBlank
<1> QED
  BY <1>1, <1>2

LEMMA DialStep ==
    ASSUME ControlInv, TypeOK', NEW c \in Conns, Dial(c)
    PROVE  ControlInv'
<1> USE DEF ControlInv, Dial
<1>1. UNCHANGED <<row, entry, reader>>
  OBVIOUS
<1>2. handler[c] = "none" /\ handler'[c] = "accepted" /\ reader[c] = "none"
  BY DEF Free, Alive, TypeOK
<1>3. \A d \in Conns : d # c => handler'[d] = handler[d]
  BY DEF TypeOK
<1>4. \A d \in Conns : d # c /\ d \notin overlap' => ~Alive(d)
  OBVIOUS
<1>5. c \notin overlap' => \A d \in Conns : ~Alive(d)
  OBVIOUS
<1>6. RegistryNamesHandler'
  BY <1>1, <1>2, <1>3 DEF RegistryNamesHandler, TypeOK
<1>7. AloneIsAlone'
  BY <1>1, <1>2, <1>3, <1>4, <1>5 DEF AloneIsAlone, Alive
<1>8. AloneHasEntry' /\ AloneIsOnline'
  BY <1>1, <1>2, <1>3, <1>4 DEF AloneHasEntry, AloneIsOnline, Alive
<1> QED
  BY <1>1, <1>6, <1>7, <1>8 DEF DeletedIsBlank

\* An UPDATE sets what it says, unless the node is deleted.
LEMMA UpdateEffect ==
    ASSUME TypeOK, NEW status, NEW tls, Update(status, tls)
    PROVE  /\ row'.present = row.present
           /\ row.present => row'.status = status /\ row'.tls = tls
           /\ ~row.present => row' = row
  BY DEF TypeOK, Update

\* A step of a handler that exists: connections alive afterwards were alive before.
LEMMA HandlerStepInv ==
    ASSUME ControlInv, TypeOK', NEW c \in Conns,
           Register(c) \/ MarkOnline(c) \/ WriteFails(c) \/ MarkOffline(c) \/ Unregister(c)
    PROVE  ControlInv'
<1> USE DEF ControlInv
<1>1. UNCHANGED overlap /\ Alive(c) /\ handler[c] # "none"
  BY DEF Register, MarkOnline, WriteFails, MarkOffline, Unregister, Alive
<1>2. \A d \in Conns : d # c => handler'[d] = handler[d] /\ reader'[d] = reader[d]
  <2>1. CASE Register(c) \/ WriteFails(c)
    BY <2>1 DEF Register, WriteFails, TypeOK
  <2>2. CASE MarkOnline(c)
    BY <2>2 DEF MarkOnline, TypeOK
  <2>3. CASE MarkOffline(c)
    BY <2>3 DEF MarkOffline, TypeOK
  <2>4. CASE Unregister(c)
    BY <2>4 DEF Unregister, TypeOK
  <2> QED
    BY <2>1, <2>2, <2>3, <2>4
<1>3. \A d \in Conns \ overlap : Alive(d) => d = c
  BY <1>1 DEF AloneIsAlone
<1>4. AloneIsAlone'
  BY <1>1, <1>2 DEF AloneIsAlone, Alive
<1>5. RegistryNamesHandler'
  <2>1. CASE Register(c)
    BY <2>1 DEF Register, RegistryNamesHandler, TypeOK
  <2>2. CASE MarkOnline(c) \/ WriteFails(c) \/ MarkOffline(c)
    <3>1. UNCHANGED entry /\ handler'[c] \in {"serving", "leaving", "offline"}
      BY <2>2 DEF MarkOnline, WriteFails, MarkOffline, TypeOK
    <3> QED
      BY <3>1, <1>2 DEF RegistryNamesHandler, TypeOK
  <2>3. CASE Unregister(c)
    BY <2>3 DEF Unregister, RegistryNamesHandler
  <2> QED
    BY <2>1, <2>2, <2>3
<1>6. \A d \in Conns \ overlap : d # c => handler'[d] = "none"
  BY <1>2, <1>3 DEF Alive
<1>7. AloneHasEntry'
  <2>1. c \notin overlap /\ handler'[c] \in {"stored", "serving", "leaving", "offline"}
          => entry' = c
    BY DEF Register, MarkOnline, WriteFails, MarkOffline, Unregister, AloneHasEntry, TypeOK
  <2> QED
    BY <1>1, <1>6, <2>1 DEF AloneHasEntry
<1>8. AloneIsOnline'
  <2>1. handler'[c] = "serving" => MarkOnline(c)
    BY DEF Register, MarkOnline, WriteFails, MarkOffline, Unregister, TypeOK
  <2>2. MarkOnline(c) /\ row'.present => row'.status = "online"
    BY DEF MarkOnline, Update, TypeOK
  <2> QED
    BY <1>1, <1>6, <2>1, <2>2 DEF AloneIsOnline
<1>9. DeletedIsBlank'
  <2>1. CASE Register(c) \/ WriteFails(c) \/ Unregister(c)
    BY <2>1 DEF Register, WriteFails, Unregister, DeletedIsBlank
  <2>2. CASE MarkOnline(c)
    BY <2>2, UpdateEffect DEF MarkOnline, DeletedIsBlank
  <2>3. CASE MarkOffline(c)
    BY <2>3, UpdateEffect DEF MarkOffline, DeletedIsBlank
  <2> QED
    BY <2>1, <2>2, <2>3
<1> QED
  BY <1>4, <1>5, <1>7, <1>8, <1>9

LEMMA ReaderStep ==
    ASSUME ControlInv, TypeOK', NEW c \in Conns,
           ReadHeartbeat(c) \/ ApplyHeartbeat(c) \/ ReadFails(c)
    PROVE  ControlInv'
<1> USE DEF ControlInv
<1>1. UNCHANGED <<overlap, handler, entry>> /\ Alive(c)
  BY DEF ReadHeartbeat, ApplyHeartbeat, ReadFails, Alive
<1>2. \A d \in Conns : d # c => reader'[d] = reader[d]
  BY DEF ReadHeartbeat, ApplyHeartbeat, ReadFails, TypeOK
<1>3. AloneIsAlone'
  BY <1>1, <1>2 DEF AloneIsAlone, Alive
<1>4. RegistryNamesHandler' /\ AloneHasEntry'
  BY <1>1 DEF RegistryNamesHandler, AloneHasEntry
<1>5. \/ row' = row
      \/ /\ row'.present = row.present
         /\ row.present => row'.status = "online"
         /\ ~row.present => row' = row
  <2>1. CASE ApplyHeartbeat(c)
    BY <2>1, UpdateEffect DEF ApplyHeartbeat
  <2>2. CASE ReadHeartbeat(c) \/ ReadFails(c)
    BY <2>2 DEF ReadHeartbeat, ReadFails
  <2> QED
    BY <2>1, <2>2
<1>6. AloneIsOnline'
  BY <1>1, <1>5 DEF AloneIsOnline
<1>7. DeletedIsBlank'
  BY <1>5 DEF DeletedIsBlank
<1> QED
  BY <1>3, <1>4, <1>6, <1>7

LEMMA CrashStep == ASSUME ControlInv, TypeOK', ServerCrash PROVE ControlInv'
  BY DEF ServerCrash, ControlInv, RegistryNamesHandler, AloneIsAlone, AloneHasEntry,
         AloneIsOnline, DeletedIsBlank, Alive

LEMMA DeleteStep == ASSUME ControlInv, TypeOK', DeleteNode PROVE ControlInv'
<1> USE DEF ControlInv, DeleteNode, serverVars
<1>1. RegistryNamesHandler' /\ AloneIsAlone' /\ AloneHasEntry'
  BY DEF RegistryNamesHandler, AloneIsAlone, AloneHasEntry, Alive
<1>2. AloneIsOnline' /\ DeletedIsBlank'
  BY DEF AloneIsOnline, DeletedIsBlank
<1> QED
  BY <1>1, <1>2

LEMMA InvStep == ControlInv /\ TypeOK' /\ [Next]_vars => ControlInv'
<1> SUFFICES ASSUME ControlInv, TypeOK', [Next]_vars PROVE ControlInv'
  OBVIOUS
<1>1. CASE \E c \in Conns : WriteCommand(c)
  BY <1>1, QuietStep DEF WriteCommand
<1>2. CASE Heartbeat \/ Hangup \/ AgentRestart \/ TlsChange \/ Cut
  BY <1>2, QuietStep DEF Heartbeat, Hangup, AgentRestart, TlsChange, Cut, serverVars
<1>3. CASE \/ \E r \in Requests : RouteLoad(r) \/ RouteSend(r)
          \/ ServerStart \/ UNCHANGED vars
  BY <1>3, QuietStep DEF RouteLoad, RouteSend, ServerStart, serverVars, vars
<1> QED
  BY <1>1, <1>2, <1>3, DialStep, HandlerStepInv, ReaderStep, CrashStep, DeleteStep
  DEF Next, ConnStep

\* The strengthened invariant of the control channel.
THEOREM InvTheorem == Spec => []ControlInv
  BY InvInit, InvStep, TypeTheorem, PTL DEF Spec

-----------------------------------------------------------------------------
(* The properties *)

\* What the registry names, at the moment route asks it, is the channel of a handler
\* that has not returned, however many handlers of the node overlap.
THEOREM RegistryTheorem == Spec => []RegistryNamesHandler
<1>1. ControlInv => RegistryNamesHandler
  BY DEF ControlInv
<1> QED
  BY <1>1, InvTheorem, PTL

\* A connection that no other has overlapped is routable and online.
THEOREM AloneTheorem == Spec => []AloneIsRegistered
<1>1. ControlInv => AloneIsRegistered
  BY DEF ControlInv, AloneHasEntry, AloneIsOnline, AloneIsRegistered
<1> QED
  BY <1>1, InvTheorem, PTL

\* tls_ready of a connection that no other has overlapped comes from its own
\* heartbeats.
TlsStep == \A c \in Conns \ overlap' :
    handler'[c] = "serving" /\ row'.tls =>
        /\ handler[c] = "serving"
        /\ row.tls \/ (reader[c] = "updating" /\ beat[c])

THEOREM TlsTheorem == Spec => TlsFromThisConnection
<1>1. ControlInv /\ [Next]_vars => TlsStep
  <2> SUFFICES ASSUME ControlInv, [Next]_vars,
                      NEW c \in Conns, c \notin overlap', handler'[c] = "serving", row'.tls
               PROVE  /\ handler[c] = "serving"
                      /\ row.tls \/ (reader[c] = "updating" /\ beat[c])
    BY DEF TlsStep
  <2> USE DEF ControlInv
  <2>1. CASE \E d \in Conns : MarkOnline(d)
    BY <2>1 DEF MarkOnline, Update, DeletedIsBlank, TypeOK, AloneIsAlone, Alive
  <2>2. CASE \E d \in Conns : MarkOffline(d)
    BY <2>2 DEF MarkOffline, Update, DeletedIsBlank, TypeOK
  <2>3. CASE \E d \in Conns : ApplyHeartbeat(d)
    <3>1. PICK d \in Conns : ApplyHeartbeat(d)
      BY <2>3
    <3>2. handler[c] = "serving" /\ c \notin overlap
      BY <3>1 DEF ApplyHeartbeat
    <3>3. d = c
      BY <3>1, <3>2 DEF ApplyHeartbeat, AloneIsAlone, Alive
    <3> QED
      BY <3>1, <3>2, <3>3 DEF ApplyHeartbeat, Update, TypeOK
  <2>4. CASE \E d \in Conns : Dial(d) \/ Register(d) \/ WriteFails(d) \/ Unregister(d)
    BY <2>4 DEF Dial, Register, WriteFails, Unregister, TypeOK
  <2>5. CASE \E d \in Conns : WriteCommand(d) \/ ReadHeartbeat(d) \/ ReadFails(d)
    BY <2>5 DEF WriteCommand, ReadHeartbeat, ReadFails
  <2>6. CASE Heartbeat \/ Hangup \/ AgentRestart \/ TlsChange \/ Cut
    BY <2>6 DEF Heartbeat, Hangup, AgentRestart, TlsChange, Cut, serverVars
  <2>7. CASE \/ \E r \in Requests : RouteLoad(r) \/ RouteSend(r)
            \/ DeleteNode \/ ServerCrash \/ ServerStart \/ UNCHANGED vars
    BY <2>7
    DEF RouteLoad, RouteSend, DeleteNode, ServerCrash, ServerStart, serverVars, vars
  <2> QED
    BY <2>1, <2>2, <2>3, <2>4, <2>5, <2>6, <2>7 DEF Next, ConnStep
<1> QED
  BY <1>1, InvTheorem, PTL DEF Spec, TlsFromThisConnection, TlsStep


-----------------------------------------------------------------------------
(* Registration: the inductive invariant *)

Spent == {"consumed", "inserting", "registered"}

\* A handler past the UPDATE of join_tokens has marked its token.
SpentIsUsed == \A k \in Keys :
    attempt[k].pc \in Spent => token[attempt[k].token] = "used"

\* The node of a registered attempt is gone or carries its key: a node's row is
\* written by handlers of its own token only, and there is one of them at most.
RegisteredHasRow == \A k \in Keys :
    attempt[k].pc = "registered" => node[attempt[k].token] \in {Absent, k}

\* An agent that has been answered, or has saved its identity, has the key of a
\* registered attempt and that attempt's node.
Registered(k, t) == attempt[k].pc = "registered" /\ attempt[k].token = t

HeldIsRegistered == \A a \in Agents :
    /\ proc[a].key # Null => attempt[proc[a].key].pc # "none"
    /\ proc[a].node # Null => Registered(proc[a].key, proc[a].node)
    /\ config[a].key # Null => Registered(config[a].key, config[a].node)

\* A key is drawn once, so no two hosts hold the same.
Held(a) == {config[a].key, proc[a].key} \ {Null}
HeldOnce == \A a, b \in Agents : a # b => Held(a) \cap Held(b) = {}

JoinInv ==
    /\ JoinTypeOK
    /\ SpentIsUsed
    /\ TokenRegistersOnce
    /\ RegisteredHasRow
    /\ HeldIsRegistered
    /\ HeldOnce

-----------------------------------------------------------------------------
\* Every configuration file and every running process is of one of the shapes that
\* the installer and the agent leave: the type invariant of the module.
THEOREM JoinTypeTheorem == JoinSpec => []JoinTypeOK
<1> USE JoinAssumption DEF JoinTypeOK
<1>1. JoinInit => JoinTypeOK
  BY DEF JoinInit, NoConfig, Down, NoAttempt, Absent
<1>2. JoinTypeOK /\ [JoinNext]_joinVars => JoinTypeOK'
  <2> SUFFICES ASSUME JoinTypeOK, [JoinNext]_joinVars PROVE JoinTypeOK'
    OBVIOUS
  <2>1. ASSUME NEW t \in Tokens, CreateJoin(t) \/ Expire(t) \/ DeleteRow(t) PROVE JoinTypeOK'
    BY <2>1 DEF CreateJoin, Expire, DeleteRow, Absent
  <2>2. ASSUME NEW a \in Agents, NEW t \in Tokens, Install(a, t) PROVE JoinTypeOK'
    BY <2>2 DEF Install, NoConfig
  <2>3. ASSUME NEW a \in Agents, StartJoined(a) PROVE JoinTypeOK'
    BY <2>3 DEF StartJoined
  <2>4. ASSUME NEW a \in Agents, NEW k \in Keys, StartJoining(a, k) PROVE JoinTypeOK'
    BY <2>4 DEF StartJoining
  <2>5. ASSUME NEW a \in Agents, Answered(a) PROVE JoinTypeOK'
    BY <2>5 DEF Answered
  <2>6. ASSUME NEW a \in Agents, Rejected(a) PROVE JoinTypeOK'
    BY <2>6 DEF Rejected, Down
  <2>7. ASSUME NEW a \in Agents, Save(a) PROVE JoinTypeOK'
    BY <2>7 DEF Save
  <2>8. ASSUME NEW a \in Agents, AgentFails(a) PROVE JoinTypeOK'
    BY <2>8 DEF AgentFails, Fault, Down
  <2>9. ASSUME NEW k \in Keys, HandlerStep(k) PROVE JoinTypeOK'
    <3> USE <2>9 DEF HandlerStep, SelectToken, ConsumeToken, UpdateNode, InsertNode, Handler
    <3>1. attempt[k] \in [pc : {"received", "selected", "consumed", "inserting"}, token : Tokens]
      OBVIOUS
    <3>2. UNCHANGED <<config, proc, faults>>
      OBVIOUS
    <3>3. \E pc \in {"selected", "consumed", "inserting", "registered", "refused"} :
             attempt' = [attempt EXCEPT ![k].pc = pc]
      OBVIOUS
    <3>4. token' \in [Tokens -> {"none", "open", "used", "expired"}]
      BY <3>1
    <3>5. node' \in [Tokens -> {Absent, Null} \cup Keys]
      BY <3>1
    <3> QED
      BY <3>1, <3>2, <3>3, <3>4, <3>5
  <2>10. ASSUME NEW k \in Keys, HandlerFails(k) PROVE JoinTypeOK'
    BY <2>10 DEF HandlerFails, Fault, Handler
  <2>11. CASE UNCHANGED joinVars
    BY <2>11 DEF joinVars
  <2> QED
    BY <2>1, <2>2, <2>3, <2>4, <2>5, <2>6, <2>7, <2>8, <2>9, <2>10, <2>11
    DEF JoinNext, AgentStep
<1> QED
  BY <1>1, <1>2, PTL DEF JoinSpec

LEMMA JoinInitInv == JoinInit => JoinInv
<1> SUFFICES ASSUME JoinInit PROVE JoinInv
  OBVIOUS
<1>1. JoinTypeOK
  BY JoinAssumption DEF JoinTypeOK, JoinInit, NoConfig, Down, NoAttempt
<1>2. SpentIsUsed /\ TokenRegistersOnce /\ RegisteredHasRow
  BY DEF JoinInit, NoAttempt, SpentIsUsed, TokenRegistersOnce, Spenders, RegisteredHasRow, Spent
<1>3. HeldIsRegistered /\ HeldOnce
  BY DEF JoinInit, NoConfig, Down, HeldIsRegistered, HeldOnce, Held
<1> QED
  BY <1>1, <1>2, <1>3 DEF JoinInv

\* The administrator writes no identity into an agent's configuration.
LEMMA AdminKeepsIdentity ==
    ASSUME JoinTypeOK, NEW t \in Tokens,
           CreateJoin(t) \/ Expire(t) \/ DeleteRow(t) \/ \E a \in Agents : Install(a, t)
    PROVE  \A a \in Agents : config'[a].key = config[a].key /\ config'[a].node = config[a].node
<1> USE JoinAssumption
<1>1. ASSUME NEW a \in Agents, Install(a, t)
      PROVE  \A b \in Agents : config'[b].key = config[b].key /\ config'[b].node = config[b].node
  <2>1. config[a].key = Null /\ config[a].node = Null
    BY <1>1 DEF Install, JoinTypeOK
  <2>2. config' = [config EXCEPT ![a] = [NoConfig EXCEPT !.file = TRUE, !.token = t]]
    BY <1>1 DEF Install
  <2>3. config'[a].key = Null /\ config'[a].node = Null
    BY <2>2 DEF NoConfig, JoinTypeOK
  <2>4. \A b \in Agents : b # a => config'[b] = config[b]
    BY <2>2 DEF JoinTypeOK
  <2> QED
    BY <2>1, <2>3, <2>4
<1> QED
  BY <1>1 DEF CreateJoin, Expire, DeleteRow

\* What the administrator and the installer do touches no handler and no identity.
LEMMA AdminStep ==
    ASSUME JoinInv, JoinTypeOK', NEW t \in Tokens,
           CreateJoin(t) \/ Expire(t) \/ DeleteRow(t) \/ \E a \in Agents : Install(a, t)
    PROVE  JoinInv'
<1> USE JoinAssumption DEF JoinInv
<1>1. UNCHANGED <<attempt, proc>>
  BY DEF CreateJoin, Expire, DeleteRow, Install
<1>2. SpentIsUsed'
  BY <1>1 DEF CreateJoin, Expire, DeleteRow, Install, SpentIsUsed, Spent, JoinTypeOK
<1>3. TokenRegistersOnce'
  BY <1>1 DEF TokenRegistersOnce, Spenders
<1>4. RegisteredHasRow'
  BY <1>1 DEF CreateJoin, Expire, DeleteRow, Install, SpentIsUsed, Spent, RegisteredHasRow, JoinTypeOK
<1>5. \A a \in Agents : config'[a].key = config[a].key /\ config'[a].node = config[a].node
  BY AdminKeepsIdentity
<1>6. HeldIsRegistered' /\ HeldOnce'
  BY <1>1, <1>5 DEF HeldIsRegistered, Registered, HeldOnce, Held
<1> QED
  BY <1>2, <1>3, <1>4, <1>6

\* A step of a process that leaves the handlers alone.
LEMMA ProcessStep ==
    ASSUME JoinInv, JoinTypeOK', NEW a \in Agents,
           StartJoined(a) \/ Answered(a) \/ Rejected(a) \/ Save(a) \/ AgentFails(a)
    PROVE  JoinInv'
<1> USE JoinAssumption DEF JoinInv
<1>1. UNCHANGED <<token, node, attempt>>
  BY DEF StartJoined, Answered, Rejected, Save, AgentFails
<1>2. SpentIsUsed' /\ TokenRegistersOnce' /\ RegisteredHasRow'
  BY <1>1 DEF SpentIsUsed, TokenRegistersOnce, Spenders, RegisteredHasRow
<1>3. \A b \in Agents : b # a => config'[b] = config[b] /\ proc'[b] = proc[b]
  BY DEF StartJoined, Answered, Rejected, Save, AgentFails, JoinTypeOK
<1>4. /\ proc'[a].key # Null => attempt[proc'[a].key].pc # "none"
      /\ proc'[a].node # Null => Registered(proc'[a].key, proc'[a].node)
      /\ config'[a].key # Null => Registered(config'[a].key, config'[a].node)
  <2>1. CASE StartJoined(a)
    BY <2>1 DEF StartJoined, HeldIsRegistered, Registered, JoinTypeOK
  <2>2. CASE Answered(a)
    BY <2>2 DEF Answered, HeldIsRegistered, Registered, JoinTypeOK
  <2>3. CASE Save(a)
    BY <2>3 DEF Save, HeldIsRegistered, Registered, JoinTypeOK
  <2>4. CASE Rejected(a) \/ AgentFails(a)
    BY <2>4 DEF Rejected, AgentFails, Down, HeldIsRegistered, Registered, JoinTypeOK
  <2> QED
    BY <2>1, <2>2, <2>3, <2>4
<1>5. HeldIsRegistered'
  BY <1>1, <1>3, <1>4 DEF HeldIsRegistered, Registered
<1>6. Held(a)' \subseteq Held(a)
  BY DEF StartJoined, Answered, Rejected, Save, AgentFails, Down, Held, JoinTypeOK
<1>7. HeldOnce'
  BY <1>3, <1>6 DEF HeldOnce, Held
<1> QED
  BY <1>2, <1>5, <1>7

\* A process draws a key and a handler receives it.
LEMMA StartStep ==
    ASSUME JoinInv, JoinTypeOK', NEW a \in Agents, NEW k \in Keys, StartJoining(a, k)
    PROVE  JoinInv'
<1> USE JoinAssumption DEF JoinInv, StartJoining
<1>1. \A l \in Keys : l # k => attempt'[l] = attempt[l]
  BY DEF JoinTypeOK
<1>2. attempt[k].pc = "none" /\ attempt'[k].pc = "received"
  BY DEF NoAttempt, JoinTypeOK
<1>3. SpentIsUsed' /\ TokenRegistersOnce' /\ RegisteredHasRow'
  BY <1>1, <1>2 DEF SpentIsUsed, Spent, TokenRegistersOnce, Spenders, RegisteredHasRow
<1>4. \A b \in Agents : k \notin Held(b)
  BY <1>2 DEF HeldIsRegistered, Registered, Held
<1>5. \A b \in Agents : b # a => config'[b] = config[b] /\ proc'[b] = proc[b]
  BY DEF JoinTypeOK
<1>6. config' = config /\ config[a].key = Null /\ proc'[a].key = k /\ proc'[a].node = Null
  BY DEF JoinTypeOK
<1>7. HeldIsRegistered'
  BY <1>1, <1>2, <1>4, <1>5, <1>6 DEF HeldIsRegistered, Registered, Held, JoinTypeOK
<1>8. HeldOnce'
  BY <1>4, <1>5, <1>6 DEF HeldOnce, Held
<1> QED
  BY <1>3, <1>7, <1>8

\* A statement of a handler, or its end.
LEMMA JoinHandlerStep ==
    ASSUME JoinInv, JoinTypeOK', NEW k \in Keys, HandlerStep(k) \/ HandlerFails(k)
    PROVE  JoinInv'
<1> USE JoinAssumption DEF JoinInv
<1> DEFINE t == attempt[k].token
<1> USE DEF HandlerStep, SelectToken, ConsumeToken, UpdateNode, InsertNode, HandlerFails, Handler
<1>1. UNCHANGED <<config, proc>>
  OBVIOUS
<1>2. \A l \in Keys : l # k => attempt'[l] = attempt[l]
  BY DEF JoinTypeOK
<1>3. t \in Tokens /\ attempt'[k].token = t
  BY DEF JoinTypeOK
<1>4. attempt[k].pc \notin {"none", "registered"} /\ attempt'[k].pc # "none"
  BY DEF JoinTypeOK
<1>5. attempt'[k].pc \in Spent => token'[t] = "used" /\ (token[t] = "open" \/ attempt[k].pc \in Spent)
  BY DEF JoinTypeOK, SpentIsUsed, Spent
<1>6. \A u \in Tokens : token'[u] = token[u] \/ token'[u] = "used"
  BY <1>3 DEF JoinTypeOK
<1>7. SpentIsUsed'
  BY <1>2, <1>3, <1>5, <1>6 DEF SpentIsUsed, JoinTypeOK, Spent
<1>8. attempt'[k].pc \in Spent =>
        \A l \in Keys : attempt[l].pc \in Spent /\ attempt[l].token = t => l = k
  BY <1>3, <1>5 DEF SpentIsUsed, TokenRegistersOnce, Spenders, Spent
<1>9. TokenRegistersOnce'
  BY <1>2, <1>3, <1>8 DEF TokenRegistersOnce, Spenders, Spent
<1>10. RegisteredHasRow'
  <2>1. attempt'[k].pc = "registered" => node'[t] = k
    BY <1>3 DEF JoinTypeOK
  <2>2. \A u \in Tokens : node'[u] # node[u] => u = t /\ attempt[k].pc \in Spent
                                               /\ attempt'[k].pc \in Spent
    BY <1>3 DEF JoinTypeOK, Spent
  <2>3. ASSUME NEW l \in Keys, attempt'[l].pc = "registered", l # k
        PROVE  node'[attempt'[l].token] \in {Absent, l}
    BY <2>2, <2>3, <1>2, <1>8 DEF RegisteredHasRow, Spent, JoinTypeOK
  <2> QED
    BY <2>1, <2>3, <1>3 DEF RegisteredHasRow
<1>11. HeldIsRegistered'
  <2> SUFFICES ASSUME NEW a \in Agents
               PROVE  /\ proc[a].key # Null => attempt'[proc[a].key].pc # "none"
                      /\ proc[a].node # Null => Registered(proc[a].key, proc[a].node)'
                      /\ config[a].key # Null => Registered(config[a].key, config[a].node)'
    BY <1>1 DEF HeldIsRegistered, Registered
  <2>1. proc[a].key # Null => proc[a].key \in Keys
    BY DEF JoinTypeOK
  <2>2. config[a].key # Null => config[a].key \in Keys
    BY DEF JoinTypeOK
  <2>3. proc[a].node # Null => proc[a].key # Null
    BY DEF JoinTypeOK
  <2>4. \A l \in Keys : \A u : Registered(l, u) => Registered(l, u)'
    BY <1>1, <1>2, <1>4 DEF Registered
  <2> QED
    BY <2>1, <2>2, <2>3, <2>4, <1>1, <1>2, <1>4 DEF HeldIsRegistered
<1>12. HeldOnce'
  BY <1>1 DEF HeldOnce, Held
<1> QED
  BY <1>7, <1>9, <1>10, <1>11, <1>12

LEMMA StutterStep == ASSUME JoinInv, UNCHANGED joinVars PROVE JoinInv'
<1> USE DEF JoinInv, joinVars
<1>1. JoinTypeOK'
  BY DEF JoinTypeOK
<1>2. SpentIsUsed' /\ TokenRegistersOnce' /\ RegisteredHasRow'
  BY DEF SpentIsUsed, TokenRegistersOnce, Spenders, RegisteredHasRow
<1>3. HeldIsRegistered' /\ HeldOnce'
  BY DEF HeldIsRegistered, Registered, HeldOnce, Held
<1> QED
  BY <1>1, <1>2, <1>3

\* The strengthened invariant of the registration.
THEOREM JoinInvTheorem == JoinSpec => []JoinInv
<1>1. JoinInv /\ JoinTypeOK' /\ [JoinNext]_joinVars => JoinInv'
  BY AdminStep, ProcessStep, StartStep, JoinHandlerStep, StutterStep DEF JoinNext, AgentStep
<1> QED
  BY <1>1, JoinInitInv, JoinTypeTheorem, PTL DEF JoinSpec

\* A join token registers one key, for any number of concurrent attempts and
\* failures at any statement of join.
THEOREM TokenTheorem == JoinSpec => []TokenRegistersOnce
<1>1. JoinInv => TokenRegistersOnce
  BY DEF JoinInv
<1> QED
  BY <1>1, JoinInvTheorem, PTL

\* An identity on a host's disk is the one of the server's row, and of no other host.
THEOREM SavedKeyTheorem == JoinSpec => []SavedKeyStaysRegistered
<1>1. JoinInv => SavedKeyStaysRegistered
  <2> SUFFICES ASSUME JoinInv PROVE SavedKeyStaysRegistered
    OBVIOUS
  <2> USE JoinAssumption DEF JoinInv
  <2>1. ASSUME NEW a \in Agents, config[a].key # Null
        PROVE  node[config[a].node] \in {Absent, config[a].key}
    BY <2>1 DEF HeldIsRegistered, Registered, RegisteredHasRow, JoinTypeOK
  <2>2. ASSUME NEW a \in Agents, NEW b \in Agents, config[a].key # Null,
               config[b].key # Null, config[a].node = config[b].node
        PROVE  a = b
    <3>1. config[a].key \in Spenders(config[a].node) /\ config[b].key \in Spenders(config[a].node)
      BY <2>2 DEF HeldIsRegistered, Registered, Spenders, JoinTypeOK
    <3>2. config[a].key = config[b].key
      BY <3>1, <2>2 DEF TokenRegistersOnce, JoinTypeOK
    <3> QED
      BY <3>2, <2>2 DEF HeldOnce, Held
  <2> QED
    BY <2>1, <2>2 DEF SavedKeyStaysRegistered
<1> QED
  BY <1>1, JoinInvTheorem, PTL

-----------------------------------------------------------------------------
(* No consumed token is lost while nothing fails *)

\* The node is not there until the handler that found it deleted has inserted it ...
InsertingAbsent == \A k \in Keys :
    attempt[k].pc = "inserting" => node[attempt[k].token] = Absent

\* ... an agent that joins has no identity on disk that it would replace ...
JoiningUnsaved == \A a \in Agents :
    proc[a].pc \in {"joining", "saving"} => config[a].key = Null

\* ... and each attempt that was not refused is that of an agent which is still there.
Underway == {"received", "selected", "consumed", "inserting", "registered"}
AttemptsHeld == \A k \in Keys : attempt[k].pc \in Underway => \E a \in Agents : k \in Held(a)
UsedIsSpent  == \A t \in Tokens : token[t] = "used" => Spenders(t) # {}
NothingLost  == faults = 0 => AttemptsHeld /\ UsedIsSpent

HoldInv == InsertingAbsent /\ JoiningUnsaved /\ NothingLost

LEMMA HoldInit == JoinInit => HoldInv
  BY DEF JoinInit, NoAttempt, Down, HoldInv, InsertingAbsent, JoiningUnsaved, NothingLost,
         AttemptsHeld, UsedIsSpent, Underway

LEMMA HoldImplies == JoinInv /\ HoldInv => SpentIsHeld
<1> SUFFICES ASSUME JoinInv, HoldInv, faults = 0, NEW t \in Tokens, token[t] = "used"
             PROVE  \E k \in Spenders(t), a \in Agents : k \in {proc[a].key, config[a].key}
  BY DEF SpentIsHeld
<1>1. PICK k \in Spenders(t) : TRUE
  BY DEF HoldInv, NothingLost, UsedIsSpent
<1>2. k \in Keys /\ attempt[k].pc \in Underway
  BY <1>1 DEF Spenders, Underway
<1>3. PICK a \in Agents : k \in Held(a)
  BY <1>2 DEF HoldInv, NothingLost, AttemptsHeld
<1> QED BY <1>1, <1>3 DEF Held

\* A fault ends the promise, and never begins it anew.
LEMMA FaultLasts == ASSUME JoinTypeOK, Fault PROVE faults' # 0
  BY JoinAssumption DEF JoinTypeOK, Fault

LEMMA HoldAdmin ==
    ASSUME JoinInv, HoldInv, NEW t \in Tokens,
           CreateJoin(t) \/ Expire(t) \/ DeleteRow(t) \/ \E a \in Agents : Install(a, t)
    PROVE  HoldInv'
<1> USE JoinAssumption DEF HoldInv, JoinInv
<1>1. UNCHANGED <<attempt, proc, faults>>
  BY DEF CreateJoin, Expire, DeleteRow, Install
<1>2. \A u \in Tokens : token'[u] = "used" <=> token[u] = "used"
  BY DEF CreateJoin, Expire, DeleteRow, Install, JoinTypeOK
<1>3. \A a \in Agents : config'[a].key = config[a].key
  BY AdminKeepsIdentity
<1>4. InsertingAbsent'
  <2>1. \A u \in Tokens : token[u] = "used" /\ node[u] = Absent => node'[u] = Absent
    BY DEF CreateJoin, Expire, DeleteRow, Install, JoinTypeOK
  <2>2. \A k \in Keys : attempt[k].pc = "inserting" =>
           attempt[k].token \in Tokens /\ token[attempt[k].token] = "used"
    BY DEF SpentIsUsed, Spent, JoinTypeOK
  <2> QED BY <1>1, <2>1, <2>2 DEF InsertingAbsent
<1>5. JoiningUnsaved'
  BY <1>1, <1>3 DEF JoiningUnsaved
<1>6. \A a \in Agents : Held(a)' = Held(a)
  BY <1>1, <1>3 DEF Held
<1>7. NothingLost'
  BY <1>1, <1>2, <1>6 DEF NothingLost, AttemptsHeld, UsedIsSpent, Spenders
<1> QED BY <1>4, <1>5, <1>7

LEMMA HoldProcess ==
    ASSUME JoinInv, HoldInv, NEW a \in Agents,
           StartJoined(a) \/ Answered(a) \/ Rejected(a) \/ Save(a) \/ AgentFails(a)
    PROVE  HoldInv'
<1> USE JoinAssumption DEF HoldInv, JoinInv
<1>1. UNCHANGED <<token, node, attempt>>
  BY DEF StartJoined, Answered, Rejected, Save, AgentFails
<1>2. \A b \in Agents : b # a => config'[b] = config[b] /\ proc'[b] = proc[b]
  BY DEF StartJoined, Answered, Rejected, Save, AgentFails, JoinTypeOK
<1>3. InsertingAbsent'
  BY <1>1 DEF InsertingAbsent
<1>4. proc'[a].pc \in {"joining", "saving"} => config'[a].key = Null
  BY DEF StartJoined, Answered, Rejected, Save, AgentFails, Down, JoiningUnsaved, JoinTypeOK
<1>5. JoiningUnsaved'
  BY <1>2, <1>4 DEF JoiningUnsaved
<1>6. ASSUME faults' = 0, NEW k \in Keys, attempt[k].pc \in Underway, k \in Held(a)
      PROVE  k \in Held(a)'
  <2>1. CASE StartJoined(a)
    BY <1>6, <2>1 DEF StartJoined, Held, JoinTypeOK
  <2>2. CASE Answered(a)
    BY <1>6, <2>2 DEF Answered, Held, JoinTypeOK
  <2>3. CASE Rejected(a)
    <3>1. k # proc[a].key /\ config' = config
      BY <1>6, <2>3 DEF Rejected, Underway
    <3> QED BY <1>6, <3>1 DEF Held
  <2>4. CASE Save(a)
    <3>1. config[a].key = Null
      BY <2>4 DEF Save, JoiningUnsaved
    <3>2. proc'[a].key = proc[a].key
      BY <2>4 DEF Save, JoinTypeOK
    <3> QED BY <1>6, <3>1, <3>2 DEF Held
  <2>5. ~AgentFails(a)
    BY <1>6, FaultLasts DEF AgentFails
  <2> QED BY <2>1, <2>2, <2>3, <2>4, <2>5
<1>7. faults' = 0 => faults = 0
  <2>1. ~AgentFails(a) => UNCHANGED faults
    BY DEF StartJoined, Answered, Rejected, Save
  <2> QED BY <2>1, FaultLasts DEF AgentFails
<1>8. faults' = 0 => AttemptsHeld'
  <2> SUFFICES ASSUME faults' = 0, NEW k \in Keys, attempt[k].pc \in Underway
               PROVE  \E b \in Agents : k \in Held(b)'
    BY <1>1 DEF AttemptsHeld
  <2>1. PICK b \in Agents : k \in Held(b)
    BY <1>7 DEF NothingLost, AttemptsHeld
  <2>2. k \in Held(b)'
    BY <1>2, <1>6, <2>1 DEF Held
  <2> QED BY <2>2
<1>9. faults' = 0 => UsedIsSpent'
  BY <1>1, <1>7 DEF NothingLost, UsedIsSpent, Spenders
<1> QED BY <1>3, <1>5, <1>8, <1>9 DEF NothingLost

LEMMA HoldStart ==
    ASSUME JoinInv, HoldInv, NEW a \in Agents, NEW k \in Keys, StartJoining(a, k)
    PROVE  HoldInv'
<1> USE JoinAssumption DEF HoldInv, JoinInv
<1>1. UNCHANGED <<token, node, config, faults>>
  BY DEF StartJoining
<1>2. \A l \in Keys : l # k => attempt'[l] = attempt[l]
  BY DEF StartJoining, JoinTypeOK
<1>3. attempt[k].pc = "none" /\ attempt'[k].pc = "received"
  BY DEF StartJoining, NoAttempt, JoinTypeOK
<1>4. /\ proc[a].key = Null /\ proc'[a].key = k /\ config[a].key = Null
      /\ \A b \in Agents : b # a => proc'[b] = proc[b]
  BY DEF StartJoining, JoinTypeOK
<1>5. InsertingAbsent'
  BY <1>1, <1>2, <1>3 DEF InsertingAbsent
<1>6. JoiningUnsaved'
  BY <1>1, <1>4 DEF JoiningUnsaved
<1>7. k \in Held(a)' /\ \A b \in Agents : Held(b) \subseteq Held(b)'
  BY <1>1, <1>4 DEF Held
<1>8. AttemptsHeld => AttemptsHeld'
  BY <1>2, <1>7 DEF AttemptsHeld
<1>9. \A t \in Tokens : Spenders(t) \subseteq Spenders(t)'
  BY <1>2, <1>3 DEF Spenders
<1>10. UsedIsSpent => UsedIsSpent'
  BY <1>1, <1>9 DEF UsedIsSpent
<1> QED BY <1>1, <1>5, <1>6, <1>8, <1>10 DEF NothingLost

LEMMA HoldHandler ==
    ASSUME JoinInv, HoldInv, NEW k \in Keys, HandlerStep(k)
    PROVE  HoldInv'
<1> USE JoinAssumption DEF HoldInv, JoinInv
<1>0. PICK t \in Tokens : t = attempt[k].token
  BY DEF HandlerStep, SelectToken, ConsumeToken, UpdateNode, InsertNode, JoinTypeOK
<1>1. UNCHANGED <<config, proc, faults>>
  BY DEF HandlerStep, SelectToken, ConsumeToken, UpdateNode, InsertNode
<1>2. /\ attempt'[k].token = t /\ \A l \in Keys : l # k => attempt'[l] = attempt[l]
      /\ \A u \in Tokens : u # t => token'[u] = token[u] /\ node'[u] = node[u]
  BY <1>0 DEF HandlerStep, SelectToken, ConsumeToken, UpdateNode, InsertNode, Handler,
              JoinTypeOK
<1>3. CASE SelectToken(k) \/ (ConsumeToken(k) /\ token[t] # "open")
  <2>1. /\ attempt[k].pc \in {"received", "selected"}
        /\ attempt'[k].pc \in {"selected", "refused"} /\ UNCHANGED <<token, node>>
    BY <1>0, <1>3 DEF SelectToken, ConsumeToken, Handler, JoinTypeOK
  <2>2. InsertingAbsent'
    BY <1>2, <2>1 DEF InsertingAbsent
  <2>3. \A u \in Tokens : Spenders(u)' = Spenders(u)
    BY <1>0, <1>2, <2>1 DEF Spenders
  <2>4. UsedIsSpent => UsedIsSpent'
    BY <2>1, <2>3 DEF UsedIsSpent
  <2>5. AttemptsHeld => AttemptsHeld'
    BY <1>1, <1>2, <2>1 DEF AttemptsHeld, Underway, Held
  <2> QED BY <1>1, <2>2, <2>4, <2>5 DEF JoiningUnsaved, NothingLost
<1>4. CASE (ConsumeToken(k) /\ token[t] = "open") \/ UpdateNode(k) \/ InsertNode(k)
  <2>1. attempt[k].pc \in Underway
    BY <1>4 DEF ConsumeToken, UpdateNode, InsertNode, Underway
  <2>2. attempt'[k].pc \in {"consumed", "inserting", "registered"}
    BY <1>0, <1>4 DEF ConsumeToken, UpdateNode, InsertNode, Handler, InsertingAbsent,
                      JoinTypeOK
  <2>3. attempt'[k].pc = "inserting" => node'[t] = Absent
    BY <1>0, <1>4 DEF ConsumeToken, UpdateNode, InsertNode, Handler, InsertingAbsent,
                      JoinTypeOK
  <2>4. ASSUME NEW l \in Keys, l # k, attempt[l].pc = "inserting"
        PROVE  node'[attempt[l].token] = Absent
    <3>1. attempt[l].token # t \/ UNCHANGED node
      BY <1>0, <1>4, <2>4 DEF ConsumeToken, UpdateNode, InsertNode, TokenRegistersOnce,
                              Spenders
    <3>2. attempt[l].token \in Tokens /\ node[attempt[l].token] = Absent
      BY <2>4 DEF InsertingAbsent, JoinTypeOK
    <3> QED BY <1>2, <3>1, <3>2
  <2>5. InsertingAbsent'
    BY <1>2, <2>3, <2>4 DEF InsertingAbsent
  <2>6. k \in Spenders(t)' /\ \A u \in Tokens : u # t => Spenders(u)' = Spenders(u)
    BY <1>0, <1>2, <2>2 DEF Spenders
  <2>7. UsedIsSpent => UsedIsSpent'
    BY <1>2, <2>6 DEF UsedIsSpent
  <2>8. AttemptsHeld => AttemptsHeld'
    BY <1>1, <1>2, <2>1 DEF AttemptsHeld, Held
  <2> QED BY <1>1, <2>5, <2>7, <2>8 DEF JoiningUnsaved, NothingLost
<1> QED BY <1>3, <1>4 DEF HandlerStep

LEMMA HoldHandlerFails ==
    ASSUME JoinInv, HoldInv, NEW k \in Keys, HandlerFails(k)
    PROVE  HoldInv'
<1> USE JoinAssumption DEF HoldInv, JoinInv
<1>1. faults' # 0
  BY FaultLasts DEF HandlerFails
<1>2. UNCHANGED <<node, config, proc>> /\ attempt'[k].pc = "refused"
  BY DEF HandlerFails, Handler, JoinTypeOK
<1>3. \A l \in Keys : l # k => attempt'[l] = attempt[l]
  BY DEF HandlerFails, Handler, JoinTypeOK
<1>4. InsertingAbsent' /\ JoiningUnsaved'
  BY <1>2, <1>3 DEF InsertingAbsent, JoiningUnsaved
<1> QED BY <1>1, <1>4 DEF NothingLost

LEMMA HoldStutter == ASSUME HoldInv, UNCHANGED joinVars PROVE HoldInv'
  BY DEF joinVars, HoldInv, InsertingAbsent, JoiningUnsaved, NothingLost, AttemptsHeld,
         UsedIsSpent, Spenders, Held

\* A token that join has consumed is not lost, even if its node is deleted meanwhile,
\* unless something fails: its handler goes on, and the agent it answers is there.
THEOREM SpentHeldTheorem == JoinSpec => []SpentIsHeld
<1>1. JoinInv /\ HoldInv /\ [JoinNext]_joinVars => HoldInv'
  BY HoldAdmin, HoldProcess, HoldStart, HoldHandler, HoldHandlerFails, HoldStutter
  DEF JoinNext, AgentStep
<1> QED
  BY <1>1, HoldInit, HoldImplies, JoinInvTheorem, PTL DEF JoinSpec

-----------------------------------------------------------------------------
(* Registration implements OneTime *)

\* What becomes of a token depends on its row and on the handlers that have it.
LEMMA TokenKept ==
    ASSUME NEW t \in Tokens, token'[t] = token[t],
           Registrant(t)' = Registrant(t), Spenders(t)' = Spenders(t)
    PROVE  TokenFate(t)' = TokenFate(t) /\ TokenKey(t)' = TokenKey(t)
  BY DEF TokenFate, TokenKey

LEMMA TokensKept ==
    ASSUME \A t \in Tokens : TokenFate(t)' = TokenFate(t) /\ TokenKey(t)' = TokenKey(t)
    PROVE  UNCHANGED JoinToken!vars
  BY DEF JoinToken!vars

\* A handler works for one token.
LEMMA HandlerToken ==
    ASSUME JoinInv, NEW k \in Keys, HandlerStep(k) \/ HandlerFails(k)
    PROVE  /\ attempt[k].token \in Tokens /\ attempt'[k].token = attempt[k].token
           /\ \A l \in Keys \ {k} : attempt'[l] = attempt[l]
           /\ \A u \in Tokens : u # attempt[k].token => token'[u] = token[u]
           /\ attempt[k].pc # "registered"
           /\ \A u \in Tokens : u # attempt[k].token =>
                 TokenFate(u)' = TokenFate(u) /\ TokenKey(u)' = TokenKey(u)
<1> DEFINE t == attempt[k].token
<1> USE JoinAssumption DEF JoinInv, JoinTypeOK, HandlerStep, SelectToken, ConsumeToken,
                           UpdateNode, InsertNode, HandlerFails, Handler
<1>1. t \in Tokens /\ attempt'[k].token = t
  OBVIOUS
<1>2. \A l \in Keys \ {k} : attempt'[l] = attempt[l]
  OBVIOUS
<1>3. \A u \in Tokens : u # t => token'[u] = token[u]
  OBVIOUS
<1>4. attempt[k].pc # "registered"
  OBVIOUS
<1>5. \A u \in Tokens : u # t => Registrant(u)' = Registrant(u) /\ Spenders(u)' = Spenders(u)
  BY ONLY <1>1, <1>2 DEF Registrant, Spenders
<1>6. \A u \in Tokens : u # t => TokenFate(u)' = TokenFate(u) /\ TokenKey(u)' = TokenKey(u)
  BY ONLY <1>3, <1>5, TokenKept
<1> QED BY ONLY <1>1, <1>2, <1>3, <1>4, <1>6

\* While a handler is past the UPDATE of join_tokens, its token is taken.
LEMMA SpenderTakes ==
    ASSUME JoinInv, NEW k \in Keys, attempt[k].pc \in {"consumed", "inserting"}
    PROVE  LET t == attempt[k].token
           IN  /\ t \in Tokens /\ token[t] = "used" /\ Spenders(t) = {k}
               /\ Registrant(t) = {} /\ TokenFate(t) = "taken" /\ TokenKey(t) = Null
<1> DEFINE t == attempt[k].token
<1>1. t \in Tokens /\ token[t] = "used"
  BY JoinAssumption DEF JoinInv, JoinTypeOK, SpentIsUsed, Spent
<1>2. k \in Spenders(t)
  BY DEF Spenders
<1>3. Spenders(t) = {k}
  BY <1>1, <1>2 DEF JoinInv, TokenRegistersOnce, Spenders
<1>4. Registrant(t) \subseteq Spenders(t)
  BY DEF Registrant, Spenders
<1>5. Registrant(t) = {}
  BY <1>3, <1>4 DEF Registrant
<1> QED BY <1>1, <1>3, <1>5 DEF TokenFate, TokenKey

LEMMA JoinTokenInit == JoinInit => JoinToken!Init
  BY DEF JoinInit, NoAttempt, JoinToken!Init, TokenFate, TokenKey, Registrant

\* ConsumeOneTime takes the token.
LEMMA ConsumeTakes ==
    ASSUME JoinInv, NEW k \in Keys, ConsumeToken(k)
    PROVE  [JoinToken!Next]_(JoinToken!vars)
<1>0. PICK t \in Tokens : t = attempt[k].token
  BY HandlerToken DEF HandlerStep
<1>1. /\ attempt[k].token = t /\ attempt'[k].token = t
      /\ \A l \in Keys \ {k} : attempt'[l] = attempt[l]
  BY <1>0, HandlerToken DEF HandlerStep
<1>2. \A u \in Tokens : u # t => TokenFate(u)' = TokenFate(u) /\ TokenKey(u)' = TokenKey(u)
  BY <1>0, HandlerToken DEF HandlerStep
<1>3. CASE token[t] = "open"
  <2>1. /\ token'[t] = "used" /\ attempt'[k].pc = "consumed"
    BY <1>1, <1>3 DEF ConsumeToken, Handler, JoinInv, JoinTypeOK
  <2>2. Registrant(t) = {}
    BY <1>3 DEF Registrant, JoinInv, SpentIsUsed, Spent
  <2>3. Registrant(t)' = {} /\ k \in Spenders(t)'
    BY <1>1, <2>1, <2>2 DEF Registrant, Spenders
  <2>4. /\ TokenFate(t) = "open" /\ TokenFate(t)' = "taken"
        /\ TokenKey(t) = Null /\ TokenKey(t)' = Null
    BY <1>3, <2>1, <2>2, <2>3 DEF TokenFate, TokenKey
  <2>5. JoinToken!Take(t)
    BY <1>1, <1>2, <2>4 DEF JoinToken!Take, JoinToken!Becomes
  <2> QED BY <1>1, <2>5 DEF JoinToken!Next
<1>4. CASE token[t] # "open"
  <2>1. /\ token' = token /\ attempt[k].pc = "selected" /\ attempt'[k].pc = "refused"
    BY <1>1, <1>4 DEF ConsumeToken, Handler, JoinInv, JoinTypeOK
  <2>2. Registrant(t)' = Registrant(t) /\ Spenders(t)' = Spenders(t)
    BY <1>1, <2>1 DEF Registrant, Spenders
  <2>3. TokenFate(t)' = TokenFate(t) /\ TokenKey(t)' = TokenKey(t)
    BY <1>1, <2>1, <2>2, TokenKept
  <2> QED BY <1>2, <2>3, TokensKept
<1> QED BY <1>3, <1>4

\* The UPDATE or the INSERT of the node exchanges it for the key.
LEMMA RegisterExchanges ==
    ASSUME JoinInv, NEW k \in Keys, UpdateNode(k) \/ InsertNode(k) \/ HandlerFails(k),
           attempt[k].pc \in {"consumed", "inserting"}
    PROVE  [JoinToken!Next]_(JoinToken!vars)
<1>0. PICK t \in Tokens : t = attempt[k].token
  BY HandlerToken DEF HandlerStep
<1>1. /\ attempt[k].token = t /\ attempt'[k].token = t
      /\ \A l \in Keys \ {k} : attempt'[l] = attempt[l]
  BY <1>0, HandlerToken DEF HandlerStep
<1>2. \A u \in Tokens : u # t => TokenFate(u)' = TokenFate(u) /\ TokenKey(u)' = TokenKey(u)
  BY <1>0, HandlerToken DEF HandlerStep
<1>3. /\ token[t] = "used" /\ Spenders(t) = {k} /\ Registrant(t) = {}
      /\ TokenFate(t) = "taken" /\ TokenKey(t) = Null
  BY <1>0, SpenderTakes
<1>4. token' = token /\ attempt'[k].pc \in {"inserting", "registered", "refused"}
  BY <1>1 DEF UpdateNode, InsertNode, HandlerFails, Handler, JoinInv, JoinTypeOK
<1>5. \A l \in Keys \ {k} : l \notin Spenders(t)' /\ l \notin Registrant(t)'
  BY <1>1, <1>3 DEF Spenders, Registrant
<1>6. CASE attempt'[k].pc = "inserting"
  <2>1. Spenders(t)' = {k} /\ Registrant(t)' = {}
    BY <1>1, <1>5, <1>6 DEF Spenders, Registrant
  <2>2. TokenFate(t)' = TokenFate(t) /\ TokenKey(t)' = TokenKey(t)
    BY <1>1, <1>3, <1>4, <2>1, TokenKept
  <2> QED BY <1>2, <2>2, TokensKept
<1>7. CASE attempt'[k].pc = "registered"
  <2>1. Registrant(t)' = {k}
    BY <1>1, <1>5, <1>7 DEF Registrant
  <2>2. TokenFate(t)' = "exchanged" /\ TokenKey(t)' = k
    BY <1>3, <1>4, <2>1 DEF TokenFate, TokenKey
  <2>3. \A u \in Tokens : TokenKey(u) # k
    <3>1. k \notin {Null} /\ \A u \in Tokens : k \notin Registrant(u)
      BY JoinAssumption DEF Registrant
    <3> QED BY <3>1 DEF TokenKey
  <2>4. JoinToken!Exchange(t, k)
    BY <1>1, <1>2, <1>3, <2>2, <2>3 DEF JoinToken!Exchange, JoinToken!Becomes
  <2> QED BY <1>1, <2>4 DEF JoinToken!Next
<1>8. CASE attempt'[k].pc = "refused"
  <2>1. Spenders(t)' = {} /\ Registrant(t)' = {}
    BY <1>1, <1>5, <1>8 DEF Spenders, Registrant
  <2>2. TokenFate(t)' = "lost" /\ TokenKey(t)' = Null
    BY <1>3, <1>4, <2>1 DEF TokenFate, TokenKey
  <2>3. JoinToken!Abandon(t)
    BY <1>1, <1>2, <1>3, <2>2 DEF JoinToken!Abandon, JoinToken!Becomes
  <2> QED BY <1>1, <2>3 DEF JoinToken!Next
<1> QED BY <1>4, <1>6, <1>7, <1>8

\* A handler that has not consumed its token gives up or goes on to consume it.
LEMMA BeforeConsume ==
    ASSUME JoinInv, NEW k \in Keys, SelectToken(k) \/ HandlerFails(k),
           attempt[k].pc \in {"received", "selected"}
    PROVE  UNCHANGED JoinToken!vars
<1>0. PICK t \in Tokens : t = attempt[k].token
  BY HandlerToken DEF HandlerStep
<1>1. /\ attempt[k].token = t /\ attempt'[k].token = t
      /\ \A l \in Keys \ {k} : attempt'[l] = attempt[l]
  BY <1>0, HandlerToken DEF HandlerStep
<1>2. \A u \in Tokens : u # t => TokenFate(u)' = TokenFate(u) /\ TokenKey(u)' = TokenKey(u)
  BY <1>0, HandlerToken DEF HandlerStep
<1>3. token' = token /\ attempt'[k].pc \in {"selected", "refused"}
  BY <1>1 DEF SelectToken, HandlerFails, Handler, JoinInv, JoinTypeOK
<1>4. Registrant(t)' = Registrant(t) /\ Spenders(t)' = Spenders(t)
  BY <1>1, <1>3 DEF Registrant, Spenders
<1>5. TokenFate(t)' = TokenFate(t) /\ TokenKey(t)' = TokenKey(t)
  BY <1>1, <1>3, <1>4, TokenKept
<1> QED BY <1>2, <1>5, TokensKept

\* The administrator issues tokens, and time ends those that nobody has taken.
LEMMA IssueAndExpire ==
    ASSUME JoinInv, NEW t \in Tokens, CreateJoin(t) \/ Expire(t)
    PROVE  JoinToken!Next
<1>1. attempt' = attempt
  BY DEF CreateJoin, Expire
<1>2. \A u \in Tokens : Registrant(u)' = Registrant(u) /\ Spenders(u)' = Spenders(u)
  BY <1>1 DEF Registrant, Spenders
<1>3. \A u \in Tokens : u # t => token'[u] = token[u]
  BY DEF CreateJoin, Expire, JoinInv, JoinTypeOK
<1>4. \A u \in Tokens : u # t => TokenFate(u)' = TokenFate(u) /\ TokenKey(u)' = TokenKey(u)
  BY <1>2, <1>3, TokenKept
<1>5. Registrant(t) = {} /\ Spenders(t) = {}
  BY DEF CreateJoin, Expire, Registrant, Spenders, JoinInv, SpentIsUsed, Spent
<1>6. TokenKey(t) = Null /\ TokenKey(t)' = Null
  BY <1>2, <1>5 DEF TokenKey
<1>7. \A u \in Tokens : TokenKey(u)' = TokenKey(u)
  BY <1>4, <1>6
<1>8. CASE CreateJoin(t)
  <2>1. TokenFate(t) = "unissued" /\ TokenFate(t)' = "open"
    BY <1>8 DEF CreateJoin, TokenFate, JoinInv, JoinTypeOK
  <2>2. JoinToken!Issue(t)
    BY <1>4, <1>7, <2>1 DEF JoinToken!Issue, JoinToken!Becomes
  <2> QED BY <2>2 DEF JoinToken!Next
<1>9. CASE Expire(t)
  <2>1. TokenFate(t) = "open" /\ TokenFate(t)' = "lost"
    BY <1>2, <1>5, <1>9 DEF Expire, TokenFate, JoinInv, JoinTypeOK
  <2>2. JoinToken!Lapse({t})
    BY <1>4, <1>7, <2>1 DEF JoinToken!Lapse
  <2>3. {t} \in SUBSET Tokens
    OBVIOUS
  <2> QED BY <2>2, <2>3 DEF JoinToken!Next
<1> QED BY <1>8, <1>9

LEMMA JoinTokenStep ==
    ASSUME JoinInv, [JoinNext]_joinVars
    PROVE  [JoinToken!Next]_(JoinToken!vars)
<1>1. ASSUME UNCHANGED <<token, attempt>> PROVE UNCHANGED JoinToken!vars
  <2>1. \A t \in Tokens : Registrant(t)' = Registrant(t) /\ Spenders(t)' = Spenders(t)
    BY <1>1 DEF Registrant, Spenders
  <2>2. \A t \in Tokens : TokenFate(t)' = TokenFate(t) /\ TokenKey(t)' = TokenKey(t)
    BY <1>1, <2>1, TokenKept
  <2> QED BY <2>2, TokensKept
<1>2. ASSUME NEW t \in Tokens, DeleteRow(t) \/ \E a \in Agents : Install(a, t)
      PROVE  UNCHANGED <<token, attempt>>
  BY <1>2 DEF DeleteRow, Install
<1>3. ASSUME NEW a \in Agents,
             StartJoined(a) \/ Answered(a) \/ Rejected(a) \/ Save(a) \/ AgentFails(a)
      PROVE  UNCHANGED <<token, attempt>>
  BY <1>3 DEF StartJoined, Answered, Rejected, Save, AgentFails
<1>4. ASSUME NEW a \in Agents, NEW k \in Keys, StartJoining(a, k)
      PROVE  UNCHANGED JoinToken!vars
  <2>1. attempt[k].pc = "none" /\ attempt'[k].pc = "received" /\ token' = token
    BY <1>4 DEF StartJoining, NoAttempt, JoinInv, JoinTypeOK
  <2>2. \A l \in Keys \ {k} : attempt'[l] = attempt[l]
    BY <1>4 DEF StartJoining, JoinInv, JoinTypeOK
  <2>3. \A t \in Tokens : Registrant(t)' = Registrant(t) /\ Spenders(t)' = Spenders(t)
    BY <2>1, <2>2 DEF Registrant, Spenders
  <2>4. \A t \in Tokens : TokenFate(t)' = TokenFate(t) /\ TokenKey(t)' = TokenKey(t)
    BY <2>1, <2>3, TokenKept
  <2> QED BY <2>4, TokensKept
<1>5. ASSUME NEW k \in Keys, HandlerFails(k) PROVE [JoinToken!Next]_(JoinToken!vars)
  BY <1>5, RegisterExchanges, BeforeConsume DEF HandlerFails
<1>6. ASSUME NEW k \in Keys, HandlerStep(k) PROVE [JoinToken!Next]_(JoinToken!vars)
  <2>1. SelectToken(k) => attempt[k].pc \in {"received", "selected"}
    BY DEF SelectToken
  <2>2. UpdateNode(k) \/ InsertNode(k) => attempt[k].pc \in {"consumed", "inserting"}
    BY DEF UpdateNode, InsertNode
  <2> QED BY <1>6, <2>1, <2>2, ConsumeTakes, RegisterExchanges, BeforeConsume DEF HandlerStep
<1>7. CASE UNCHANGED joinVars
  BY <1>1, <1>7 DEF joinVars
<1> QED BY <1>1, <1>2, <1>3, <1>4, <1>5, <1>6, <1>7, IssueAndExpire DEF JoinNext, AgentStep

\* A join token keeps the promise of a secret that is good once: it is exchanged for
\* one key, which no other token is exchanged for, and what it has become stays so.
THEOREM JoinTokenTheorem == JoinSpec => TokensAreOneTime
<1>1. JoinInv /\ [JoinNext]_joinVars => [JoinToken!Next]_(JoinToken!vars)
  BY JoinTokenStep
<1> QED
  BY <1>1, JoinTokenInit, JoinInvTheorem, PTL DEF JoinSpec, TokensAreOneTime, JoinToken!Spec
=============================================================================
