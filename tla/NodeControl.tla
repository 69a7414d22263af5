---------------------------- MODULE NodeControl ----------------------------
(***************************************************************************)
(* The control channel of one node: the agent's control loop               *)
(* (internal/agent/agent.go), the server's WebSocket handler with its      *)
(* reader goroutine and its deferred cleanup, the registry s.controls and  *)
(* the node's row in the database (internal/server/server.go).             *)
(*                                                                         *)
(* The registry and the row are keyed by node, the handlers by connection. *)
(* A handler notices a lost connection only when a write fails, up to 15 s *)
(* later or more, while the agent redials after 1 s: handlers of several   *)
(* connections of the same node overlap.  Nodes do not interact, so one is *)
(* enough.                                                                 *)
(***************************************************************************)
EXTENDS Naturals, FiniteSets

CONSTANTS
    Conns,        \* connections alive at once, on either side; ids are reused
    None,         \* no connection
    Requests,     \* route requests underway at once
    Gone,         \* the channel of a handler that has returned
    ChanCap,      \* capacity of cc.send: 8 in the code
    MaxCuts,      \* bound: connections lost and agent restarts
    MaxCrashes    \* bound: server crashes

ASSUME ControlAssumption ==
    /\ IsFiniteSet(Conns) /\ None \notin Conns /\ Gone \notin Conns \cup {None}
    /\ ChanCap \in Nat \ {0} /\ MaxCuts \in Nat /\ MaxCrashes \in Nat

VARIABLES
    server,       \* whether the server process is up
    row,          \* the node's row: present, status, tls_ready
    entry,        \* s.controls for this node
    handler,      \* where the handler of each connection is
    reader,       \* where its reader goroutine is
    beat,         \* the tls_ready of the heartbeat the reader is applying
    inbox,        \* heartbeats received on the connection and not yet read
    queue,        \* length of cc.send: route commands not yet written
    aim,          \* the channel each route request has loaded and not yet sent to
    conn,         \* the agent's connection
    linkUp,       \* whether the agent's connection still carries messages
    tlsReady,     \* the agent's tlsReady flag
    cuts, crashes,
    overlap       \* connections that have lived at the same time as another

serverVars == <<entry, handler, reader, beat, inbox, queue, aim>>
agentVars  == <<conn, linkUp, tlsReady>>
vars == <<server, row, entry, handler, reader, beat, inbox, queue, aim, conn,
          linkUp, tlsReady, cuts, crashes, overlap>>

-----------------------------------------------------------------------------
\* Connections with a goroutine of the server still running.
Alive(c) == handler[c] # "none" \/ reader[c] # "none"
Free(c)  == ~Alive(c) /\ conn # c

\* An UPDATE of the row changes nothing once the node is deleted.
Update(status, tls) ==
    row' = IF row.present THEN [row EXCEPT !.status = status, !.tls = tls] ELSE row

Init ==
    /\ server = TRUE
    /\ row = [present |-> TRUE, status |-> "offline", tls |-> FALSE]
    /\ entry = None
    /\ handler = [c \in Conns |-> "none"]
    /\ reader = [c \in Conns |-> "none"]
    /\ beat = [c \in Conns |-> FALSE]
    /\ inbox = [c \in Conns |-> {}]
    /\ queue = [c \in Conns |-> 0]
    /\ aim = [r \in Requests |-> None]
    /\ conn = None
    /\ linkUp = FALSE
    /\ tlsReady = FALSE
    /\ cuts = 0
    /\ crashes = 0
    /\ overlap = {}

-----------------------------------------------------------------------------
(* The agent *)

\* controlLoop after its backoff: dial, and the server accepts the node's
\* signature and the upgrade.  A deleted node gets 401 and keeps waiting.
Dial(c) ==
    LET others == {d \in Conns : Alive(d)}
    IN  /\ conn = None /\ server /\ row.present
        /\ Free(c)
        /\ conn' = c
        /\ linkUp' = TRUE
        /\ handler' = [handler EXCEPT ![c] = "accepted"]
        /\ overlap' = IF others = {} THEN overlap \ {c} ELSE overlap \cup others \cup {c}
        /\ UNCHANGED <<server, row, entry, reader, beat, inbox, queue, aim, tlsReady, cuts,
                       crashes>>

\* A heartbeat, by the ticker or in answer to a ping.  The socket holds one
\* unread heartbeat: a bound.
Heartbeat ==
    /\ conn # None /\ linkUp
    /\ inbox[conn] = {}
    /\ inbox' = [inbox EXCEPT ![conn] = {tlsReady}]
    /\ UNCHANGED <<server, row, entry, handler, reader, beat, queue, aim, agentVars, cuts,
                   crashes, overlap>>

\* The agent's read or write fails: back to controlLoop.
Hangup ==
    /\ conn # None /\ ~linkUp
    /\ conn' = None
    /\ UNCHANGED <<server, row, serverVars, linkUp, tlsReady, cuts, crashes, overlap>>

\* The agent process stops and starts again, its certificate not yet loaded.
AgentRestart ==
    /\ cuts < MaxCuts
    /\ cuts' = cuts + 1
    /\ conn' = None
    /\ linkUp' = FALSE
    /\ tlsReady' = FALSE
    /\ UNCHANGED <<server, row, serverVars, crashes, overlap>>

\* Run and renewLoop load, renew or lose the certificate.
TlsChange ==
    /\ tlsReady' = ~tlsReady
    /\ UNCHANGED <<server, row, serverVars, conn, linkUp, cuts, crashes, overlap>>

\* The network drops the connection; either end finds out later.
Cut ==
    /\ linkUp
    /\ cuts < MaxCuts
    /\ cuts' = cuts + 1
    /\ linkUp' = FALSE
    /\ UNCHANGED <<server, row, serverVars, conn, tlsReady, crashes, overlap>>

-----------------------------------------------------------------------------
(* The server's handler of connection c, in the order of its statements *)

Broken(c) == conn # c \/ ~linkUp

\* s.controls.Store(node, cc)
Register(c) ==
    /\ handler[c] = "accepted"
    /\ entry' = c
    /\ handler' = [handler EXCEPT ![c] = "stored"]
    /\ UNCHANGED <<server, row, reader, beat, inbox, queue, aim, agentVars, cuts, crashes,
                   overlap>>

\* Mutant: tls_ready is left as the last connection left it.
MarkOnlineKeepsTls(c) ==
    /\ handler[c] = "stored"
    /\ Update("online", row.tls)
    /\ handler' = [handler EXCEPT ![c] = "serving"]
    /\ reader' = [reader EXCEPT ![c] = "reading"]
    /\ UNCHANGED <<server, entry, beat, inbox, queue, aim, agentVars, cuts, crashes, overlap>>

\* UPDATE nodes SET status='online',tls_ready=0, then the reader is started.
MarkOnline(c) ==
    /\ handler[c] = "stored"
    /\ Update("online", FALSE)
    /\ handler' = [handler EXCEPT ![c] = "serving"]
    /\ reader' = [reader EXCEPT ![c] = "reading"]
    /\ UNCHANGED <<server, entry, beat, inbox, queue, aim, agentVars, cuts, crashes, overlap>>

\* A route command is written; on a broken connection it may be lost without
\* an error.
WriteCommand(c) ==
    /\ handler[c] = "serving"
    /\ queue[c] > 0
    /\ queue' = [queue EXCEPT ![c] = @ - 1]
    /\ UNCHANGED <<server, row, entry, handler, reader, beat, inbox, aim, agentVars, cuts,
                   crashes, overlap>>

\* A command or the 15 s ping cannot be written: the handler returns.
WriteFails(c) ==
    /\ handler[c] = "serving"
    /\ Broken(c)
    /\ handler' = [handler EXCEPT ![c] = "leaving"]
    /\ UNCHANGED <<server, row, entry, reader, beat, inbox, queue, aim, agentVars, cuts,
                   crashes, overlap>>

\* Its defers, last first: UPDATE nodes SET status='offline',tls_ready=0 ...
MarkOffline(c) ==
    /\ handler[c] = "leaving"
    /\ Update("offline", FALSE)
    /\ handler' = [handler EXCEPT ![c] = "offline"]
    /\ UNCHANGED <<server, entry, reader, beat, inbox, queue, aim, agentVars, cuts, crashes,
                   overlap>>

\* The requests that hold the channel of a handler that returns hold a dead one.
Orphaned(c) == [r \in Requests |-> IF aim[r] = c THEN Gone ELSE aim[r]]

\* Mutant: the registry entry is left behind.
UnregisterNothing(c) ==
    /\ handler[c] = "offline"
    /\ handler' = [handler EXCEPT ![c] = "none"]
    /\ inbox' = [inbox EXCEPT ![c] = {}]
    /\ queue' = [queue EXCEPT ![c] = 0]
    /\ aim' = Orphaned(c)
    /\ UNCHANGED <<server, row, entry, reader, beat, agentVars, cuts, crashes, overlap>>

\* ... then s.controls.Delete(node), whoever is registered, and c.CloseNow.
\* Commands still in cc.send are dropped with it.
Unregister(c) ==
    /\ handler[c] = "offline"
    /\ entry' = None
    /\ handler' = [handler EXCEPT ![c] = "none"]
    /\ inbox' = [inbox EXCEPT ![c] = {}]
    /\ queue' = [queue EXCEPT ![c] = 0]
    /\ aim' = Orphaned(c)
    /\ UNCHANGED <<server, row, reader, beat, agentVars, cuts, crashes, overlap>>

-----------------------------------------------------------------------------
(* The reader goroutine of connection c *)

ReadHeartbeat(c) ==
    /\ reader[c] = "reading"
    /\ \E tls \in inbox[c] :
          /\ beat' = [beat EXCEPT ![c] = tls]
          /\ inbox' = [inbox EXCEPT ![c] = {}]
    /\ reader' = [reader EXCEPT ![c] = "updating"]
    /\ UNCHANGED <<server, row, entry, handler, queue, aim, agentVars, cuts, crashes, overlap>>

\* Mutant: a heartbeat updates tls_ready only.
ApplyHeartbeatTlsOnly(c) ==
    /\ reader[c] = "updating"
    /\ Update(row.status, beat[c])
    /\ beat' = [beat EXCEPT ![c] = FALSE]
    /\ reader' = [reader EXCEPT ![c] = "reading"]
    /\ UNCHANGED <<server, entry, handler, inbox, queue, aim, agentVars, cuts, crashes, overlap>>

\* Mutant: a heartbeat updates the status only.
ApplyHeartbeatStatusOnly(c) ==
    /\ reader[c] = "updating"
    /\ Update("online", row.tls)
    /\ beat' = [beat EXCEPT ![c] = FALSE]
    /\ reader' = [reader EXCEPT ![c] = "reading"]
    /\ UNCHANGED <<server, entry, handler, inbox, queue, aim, agentVars, cuts, crashes, overlap>>

\* UPDATE nodes SET status='online',tls_ready=?
ApplyHeartbeat(c) ==
    /\ reader[c] = "updating"
    /\ Update("online", beat[c])
    /\ beat' = [beat EXCEPT ![c] = FALSE]
    /\ reader' = [reader EXCEPT ![c] = "reading"]
    /\ UNCHANGED <<server, entry, handler, inbox, queue, aim, agentVars, cuts, crashes, overlap>>

\* Mutant: the reader, too, marks the node offline when it ends.
ReadFailsMarksOffline(c) ==
    /\ reader[c] = "reading"
    /\ Broken(c) \/ handler[c] = "none"
    /\ Update("offline", FALSE)
    /\ reader' = [reader EXCEPT ![c] = "none"]
    /\ inbox' = [inbox EXCEPT ![c] = {}]
    /\ UNCHANGED <<server, entry, handler, beat, queue, aim, agentVars, cuts, crashes,
                   overlap>>

\* The connection is broken, or the handler has closed it.
ReadFails(c) ==
    /\ reader[c] = "reading"
    /\ Broken(c) \/ handler[c] = "none"
    /\ reader' = [reader EXCEPT ![c] = "none"]
    /\ inbox' = [inbox EXCEPT ![c] = {}]
    /\ UNCHANGED <<server, row, entry, handler, beat, queue, aim, agentVars, cuts, crashes,
                   overlap>>

-----------------------------------------------------------------------------
(* The rest of the server *)

\* route finds the node's channel in the registry; 409 if there is none.
RouteLoad(r) ==
    /\ server /\ entry # None
    /\ aim[r] = None
    /\ aim' = [aim EXCEPT ![r] = entry]
    /\ UNCHANGED <<server, row, entry, handler, reader, beat, inbox, queue, agentVars,
                   cuts, crashes, overlap>>

\* Then it sends without blocking: 202 once the command is in the channel, be it
\* one that nobody reads any more; 503 if it is full.
RouteSend(r) ==
    LET c == aim[r]
    IN  /\ c # None
        /\ aim' = [aim EXCEPT ![r] = None]
        /\ queue' = IF c \in Conns /\ queue[c] < ChanCap
                    THEN [queue EXCEPT ![c] = @ + 1] ELSE queue
        /\ UNCHANGED <<server, row, entry, handler, reader, beat, inbox, agentVars,
                       cuts, crashes, overlap>>

\* deleteNode: DELETE FROM nodes WHERE id=? AND status='offline'
DeleteNode ==
    /\ server
    /\ row.present /\ row.status = "offline"
    /\ row' = [present |-> FALSE, status |-> "offline", tls |-> FALSE]
    /\ UNCHANGED <<server, serverVars, agentVars, cuts, crashes, overlap>>

\* The process is killed: no defer runs, every connection breaks.
ServerCrash ==
    /\ server
    /\ crashes < MaxCrashes
    /\ crashes' = crashes + 1
    /\ server' = FALSE
    /\ entry' = None
    /\ handler' = [c \in Conns |-> "none"]
    /\ reader' = [c \in Conns |-> "none"]
    /\ beat' = [c \in Conns |-> FALSE]
    /\ inbox' = [c \in Conns |-> {}]
    /\ queue' = [c \in Conns |-> 0]
    /\ aim' = [r \in Requests |-> None]
    /\ linkUp' = FALSE
    /\ overlap' = {}
    /\ UNCHANGED <<row, conn, tlsReady, cuts>>

\* New and Run leave the nodes table as it is.
ServerStart ==
    /\ ~server
    /\ server' = TRUE
    /\ UNCHANGED <<row, serverVars, agentVars, cuts, crashes, overlap>>

ConnStep(c) ==
    \/ Dial(c) \/ Register(c) \/ MarkOnline(c)
    \/ WriteCommand(c) \/ WriteFails(c) \/ MarkOffline(c) \/ Unregister(c)
    \/ ReadHeartbeat(c) \/ ApplyHeartbeat(c) \/ ReadFails(c)

Next ==
    \/ \E c \in Conns : ConnStep(c)
    \/ Heartbeat \/ Hangup \/ AgentRestart \/ TlsChange \/ Cut
    \/ \E r \in Requests : RouteLoad(r) \/ RouteSend(r)
    \/ DeleteNode \/ ServerCrash \/ ServerStart

Spec == Init /\ [][Next]_vars

\* Goroutines run, both tickers tick (so a write is tried on every connection
\* and a broken one fails it), a broken connection is noticed, and the agent
\* redials for ever.  Nothing is assumed of the network, the administrator, the
\* certificate or route requests.
Fairness ==
    /\ WF_vars(Heartbeat) /\ WF_vars(Hangup) /\ WF_vars(ServerStart)
    /\ WF_vars(\E c \in Conns : Dial(c))
    /\ \A c \in Conns :
          /\ WF_vars(Register(c)) /\ WF_vars(MarkOnline(c))
          /\ WF_vars(WriteCommand(c)) /\ WF_vars(WriteFails(c))
          /\ WF_vars(MarkOffline(c)) /\ WF_vars(Unregister(c))
          /\ WF_vars(ReadHeartbeat(c)) /\ WF_vars(ApplyHeartbeat(c))
          /\ WF_vars(ReadFails(c))

FairSpec == Spec /\ Fairness

-----------------------------------------------------------------------------
(* Properties *)

\* Every variable has its type, the channel within its capacity.
TypeOK ==
    /\ server \in BOOLEAN
    /\ row \in [present : BOOLEAN, status : {"online", "offline"}, tls : BOOLEAN]
    /\ entry \in Conns \cup {None}
    /\ handler \in [Conns -> {"none", "accepted", "stored", "serving", "leaving",
                              "offline"}]
    /\ reader \in [Conns -> {"none", "reading", "updating"}]
    /\ beat \in [Conns -> BOOLEAN]
    /\ inbox \in [Conns -> SUBSET BOOLEAN]
    /\ queue \in [Conns -> 0..ChanCap]
    /\ aim \in [Requests -> Conns \cup {None, Gone}]
    /\ conn \in Conns \cup {None}
    /\ linkUp \in BOOLEAN /\ tlsReady \in BOOLEAN
    /\ cuts \in 0..MaxCuts /\ crashes \in 0..MaxCrashes
    /\ overlap \subseteq Conns

\* What route finds in the registry is never the channel of a handler that has
\* returned, however handlers of the same node overlap.  (The handler may still
\* return between that and the send: such a command is answered 202 and lost.)
RegistryNamesHandler ==
    entry # None => handler[entry] \in {"stored", "serving", "leaving", "offline"}

\* A connection that no other connection of the node has overlapped is the one
\* route commands go to for as long as its handler serves it; and the node is
\* online in the database, so that it cannot be deleted, unless that happened
\* while it was connecting.
AloneIsRegistered ==
    \A c \in Conns \ overlap :
        handler[c] = "serving" => /\ entry = c
                                  /\ row.present => row.status = "online"

\* The same without the condition: the connection being served, once every other
\* handler of the node is gone, is where route commands go.
ConnectedIsRoutable ==
    \A c \in Conns :
        handler[c] = "serving" /\ (\A d \in Conns \ {c} : handler[d] = "none")
            => entry = c

\* While a connection nobody overlapped is served, tls_ready is what that very
\* connection reported: it starts at 0, and only its own heartbeat sets it.  So no
\* grant is issued on the strength of what an earlier agent process said.
TlsFromThisConnection ==
    [][\A c \in Conns \ overlap' :
          handler'[c] = "serving" /\ row'.tls =>
              /\ handler[c] = "serving"
              /\ row.tls \/ (reader[c] = "updating" /\ beat[c])]_vars

\* Whatever connections are lost, however handlers and late heartbeats overlap
\* and the server crashes: a node that is not deleted ends up online for good,
\* once the network and the server stay up.
EventuallyOnline == <>[](row.present => row.status = "online")

\* ... and its certificate's state ends up being reported.
EventuallyTlsReady == (<>[]tlsReady) => <>[](row.present => row.tls)
=============================================================================
