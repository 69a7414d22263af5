------------------------------ MODULE NodeJoin ------------------------------
(***************************************************************************)
(* How an agent becomes a node: createJoin and join of the server          *)
(* (internal/server/server.go), New, Run and join of the agent             *)
(* (internal/agent/agent.go), and what the installer leaves in agent.json. *)
(*                                                                         *)
(* createJoin makes a node and its only token together, so the token names *)
(* the node.  An agent without an identity draws a key at every start, so  *)
(* the key names the attempt to join: the server's handler of attempt k    *)
(* may outlive the agent process that made it.                             *)
(***************************************************************************)
EXTENDS Naturals, FiniteSets

CONSTANTS
    Agents,       \* hosts, each with its own agent.json
    Tokens,       \* join tokens, and the nodes made with them
    Keys,         \* bound: identity keys ever drawn
    Null,         \* no token, node or key
    MaxFaults     \* bound: crashes, lost messages, failed writes

Absent == "absent"    \* no row of nodes

ASSUME JoinAssumption ==
    /\ Null \notin Tokens \cup Keys
    /\ Absent \notin Keys \cup {Null}
    /\ MaxFaults \in Nat

VARIABLES
    token,        \* join_tokens: none, open, used or expired
    node,         \* nodes: absent, or the row's public_key, Null for NULL
    attempt,      \* the server's handler of each join request
    config,       \* agent.json: a token, or the identity that replaces it
    proc,         \* the agent process, the key it holds and the node it was told
    faults

joinVars == <<token, node, attempt, config, proc, faults>>

-----------------------------------------------------------------------------
NoConfig == [file |-> FALSE, token |-> Null, node |-> Null, key |-> Null]
Down     == [pc |-> "down", node |-> Null, key |-> Null]
NoAttempt == [pc |-> "none", token |-> Null]

Fault == faults < MaxFaults /\ faults' = faults + 1

Handler(k, pc) == attempt' = [attempt EXCEPT ![k].pc = pc]

JoinInit ==
    /\ token = [t \in Tokens |-> "none"]
    /\ node = [t \in Tokens |-> Absent]
    /\ attempt = [k \in Keys |-> NoAttempt]
    /\ config = [a \in Agents |-> NoConfig]
    /\ proc = [a \in Agents |-> Down]
    /\ faults = 0

-----------------------------------------------------------------------------
(* The administrator *)

\* createJoin: node and token in one transaction.
CreateJoin(t) ==
    /\ token[t] = "none"
    /\ token' = [token EXCEPT ![t] = "open"]
    /\ node' = [node EXCEPT ![t] = Null]
    /\ UNCHANGED <<attempt, config, proc, faults>>

\* Its ten minutes are over.
Expire(t) ==
    /\ token[t] = "open"
    /\ token' = [token EXCEPT ![t] = "expired"]
    /\ UNCHANGED <<node, attempt, config, proc, faults>>

\* deleteNode: a node that has not joined, or is not connected, is offline.
DeleteRow(t) ==
    /\ node[t] # Absent
    /\ node' = [node EXCEPT ![t] = Absent]
    /\ UNCHANGED <<token, attempt, config, proc, faults>>

\* install.sh agent --join t: write_agent_config keeps a file that is there.
Install(a, t) ==
    /\ token[t] # "none"
    /\ ~config[a].file
    /\ config' = [config EXCEPT ![a] = [NoConfig EXCEPT !.file = TRUE, !.token = t]]
    /\ UNCHANGED <<token, node, attempt, proc, faults>>

-----------------------------------------------------------------------------
(* The agent *)

\* New and Run with an identity on disk.
StartJoined(a) ==
    /\ proc[a].pc = "down"
    /\ config[a].key # Null
    /\ proc' = [proc EXCEPT ![a] = [pc |-> "joined", node |-> config[a].node,
                                    key |-> config[a].key]]
    /\ UNCHANGED <<token, node, attempt, config, faults>>

\* New draws a key that is nowhere saved, and Run sends the join request.
StartJoining(a, k) ==
    /\ proc[a].pc = "down"
    /\ config[a].file /\ config[a].key = Null
    /\ attempt[k] = NoAttempt
    /\ proc' = [proc EXCEPT ![a] = [pc |-> "joining", node |-> Null, key |-> k]]
    /\ attempt' = [attempt EXCEPT ![k] = [pc |-> "received", token |-> config[a].token]]
    /\ UNCHANGED <<token, node, config, faults>>

\* The answer is 201 and names the node.
Answered(a) ==
    /\ proc[a].pc = "joining"
    /\ attempt[proc[a].key].pc = "registered"
    /\ proc' = [proc EXCEPT ![a].pc = "saving", ![a].node = attempt[proc[a].key].token]
    /\ UNCHANGED <<token, node, attempt, config, faults>>

\* Any other answer ends the process; systemd starts it again.
Rejected(a) ==
    /\ proc[a].pc = "joining"
    /\ attempt[proc[a].key].pc = "refused"
    /\ proc' = [proc EXCEPT ![a] = Down]
    /\ UNCHANGED <<token, node, attempt, config, faults>>

\* agent.json.tmp with the identity and without the token is renamed over agent.json.
Save(a) ==
    /\ proc[a].pc = "saving"
    /\ config' = [config EXCEPT ![a] = [file |-> TRUE, token |-> Null,
                                        node |-> proc[a].node, key |-> proc[a].key]]
    /\ proc' = [proc EXCEPT ![a].pc = "joined"]
    /\ UNCHANGED <<token, node, attempt, faults>>

\* The process is killed, the answer is lost on the way, or agent.json cannot be
\* written: in each case the process ends with agent.json as it was.
AgentFails(a) ==
    /\ proc[a].pc # "down"
    /\ Fault
    /\ proc' = [proc EXCEPT ![a] = Down]
    /\ UNCHANGED <<token, node, attempt, config>>

-----------------------------------------------------------------------------
(* join of the server, statement by statement *)

SelectToken(k) ==
    /\ attempt[k].pc = "received"
    /\ Handler(k, IF token[attempt[k].token] = "open" THEN "selected" ELSE "refused")
    /\ UNCHANGED <<token, node, config, proc, faults>>

\* Mutant: the token is marked without asking again whether it has been used.
ConsumeTokenBlindly(k) ==
    /\ attempt[k].pc = "selected"
    /\ token' = [token EXCEPT ![attempt[k].token] = "used"]
    /\ Handler(k, "consumed")
    /\ UNCHANGED <<node, config, proc, faults>>

\* ConsumeOneTime
ConsumeToken(k) ==
    LET t == attempt[k].token
    IN  /\ attempt[k].pc = "selected"
        /\ IF token[t] = "open"
           THEN token' = [token EXCEPT ![t] = "used"] /\ Handler(k, "consumed")
           ELSE Handler(k, "refused") /\ UNCHANGED token
        /\ UNCHANGED <<node, config, proc, faults>>

\* Mutant: a node that was deleted in the meantime is refused.
UpdateNodeOnly(k) ==
    LET t == attempt[k].token
    IN  /\ attempt[k].pc = "consumed"
        /\ IF node[t] # Absent
           THEN node' = [node EXCEPT ![t] = k] /\ Handler(k, "registered")
           ELSE Handler(k, "refused") /\ UNCHANGED node
        /\ UNCHANGED <<token, config, proc, faults>>

\* UPDATE nodes ... WHERE id=?, which may find that the node has been deleted ...
UpdateNode(k) ==
    LET t == attempt[k].token
    IN  /\ attempt[k].pc = "consumed"
        /\ IF node[t] # Absent
           THEN node' = [node EXCEPT ![t] = k] /\ Handler(k, "registered")
           ELSE Handler(k, "inserting") /\ UNCHANGED node
        /\ UNCHANGED <<token, config, proc, faults>>

\* ... and then INSERT INTO nodes.
InsertNode(k) ==
    LET t == attempt[k].token
    IN  /\ attempt[k].pc = "inserting"
        /\ IF node[t] = Absent
           THEN node' = [node EXCEPT ![t] = k] /\ Handler(k, "registered")
           ELSE Handler(k, "refused") /\ UNCHANGED node
        /\ UNCHANGED <<token, config, proc, faults>>

\* A statement fails, the client's going away cancels its context, or the server
\* is killed: the handler ends where it is.
HandlerFails(k) ==
    /\ attempt[k].pc \in {"received", "selected", "consumed", "inserting"}
    /\ Fault
    /\ Handler(k, "refused")
    /\ UNCHANGED <<token, node, config, proc>>

-----------------------------------------------------------------------------
AgentStep(a) ==
    \/ StartJoined(a) \/ \E k \in Keys : StartJoining(a, k)
    \/ Answered(a) \/ Rejected(a) \/ Save(a)

HandlerStep(k) == SelectToken(k) \/ ConsumeToken(k) \/ UpdateNode(k) \/ InsertNode(k)

JoinNext ==
    \/ \E t \in Tokens : CreateJoin(t) \/ Expire(t) \/ DeleteRow(t)
    \/ \E a \in Agents, t \in Tokens : Install(a, t)
    \/ \E a \in Agents : AgentStep(a) \/ AgentFails(a)
    \/ \E k \in Keys : HandlerStep(k) \/ HandlerFails(k)

JoinSpec == JoinInit /\ [][JoinNext]_joinVars

\* Processes run, systemd restarts the agent, handlers run to their end.
FairJoinSpec ==
    /\ JoinSpec
    /\ \A a \in Agents : WF_joinVars(AgentStep(a))
    /\ \A k \in Keys : WF_joinVars(HandlerStep(k))

-----------------------------------------------------------------------------
(* Properties *)

\* Every variable has its type: in particular a file holds a token or the identity
\* that replaced it, never both, a running process holds a key, and one that has
\* joined knows its node.
JoinTypeOK ==
    /\ token \in [Tokens -> {"none", "open", "used", "expired"}]
    /\ node \in [Tokens -> {Absent, Null} \cup Keys]
    /\ attempt \in [Keys -> [pc : {"none", "received", "selected", "consumed",
                                   "inserting", "registered", "refused"},
                             token : Tokens \cup {Null}]]
    /\ config \in [Agents -> [file : BOOLEAN, token : Tokens \cup {Null},
                              node : Tokens \cup {Null}, key : Keys \cup {Null}]]
    /\ proc \in [Agents -> [pc : {"down", "joining", "saving", "joined"},
                            node : Tokens \cup {Null}, key : Keys \cup {Null}]]
    /\ \A a \in Agents :
          /\ config[a].file <=> (config[a].token # Null \/ config[a].key # Null)
          /\ config[a].key # Null <=> config[a].node # Null
          /\ config[a].key = Null \/ config[a].token = Null
          /\ proc[a].pc = "down" <=> proc[a].key = Null
          /\ proc[a].pc \in {"saving", "joined"} <=> proc[a].node # Null
    /\ \A k \in Keys : attempt[k].pc = "none" <=> attempt[k].token = Null
    /\ faults \in 0..MaxFaults

\* A token registers one key, however many hosts present it at once, whatever
\* fails, and although the node may be deleted and inserted again: once a
\* handler has consumed it, no other comes past the UPDATE.
Spenders(t) == {k \in Keys : /\ attempt[k].token = t
                             /\ attempt[k].pc \in {"consumed", "inserting", "registered"}}
TokenRegistersOnce == \A t \in Tokens : \A k1, k2 \in Spenders(t) : k1 = k2

\* A join token is a secret that is good once: it is taken while the handler that has
\* consumed it writes the node, and exchanged for the key of that handler's agent or
\* lost, for good, whatever becomes of the node's row, of the answer and of the agent.
Registrant(t) == {k \in Keys : attempt[k].token = t /\ attempt[k].pc = "registered"}

TokenFate(t) ==
    IF token[t] = "none" THEN "unissued"
    ELSE IF token[t] = "open" THEN "open"
    ELSE IF Registrant(t) # {} THEN "exchanged"
    ELSE IF Spenders(t) # {} THEN "taken" ELSE "lost"

TokenKey(t) == IF Registrant(t) = {} THEN Null ELSE CHOOSE k \in Registrant(t) : TRUE

JoinToken == INSTANCE OneTime WITH
    Secrets <- Tokens, Products <- Keys, Nothing <- Null,
    fate <- [t \in Tokens |-> TokenFate(t)],
    product <- [t \in Tokens |-> TokenKey(t)]
TokensAreOneTime == JoinToken!Spec

\* An identity saved on a host stays good: the server's row of that node, for as
\* long as it exists, carries that very key, and no two hosts are the same node.
SavedKeyStaysRegistered ==
    /\ \A a \in Agents : config[a].key # Null =>
          node[config[a].node] \in {Absent, config[a].key}
    /\ \A a, b \in Agents : config[a].key # Null /\ config[b].key # Null
                            /\ config[a].node = config[b].node => a = b

\* While nothing has failed, no consumed token is lost: the handler that has consumed it
\* goes on or has registered the node, and the agent that waits for its answer, or has
\* saved it, is there.
SpentIsHeld == faults = 0 =>
    \A t \in Tokens : token[t] = "used" =>
        \E k \in Spenders(t), a \in Agents : k \in {proc[a].key, config[a].key}

\* A token that was consumed ends as an identity saved on a host, even if the
\* administrator deletes the node while it joins, unless something fails.
SpentTokenJoins ==
    \A t \in Tokens : (token[t] = "used") ~>
        \/ \E a \in Agents : config[a].node = t /\ config[a].key # Null
        \/ faults > 0
=============================================================================
