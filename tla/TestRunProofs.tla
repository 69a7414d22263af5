---------------------------- MODULE TestRunProofs ----------------------------
(***************************************************************************)
(* Proofs of the safety properties of TestRun, for any nodes, candidates,  *)
(* polls and hops.                                                         *)
(***************************************************************************)
EXTENDS TestRun, TLAPS

\* The steps of a node's turn before its route is asked for, and after.
Measuring == {"latencyGrant", "latency", "downloadGrant", "download", "uploadGrant",
              "upload", "routeAsk"}
Polling   == {"pollStatus", "pollHops"}

\* The turn of n is over.
Finished(n) == n \notin todo /\ (n = node => pc \in {"submit", "testNext"} \cup Ended)

\* Nothing is known of a node before the first request of its route, which may have
\* reached the server though it hangs.
Turns ==
    /\ pc \in TestSteps => node \notin todo
    /\ \A n \in Nodes :
          (\/ pc \in ProbeSteps \cup {"create"}
           \/ pc \in TestSteps /\ n \in todo
           \/ pc \in Measuring /\ n = node)
          => /\ local[n] = NoResult /\ handler[n] = "none"
             /\ job[n] = "none" \/ (hung /\ pc = "routeAsk" /\ n = node)

\* Hops are stored only between the agent's answer and the end of the job.
Jobs ==
    \A n \in Nodes :
        /\ job[n] \in {"none", "queued", "lost"} => trace[n] = 0 /\ hops[n] = 0
        /\ job[n] = "insert" => hops[n] <= trace[n]
        /\ job[n] = "done" => hops[n] = trace[n]

\* The snapshot being read was taken of this node.
Snapshot == pc = "pollHops" /\ seen.own => job[node] = "done"
Routes   == \A n \in Nodes : local[n].own => job[n] = "done" /\ local[n].route = trace[n]

\* The server works on results the page has kept.
Results ==
    /\ pc = "submit" => handler[node] # "none"
    /\ \A n \in Nodes : handler[n] # "none" \/ row[n] = "complete" => local[n] # NoResult

\* After the one late grant the page comes past no other.
Grants ==
    \/ lateGrants = 0
    \/ /\ lateGrants = 1 /\ aborted
       /\ pc \in {"probeGrant", "uploadGrant", "routeAsk", "submit", "testNext"}
                    \cup Polling \cup Ended

\* Without an abort nothing is cut off; after one, the node at hand at most, and the
\* page turns to no other.
Whole ==
    /\ ~aborted =>
        /\ pc \in {"uploadGrant", "upload", "routeAsk"} \cup Polling =>
              draft.download \in {"short", "full"}
        /\ pc = "download" => draft.download = "underway"
        /\ pc \in {"routeAsk"} \cup Polling => draft.upload = "full"
    /\ \A n \in Nodes : local[n] # NoResult /\ CutOff(n) =>
          aborted /\ n = node /\ pc \in {"submit", "testNext"} \cup Ended

\* A node is clean from the end of its polling on, and its result is marked before
\* the page goes on.
Cleans ==
    \A n \in clean : /\ job[n] = "done"
                     /\ handler[n] \in {"upsert", "mark"} => pc = "submit" /\ node = n

\* What has left the status at the end of a route is a job whose result is not
\* marked yet.
StatusCause ==
    status \in RouteEnded =>
        \E m \in Nodes : /\ job[m] = "done"
                         /\ m \in clean => handler[m] \in {"upsert", "mark"}

SnapshotCause ==
    pc = "pollHops" /\ seen.status \in RouteEnded /\ ~seen.own =>
        \E m \in Nodes \ clean : m # node /\ m \notin todo /\ job[m] # "none"

RouteCause ==
    \A n \in Nodes : local[n].by = "status" /\ ~local[n].own =>
        \E m \in Nodes \ clean : m # n /\ job[m] # "none" /\ Finished(m)

Inv ==
    /\ TypeOK /\ Turns /\ Jobs /\ Snapshot /\ Routes /\ Results /\ Grants /\ Whole
    /\ Cleans /\ StatusCause /\ SnapshotCause /\ RouteCause

-----------------------------------------------------------------------------
LEMMA InitInv == Init => Inv
<1> SUFFICES ASSUME Init PROVE Inv
  OBVIOUS
<1> USE TestAssumption DEF Init
<1>1. TypeOK
  <2>1. draft \in [download : Cuts, upload : Cuts]
    BY DEF NoDraft, Cuts
  <2>2. local \in [Nodes -> [download : Cuts, upload : Cuts, route : 0..MaxHops,
                            by : {"none", "hops", "status", "polls"}, own : BOOLEAN]]
    BY DEF NoResult, Cuts
  <2>3. /\ pc \in {"create"} \cup ProbeSteps \cup TestSteps \cup Ended
        /\ pc \notin ((ProbeSteps \cup TestSteps) \ {"probeNext", "testNext"})
    BY DEF ProbeSteps, TestSteps, Ended
  <2>4. seen.status \in {"nodes", "complete"} \cup RouteEnded /\ seen.own \in BOOLEAN
    BY DEF NoSnap
  <2>5. /\ node \in Nodes \cup {None} /\ todo \subseteq Nodes /\ probed \subseteq Nodes
        /\ clean \subseteq Nodes /\ lateGrants \in Nat /\ aborted \in BOOLEAN /\ hung \in BOOLEAN
        /\ status \in {"nodes", "complete"} \cup RouteEnded
    OBVIOUS
  <2>7. polls \in 0..(MaxPolls - 1)
    OBVIOUS
  <2>6. /\ row \in [Nodes -> {"none", "probed", "complete"}]
        /\ handler \in [Nodes -> {"none", "upsert", "mark", "done", "dead"}]
        /\ job \in [Nodes -> {"none", "queued", "insert", "done", "lost"}]
        /\ trace \in [Nodes -> 0..MaxHops] /\ hops \in [Nodes -> 0..MaxHops]
    OBVIOUS
  <2> QED BY <2>1, <2>2, <2>3, <2>4, <2>5, <2>6, <2>7 DEF TypeOK
<1>2. Turns /\ Jobs /\ Snapshot /\ Routes /\ Results
  BY DEF Turns, Jobs, Snapshot, Routes, Results, NoResult, TestSteps
<1>3. Grants /\ Whole /\ Cleans /\ StatusCause /\ SnapshotCause /\ RouteCause
  BY DEF Grants, Whole, Cleans, StatusCause, SnapshotCause, RouteCause, NoResult, Polling,
         RouteEnded
<1> QED BY <1>1, <1>2, <1>3 DEF Inv

\* runNodeTest returns, and its result is kept.
LEMMA KeepInv ==
  ASSUME Inv, NEW by \in {"hops", "status", "polls"}, Keep(by), pc = "pollHops",
         by = "status" => seen.status \in RouteEnded,
         UNCHANGED <<node, todo, probed, aborted, hung, status, row, job, trace, hops, lateGrants>>
  PROVE  Inv'
<1> USE TestAssumption
    DEF ProbeSteps, TestSteps, Ended, Measuring, Polling, RouteEnded, CutOff
<1>1. node \in Nodes
  BY DEF Inv, TypeOK
<1>2. PICK r \in [download : Cuts, upload : Cuts, route : 0..MaxHops,
                  by : {"none", "hops", "status", "polls"}, own : BOOLEAN] :
        /\ r.download = draft.download /\ r.upload = draft.upload
        /\ r.route = hops[node] /\ r.by = by /\ r.own = seen.own
        /\ local' = [local EXCEPT ![node] = r]
  BY <1>1 DEF Keep, Inv, TypeOK
<1>3. r # NoResult
  BY <1>2 DEF NoResult
<1>4. /\ local'[node] = r /\ \A n \in Nodes \ {node} : local'[n] = local[n]
      /\ handler'[node] = "upsert" /\ \A n \in Nodes \ {node} : handler'[n] = handler[n]
      /\ pc' = "submit"
      /\ clean' = IF job[node] = "done" THEN clean \cup {node} ELSE clean
  BY <1>1, <1>2 DEF Keep, Inv, TypeOK
<1>5. TypeOK'
  <2>1. /\ local' \in [Nodes -> [download : Cuts, upload : Cuts, route : 0..MaxHops,
                            by : {"none", "hops", "status", "polls"}, own : BOOLEAN]]
        /\ handler' \in [Nodes -> {"none", "upsert", "mark", "done", "dead"}]
    BY <1>1, <1>2 DEF Keep, Inv, TypeOK
  <2>2. /\ draft' \in [download : Cuts, upload : Cuts] /\ polls' \in 0..(MaxPolls - 1)
        /\ seen'.status \in {"nodes", "complete"} \cup RouteEnded /\ seen'.own \in BOOLEAN
    BY DEF Keep, NoDraft, NoSnap, Cuts
  <2>3. clean' \subseteq Nodes
    BY <1>1, <1>4 DEF Inv, TypeOK
  <2> QED BY <1>1, <1>4, <2>1, <2>2, <2>3 DEF Inv, TypeOK
<1>6. Turns' /\ Jobs'
  BY <1>4 DEF Inv, Turns, Jobs
<1>7. Snapshot' /\ Routes'
  BY <1>2, <1>4 DEF Inv, Jobs, Snapshot, Routes
<1>8. Results'
  BY <1>3, <1>4 DEF Inv, Results
<1>9. Grants' /\ Whole'
  BY <1>2, <1>4 DEF Inv, Grants, Whole
<1>10. Cleans'
  <2> SUFFICES ASSUME NEW n \in clean'
               PROVE  /\ job'[n] = "done"
                      /\ handler'[n] \in {"upsert", "mark"} => pc' = "submit" /\ node' = n
    BY DEF Cleans
  <2>1. n \in Nodes /\ (n \in clean \/ (n = node /\ job[node] = "done"))
    BY <1>1, <1>4 DEF Inv, TypeOK
  <2> QED BY <1>4, <2>1 DEF Inv, Cleans
<1>11. StatusCause'
  BY <1>1, <1>4 DEF Inv, StatusCause
<1>12. SnapshotCause'
  BY <1>4 DEF SnapshotCause
<1>13. RouteCause'
  <2> SUFFICES ASSUME NEW n \in Nodes, local'[n].by = "status", ~local'[n].own
               PROVE  \E m \in Nodes \ clean' : m # n /\ job'[m] # "none" /\ Finished(m)'
    BY DEF RouteCause
  <2>1. CASE n = node
    <3>1. PICK m \in Nodes \ clean : m # node /\ m \notin todo /\ job[m] # "none"
      BY <1>2, <1>4, <2>1 DEF Inv, SnapshotCause
    <3> QED BY <1>4, <2>1, <3>1 DEF Finished
  <2>2. CASE n # node
    <3>1. PICK m \in Nodes \ clean : m # n /\ job[m] # "none" /\ Finished(m)
      BY <1>4, <2>2 DEF Inv, RouteCause
    <3>2. m # node
      BY <3>1 DEF Finished
    <3> QED BY <1>4, <3>1, <3>2 DEF Finished
  <2> QED BY <2>1, <2>2
<1> QED BY <1>5, <1>6, <1>7, <1>8, <1>9, <1>10, <1>11, <1>12, <1>13 DEF Inv

LEMMA StepInv == Inv /\ [Next]_vars => Inv'
<1> SUFFICES ASSUME Inv, [Next]_vars PROVE Inv'
  OBVIOUS
<1> USE TestAssumption
    DEF ProbeSteps, TestSteps, Ended, Measuring, Polling, RouteEnded, CutOff
<1>1. ASSUME NEW eligible \in SUBSET Nodes, CreateTest(eligible) PROVE Inv'
  <2>1. TypeOK'
    BY <1>1 DEF CreateTest, ThrowOut, serverVars, routeVars, historyVars, Inv,
        TypeOK, Jobs
  <2>2. Turns' /\ Jobs'
    BY <1>1 DEF CreateTest, ThrowOut, serverVars, routeVars, historyVars, Inv,
        TypeOK, Turns, Jobs
  <2>3. Snapshot' /\ Routes'
    BY <1>1 DEF CreateTest, ThrowOut, serverVars, routeVars, historyVars, Inv,
        TypeOK, Turns, Jobs, Snapshot, Routes
  <2>4. Results' /\ Grants'
    BY <1>1 DEF CreateTest, ThrowOut, serverVars, routeVars, historyVars, Inv,
        TypeOK, Results, Grants
  <2>5. Whole'
    BY <1>1 DEF CreateTest, ThrowOut, serverVars, routeVars, historyVars, Inv,
        TypeOK, Whole, Results
  <2>6. Cleans' /\ StatusCause'
    BY <1>1 DEF CreateTest, ThrowOut, serverVars, routeVars, historyVars, Inv,
        TypeOK, Turns, Cleans, StatusCause
  <2>7. SnapshotCause' /\ RouteCause'
    BY <1>1 DEF CreateTest, ThrowOut, serverVars, routeVars, historyVars, Inv,
        TypeOK, Turns, Cleans, StatusCause, SnapshotCause, RouteCause, Finished
  <2> QED BY <2>1, <2>2, <2>3, <2>4, <2>5, <2>6, <2>7 DEF Inv
<1>2. CASE CreateFails
  <2>1. TypeOK'
    BY <1>2 DEF CreateFails, ThrowOut, serverVars, routeVars, historyVars, Inv,
        TypeOK, Jobs
  <2>2. Turns' /\ Jobs'
    BY <1>2 DEF CreateFails, ThrowOut, serverVars, routeVars, historyVars, Inv,
        TypeOK, Turns, Jobs
  <2>3. Snapshot' /\ Routes'
    BY <1>2 DEF CreateFails, ThrowOut, serverVars, routeVars, historyVars, Inv,
        TypeOK, Turns, Jobs, Snapshot, Routes
  <2>4. Results' /\ Grants'
    BY <1>2 DEF CreateFails, ThrowOut, serverVars, routeVars, historyVars, Inv,
        TypeOK, Results, Grants
  <2>5. Whole'
    BY <1>2 DEF CreateFails, ThrowOut, serverVars, routeVars, historyVars, Inv,
        TypeOK, Whole, Results
  <2>6. Cleans' /\ StatusCause'
    BY <1>2 DEF CreateFails, ThrowOut, serverVars, routeVars, historyVars, Inv,
        TypeOK, Turns, Cleans, StatusCause
  <2>7. SnapshotCause' /\ RouteCause'
    BY <1>2 DEF CreateFails, ThrowOut, serverVars, routeVars, historyVars, Inv,
        TypeOK, Turns, Cleans, StatusCause, SnapshotCause, RouteCause, Finished
  <2> QED BY <2>1, <2>2, <2>3, <2>4, <2>5, <2>6, <2>7 DEF Inv
<1>3. ASSUME NEW n \in Nodes, ProbeNext(n) PROVE Inv'
  <2>1. TypeOK'
    BY <1>3 DEF ProbeNext, AskGrant, serverVars, routeVars, Inv, TypeOK, Jobs
  <2>2. Turns' /\ Jobs'
    BY <1>3 DEF ProbeNext, AskGrant, serverVars, routeVars, Inv, TypeOK, Turns, Jobs
  <2>3. Snapshot' /\ Routes'
    BY <1>3 DEF ProbeNext, AskGrant, serverVars, routeVars, Inv, TypeOK, Turns,
        Jobs, Snapshot, Routes
  <2>4. Results' /\ Grants'
    BY <1>3 DEF ProbeNext, AskGrant, serverVars, routeVars, Inv, TypeOK, Results,
        Grants
  <2>5. Whole'
    BY <1>3 DEF ProbeNext, AskGrant, serverVars, routeVars, Inv, TypeOK, Whole,
        Results
  <2>6. Cleans' /\ StatusCause'
    BY <1>3 DEF ProbeNext, AskGrant, serverVars, routeVars, Inv, TypeOK, Turns,
        Cleans, StatusCause
  <2>7. SnapshotCause' /\ RouteCause'
    BY <1>3 DEF ProbeNext, AskGrant, serverVars, routeVars, Inv, TypeOK, Turns,
        Cleans, StatusCause, SnapshotCause, RouteCause, Finished
  <2> QED BY <2>1, <2>2, <2>3, <2>4, <2>5, <2>6, <2>7 DEF Inv
<1>4. ASSUME NEW best \in SUBSET Nodes, Choose(best) PROVE Inv'
  <2>1. TypeOK'
    BY <1>4 DEF Choose, ThrowOut, serverVars, routeVars, historyVars, Inv, TypeOK,
        Jobs
  <2>2. Turns' /\ Jobs'
    BY <1>4 DEF Choose, ThrowOut, serverVars, routeVars, historyVars, Inv, TypeOK,
        Turns, Jobs
  <2>3. Snapshot' /\ Routes'
    BY <1>4 DEF Choose, ThrowOut, serverVars, routeVars, historyVars, Inv, TypeOK,
        Turns, Jobs, Snapshot, Routes
  <2>4. Results' /\ Grants'
    BY <1>4 DEF Choose, ThrowOut, serverVars, routeVars, historyVars, Inv, TypeOK,
        Results, Grants
  <2>5. Whole'
    BY <1>4 DEF Choose, ThrowOut, serverVars, routeVars, historyVars, Inv, TypeOK,
        Whole, Results
  <2>6. Cleans' /\ StatusCause'
    BY <1>4 DEF Choose, ThrowOut, serverVars, routeVars, historyVars, Inv, TypeOK,
        Turns, Cleans, StatusCause
  <2>7. SnapshotCause' /\ RouteCause'
    BY <1>4 DEF Choose, ThrowOut, serverVars, routeVars, historyVars, Inv, TypeOK,
        Turns, Cleans, StatusCause, SnapshotCause, RouteCause, Finished
  <2> QED BY <2>1, <2>2, <2>3, <2>4, <2>5, <2>6, <2>7 DEF Inv
<1>5. CASE RequestFails
  <2>1. TypeOK'
    BY <1>5 DEF RequestFails, Throw, serverVars, routeVars, historyVars, Inv,
        TypeOK, Jobs
  <2>2. Turns' /\ Jobs'
    BY <1>5 DEF RequestFails, Throw, serverVars, routeVars, historyVars, Inv,
        TypeOK, Turns, Jobs
  <2>3. Snapshot' /\ Routes'
    BY <1>5 DEF RequestFails, Throw, serverVars, routeVars, historyVars, Inv,
        TypeOK, Turns, Jobs, Snapshot, Routes
  <2>4. Results' /\ Grants'
    BY <1>5 DEF RequestFails, Throw, serverVars, routeVars, historyVars, Inv,
        TypeOK, Results, Grants
  <2>5. Whole'
    BY <1>5 DEF RequestFails, Throw, serverVars, routeVars, historyVars, Inv,
        TypeOK, Whole, Results
  <2>6. Cleans' /\ StatusCause'
    BY <1>5 DEF RequestFails, Throw, serverVars, routeVars, historyVars, Inv,
        TypeOK, Turns, Cleans, StatusCause
  <2>7. SnapshotCause' /\ RouteCause'
    BY <1>5 DEF RequestFails, Throw, serverVars, routeVars, historyVars, Inv,
        TypeOK, Turns, Cleans, StatusCause, SnapshotCause, RouteCause, Finished
  <2> QED BY <2>1, <2>2, <2>3, <2>4, <2>5, <2>6, <2>7 DEF Inv
<1>6. CASE Granted("probeGrant", "probe")
  <2>1. TypeOK'
    BY <1>6 DEF Granted, Throw, serverVars, routeVars, historyVars, Inv, TypeOK,
        Jobs
  <2>2. Turns' /\ Jobs'
    BY <1>6 DEF Granted, Throw, serverVars, routeVars, historyVars, Inv, TypeOK,
        Turns, Jobs
  <2>3. Snapshot' /\ Routes'
    BY <1>6 DEF Granted, Throw, serverVars, routeVars, historyVars, Inv, TypeOK,
        Turns, Jobs, Snapshot, Routes
  <2>4. Results' /\ Grants'
    BY <1>6 DEF Granted, Throw, serverVars, routeVars, historyVars, Inv, TypeOK,
        Results, Grants
  <2>5. Whole'
    BY <1>6 DEF Granted, Throw, serverVars, routeVars, historyVars, Inv, TypeOK,
        Whole, Results
  <2>6. Cleans' /\ StatusCause'
    BY <1>6 DEF Granted, Throw, serverVars, routeVars, historyVars, Inv, TypeOK,
        Turns, Cleans, StatusCause
  <2>7. SnapshotCause' /\ RouteCause'
    BY <1>6 DEF Granted, Throw, serverVars, routeVars, historyVars, Inv, TypeOK,
        Turns, Cleans, StatusCause, SnapshotCause, RouteCause, Finished
  <2> QED BY <2>1, <2>2, <2>3, <2>4, <2>5, <2>6, <2>7 DEF Inv
<1>7. CASE Granted("latencyGrant", "latency")
  <2>1. TypeOK'
    BY <1>7 DEF Granted, Throw, serverVars, routeVars, historyVars, Inv, TypeOK,
        Jobs
  <2>2. Turns' /\ Jobs'
    BY <1>7 DEF Granted, Throw, serverVars, routeVars, historyVars, Inv, TypeOK,
        Turns, Jobs
  <2>3. Snapshot' /\ Routes'
    BY <1>7 DEF Granted, Throw, serverVars, routeVars, historyVars, Inv, TypeOK,
        Turns, Jobs, Snapshot, Routes
  <2>4. Results' /\ Grants'
    BY <1>7 DEF Granted, Throw, serverVars, routeVars, historyVars, Inv, TypeOK,
        Results, Grants
  <2>5. Whole'
    BY <1>7 DEF Granted, Throw, serverVars, routeVars, historyVars, Inv, TypeOK,
        Whole, Results
  <2>6. Cleans' /\ StatusCause'
    BY <1>7 DEF Granted, Throw, serverVars, routeVars, historyVars, Inv, TypeOK,
        Turns, Cleans, StatusCause
  <2>7. SnapshotCause' /\ RouteCause'
    BY <1>7 DEF Granted, Throw, serverVars, routeVars, historyVars, Inv, TypeOK,
        Turns, Cleans, StatusCause, SnapshotCause, RouteCause, Finished
  <2> QED BY <2>1, <2>2, <2>3, <2>4, <2>5, <2>6, <2>7 DEF Inv
<1>8. CASE LatencyFails
  <2>1. TypeOK'
    BY <1>8 DEF LatencyFails, Throw, serverVars, routeVars, historyVars, Inv,
        TypeOK, Jobs
  <2>2. Turns' /\ Jobs'
    BY <1>8 DEF LatencyFails, Throw, serverVars, routeVars, historyVars, Inv,
        TypeOK, Turns, Jobs
  <2>3. Snapshot' /\ Routes'
    BY <1>8 DEF LatencyFails, Throw, serverVars, routeVars, historyVars, Inv,
        TypeOK, Turns, Jobs, Snapshot, Routes
  <2>4. Results' /\ Grants'
    BY <1>8 DEF LatencyFails, Throw, serverVars, routeVars, historyVars, Inv,
        TypeOK, Results, Grants
  <2>5. Whole'
    BY <1>8 DEF LatencyFails, Throw, serverVars, routeVars, historyVars, Inv,
        TypeOK, Whole, Results
  <2>6. Cleans' /\ StatusCause'
    BY <1>8 DEF LatencyFails, Throw, serverVars, routeVars, historyVars, Inv,
        TypeOK, Turns, Cleans, StatusCause
  <2>7. SnapshotCause' /\ RouteCause'
    BY <1>8 DEF LatencyFails, Throw, serverVars, routeVars, historyVars, Inv,
        TypeOK, Turns, Cleans, StatusCause, SnapshotCause, RouteCause, Finished
  <2> QED BY <2>1, <2>2, <2>3, <2>4, <2>5, <2>6, <2>7 DEF Inv
<1>9. CASE Probed
  <2>1. TypeOK'
    BY <1>9 DEF Probed, serverVars, routeVars, historyVars, Inv, TypeOK, Jobs
  <2>2. Turns' /\ Jobs'
    BY <1>9 DEF Probed, serverVars, routeVars, historyVars, Inv, TypeOK, Turns, Jobs
  <2>3. Snapshot' /\ Routes'
    BY <1>9 DEF Probed, serverVars, routeVars, historyVars, Inv, TypeOK, Turns,
        Jobs, Snapshot, Routes
  <2>4. Results' /\ Grants'
    BY <1>9 DEF Probed, serverVars, routeVars, historyVars, Inv, TypeOK, Results,
        Grants
  <2>5. Whole'
    BY <1>9 DEF Probed, serverVars, routeVars, historyVars, Inv, TypeOK, Whole,
        Results
  <2>6. Cleans' /\ StatusCause'
    BY <1>9 DEF Probed, serverVars, routeVars, historyVars, Inv, TypeOK, Turns,
        Cleans, StatusCause
  <2>7. SnapshotCause' /\ RouteCause'
    BY <1>9 DEF Probed, serverVars, routeVars, historyVars, Inv, TypeOK, Turns,
        Cleans, StatusCause, SnapshotCause, RouteCause, Finished
  <2> QED BY <2>1, <2>2, <2>3, <2>4, <2>5, <2>6, <2>7 DEF Inv
<1>10. CASE SubmitProbe
  <2>1. TypeOK'
    BY <1>10 DEF SubmitProbe, routeVars, historyVars, Inv, TypeOK, Jobs
  <2>2. Turns' /\ Jobs'
    BY <1>10 DEF SubmitProbe, routeVars, historyVars, Inv, TypeOK, Turns, Jobs
  <2>3. Snapshot' /\ Routes'
    BY <1>10 DEF SubmitProbe, routeVars, historyVars, Inv, TypeOK, Turns, Jobs,
        Snapshot, Routes
  <2>4. Results' /\ Grants'
    BY <1>10 DEF SubmitProbe, routeVars, historyVars, Inv, TypeOK, Results, Grants
  <2>5. Whole'
    BY <1>10 DEF SubmitProbe, routeVars, historyVars, Inv, TypeOK, Whole, Results
  <2>6. Cleans' /\ StatusCause'
    BY <1>10 DEF SubmitProbe, routeVars, historyVars, Inv, TypeOK, Turns, Cleans,
        StatusCause
  <2>7. SnapshotCause' /\ RouteCause'
    BY <1>10 DEF SubmitProbe, routeVars, historyVars, Inv, TypeOK, Turns, Cleans,
        StatusCause, SnapshotCause, RouteCause, Finished
  <2> QED BY <2>1, <2>2, <2>3, <2>4, <2>5, <2>6, <2>7 DEF Inv
<1>11. CASE SubmitProbeFails
  <2>1. TypeOK'
    BY <1>11 DEF SubmitProbeFails, Throw, routeVars, historyVars, Inv, TypeOK, Jobs
  <2>2. Turns' /\ Jobs'
    BY <1>11 DEF SubmitProbeFails, Throw, routeVars, historyVars, Inv, TypeOK,
        Turns, Jobs
  <2>3. Snapshot' /\ Routes'
    BY <1>11 DEF SubmitProbeFails, Throw, routeVars, historyVars, Inv, TypeOK,
        Turns, Jobs, Snapshot, Routes
  <2>4. Results' /\ Grants'
    BY <1>11 DEF SubmitProbeFails, Throw, routeVars, historyVars, Inv, TypeOK,
        Results, Grants
  <2>5. Whole'
    BY <1>11 DEF SubmitProbeFails, Throw, routeVars, historyVars, Inv, TypeOK,
        Whole, Results
  <2>6. Cleans' /\ StatusCause'
    BY <1>11 DEF SubmitProbeFails, Throw, routeVars, historyVars, Inv, TypeOK,
        Turns, Cleans, StatusCause
  <2>7. SnapshotCause' /\ RouteCause'
    BY <1>11 DEF SubmitProbeFails, Throw, routeVars, historyVars, Inv, TypeOK,
        Turns, Cleans, StatusCause, SnapshotCause, RouteCause, Finished
  <2> QED BY <2>1, <2>2, <2>3, <2>4, <2>5, <2>6, <2>7 DEF Inv
<1>12. ASSUME NEW n \in Nodes, TestNext(n) PROVE Inv'
  <2>1. TypeOK'
    BY <1>12 DEF TestNext, AskGrant, serverVars, routeVars, Inv, TypeOK, Jobs,
        NoDraft, Cuts
  <2>2. Turns' /\ Jobs'
    BY <1>12 DEF TestNext, AskGrant, serverVars, routeVars, Inv, TypeOK, Turns, Jobs
  <2>3. Snapshot' /\ Routes'
    BY <1>12 DEF TestNext, AskGrant, serverVars, routeVars, Inv, TypeOK, Turns,
        Jobs, Snapshot, Routes
  <2>4. Results' /\ Grants'
    BY <1>12 DEF TestNext, AskGrant, serverVars, routeVars, Inv, TypeOK, Results,
        Grants
  <2>5. Whole'
    BY <1>12 DEF TestNext, AskGrant, serverVars, routeVars, Inv, TypeOK, Whole,
        Results, NoDraft
  <2>6. Cleans' /\ StatusCause'
    BY <1>12 DEF TestNext, AskGrant, serverVars, routeVars, Inv, TypeOK, Turns,
        Cleans, StatusCause
  <2>7. SnapshotCause' /\ RouteCause'
    BY <1>12 DEF TestNext, AskGrant, serverVars, routeVars, Inv, TypeOK, Turns,
        Cleans, StatusCause, SnapshotCause, RouteCause, Finished
  <2> QED BY <2>1, <2>2, <2>3, <2>4, <2>5, <2>6, <2>7 DEF Inv
<1>13. CASE Latency
  <2>1. TypeOK'
    BY <1>13 DEF Latency, AskGrant, serverVars, routeVars, Inv, TypeOK, Jobs
  <2>2. Turns' /\ Jobs'
    BY <1>13 DEF Latency, AskGrant, serverVars, routeVars, Inv, TypeOK, Turns, Jobs
  <2>3. Snapshot' /\ Routes'
    BY <1>13 DEF Latency, AskGrant, serverVars, routeVars, Inv, TypeOK, Turns, Jobs,
        Snapshot, Routes
  <2>4. Results' /\ Grants'
    BY <1>13 DEF Latency, AskGrant, serverVars, routeVars, Inv, TypeOK, Results,
        Grants
  <2>5. Whole'
    BY <1>13 DEF Latency, AskGrant, serverVars, routeVars, Inv, TypeOK, Whole,
        Results
  <2>6. Cleans' /\ StatusCause'
    BY <1>13 DEF Latency, AskGrant, serverVars, routeVars, Inv, TypeOK, Turns,
        Cleans, StatusCause
  <2>7. SnapshotCause' /\ RouteCause'
    BY <1>13 DEF Latency, AskGrant, serverVars, routeVars, Inv, TypeOK, Turns,
        Cleans, StatusCause, SnapshotCause, RouteCause, Finished
  <2> QED BY <2>1, <2>2, <2>3, <2>4, <2>5, <2>6, <2>7 DEF Inv
<1>14. CASE DownloadGranted
  <2>1. TypeOK'
    BY <1>14 DEF DownloadGranted, serverVars, routeVars, historyVars, Inv, TypeOK,
        Jobs, Cuts
  <2>2. Turns' /\ Jobs'
    BY <1>14 DEF DownloadGranted, serverVars, routeVars, historyVars, Inv, TypeOK,
        Turns, Jobs
  <2>3. Snapshot' /\ Routes'
    BY <1>14 DEF DownloadGranted, serverVars, routeVars, historyVars, Inv, TypeOK,
        Turns, Jobs, Snapshot, Routes
  <2>4. Results' /\ Grants'
    BY <1>14 DEF DownloadGranted, serverVars, routeVars, historyVars, Inv, TypeOK,
        Results, Grants
  <2>5. Whole'
    BY <1>14 DEF DownloadGranted, serverVars, routeVars, historyVars, Inv, TypeOK,
        Whole, Results
  <2>6. Cleans' /\ StatusCause'
    BY <1>14 DEF DownloadGranted, serverVars, routeVars, historyVars, Inv, TypeOK,
        Turns, Cleans, StatusCause
  <2>7. SnapshotCause' /\ RouteCause'
    BY <1>14 DEF DownloadGranted, serverVars, routeVars, historyVars, Inv, TypeOK,
        Turns, Cleans, StatusCause, SnapshotCause, RouteCause, Finished
  <2> QED BY <2>1, <2>2, <2>3, <2>4, <2>5, <2>6, <2>7 DEF Inv
<1>15. CASE Download
  <2>1. TypeOK'
    BY <1>15 DEF Download, AskGrant, serverVars, routeVars, Inv, TypeOK, Jobs, Cuts
  <2>2. Turns' /\ Jobs'
    BY <1>15 DEF Download, AskGrant, serverVars, routeVars, Inv, TypeOK, Turns, Jobs
  <2>3. Snapshot' /\ Routes'
    BY <1>15 DEF Download, AskGrant, serverVars, routeVars, Inv, TypeOK, Turns,
        Jobs, Snapshot, Routes
  <2>4. Results' /\ Grants'
    BY <1>15 DEF Download, AskGrant, serverVars, routeVars, Inv, TypeOK, Results,
        Grants
  <2>5. Whole'
    BY <1>15 DEF Download, AskGrant, serverVars, routeVars, Inv, TypeOK, Whole,
        Results
  <2>6. Cleans' /\ StatusCause'
    BY <1>15 DEF Download, AskGrant, serverVars, routeVars, Inv, TypeOK, Turns,
        Cleans, StatusCause
  <2>7. SnapshotCause' /\ RouteCause'
    BY <1>15 DEF Download, AskGrant, serverVars, routeVars, Inv, TypeOK, Turns,
        Cleans, StatusCause, SnapshotCause, RouteCause, Finished
  <2> QED BY <2>1, <2>2, <2>3, <2>4, <2>5, <2>6, <2>7 DEF Inv
<1>16. CASE DownloadFails
  <2>1. TypeOK'
    BY <1>16 DEF DownloadFails, Throw, serverVars, routeVars, historyVars, Inv,
        TypeOK, Jobs
  <2>2. Turns' /\ Jobs'
    BY <1>16 DEF DownloadFails, Throw, serverVars, routeVars, historyVars, Inv,
        TypeOK, Turns, Jobs
  <2>3. Snapshot' /\ Routes'
    BY <1>16 DEF DownloadFails, Throw, serverVars, routeVars, historyVars, Inv,
        TypeOK, Turns, Jobs, Snapshot, Routes
  <2>4. Results' /\ Grants'
    BY <1>16 DEF DownloadFails, Throw, serverVars, routeVars, historyVars, Inv,
        TypeOK, Results, Grants
  <2>5. Whole'
    BY <1>16 DEF DownloadFails, Throw, serverVars, routeVars, historyVars, Inv,
        TypeOK, Whole, Results
  <2>6. Cleans' /\ StatusCause'
    BY <1>16 DEF DownloadFails, Throw, serverVars, routeVars, historyVars, Inv,
        TypeOK, Turns, Cleans, StatusCause
  <2>7. SnapshotCause' /\ RouteCause'
    BY <1>16 DEF DownloadFails, Throw, serverVars, routeVars, historyVars, Inv,
        TypeOK, Turns, Cleans, StatusCause, SnapshotCause, RouteCause, Finished
  <2> QED BY <2>1, <2>2, <2>3, <2>4, <2>5, <2>6, <2>7 DEF Inv
<1>17. CASE UploadGranted
  <2>1. TypeOK'
    BY <1>17 DEF UploadGranted, serverVars, routeVars, historyVars, Inv, TypeOK,
        Jobs, Cuts
  <2>2. Turns' /\ Jobs'
    BY <1>17 DEF UploadGranted, serverVars, routeVars, historyVars, Inv, TypeOK,
        Turns, Jobs
  <2>3. Snapshot' /\ Routes'
    BY <1>17 DEF UploadGranted, serverVars, routeVars, historyVars, Inv, TypeOK,
        Turns, Jobs, Snapshot, Routes
  <2>4. Results' /\ Grants'
    BY <1>17 DEF UploadGranted, serverVars, routeVars, historyVars, Inv, TypeOK,
        Results, Grants
  <2>5. Whole'
    BY <1>17 DEF UploadGranted, serverVars, routeVars, historyVars, Inv, TypeOK,
        Whole, Results
  <2>6. Cleans' /\ StatusCause'
    BY <1>17 DEF UploadGranted, serverVars, routeVars, historyVars, Inv, TypeOK,
        Turns, Cleans, StatusCause
  <2>7. SnapshotCause' /\ RouteCause'
    BY <1>17 DEF UploadGranted, serverVars, routeVars, historyVars, Inv, TypeOK,
        Turns, Cleans, StatusCause, SnapshotCause, RouteCause, Finished
  <2> QED BY <2>1, <2>2, <2>3, <2>4, <2>5, <2>6, <2>7 DEF Inv
<1>18. CASE Upload
  <2>1. TypeOK'
    BY <1>18 DEF Upload, serverVars, routeVars, historyVars, Inv, TypeOK, Jobs, Cuts
  <2>2. Turns' /\ Jobs'
    BY <1>18 DEF Upload, serverVars, routeVars, historyVars, Inv, TypeOK, Turns,
        Jobs
  <2>3. Snapshot' /\ Routes'
    BY <1>18 DEF Upload, serverVars, routeVars, historyVars, Inv, TypeOK, Turns,
        Jobs, Snapshot, Routes
  <2>4. Results' /\ Grants'
    BY <1>18 DEF Upload, serverVars, routeVars, historyVars, Inv, TypeOK, Results,
        Grants
  <2>5. Whole'
    BY <1>18 DEF Upload, serverVars, routeVars, historyVars, Inv, TypeOK, Whole,
        Results
  <2>6. Cleans' /\ StatusCause'
    BY <1>18 DEF Upload, serverVars, routeVars, historyVars, Inv, TypeOK, Turns,
        Cleans, StatusCause
  <2>7. SnapshotCause' /\ RouteCause'
    BY <1>18 DEF Upload, serverVars, routeVars, historyVars, Inv, TypeOK, Turns,
        Cleans, StatusCause, SnapshotCause, RouteCause, Finished
  <2> QED BY <2>1, <2>2, <2>3, <2>4, <2>5, <2>6, <2>7 DEF Inv
<1>19. CASE UploadFails
  <2>1. TypeOK'
    BY <1>19 DEF UploadFails, Throw, serverVars, routeVars, historyVars, Inv,
        TypeOK, Jobs
  <2>2. Turns' /\ Jobs'
    BY <1>19 DEF UploadFails, Throw, serverVars, routeVars, historyVars, Inv,
        TypeOK, Turns, Jobs
  <2>3. Snapshot' /\ Routes'
    BY <1>19 DEF UploadFails, Throw, serverVars, routeVars, historyVars, Inv,
        TypeOK, Turns, Jobs, Snapshot, Routes
  <2>4. Results' /\ Grants'
    BY <1>19 DEF UploadFails, Throw, serverVars, routeVars, historyVars, Inv,
        TypeOK, Results, Grants
  <2>5. Whole'
    BY <1>19 DEF UploadFails, Throw, serverVars, routeVars, historyVars, Inv,
        TypeOK, Whole, Results
  <2>6. Cleans' /\ StatusCause'
    BY <1>19 DEF UploadFails, Throw, serverVars, routeVars, historyVars, Inv,
        TypeOK, Turns, Cleans, StatusCause
  <2>7. SnapshotCause' /\ RouteCause'
    BY <1>19 DEF UploadFails, Throw, serverVars, routeVars, historyVars, Inv,
        TypeOK, Turns, Cleans, StatusCause, SnapshotCause, RouteCause, Finished
  <2> QED BY <2>1, <2>2, <2>3, <2>4, <2>5, <2>6, <2>7 DEF Inv
<1>20. CASE ~hung /\ AskRoute
  <2>1. TypeOK'
    BY <1>20 DEF AskRoute, serverVars, historyVars, Inv, TypeOK, Jobs
  <2>2. Turns' /\ Jobs'
    BY <1>20 DEF AskRoute, serverVars, historyVars, Inv, TypeOK, Turns, Jobs
  <2>3. Snapshot' /\ Routes'
    BY <1>20 DEF AskRoute, serverVars, historyVars, Inv, TypeOK, Turns, Jobs,
        Snapshot, Routes
  <2>4. Results' /\ Grants'
    BY <1>20 DEF AskRoute, serverVars, historyVars, Inv, TypeOK, Results, Grants
  <2>5. Whole'
    BY <1>20 DEF AskRoute, serverVars, historyVars, Inv, TypeOK, Whole, Results
  <2>6. Cleans' /\ StatusCause'
    BY <1>20 DEF AskRoute, serverVars, historyVars, Inv, TypeOK, Turns, Cleans,
        StatusCause
  <2>7. SnapshotCause' /\ RouteCause'
    BY <1>20 DEF AskRoute, serverVars, historyVars, Inv, TypeOK, Turns, Cleans,
        StatusCause, SnapshotCause, RouteCause, Finished
  <2> QED BY <2>1, <2>2, <2>3, <2>4, <2>5, <2>6, <2>7 DEF Inv
<1>21. CASE ~hung /\ AskRouteLost
  <2>1. TypeOK'
    BY <1>21 DEF AskRouteLost, Throw, serverVars, historyVars, Inv, TypeOK, Jobs
  <2>2. Turns' /\ Jobs'
    BY <1>21 DEF AskRouteLost, Throw, serverVars, historyVars, Inv, TypeOK, Turns,
        Jobs
  <2>3. Snapshot' /\ Routes'
    BY <1>21 DEF AskRouteLost, Throw, serverVars, historyVars, Inv, TypeOK, Turns,
        Jobs, Snapshot, Routes
  <2>4. Results' /\ Grants'
    BY <1>21 DEF AskRouteLost, Throw, serverVars, historyVars, Inv, TypeOK, Results,
        Grants
  <2>5. Whole'
    BY <1>21 DEF AskRouteLost, Throw, serverVars, historyVars, Inv, TypeOK, Whole,
        Results
  <2>6. Cleans' /\ StatusCause'
    BY <1>21 DEF AskRouteLost, Throw, serverVars, historyVars, Inv, TypeOK, Turns,
        Cleans, StatusCause
  <2>7. SnapshotCause' /\ RouteCause'
    BY <1>21 DEF AskRouteLost, Throw, serverVars, historyVars, Inv, TypeOK, Turns,
        Cleans, StatusCause, SnapshotCause, RouteCause, Finished
  <2> QED BY <2>1, <2>2, <2>3, <2>4, <2>5, <2>6, <2>7 DEF Inv
<1>22. CASE PollStatus
  <2>1. TypeOK'
    BY <1>22 DEF PollStatus, serverVars, routeVars, historyVars, Inv, TypeOK, Jobs
  <2>2. Turns' /\ Jobs'
    BY <1>22 DEF PollStatus, serverVars, routeVars, historyVars, Inv, TypeOK, Turns,
        Jobs
  <2>3. Snapshot' /\ Routes'
    BY <1>22 DEF PollStatus, serverVars, routeVars, historyVars, Inv, TypeOK, Turns,
        Jobs, Snapshot, Routes
  <2>4. Results' /\ Grants'
    BY <1>22 DEF PollStatus, serverVars, routeVars, historyVars, Inv, TypeOK,
        Results, Grants
  <2>5. Whole'
    BY <1>22 DEF PollStatus, serverVars, routeVars, historyVars, Inv, TypeOK, Whole,
        Results
  <2>6. Cleans' /\ StatusCause'
    BY <1>22 DEF PollStatus, serverVars, routeVars, historyVars, Inv, TypeOK, Turns,
        Cleans, StatusCause
  <2>7. SnapshotCause'
    <3> SUFFICES ASSUME status \in RouteEnded, job[node] # "done"
                 PROVE  \E m \in Nodes \ clean : m # node /\ m \notin todo /\ job[m] # "none"
      BY <1>22 DEF PollStatus, serverVars, routeVars, historyVars, SnapshotCause
    <3>1. PICK m \in Nodes : /\ job[m] = "done"
                             /\ m \in clean => handler[m] \in {"upsert", "mark"}
      BY DEF Inv, StatusCause
    <3>2. m \notin clean
      BY <1>22, <3>1 DEF PollStatus, Inv, Cleans
    <3>3. m \notin todo
      BY <1>22, <3>1 DEF PollStatus, Inv, Turns
    <3> QED BY <3>1, <3>2, <3>3
  <2>8. RouteCause'
    BY <1>22 DEF PollStatus, routeVars, historyVars, Inv, TypeOK, RouteCause, Finished
  <2> QED BY <2>1, <2>2, <2>3, <2>4, <2>5, <2>6, <2>7, <2>8 DEF Inv
<1>23. CASE PollHops
  <2>1. ASSUME NEW by \in {"hops", "status", "polls"}, Keep(by),
               by = "status" => seen.status \in RouteEnded
        PROVE  Inv'
    BY <1>23, <2>1, KeepInv DEF PollHops, routeVars
  <2>2. CASE /\ pc' = "pollStatus" /\ polls' = polls + 1 /\ polls + 1 # MaxPolls
             /\ UNCHANGED <<local, handler, clean, draft, seen>>
    <3>1. TypeOK'
      BY <1>23, <2>2 DEF PollHops, routeVars, Inv, TypeOK
    <3>2. Turns' /\ Jobs' /\ Snapshot' /\ Routes' /\ Results'
      BY <1>23, <2>2 DEF PollHops, routeVars, Inv, TypeOK, Turns, Jobs, Snapshot, Routes,
                         Results
    <3>3. Grants' /\ Whole' /\ Cleans'
      BY <1>23, <2>2 DEF PollHops, routeVars, Inv, TypeOK, Grants, Whole, Cleans
    <3>4. StatusCause' /\ SnapshotCause' /\ RouteCause'
      BY <1>23, <2>2 DEF PollHops, routeVars, Inv, TypeOK, StatusCause, SnapshotCause,
                         RouteCause, Finished
    <3> QED BY <3>1, <3>2, <3>3, <3>4 DEF Inv
  <2>3. hops[node] \in Nat
    BY <1>23 DEF PollHops, Inv, TypeOK
  <2>4. CASE hops[node] > 0
    BY <1>23, <2>1, <2>4 DEF PollHops
  <2>5. CASE hops[node] = 0 /\ seen.status \in RouteEnded
    BY <1>23, <2>1, <2>5 DEF PollHops
  <2>6. CASE hops[node] = 0 /\ seen.status \notin RouteEnded /\ polls + 1 = MaxPolls
    BY <1>23, <2>1, <2>6 DEF PollHops
  <2>7. CASE hops[node] = 0 /\ seen.status \notin RouteEnded /\ polls + 1 # MaxPolls
    BY <1>23, <2>2, <2>7 DEF PollHops
  <2> QED BY <2>3, <2>4, <2>5, <2>6, <2>7
<1>24. CASE Submitted
  <2>1. TypeOK'
    BY <1>24 DEF Submitted, serverVars, routeVars, historyVars, Inv, TypeOK, Jobs
  <2>2. Turns' /\ Jobs'
    BY <1>24 DEF Submitted, serverVars, routeVars, historyVars, Inv, TypeOK, Turns,
        Jobs
  <2>3. Snapshot' /\ Routes'
    BY <1>24 DEF Submitted, serverVars, routeVars, historyVars, Inv, TypeOK, Turns,
        Jobs, Snapshot, Routes
  <2>4. Results' /\ Grants'
    BY <1>24 DEF Submitted, serverVars, routeVars, historyVars, Inv, TypeOK,
        Results, Grants
  <2>5. Whole'
    BY <1>24 DEF Submitted, serverVars, routeVars, historyVars, Inv, TypeOK, Whole,
        Results
  <2>6. Cleans' /\ StatusCause'
    BY <1>24 DEF Submitted, serverVars, routeVars, historyVars, Inv, TypeOK, Turns,
        Cleans, StatusCause
  <2>7. SnapshotCause' /\ RouteCause'
    BY <1>24 DEF Submitted, serverVars, routeVars, historyVars, Inv, TypeOK, Turns,
        Cleans, StatusCause, SnapshotCause, RouteCause, Finished
  <2> QED BY <2>1, <2>2, <2>3, <2>4, <2>5, <2>6, <2>7 DEF Inv
<1>25. CASE SubmitFails
  <2>1. TypeOK'
    BY <1>25 DEF SubmitFails, Throw, routeVars, Inv, TypeOK, Jobs
  <2>2. Turns' /\ Jobs'
    BY <1>25 DEF SubmitFails, Throw, routeVars, Inv, TypeOK, Turns, Jobs
  <2>3. Snapshot' /\ Routes'
    BY <1>25 DEF SubmitFails, Throw, routeVars, Inv, TypeOK, Turns, Jobs, Snapshot,
        Routes
  <2>4. Results' /\ Grants'
    <3>1. Results'
      <4>1. node \in Nodes /\ local[node] # NoResult
        BY <1>25 DEF SubmitFails, Inv, TypeOK, Results
      <4> QED BY <1>25, <4>1 DEF SubmitFails, Inv, TypeOK, Results
    <3>2. Grants'
      BY <1>25 DEF SubmitFails, Throw, Inv, Grants
    <3> QED BY <3>1, <3>2
  <2>5. Whole'
    BY <1>25 DEF SubmitFails, Throw, routeVars, Inv, TypeOK, Whole, Results
  <2>6. Cleans' /\ StatusCause'
    BY <1>25 DEF SubmitFails, Throw, routeVars, Inv, TypeOK, Turns, Cleans,
        StatusCause
  <2>7. SnapshotCause' /\ RouteCause'
    BY <1>25 DEF SubmitFails, Throw, routeVars, Inv, TypeOK, Turns, Cleans,
        StatusCause, SnapshotCause, RouteCause, Finished
  <2> QED BY <2>1, <2>2, <2>3, <2>4, <2>5, <2>6, <2>7 DEF Inv
<1>26. CASE Finish
  <2>1. TypeOK'
    BY <1>26 DEF Finish, ThrowOut, serverVars, routeVars, historyVars, Inv, TypeOK,
        Jobs
  <2>2. Turns' /\ Jobs'
    BY <1>26 DEF Finish, ThrowOut, serverVars, routeVars, historyVars, Inv, TypeOK,
        Turns, Jobs
  <2>3. Snapshot' /\ Routes'
    BY <1>26 DEF Finish, ThrowOut, serverVars, routeVars, historyVars, Inv, TypeOK,
        Turns, Jobs, Snapshot, Routes
  <2>4. Results' /\ Grants'
    BY <1>26 DEF Finish, ThrowOut, serverVars, routeVars, historyVars, Inv, TypeOK,
        Results, Grants
  <2>5. Whole'
    BY <1>26 DEF Finish, ThrowOut, serverVars, routeVars, historyVars, Inv, TypeOK,
        Whole, Results
  <2>6. Cleans' /\ StatusCause'
    BY <1>26 DEF Finish, ThrowOut, serverVars, routeVars, historyVars, Inv, TypeOK,
        Turns, Cleans, StatusCause
  <2>7. SnapshotCause' /\ RouteCause'
    BY <1>26 DEF Finish, ThrowOut, serverVars, routeVars, historyVars, Inv, TypeOK,
        Turns, Cleans, StatusCause, SnapshotCause, RouteCause, Finished
  <2> QED BY <2>1, <2>2, <2>3, <2>4, <2>5, <2>6, <2>7 DEF Inv
<1>27. CASE Abort
  <2>1. TypeOK'
    BY <1>27 DEF Abort, pageVars, serverVars, routeVars, historyVars, Inv, TypeOK,
        Jobs, NoResult, NoDraft, NoSnap
  <2>2. Turns' /\ Jobs'
    BY <1>27 DEF Abort, pageVars, serverVars, routeVars, historyVars, Inv, TypeOK,
        Turns, Jobs, Signalled, NoResult, NoDraft, NoSnap
  <2>3. Snapshot' /\ Routes'
    BY <1>27 DEF Abort, pageVars, serverVars, routeVars, historyVars, Inv, TypeOK,
        Turns, Jobs, Snapshot, Routes, NoResult, NoDraft, NoSnap
  <2>4. Results' /\ Grants'
    BY <1>27 DEF Abort, pageVars, serverVars, routeVars, historyVars, Inv, TypeOK,
        Results, Grants, NoResult, NoDraft, NoSnap
  <2>5. Whole'
    BY <1>27 DEF Abort, pageVars, serverVars, routeVars, historyVars, Inv, TypeOK,
        Whole, Results, NoResult, NoDraft, NoSnap
  <2>6. Cleans' /\ StatusCause'
    BY <1>27 DEF Abort, pageVars, serverVars, routeVars, historyVars, Inv, TypeOK,
        Turns, Cleans, StatusCause, NoResult, NoDraft, NoSnap
  <2>7. SnapshotCause' /\ RouteCause'
    BY <1>27 DEF Abort, pageVars, serverVars, routeVars, historyVars, Inv, TypeOK,
        Turns, Cleans, StatusCause, SnapshotCause, RouteCause, Finished, NoResult,
        NoDraft, NoSnap
  <2> QED BY <2>1, <2>2, <2>3, <2>4, <2>5, <2>6, <2>7 DEF Inv
<1>28. ASSUME NEW n \in Nodes, StoreResult(n) PROVE Inv'
  <2>1. TypeOK'
    BY <1>28 DEF StoreResult, pageVars, routeVars, historyVars, Inv, TypeOK, Jobs
  <2>2. Turns' /\ Jobs'
    BY <1>28 DEF StoreResult, pageVars, routeVars, historyVars, Inv, TypeOK, Turns,
        Jobs
  <2>3. Snapshot' /\ Routes'
    BY <1>28 DEF StoreResult, pageVars, routeVars, historyVars, Inv, TypeOK, Turns,
        Jobs, Snapshot, Routes
  <2>4. Results' /\ Grants'
    BY <1>28 DEF StoreResult, pageVars, routeVars, historyVars, Inv, TypeOK,
        Results, Grants
  <2>5. Whole'
    BY <1>28 DEF StoreResult, pageVars, routeVars, historyVars, Inv, TypeOK, Whole,
        Results
  <2>6. Cleans' /\ StatusCause'
    BY <1>28 DEF StoreResult, pageVars, routeVars, historyVars, Inv, TypeOK, Turns,
        Cleans, StatusCause
  <2>7. SnapshotCause' /\ RouteCause'
    BY <1>28 DEF StoreResult, pageVars, routeVars, historyVars, Inv, TypeOK, Turns,
        Cleans, StatusCause, SnapshotCause, RouteCause, Finished
  <2> QED BY <2>1, <2>2, <2>3, <2>4, <2>5, <2>6, <2>7 DEF Inv
<1>29. ASSUME NEW n \in Nodes, MarkComplete(n) PROVE Inv'
  <2>1. TypeOK'
    BY <1>29 DEF MarkComplete, pageVars, routeVars, historyVars, Inv, TypeOK, Jobs
  <2>2. Turns' /\ Jobs'
    BY <1>29 DEF MarkComplete, pageVars, routeVars, historyVars, Inv, TypeOK, Turns,
        Jobs
  <2>3. Snapshot' /\ Routes'
    BY <1>29 DEF MarkComplete, pageVars, routeVars, historyVars, Inv, TypeOK, Turns,
        Jobs, Snapshot, Routes
  <2>4. Results' /\ Grants'
    BY <1>29 DEF MarkComplete, pageVars, routeVars, historyVars, Inv, TypeOK,
        Results, Grants
  <2>5. Whole'
    BY <1>29 DEF MarkComplete, pageVars, routeVars, historyVars, Inv, TypeOK, Whole,
        Results
  <2>6. Cleans' /\ StatusCause'
    BY <1>29 DEF MarkComplete, pageVars, routeVars, historyVars, Inv, TypeOK, Turns,
        Cleans, StatusCause
  <2>7. SnapshotCause' /\ RouteCause'
    BY <1>29 DEF MarkComplete, pageVars, routeVars, historyVars, Inv, TypeOK, Turns,
        Cleans, StatusCause, SnapshotCause, RouteCause, Finished
  <2> QED BY <2>1, <2>2, <2>3, <2>4, <2>5, <2>6, <2>7 DEF Inv
<1>30. ASSUME NEW n \in Nodes, InsertHop(n) PROVE Inv'
  <2>1. TypeOK'
    BY <1>30 DEF InsertHop, pageVars, serverVars, historyVars, Inv, TypeOK, Jobs
  <2>2. Turns' /\ Jobs'
    BY <1>30 DEF InsertHop, pageVars, serverVars, historyVars, Inv, TypeOK, Turns,
        Jobs
  <2>3. Snapshot' /\ Routes'
    BY <1>30 DEF InsertHop, pageVars, serverVars, historyVars, Inv, TypeOK, Turns,
        Jobs, Snapshot, Routes
  <2>4. Results' /\ Grants'
    BY <1>30 DEF InsertHop, pageVars, serverVars, historyVars, Inv, TypeOK, Results,
        Grants
  <2>5. Whole'
    BY <1>30 DEF InsertHop, pageVars, serverVars, historyVars, Inv, TypeOK, Whole,
        Results
  <2>6. Cleans' /\ StatusCause'
    BY <1>30 DEF InsertHop, pageVars, serverVars, historyVars, Inv, TypeOK, Turns,
        Cleans, StatusCause
  <2>7. SnapshotCause' /\ RouteCause'
    BY <1>30 DEF InsertHop, pageVars, serverVars, historyVars, Inv, TypeOK, Turns,
        Cleans, StatusCause, SnapshotCause, RouteCause, Finished
  <2> QED BY <2>1, <2>2, <2>3, <2>4, <2>5, <2>6, <2>7 DEF Inv
<1>31. ASSUME NEW n \in Nodes, EndRoute(n) PROVE Inv'
  <2>1. TypeOK'
    BY <1>31 DEF EndRoute, pageVars, historyVars, Inv, TypeOK, Jobs
  <2>2. Turns' /\ Jobs'
    BY <1>31 DEF EndRoute, pageVars, historyVars, Inv, TypeOK, Turns, Jobs
  <2>3. Snapshot' /\ Routes'
    BY <1>31 DEF EndRoute, pageVars, historyVars, Inv, TypeOK, Turns, Jobs,
        Snapshot, Routes
  <2>4. Results' /\ Grants'
    BY <1>31 DEF EndRoute, pageVars, historyVars, Inv, TypeOK, Results, Grants
  <2>5. Whole'
    BY <1>31 DEF EndRoute, pageVars, historyVars, Inv, TypeOK, Whole, Results
  <2>6. Cleans' /\ StatusCause'
    BY <1>31 DEF EndRoute, pageVars, historyVars, Inv, TypeOK, Turns, Cleans,
        StatusCause
  <2>7. SnapshotCause' /\ RouteCause'
    BY <1>31 DEF EndRoute, pageVars, historyVars, Inv, TypeOK, Turns, Cleans,
        StatusCause, SnapshotCause, RouteCause, Finished
  <2> QED BY <2>1, <2>2, <2>3, <2>4, <2>5, <2>6, <2>7 DEF Inv
<1>32. ASSUME NEW n \in Nodes, NEW found \in 0..MaxHops, Answer(n, found) PROVE Inv'
  <2>1. TypeOK'
    BY <1>32 DEF Answer, pageVars, serverVars, historyVars, Inv, TypeOK, Jobs
  <2>2. Turns' /\ Jobs'
    BY <1>32 DEF Answer, pageVars, serverVars, historyVars, Inv, TypeOK, Turns, Jobs
  <2>3. Snapshot' /\ Routes'
    BY <1>32 DEF Answer, pageVars, serverVars, historyVars, Inv, TypeOK, Turns,
        Jobs, Snapshot, Routes
  <2>4. Results' /\ Grants'
    BY <1>32 DEF Answer, pageVars, serverVars, historyVars, Inv, TypeOK, Results,
        Grants
  <2>5. Whole'
    BY <1>32 DEF Answer, pageVars, serverVars, historyVars, Inv, TypeOK, Whole,
        Results
  <2>6. Cleans' /\ StatusCause'
    BY <1>32 DEF Answer, pageVars, serverVars, historyVars, Inv, TypeOK, Turns,
        Cleans, StatusCause
  <2>7. SnapshotCause' /\ RouteCause'
    BY <1>32 DEF Answer, pageVars, serverVars, historyVars, Inv, TypeOK, Turns,
        Cleans, StatusCause, SnapshotCause, RouteCause, Finished
  <2> QED BY <2>1, <2>2, <2>3, <2>4, <2>5, <2>6, <2>7 DEF Inv
<1>33. ASSUME NEW n \in Nodes, AnswerError(n) PROVE Inv'
  <2>1. TypeOK'
    BY <1>33 DEF AnswerError, pageVars, historyVars, Inv, TypeOK, Jobs
  <2>2. Turns' /\ Jobs'
    BY <1>33 DEF AnswerError, pageVars, historyVars, Inv, TypeOK, Turns, Jobs
  <2>3. Snapshot' /\ Routes'
    BY <1>33 DEF AnswerError, pageVars, historyVars, Inv, TypeOK, Turns, Jobs,
        Snapshot, Routes
  <2>4. Results' /\ Grants'
    BY <1>33 DEF AnswerError, pageVars, historyVars, Inv, TypeOK, Results, Grants
  <2>5. Whole'
    BY <1>33 DEF AnswerError, pageVars, historyVars, Inv, TypeOK, Whole, Results
  <2>6. Cleans' /\ StatusCause'
    BY <1>33 DEF AnswerError, pageVars, historyVars, Inv, TypeOK, Turns, Cleans,
        StatusCause
  <2>7. SnapshotCause' /\ RouteCause'
    BY <1>33 DEF AnswerError, pageVars, historyVars, Inv, TypeOK, Turns, Cleans,
        StatusCause, SnapshotCause, RouteCause, Finished
  <2> QED BY <2>1, <2>2, <2>3, <2>4, <2>5, <2>6, <2>7 DEF Inv
<1>34. ASSUME NEW n \in Nodes, LoseJob(n) PROVE Inv'
  <2>1. TypeOK'
    BY <1>34 DEF LoseJob, pageVars, serverVars, historyVars, Inv, TypeOK, Jobs
  <2>2. Turns' /\ Jobs'
    BY <1>34 DEF LoseJob, pageVars, serverVars, historyVars, Inv, TypeOK, Turns,
        Jobs
  <2>3. Snapshot' /\ Routes'
    BY <1>34 DEF LoseJob, pageVars, serverVars, historyVars, Inv, TypeOK, Turns,
        Jobs, Snapshot, Routes
  <2>4. Results' /\ Grants'
    BY <1>34 DEF LoseJob, pageVars, serverVars, historyVars, Inv, TypeOK, Results,
        Grants
  <2>5. Whole'
    BY <1>34 DEF LoseJob, pageVars, serverVars, historyVars, Inv, TypeOK, Whole,
        Results
  <2>6. Cleans' /\ StatusCause'
    BY <1>34 DEF LoseJob, pageVars, serverVars, historyVars, Inv, TypeOK, Turns,
        Cleans, StatusCause
  <2>7. SnapshotCause' /\ RouteCause'
    BY <1>34 DEF LoseJob, pageVars, serverVars, historyVars, Inv, TypeOK, Turns,
        Cleans, StatusCause, SnapshotCause, RouteCause, Finished
  <2> QED BY <2>1, <2>2, <2>3, <2>4, <2>5, <2>6, <2>7 DEF Inv
<1>35. CASE Hang
  <2>0. /\ \/ row' = row
           \/ node \in Nodes /\ row' = [row EXCEPT ![node] = "probed"]
        /\ \/ job' = job
           \/ /\ pc = "routeAsk" /\ node \in Nodes /\ job[node] = "none"
              /\ job' = [job EXCEPT ![node] = "queued"]
    BY <1>35 DEF Hang, Inv, TypeOK, Turns
  <2>1. TypeOK'
    BY <1>35, <2>0 DEF Hang, pageVars, historyVars, Inv, TypeOK
  <2>2. Turns' /\ Jobs'
    BY <1>35, <2>0 DEF Hang, pageVars, historyVars, Inv, TypeOK, Turns, Jobs
  <2>3. Snapshot' /\ Routes'
    BY <1>35, <2>0 DEF Hang, pageVars, historyVars, Inv, TypeOK, Snapshot, Routes
  <2>4. Results' /\ Grants'
    BY <1>35, <2>0 DEF Hang, pageVars, historyVars, Inv, TypeOK, Results, Grants
  <2>5. Whole'
    BY <1>35 DEF Hang, pageVars, Inv, Whole
  <2>6. Cleans' /\ StatusCause'
    BY <1>35, <2>0 DEF Hang, pageVars, historyVars, Inv, TypeOK, Cleans, StatusCause
  <2>7. SnapshotCause' /\ RouteCause'
    BY <1>35, <2>0
    DEF Hang, pageVars, historyVars, Inv, TypeOK, SnapshotCause, RouteCause, Finished
  <2> QED BY <2>1, <2>2, <2>3, <2>4, <2>5, <2>6, <2>7 DEF Inv
<1>36. CASE UNCHANGED vars
  BY <1>36 DEF vars, pageVars, serverVars, routeVars, historyVars, Inv, TypeOK, Turns,
             Jobs, Snapshot, Routes, Results, Grants, Whole, Cleans, StatusCause,
             SnapshotCause, RouteCause, Finished
<1> QED
  BY <1>1, <1>2, <1>3, <1>4, <1>5, <1>6, <1>7, <1>8, <1>9, <1>10, <1>11, <1>12, <1>13,
  <1>14, <1>15, <1>16, <1>17, <1>18, <1>19, <1>20, <1>21, <1>22, <1>23, <1>24, <1>25,
  <1>26, <1>27, <1>28, <1>29, <1>30, <1>31, <1>32, <1>33, <1>34, <1>35,
  <1>36
  DEF Next, Page, PageStep, Server, Agent

-----------------------------------------------------------------------------
\* The invariant, of which the theorems below are parts or consequences.
LEMMA TestInvariant == Spec => []Inv
<1>1. Init => Inv
  BY InitInv
<1>2. Inv /\ [Next]_vars => Inv'
  BY StepInv
<1> QED BY <1>1, <1>2, PTL DEF Spec

\* Every variable keeps its type; no more polls are made than the code allows.
THEOREM TypeCorrect == Spec => []TypeOK
<1>1. Inv => TypeOK
  BY DEF Inv
<1> QED BY <1>1, TestInvariant, PTL

\* What the server has stored as complete the page has kept (localResults.push comes
\* before submitNodeResult), however the submission ended.
THEOREM StoredKept == Spec => []StoredIsKept
<1>1. Inv => StoredIsKept
  BY DEF Inv, Results, StoredIsKept, Measured
<1> QED BY <1>1, TestInvariant, PTL

\* After the user has cancelled, one more grant is asked for at most, wherever in the
\* chain of awaits of TestPage and runNodeTest the abort came.
THEOREM CancelBounded == Spec => []CancelCostsOneGrant
<1>1. Inv => CancelCostsOneGrant
  BY DEF Inv, Grants, CancelCostsOneGrant
<1> QED BY <1>1, TestInvariant, PTL

\* A result stored with an upload or a download cut off belongs to a test that was
\* cancelled, and to the one node it was cancelled at; what a network fault does to an
\* upload never ends as a result.
THEOREM CutOnlyByCancel == Spec => []OnlyCancelCuts
<1>1. Inv => OnlyCancelCuts
  BY DEF Inv, Results, Whole, OnlyCancelCuts
<1> QED BY <1>1, TestInvariant, PTL

\* A poll of api.route that saw its job ended has all of its hops.
THEOREM RouteWhole == Spec => []WholeRouteOnceEnded
<1>1. Inv => WholeRouteOnceEnded
  BY DEF Inv, Routes, WholeRouteOnceEnded
<1> QED BY <1>1, TestInvariant, PTL

\* A polling that another node's status has ended has its cause in a job or a result
\* that the page had not seen through.
THEOREM RouteCutHasCause == Spec => []CutShortHasCause
<1>1. Inv => CutShortHasCause
  BY DEF Inv, RouteCause, CutShortHasCause
<1> QED BY <1>1, TestInvariant, PTL
=============================================================================
