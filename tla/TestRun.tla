------------------------------- MODULE TestRun -------------------------------
(***************************************************************************)
(* A diagnostic test as the browser drives it (TestPage of web/src/app.tsx,*)
(* runNodeTest of test-engine.ts, api.ts), composed with what the server   *)
(* stores of it (server.go) and with the route jobs its agents run.        *)
(*                                                                         *)
(* The page is a chain of awaits, and pc says which one it is in.  The user*)
(* may cancel or leave during any of them; the abort is seen where the code*)
(* looks at the signal.  On the server a statement is one step.            *)
(***************************************************************************)
EXTENDS Naturals, FiniteSets

CONSTANTS
    Nodes,
    Candidates,   \* nodes measured by a smart test: 3 in the code
    MaxPolls,     \* of a route: 44 in the code
    MaxHops,      \* of a trace: 20 in the code
    None

ASSUME TestAssumption ==
    /\ IsFiniteSet(Nodes) /\ None \notin Nodes
    /\ Candidates \in Nat \ {0} /\ MaxPolls \in Nat \ {0} /\ MaxHops \in Nat \ {0}

VARIABLES
    pc,           \* the await the page is in
    node,         \* the node of this turn of the loop
    todo,         \* nodes the loop has still to turn to
    probed,       \* nodes whose probe was accepted
    draft,        \* what runNodeTest has measured of node
    polls,        \* polls made for the route of node
    seen,         \* status and hops of the snapshot being read
    local,        \* localResults
    aborted,      \* signal.aborted
    hung,         \* whether what the page awaits will never settle
    status,       \* tests.status
    row,          \* test_node_results.status of each node
    handler,      \* the results handler of each node
    job,          \* the route job of each node
    trace,        \* the hops its traceroute found
    hops,         \* its rows of route_hops
    clean,        \* nodes whose route had ended when the page stopped polling,
                  \* and whose result was submitted
    lateGrants    \* grants asked for after the abort

pageVars    == <<pc, node, todo, probed, draft, polls, seen, local>>
serverVars  == <<status, row, handler>>
routeVars   == <<job, trace, hops>>
historyVars == <<clean, lateGrants>>
vars == <<pageVars, aborted, hung, serverVars, routeVars, historyVars>>

-----------------------------------------------------------------------------
ProbeSteps  == {"probeNext", "probeGrant", "probe", "probeSubmit"}
TestSteps   == {"testNext", "latencyGrant", "latency", "downloadGrant", "download",
                "uploadGrant", "upload", "routeAsk", "pollStatus", "pollHops", "submit"}
Ended       == {"complete", "failed", "stopped"}

\* No request has a time limit.  api.ts makes its own without the signal; those of
\* the measurements to an agent take it, and a download has its time cap besides.
ApiRequests == {"create", "probeGrant", "probeSubmit", "latencyGrant", "downloadGrant",
                "uploadGrant", "routeAsk", "pollStatus", "pollHops", "submit"}
Signalled   == {"probe", "latency", "upload"}

RouteEnded  == {"route_complete", "route_failed"}

NoDraft   == [download |-> "none", upload |-> "none"]
NoSnap    == [status |-> "nodes", own |-> FALSE]
NoResult  == [download |-> "none", upload |-> "none", route |-> 0, by |-> "none",
              own |-> FALSE]
Measured  == {n \in Nodes : local[n] # NoResult}

Init ==
    /\ pc = "create" /\ node = None /\ todo = {} /\ probed = {}
    /\ draft = NoDraft /\ polls = 0 /\ seen = NoSnap
    /\ local = [n \in Nodes |-> NoResult]
    /\ aborted = FALSE /\ hung = FALSE
    /\ status = "nodes"
    /\ row = [n \in Nodes |-> "none"]
    /\ handler = [n \in Nodes |-> "none"]
    /\ job = [n \in Nodes |-> "none"]
    /\ trace = [n \in Nodes |-> 0]
    /\ hops = [n \in Nodes |-> 0]
    /\ clean = {} /\ lateGrants = 0

\* An await throws.  The catch of either loop swallows it and turns to the next
\* node, unless the test was aborted.
Throw == pc' = IF aborted THEN "stopped"
               ELSE IF pc \in ProbeSteps THEN "probeNext" ELSE "testNext"

\* What ends the run itself: the outer catch shows it unless the test was aborted.
ThrowOut == pc' = IF aborted THEN "stopped" ELSE "failed"

\* api.grant is sent without the signal.
AskGrant(step) ==
    /\ pc' = step
    /\ lateGrants' = lateGrants + (IF aborted THEN 1 ELSE 0)

-----------------------------------------------------------------------------
\* The cancel button aborts the test and goes home; any other way of leaving the
\* page unmounts it, whose cleanup aborts the test.  The run goes on in the
\* background until it looks at the signal.  From the end of an await to the next
\* one, through the head of a loop, nothing can come in between.
Abort ==
    /\ ~aborted /\ pc \notin Ended \cup {"probeNext", "testNext"}
    /\ aborted' = TRUE
    /\ hung' = (hung /\ pc \notin Signalled)
    /\ UNCHANGED <<pageVars, serverVars, routeVars, historyVars>>

\* The request of an await is never answered and never rejects.  The server may have
\* had it all the same.
Hang ==
    /\ ~hung
    /\ pc \in ApiRequests \cup (IF aborted THEN {} ELSE Signalled)
    /\ hung' = TRUE
    /\ row' = row \/ (pc = "probeSubmit" /\ row' = [row EXCEPT ![node] = "probed"])
    /\ job' = job \/ (pc = "routeAsk" /\ job' = [job EXCEPT ![node] = "queued"])
    /\ UNCHANGED <<pageVars, aborted, status, handler, trace, hops, historyVars>>

-----------------------------------------------------------------------------
(* Creating the test and probing *)

\* createTest answers, and the nodes fetched after it are filtered: those that are
\* online with TLS ready, or the chosen one of them.
CreateTest(eligible) ==
    /\ pc = "create"
    /\ IF eligible = {} THEN ThrowOut /\ UNCHANGED todo
       ELSE pc' = "probeNext" /\ todo' = eligible
    /\ UNCHANGED <<node, probed, draft, polls, seen, local, aborted, hung, serverVars,
                   routeVars, historyVars>>

CreateFails ==
    /\ pc = "create"
    /\ ThrowOut
    /\ UNCHANGED <<node, todo, probed, draft, polls, seen, local, aborted, hung, serverVars,
                   routeVars, historyVars>>

\* Nothing looks at the signal between two nodes of this loop.
ProbeNext(n) ==
    /\ pc = "probeNext" /\ n \in todo
    /\ node' = n /\ todo' = todo \ {n}
    /\ AskGrant("probeGrant")
    /\ UNCHANGED <<probed, draft, polls, seen, local, aborted, hung, serverVars, routeVars,
                   clean>>

\* The best of those probed, at most Candidates of them.
Choose(best) ==
    /\ pc = "probeNext" /\ todo = {}
    /\ best \subseteq probed
    /\ Cardinality(best) <= Candidates
    /\ Cardinality(best) < Candidates => best = probed
    /\ IF best = {} THEN ThrowOut /\ UNCHANGED todo
       ELSE pc' = "testNext" /\ todo' = best
    /\ probed' = {} /\ node' = None
    /\ UNCHANGED <<draft, polls, seen, local, aborted, hung, serverVars,
                   routeVars, historyVars>>

\* Any request may fail, for a network error or an answer other than 2xx.
RequestFails ==
    /\ pc \in {"probeGrant", "latencyGrant", "downloadGrant", "uploadGrant", "routeAsk",
               "pollStatus"}
    /\ Throw
    /\ UNCHANGED <<node, todo, probed, draft, polls, seen, local, aborted, hung, serverVars,
                   routeVars, historyVars>>

\* measureLatency: its first fetch rejects when the signal is aborted already.
Granted(from, to) ==
    /\ pc = from
    /\ IF aborted THEN Throw ELSE pc' = to
    /\ UNCHANGED <<node, todo, probed, draft, polls, seen, local, aborted, hung, serverVars,
                   routeVars, historyVars>>

\* It throws when aborted, and when no probe of it was answered.
LatencyFails ==
    /\ pc \in {"probe", "latency"}
    /\ Throw
    /\ UNCHANGED <<node, todo, probed, draft, polls, seen, local, aborted, hung, serverVars,
                   routeVars, historyVars>>

Probed ==
    /\ pc = "probe" /\ ~aborted
    /\ pc' = "probeSubmit"
    /\ UNCHANGED <<node, todo, probed, draft, polls, seen, local, aborted, hung, serverVars,
                   routeVars, historyVars>>

SubmitProbe ==
    /\ pc = "probeSubmit"
    /\ pc' = "probeNext"
    /\ probed' = probed \cup {node}
    /\ row' = [row EXCEPT ![node] = "probed"]
    /\ UNCHANGED <<node, todo, draft, polls, seen, local, aborted, hung, status, handler,
                   routeVars, historyVars>>

\* The request may have reached the server all the same.
SubmitProbeFails ==
    /\ pc = "probeSubmit"
    /\ Throw
    /\ row' \in {row, [row EXCEPT ![node] = "probed"]}
    /\ UNCHANGED <<node, todo, probed, draft, polls, seen, local, aborted, hung, status,
                   handler, routeVars, historyVars>>

-----------------------------------------------------------------------------
(* Measuring a node *)

\* Mutant: the loop does not look at the signal.
TestNextUnchecked(n) ==
    /\ pc = "testNext" /\ n \in todo
    /\ node' = n /\ todo' = todo \ {n}
    /\ draft' = NoDraft
    /\ AskGrant("latencyGrant")
    /\ UNCHANGED <<probed, polls, seen, local, aborted, hung, serverVars, routeVars, clean>>

TestNext(n) ==
    /\ pc = "testNext" /\ n \in todo
    /\ IF aborted
       THEN pc' = "stopped" /\ UNCHANGED <<node, todo, draft, lateGrants>>
       ELSE /\ node' = n /\ todo' = todo \ {n}
            /\ draft' = NoDraft
            /\ AskGrant("latencyGrant")
    /\ UNCHANGED <<probed, polls, seen, local, aborted, hung, serverVars, routeVars, clean>>

\* The loop is over: nothing looks at the signal before the results are shown.
Finish ==
    /\ pc = "testNext" /\ todo = {}
    /\ IF Measured = {} THEN ThrowOut
       ELSE pc' = "complete"
    /\ UNCHANGED <<node, todo, probed, draft, polls, seen, local, aborted, hung, serverVars,
                   routeVars, historyVars>>

Latency ==
    /\ pc = "latency" /\ ~aborted
    /\ AskGrant("downloadGrant")
    /\ UNCHANGED <<node, todo, probed, draft, polls, seen, local, aborted, hung, serverVars,
                   routeVars, clean>>

\* measureDownload adds its listener now: an abort that came before is not heard.
DownloadGranted ==
    /\ pc = "downloadGrant"
    /\ pc' = "download"
    /\ draft' = [draft EXCEPT !.download = IF aborted THEN "deaf" ELSE "underway"]
    /\ UNCHANGED <<node, todo, probed, polls, seen, local, aborted, hung, serverVars,
                   routeVars, historyVars>>

\* Promise.allSettled: once any byte has come the measurement returns, though an
\* abort ended the streams, or some failed or were refused with 429 before the cap.
Download ==
    /\ pc = "download"
    /\ \E ending \in {"full", "short"} :
          draft' = [draft EXCEPT !.download =
                       IF aborted /\ draft.download = "underway" THEN "cut" ELSE ending]
    /\ AskGrant("uploadGrant")
    /\ UNCHANGED <<node, todo, probed, polls, seen, local, aborted, hung, serverVars,
                   routeVars, clean>>

\* No stream got a byte and one of them was rejected.
DownloadFails ==
    /\ pc = "download" /\ ~aborted
    /\ Throw
    /\ UNCHANGED <<node, todo, probed, draft, polls, seen, local, aborted, hung, serverVars,
                   routeVars, historyVars>>

\* measureUpload's workers look at the signal before their first request.
UploadGranted ==
    /\ pc = "uploadGrant"
    /\ IF aborted THEN /\ pc' = "routeAsk"
                       /\ draft' = [draft EXCEPT !.upload = "cut"]
       ELSE pc' = "upload" /\ UNCHANGED draft
    /\ UNCHANGED <<node, todo, probed, polls, seen, local, aborted, hung, serverVars,
                   routeVars, historyVars>>

Upload ==
    /\ pc = "upload" /\ ~aborted
    /\ pc' = "routeAsk"
    /\ draft' = [draft EXCEPT !.upload = "full"]
    /\ UNCHANGED <<node, todo, probed, polls, seen, local, aborted, hung, serverVars,
                   routeVars, historyVars>>

\* Mutant: an upload that fails is settled, as a download is, and the test goes on.
UploadFailsSettles ==
    /\ pc = "upload"
    /\ pc' = "routeAsk"
    /\ draft' = [draft EXCEPT !.upload = "cut"]
    /\ UNCHANGED <<node, todo, probed, polls, seen, local, aborted, hung, serverVars,
                   routeVars, historyVars>>

\* A fetch underway rejects, for the abort or for an error.
UploadFails ==
    /\ pc = "upload"
    /\ Throw
    /\ UNCHANGED <<node, todo, probed, draft, polls, seen, local, aborted, hung, serverVars,
                   routeVars, historyVars>>

-----------------------------------------------------------------------------
(* The route: asking and polling *)

\* The route handler finds the connection and its channel has room.
AskRoute ==
    /\ pc = "routeAsk"
    /\ job' = [job EXCEPT ![node] = "queued"]
    /\ pc' = "pollStatus" /\ polls' = 0
    /\ UNCHANGED <<node, todo, probed, draft, seen, local, aborted, hung, serverVars, trace,
                   hops, historyVars>>

\* The answer 202 is lost: the job is queued and the page has given up.
AskRouteLost ==
    /\ pc = "routeAsk"
    /\ job' = [job EXCEPT ![node] = "queued"]
    /\ Throw
    /\ UNCHANGED <<node, todo, probed, draft, polls, seen, local, aborted, hung, serverVars,
                   trace, hops, historyVars>>

\* getTest reads the test's status, and its hops in a later statement.
PollStatus ==
    /\ pc = "pollStatus"
    /\ pc' = "pollHops"
    /\ seen' = [status |-> status, own |-> job[node] = "done"]
    /\ UNCHANGED <<node, todo, probed, draft, polls, local, aborted, hung, serverVars,
                   routeVars, historyVars>>

\* runNodeTest returns; the result is kept before it is submitted.
Keep(by) ==
    /\ local' = [local EXCEPT ![node] =
                    [download |-> draft.download, upload |-> draft.upload,
                     route |-> hops[node], by |-> by, own |-> seen.own]]
    /\ handler' = [handler EXCEPT ![node] = "upsert"]
    /\ pc' = "submit"
    /\ clean' = IF job[node] = "done" THEN clean \cup {node} ELSE clean
    /\ draft' = NoDraft /\ polls' = 0 /\ seen' = NoSnap

\* Mutant: the polls are not counted.
PollHopsForEver ==
    /\ pc = "pollHops"
    /\ IF hops[node] > 0 THEN Keep("hops")
       ELSE IF seen.status \in RouteEnded THEN Keep("status")
       ELSE /\ pc' = "pollStatus"
            /\ UNCHANGED <<local, handler, clean, draft, polls, seen>>
    /\ UNCHANGED <<node, todo, probed, aborted, hung, status, row, routeVars, lateGrants>>

\* The page stops at the first hop of its node, at a route that has ended, and at
\* the last poll.
PollHops ==
    /\ pc = "pollHops"
    /\ IF hops[node] > 0 THEN Keep("hops")
       ELSE IF seen.status \in RouteEnded THEN Keep("status")
       ELSE IF polls + 1 = MaxPolls THEN Keep("polls")
       ELSE /\ pc' = "pollStatus" /\ polls' = polls + 1
            /\ UNCHANGED <<local, handler, clean, draft, seen>>
    /\ UNCHANGED <<node, todo, probed, aborted, hung, status, row, routeVars, lateGrants>>

\* submitNodeResult answers.
Submitted ==
    /\ pc = "submit" /\ handler[node] = "done"
    /\ pc' = "testNext"
    /\ UNCHANGED <<node, todo, probed, draft, polls, seen, local, aborted, hung, serverVars,
                   routeVars, historyVars>>

\* It fails; the handler may still be at work, or be stopped by the end of its
\* request's context.
SubmitFails ==
    /\ pc = "submit"
    /\ Throw
    /\ handler' \in {handler, [handler EXCEPT ![node] = "dead"]}
    /\ clean' = clean \ {node}
    /\ UNCHANGED <<node, todo, probed, draft, polls, seen, local, aborted, hung, status, row,
                   routeVars, lateGrants>>

-----------------------------------------------------------------------------
(* The server: results, and the route_result of an agent *)

StoreResult(n) ==
    /\ handler[n] = "upsert"
    /\ row' = [row EXCEPT ![n] = "complete"]
    /\ handler' = [handler EXCEPT ![n] = "mark"]
    /\ UNCHANGED <<pageVars, aborted, hung, status, routeVars, historyVars>>

\* Mutant: the status of the test is left as it is.
MarkNothing(n) ==
    /\ handler[n] = "mark"
    /\ handler' = [handler EXCEPT ![n] = "done"]
    /\ UNCHANGED <<pageVars, aborted, hung, status, row, routeVars, historyVars>>

MarkComplete(n) ==
    /\ handler[n] = "mark"
    /\ status' = "complete"
    /\ handler' = [handler EXCEPT ![n] = "done"]
    /\ UNCHANGED <<pageVars, aborted, hung, row, routeVars, historyVars>>

\* The agent's read loop runs traceroute, up to 20 s a job and one job after the
\* other; control reads its answer and deletes the hops it has of the node.
Answer(n, found) ==
    /\ job[n] = "queued"
    /\ job' = [job EXCEPT ![n] = "insert"]
    /\ trace' = [trace EXCEPT ![n] = found]
    /\ hops' = [hops EXCEPT ![n] = 0]
    /\ UNCHANGED <<pageVars, aborted, hung, serverVars, historyVars>>

\* No traceroute could be run.
AnswerError(n) ==
    /\ job[n] = "queued"
    /\ job' = [job EXCEPT ![n] = "done"]
    /\ status' = "route_failed"
    /\ UNCHANGED <<pageVars, aborted, hung, row, handler, trace, hops, historyVars>>

\* The connection goes, with the command in the channel or the answer on its way.
LoseJob(n) ==
    /\ job[n] = "queued"
    /\ job' = [job EXCEPT ![n] = "lost"]
    /\ UNCHANGED <<pageVars, aborted, hung, serverVars, trace, hops, historyVars>>

InsertHop(n) ==
    /\ job[n] = "insert" /\ hops[n] < trace[n]
    /\ hops' = [hops EXCEPT ![n] = @ + 1]
    /\ UNCHANGED <<pageVars, aborted, hung, serverVars, job, trace, historyVars>>

\* Mutant: the status is written before the hops.
EndRouteEarly(n) ==
    /\ job[n] = "insert"
    /\ job' = [job EXCEPT ![n] = "done"]
    /\ status' = "route_complete"
    /\ UNCHANGED <<pageVars, aborted, hung, row, handler, trace, hops, historyVars>>

EndRoute(n) ==
    /\ job[n] = "insert" /\ hops[n] = trace[n]
    /\ job' = [job EXCEPT ![n] = "done"]
    /\ status' = "route_complete"
    /\ UNCHANGED <<pageVars, aborted, hung, row, handler, trace, hops, historyVars>>

-----------------------------------------------------------------------------
PageStep ==
    \/ \E eligible \in SUBSET Nodes : CreateTest(eligible)
    \/ CreateFails
    \/ \E n \in Nodes : ProbeNext(n) \/ TestNext(n)
    \/ \E best \in SUBSET Nodes : Choose(best)
    \/ RequestFails
    \/ Granted("probeGrant", "probe") \/ Granted("latencyGrant", "latency")
    \/ LatencyFails \/ Probed \/ SubmitProbe \/ SubmitProbeFails
    \/ Latency
    \/ DownloadGranted \/ Download \/ DownloadFails
    \/ UploadGranted \/ Upload \/ UploadFails
    \/ AskRoute \/ AskRouteLost
    \/ PollStatus \/ PollHops
    \/ Submitted \/ SubmitFails
    \/ Finish

Page == ~hung /\ PageStep

Server(n) ==
    \/ StoreResult(n) \/ MarkComplete(n)
    \/ InsertHop(n) \/ EndRoute(n)

Agent(n) ==
    \/ \E found \in 0..MaxHops : Answer(n, found)
    \/ AnswerError(n) \/ LoseJob(n)

Next == Page \/ Abort \/ Hang \/ \E n \in Nodes : Server(n) \/ Agent(n)

Spec == Init /\ [][Next]_vars

\* An await that is not hung settles, the download by its time cap, and the
\* server's handlers run.  Nothing is asked of the agents, and a request may hang.
Fairness == WF_vars(Page) /\ \A n \in Nodes : WF_vars(Server(n))

FairSpec == Spec /\ Fairness

-----------------------------------------------------------------------------
(* Properties *)

Cuts == {"none", "deaf", "underway", "cut", "short", "full"}

\* Every variable has its type.
TypeOK ==
    /\ pc \in {"create"} \cup ProbeSteps \cup TestSteps \cup Ended
    /\ node \in Nodes \cup {None} /\ todo \subseteq Nodes /\ probed \subseteq Nodes
    /\ pc \in ((ProbeSteps \cup TestSteps) \ {"probeNext", "testNext"}) => node # None
    /\ draft \in [download : Cuts, upload : Cuts]
    /\ polls \in 0..(MaxPolls - 1)
    /\ seen.status \in {"nodes", "complete"} \cup RouteEnded /\ seen.own \in BOOLEAN
    /\ local \in [Nodes -> [download : Cuts, upload : Cuts, route : 0..MaxHops,
                            by : {"none", "hops", "status", "polls"}, own : BOOLEAN]]
    /\ aborted \in BOOLEAN /\ hung \in BOOLEAN
    /\ status \in {"nodes", "complete"} \cup RouteEnded
    /\ row \in [Nodes -> {"none", "probed", "complete"}]
    /\ handler \in [Nodes -> {"none", "upsert", "mark", "done", "dead"}]
    /\ job \in [Nodes -> {"none", "queued", "insert", "done", "lost"}]
    /\ trace \in [Nodes -> 0..MaxHops] /\ hops \in [Nodes -> 0..MaxHops]
    /\ clean \subseteq Nodes /\ lateGrants \in Nat

\* The server never has a complete result of a node that the page does not show,
\* however the submission ended for the page.
StoredIsKept == \A n \in Nodes : row[n] = "complete" => n \in Measured

\* A test that was cancelled asks for one more grant at most: of the next node to
\* probe, or for the upload of the node at hand.
CancelCostsOneGrant == lateGrants <= 1

\* Once the node's own job has ended, the page has every hop of it: the status is
\* read before the hops, and written after them.
WholeRouteOnceEnded ==
    \A n \in Nodes : local[n].own => local[n].route = trace[n]

\* A status left by another node ends the polling too early only if that node's job
\* or its result was still underway, or had failed, when the page went on.
CutShortHasCause ==
    \A n \in Nodes : local[n].by = "status" /\ ~local[n].own =>
        \E m \in Nodes \ ({n} \cup clean) : job[m] # "none"

\* Whatever fails, the run ends for good unless it awaits a request that is never
\* settled; and if it is cancelled, unless that is one made without the signal.
TestEnds == <>[](pc \in Ended \/ (hung /\ (aborted => pc \in ApiRequests)))

\* A result stored as complete has an upload of its full length, and a download that
\* nobody cut off, unless the test was cancelled; and then one node's at most has
\* not.  A fault of the network loses the node if it hits the upload; if it hits the
\* download it may leave a short one, stored like any other.
CutOff(n) == local[n].upload # "full" \/ local[n].download \notin {"short", "full"}
OnlyCancelCuts ==
    LET cut == {n \in Nodes : row[n] = "complete" /\ CutOff(n)}
    IN  /\ ~aborted => cut = {}
        /\ \A m, n \in cut : m = n
=============================================================================
