------------------------------ MODULE SpeedTest ------------------------------
(***************************************************************************)
(* A download or an upload of the browser's speed test (measureDownload    *)
(* and measureUpload of web/src/test-engine.ts) against what the agent     *)
(* enforces of its grant (reserve, download and upload of                  *)
(* internal/agent/agent.go).                                               *)
(*                                                                         *)
(* Several streams loop over requests and share the bytes of one grant.  A *)
(* unit is the smallest piece of a body that matters.  The agent's quota   *)
(* over all grants is that of QuotaLedger: here it may refuse any request. *)
(***************************************************************************)
EXTENDS Naturals, FiniteSets

CONSTANTS
    Streams,      \* readers of a download: max_streams of the grant
    Workers,      \* workers of an upload: two of them
    MaxStreams,   \* requests of a grant at once, in the agent
    MaxBytes,     \* cap of the grant
    Block         \* of a request: 4 MiB down, 512 KiB up

ASSUME SpeedAssumption ==
    /\ IsFiniteSet(Streams) /\ Workers \subseteq Streams
    /\ MaxStreams \in Nat /\ Cardinality(Streams) <= MaxStreams
    /\ MaxBytes \in Nat /\ Block \in Nat \ {0}

VARIABLES
    kind,         \* which of the two is measured
    stream,       \* what each stream is doing
    size,         \* bytes of its request
    left,         \* bytes of its body still to come
    astray,       \* streams that gave up a request which may still reach the agent
    reserved,     \* bytes the browser has asked for
    bytes,        \* bytes it has seen transferred
    over,         \* the duration has passed
    aborted,      \* the test's signal
    outcome,      \* what the call of measureDownload or measureUpload came to
    charged,      \* the agent's usage of the grant: u.Down or u.Up
    late,         \* its handlers whose request the browser is done with
    refusals      \* why it has refused requests

clientVars == <<kind, stream, size, left, reserved, bytes, over, aborted, outcome>>
agentVars  == <<charged, late, refusals>>
vars == <<clientVars, astray, agentVars>>

-----------------------------------------------------------------------------
Used    == IF kind = "download" THEN Streams ELSE Workers
Running == {"idle", "asked", "serving"}
Serving == {s \in Streams : stream[s] = "serving"}
\* u.Streams: requests admitted and not yet released.
Open    == Cardinality(Serving) + late
Ended   == \A s \in Used : stream[s] \notin Running

\* The browser looks at the clock and at the signal before each request.
Stopped == over \/ aborted

Init ==
    /\ kind \in {"download", "upload"}
    /\ stream = [s \in Streams |-> IF s \in Used THEN "idle" ELSE "unused"]
    /\ size = [s \in Streams |-> 0] /\ left = [s \in Streams |-> 0]
    /\ astray = {} /\ reserved = 0 /\ bytes = 0
    /\ over = FALSE /\ aborted = FALSE /\ outcome = "running"
    /\ charged = 0 /\ late = 0 /\ refusals = {}

-----------------------------------------------------------------------------
(* The streams *)

\* Mutant: the last request is not cut to what remains.
WholeBlock == Block

Requested == IF MaxBytes - reserved < Block THEN MaxBytes - reserved ELSE Block

\* Mutant: a request is reserved when it has been answered.
AskUnreserved(s) ==
    /\ stream[s] = "idle" /\ ~Stopped /\ reserved < MaxBytes
    /\ size' = [size EXCEPT ![s] = Requested]
    /\ stream' = [stream EXCEPT ![s] = "asked"]
    /\ reserved' = bytes
    /\ UNCHANGED <<kind, astray, left, bytes, over, aborted, outcome, agentVars>>

Ask(s) ==
    /\ stream[s] = "idle" /\ ~Stopped /\ reserved < MaxBytes
    /\ size' = [size EXCEPT ![s] = Requested]
    /\ reserved' = reserved + Requested
    /\ stream' = [stream EXCEPT ![s] = "asked"]
    /\ UNCHANGED <<kind, astray, left, bytes, over, aborted, outcome, agentVars>>

\* The loop ends: time, the signal, or no byte left to ask for.
EndStream(s) ==
    /\ stream[s] = "idle"
    /\ Stopped \/ reserved >= MaxBytes
    /\ stream' = [stream EXCEPT ![s] = "done"]
    /\ UNCHANGED <<kind, astray, size, left, reserved, bytes, over, aborted, outcome,
                   agentVars>>

\* A piece of a download reaches the reader.  With the last one the reader goes on
\* to its next request, whether or not the agent's handler has returned.
Receive(s) ==
    /\ kind = "download" /\ stream[s] = "serving"
    /\ left' = [left EXCEPT ![s] = @ - 1]
    /\ bytes' = bytes + 1
    /\ IF left[s] = 1 THEN /\ stream' = [stream EXCEPT ![s] = "idle"]
                           /\ late' = late + 1
       ELSE UNCHANGED <<stream, late>>
    /\ UNCHANGED <<kind, astray, size, reserved, over, aborted, outcome, charged,
                   refusals>>

\* The answer to an upload leaves the agent after its handler has returned.
Uploaded(s) ==
    /\ kind = "upload" /\ stream[s] = "serving"
    /\ stream' = [stream EXCEPT ![s] = "idle"]
    /\ left' = [left EXCEPT ![s] = 0]
    /\ bytes' = bytes + size[s]
    /\ UNCHANGED <<kind, astray, size, reserved, over, aborted, outcome, agentVars>>

\* The streams of S reject.  What they have asked for may reach the agent all the
\* same, and its handlers find out later.
Reject(S) ==
    /\ stream' = [s \in Streams |-> IF s \in S THEN "rejected" ELSE stream[s]]
    /\ left' = [s \in Streams |-> IF s \in S THEN 0 ELSE left[s]]
    /\ astray' = astray \cup (S \ Serving)
    /\ late' = late + Cardinality(S \cap Serving)
    /\ UNCHANGED <<charged, refusals>>

\* A connection fails.
Fail(s) ==
    /\ stream[s] \in {"asked", "serving"}
    /\ Reject({s})
    /\ UNCHANGED <<kind, size, reserved, bytes, over, aborted, outcome>>

Underway == {s \in Streams : stream[s] \in {"asked", "serving"}}

\* Mutant: the time cap does not reach the requests underway.
TimeUpUnheard ==
    /\ ~over /\ outcome = "running"
    /\ over' = TRUE
    /\ UNCHANGED <<kind, astray, stream, size, left, reserved, bytes, aborted, outcome,
                   agentVars>>

\* The duration has passed.  A download's timer aborts what is underway; an upload
\* goes on with it.  The timer is cleared when the download has returned.
TimeUp ==
    /\ ~over
    /\ over' = TRUE
    /\ IF kind = "download" THEN Reject(Underway)
       ELSE UNCHANGED <<stream, left, astray, agentVars>>
    /\ UNCHANGED <<kind, size, reserved, bytes, aborted, outcome>>

\* The user cancels; the signal reaches every fetch.
Abort ==
    /\ ~aborted
    /\ aborted' = TRUE
    /\ Reject(Underway)
    /\ UNCHANGED <<kind, size, reserved, bytes, over, outcome>>

-----------------------------------------------------------------------------
(* The measurement *)

Rejected == \E s \in Used : stream[s] = "rejected"

\* Promise.allSettled: a stream that failed takes the others' bytes with it only
\* if there are none.
ReturnDownload ==
    /\ kind = "download" /\ outcome = "running" /\ Ended
    /\ outcome' = IF bytes = 0 /\ Rejected /\ ~aborted THEN "thrown" ELSE "returned"
    /\ UNCHANGED <<kind, astray, stream, size, left, reserved, bytes, over, aborted,
                   agentVars>>

\* Promise.all: the first worker that fails ends it, and the others go on.
ReturnUpload ==
    /\ kind = "upload" /\ outcome = "running"
    /\ Ended \/ Rejected
    /\ outcome' = IF Rejected THEN "thrown" ELSE "returned"
    /\ UNCHANGED <<kind, astray, stream, size, left, reserved, bytes, over, aborted,
                   agentVars>>

-----------------------------------------------------------------------------
(* The agent *)

Admit(s) ==
    /\ stream[s] = "asked"
    /\ Open < MaxStreams /\ charged + size[s] <= MaxBytes
    /\ stream' = [stream EXCEPT ![s] = "serving"]
    /\ left' = [left EXCEPT ![s] = size[s]]
    /\ charged' = charged + size[s]
    /\ UNCHANGED <<kind, astray, size, reserved, bytes, over, aborted, outcome, late,
                   refusals>>

\* A request whose stream has given it up: the answer finds nobody.
AdmitAstray(s) ==
    /\ s \in astray
    /\ Open < MaxStreams /\ charged + size[s] <= MaxBytes
    /\ astray' = astray \ {s}
    /\ charged' = charged + size[s]
    /\ late' = late + 1
    /\ UNCHANGED <<clientVars, refusals>>

\* 429: the stream is rejected and asks no more.
Refuse(s, why) ==
    /\ stream[s] = "asked"
    /\ \/ why = "quota"
       \/ (why = "streams" /\ Open >= MaxStreams /\ late = 0)
       \/ (why = "late" /\ Open >= MaxStreams /\ late > 0)
       \/ (why = "bytes" /\ charged + size[s] > MaxBytes)
    /\ stream' = [stream EXCEPT ![s] = "rejected"]
    /\ refusals' = refusals \cup {why}
    /\ UNCHANGED <<kind, astray, size, left, reserved, bytes, over, aborted, outcome,
                   charged, late>>

\* Mutant: the deferred closure gives back what the client did not read.
ReleaseRefunds ==
    /\ late > 0
    /\ late' = late - 1
    /\ charged' = IF charged > 0 THEN charged - 1 ELSE 0
    /\ UNCHANGED <<clientVars, astray, refusals>>

\* The deferred closure of a handler that has delivered everything, or failed to.
Release ==
    /\ late > 0
    /\ late' = late - 1
    /\ UNCHANGED <<clientVars, astray, charged, refusals>>

-----------------------------------------------------------------------------
Reasons == {"quota", "streams", "late", "bytes"}

Next ==
    \/ \E s \in Streams :
          \/ Ask(s) \/ EndStream(s) \/ Receive(s) \/ Uploaded(s) \/ Fail(s)
          \/ Admit(s) \/ AdmitAstray(s)
          \/ \E why \in Reasons : Refuse(s, why)
    \/ TimeUp \/ Abort
    \/ ReturnDownload \/ ReturnUpload
    \/ Release

Spec == Init /\ [][Next]_vars

\* The browser's loop runs and its timer fires.  Nothing is assumed of the network
\* and of the agent: a request may hang.
Fairness ==
    /\ \A s \in Streams : WF_vars(Ask(s) \/ EndStream(s))
    /\ WF_vars(TimeUp)
    /\ WF_vars(ReturnDownload) /\ WF_vars(ReturnUpload)

FairSpec == Spec /\ Fairness

-----------------------------------------------------------------------------
(* Properties *)

\* Every variable has its type.
TypeOK ==
    /\ kind \in {"download", "upload"}
    /\ stream \in [Streams -> Running \cup {"unused", "done", "rejected"}]
    /\ size \in [Streams -> 0..Block] /\ left \in [Streams -> 0..Block]
    /\ \A s \in Streams : stream[s] = "serving" => left[s] \in 1..size[s]
    /\ astray \subseteq Streams
    /\ reserved \in Nat /\ bytes \in Nat /\ charged \in Nat /\ late \in Nat
    /\ over \in BOOLEAN /\ aborted \in BOOLEAN
    /\ outcome \in {"running", "returned", "thrown"}
    /\ refusals \subseteq Reasons

\* The streams share the grant's bytes: together they never ask for more than the
\* cap, and the agent has charged no more than they asked for.
NeverAsksTooMuch == charged <= reserved /\ reserved <= MaxBytes

\* The agent refuses no request for the grant's own limits, but for handlers whose
\* body the browser already has, or has given up, and whose release is still to
\* run.
OnlyLateReleasesRefuse == refusals \cap {"streams", "bytes"} = {}

\* What the browser reports as transferred, the agent has charged, however the
\* transfers ended.
ReportedIsCharged == bytes <= charged

\* The agent's account of one grant is a quota like that of a day: a budget of
\* MaxBytes from which admissions only take, whatever becomes of the transfers.
Budget == INSTANCE DailyQuota WITH today <- 1, LastDay <- 1, Limit <- MaxBytes,
                                   admitted <- [d \in {1} |-> charged]
GrantIsQuota == Budget!Spec

\* A download ends within its duration, also if the agent stops answering.
DownloadEnds == (kind = "download") ~> (outcome # "running")
=============================================================================
