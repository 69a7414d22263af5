-------------------------------- MODULE SignIn --------------------------------
(***************************************************************************)
(* Signing in with the rotating access code: accessCode, the limiter in    *)
(* front of it (allowAttempt, clearAttempts) and rotateAccess of           *)
(* internal/server/server.go, the codes of internal/auth/auth.go, and what *)
(* the page of web/src/api.ts does with the answer.                        *)
(*                                                                         *)
(* Handlers run concurrently; a statement, and what the limiter does under *)
(* its mutex, is one step.  A code is the pair it is computed from: two    *)
(* pairs that give the same six digits are not distinguished from two that *)
(* do not.                                                                 *)
(***************************************************************************)
EXTENDS Naturals, FiniteSets

CONSTANTS
    Clients,        \* addresses, with a browser each
    Requests,       \* sign-ins underway at once
    Admins,         \* rotations underway at once
    Maximum,        \* attempts in a window of the limiter: 10
    Window,         \* of a code and of the limiter: 10 minutes both
    Grace,          \* of the previous window's code: 30 seconds
    PruneAbove,     \* entries of the limiter it keeps unpruned: 4096
    None,
    LastTick, MaxGeneration, MaxSessions    \* bounds of the model

ASSUME SignInAssumption ==
    /\ Maximum \in Nat \ {0} /\ Window \in Nat \ {0} /\ PruneAbove \in Nat
    /\ Grace \in Nat /\ Grace < Window
    /\ LastTick \in Nat /\ MaxGeneration \in Nat /\ MaxSessions \in Nat

VARIABLES
    now,
    generation,     \* the setting access_generation
    rotation,       \* the rotateAccess handlers
    limits,         \* s.limits: the bucket of each client
    req,            \* the accessCode handlers
    sessions,       \* access sessions opened so far; the last is the newest
    cookie,         \* the session each browser's cookie names
    csrf,           \* routeglass.access.csrf in its sessionStorage
    wrote,          \* what its last POST of a test came to
    guesses,        \* a client's attempts in the last Window, since the last one that
                    \* cleared them: each is its time and its number at that time
    early,          \* one was refused that had made fewer than Maximum
    revoked,        \* generations that a rotation which has answered replaced
    overlapped      \* two rotations were underway at once

serverVars  == <<generation, rotation, limits, req, sessions>>
browserVars == <<cookie, csrf, wrote>>
historyVars == <<guesses, early, revoked, overlapped>>
vars == <<now, serverVars, browserVars, historyVars>>

-----------------------------------------------------------------------------
(* Codes *)

AccessCode(g, at) == <<g, at \div Window>>

\* Mutant: the grace is that of the whole previous window.
VerifyAnyPrevious(g, code, at) ==
    \/ code = AccessCode(g, at)
    \/ code = AccessCode(g, at - Window)

\* The current code, and for a while the one before.
VerifyAccessCode(g, code, at) ==
    \/ code = AccessCode(g, at)
    \/ /\ at - (at \div Window) * Window <= Grace
       /\ code = AccessCode(g, at - Window)

\* What is entered: a code of this window, as it is or as it was before a rotation,
\* that of the window before, or one that is none of them.
Entered == {<<g, now \div Window>> : g \in 0..(generation + 1)}
              \cup {<<generation, (now \div Window) - 1>>}

-----------------------------------------------------------------------------
NoBucket   == [started |-> 0, count |-> 0]
NoRequest  == [pc |-> "none"]
NoRotation == [pc |-> "none", got |-> 0]

\* The clock starts in the second window, where there is a code before.
Init ==
    /\ now = Window
    /\ generation = 0
    /\ rotation = [a \in Admins |-> NoRotation]
    /\ limits = [c \in Clients |-> NoBucket]
    /\ req = [r \in Requests |-> NoRequest]
    /\ sessions = 0
    /\ cookie = [c \in Clients |-> None] /\ csrf = [c \in Clients |-> None]
    /\ wrote = [c \in Clients |-> "nothing"]
    /\ guesses = [c \in Clients |-> {}] /\ early = FALSE
    /\ revoked = {} /\ overlapped = FALSE

Recent(attempts, at) == {g \in attempts : at - g[1] < Window}
At(attempts, t) == {g \in attempts : g[1] = t}

Tick ==
    /\ now < LastTick
    /\ now' = now + 1
    /\ guesses' = [c \in Clients |-> Recent(guesses[c], now + 1)]
    /\ UNCHANGED <<serverVars, browserVars, early, revoked, overlapped>>

-----------------------------------------------------------------------------
(* The limiter *)

Held == {c \in Clients : limits[c] # NoBucket}

\* Mutant: a map that has grown too large is emptied.
PrunedAll ==
    IF Cardinality(Held) > PruneAbove THEN [c \in Clients |-> NoBucket] ELSE limits

Pruned ==
    IF Cardinality(Held) > PruneAbove
    THEN [c \in Clients |->
             IF now - limits[c].started >= Window THEN NoBucket ELSE limits[c]]
    ELSE limits

\* Mutant: an attempt that is refused starts the window anew.
AllowAttemptRestarting(c) ==
    LET b == IF Pruned[c] = NoBucket \/ now - Pruned[c].started >= Window
             THEN [started |-> now, count |-> 0] ELSE Pruned[c]
    IN  [ok |-> b.count < Maximum,
         limits |-> IF b.count < Maximum
                    THEN [Pruned EXCEPT ![c] = [started |-> b.started,
                                                count |-> b.count + 1]]
                    ELSE [Pruned EXCEPT ![c] = [started |-> now, count |-> b.count]]]

\* A refused attempt leaves the bucket alone.
AllowAttempt(c) ==
    LET b == IF Pruned[c] = NoBucket \/ now - Pruned[c].started >= Window
             THEN [started |-> now, count |-> 0] ELSE Pruned[c]
    IN  [ok |-> b.count < Maximum,
         limits |-> IF b.count < Maximum
                    THEN [Pruned EXCEPT ![c] = [started |-> b.started,
                                                count |-> b.count + 1]]
                    ELSE Pruned]

-----------------------------------------------------------------------------
(* Signing in *)

\* A user of client c enters a code, which the limiter lets through.
Attempt(r, c, code) ==
    /\ req[r].pc = "none"
    /\ AllowAttempt(c).ok
    /\ limits' = AllowAttempt(c).limits
    /\ guesses' = [guesses EXCEPT ![c] = @ \cup {<<now, Cardinality(At(@, now)) + 1>>}]
    /\ req' = [req EXCEPT ![r] = [pc |-> "read", client |-> c, code |-> code,
                                  stale |-> code[1] \in revoked]]
    /\ UNCHANGED <<now, generation, rotation, sessions, browserVars, early, revoked,
                   overlapped>>

\* 429 access_rate_limited.
Refuse(c) ==
    /\ ~AllowAttempt(c).ok
    /\ limits' = AllowAttempt(c).limits
    /\ early' = (early \/ Cardinality(guesses[c]) < Maximum)
    /\ UNCHANGED <<now, generation, rotation, req, sessions, browserVars, guesses,
                   revoked, overlapped>>

Verified(r, g) ==
    req' = [req EXCEPT ![r] = IF VerifyAccessCode(g, @.code, now)
                              THEN [@ EXCEPT !.pc = "clear"] ELSE NoRequest]

\* Mutant: the generation is the one the server started with.
VerifyStarted(r) ==
    /\ req[r].pc = "read"
    /\ Verified(r, 0)
    /\ UNCHANGED <<now, generation, rotation, limits, sessions, browserVars, historyVars>>

\* The generation is read, and the code verified with it.
Verify(r) ==
    /\ req[r].pc = "read"
    /\ Verified(r, generation)
    /\ UNCHANGED <<now, generation, rotation, limits, sessions, browserVars, historyVars>>

\* The client has gone: its request's context fails the statement, Setting falls back
\* to 0, and nothing can be stored later.  The attempts are cleared all the same.
VerifyGone(r) ==
    /\ req[r].pc = "read"
    /\ IF VerifyAccessCode(0, req[r].code, now)
       THEN /\ limits' = [limits EXCEPT ![req[r].client] = NoBucket]
            /\ guesses' = [guesses EXCEPT ![req[r].client] = {}]
       ELSE UNCHANGED <<limits, guesses>>
    /\ req' = [req EXCEPT ![r] = NoRequest]
    /\ UNCHANGED <<now, generation, rotation, sessions, browserVars, early, revoked,
                   overlapped>>

ClearAttempts(r) ==
    /\ req[r].pc = "clear"
    /\ limits' = [limits EXCEPT ![req[r].client] = NoBucket]
    /\ guesses' = [guesses EXCEPT ![req[r].client] = {}]
    /\ req' = [req EXCEPT ![r].pc = "open"]
    /\ UNCHANGED <<now, generation, rotation, sessions, browserVars, early, revoked,
                   overlapped>>

\* The fields of an access as the server names them: its type has no JSON tags.
Answer(session) == [ID |-> session, CSRF |-> session]

\* What authorize, redeemInvite and accessStatus keep of an answer.
Stored(data, stored) == IF "csrf" \in DOMAIN data THEN data["csrf"] ELSE stored

\* The session is stored, the cookie set and the answer read; the page then asks for
\* its session, whose answer has the same fields.
NewAccess(r) ==
    /\ req[r].pc = "open" /\ sessions < MaxSessions
    /\ sessions' = sessions + 1
    /\ cookie' = [cookie EXCEPT ![req[r].client] = sessions + 1]
    /\ csrf' = [csrf EXCEPT ![req[r].client] = Stored(Answer(sessions + 1), @)]
    /\ req' = [req EXCEPT ![r] = NoRequest]
    /\ UNCHANGED <<now, generation, rotation, limits, wrote, historyVars>>

\* 500 database_error.
NewAccessFails(r) ==
    /\ req[r].pc = "open"
    /\ req' = [req EXCEPT ![r] = NoRequest]
    /\ UNCHANGED <<now, generation, rotation, limits, sessions, browserVars, historyVars>>

\* The page starts a test: createTest up to validateAccessWrite.
CreateTest(c) ==
    /\ cookie[c] # None
    /\ wrote' = [wrote EXCEPT ![c] =
                    IF csrf[c] = cookie[c] THEN "test" ELSE "invalid_csrf"]
    /\ UNCHANGED <<now, serverVars, cookie, csrf, historyVars>>

-----------------------------------------------------------------------------
(* Rotating: read, write, and answer with what is current then *)

RotateRead(a) ==
    /\ rotation[a].pc = "none" /\ generation < MaxGeneration
    /\ rotation' = [rotation EXCEPT ![a] = [pc |-> "write", got |-> generation]]
    /\ overlapped' = (overlapped \/ \E b \in Admins : rotation[b].pc # "none")
    /\ UNCHANGED <<now, generation, limits, req, sessions, browserVars, guesses, early,
                   revoked>>

RotateWrite(a) ==
    /\ rotation[a].pc = "write"
    /\ generation' = rotation[a].got + 1
    /\ rotation' = [rotation EXCEPT ![a].pc = "answer"]
    /\ UNCHANGED <<now, limits, req, sessions, browserVars, historyVars>>

RotateAnswer(a) ==
    /\ rotation[a].pc = "answer"
    /\ revoked' = revoked \cup 0..rotation[a].got
    /\ rotation' = [rotation EXCEPT ![a] = NoRotation]
    /\ UNCHANGED <<now, generation, limits, req, sessions, browserVars, guesses, early,
                   overlapped>>

\* The administrator's request is cancelled: nothing is written and no one answered.
RotateGone(a) ==
    /\ rotation[a].pc = "write"
    /\ rotation' = [rotation EXCEPT ![a] = NoRotation]
    /\ UNCHANGED <<now, generation, limits, req, sessions, browserVars, historyVars>>

-----------------------------------------------------------------------------
Next ==
    \/ Tick
    \/ \E r \in Requests :
          \/ \E c \in Clients, code \in Entered : Attempt(r, c, code)
          \/ Verify(r) \/ VerifyGone(r)
          \/ ClearAttempts(r) \/ NewAccess(r) \/ NewAccessFails(r)
    \/ \E c \in Clients : Refuse(c) \/ CreateTest(c)
    \/ \E a \in Admins :
          \/ RotateRead(a) \/ RotateWrite(a) \/ RotateAnswer(a) \/ RotateGone(a)

Spec == Init /\ [][Next]_vars

-----------------------------------------------------------------------------
(* Properties *)

Buckets  == [started : Nat, count : 1..Maximum]
Underway == [pc : {"read", "clear", "open"}, client : Clients, code : Nat \X Nat,
             stale : BOOLEAN]

\* Every variable has its type.
TypeOK ==
    /\ now \in Nat /\ generation \in Nat /\ sessions \in Nat
    /\ rotation \in [Admins -> [pc : {"none", "write", "answer"}, got : Nat]]
    /\ limits \in [Clients -> Buckets \cup {NoBucket}]
    /\ req \in [Requests -> Underway \cup {NoRequest}]
    /\ cookie \in [Clients -> 1..sessions \cup {None}]
    /\ csrf \in [Clients -> 1..sessions \cup {None}]
    /\ wrote \in [Clients -> {"nothing", "test", "invalid_csrf"}]
    /\ guesses \in [Clients -> SUBSET ((0..now) \X Nat)]
    /\ early \in BOOLEAN /\ revoked \in SUBSET Nat /\ overlapped \in BOOLEAN

\* Within any stretch as long as a window, wherever it starts, a client that does
\* not sign in has fewer than twice the maximum of attempts, whatever other clients
\* do and however full the map is.
GuessesBounded == \A c \in Clients : Cardinality(guesses[c]) < 2 * Maximum

\* Nobody is refused an attempt who has not made the maximum of them within the last
\* window: a refusal never prolongs itself.
RefusedForCause == ~early

\* A code is accepted if and only if it was on display at some moment of the last
\* Grace seconds, the one that has just begun included: so one read off the page can
\* be typed in across the change of the window, and none is good for longer.
AcceptedIfDisplayed ==
    \A code \in (0..MaxGeneration) \X (0..(now \div Window)) :
        VerifyAccessCode(generation, code, now) <=>
            \E age \in 0..(Grace + 1) : code = AccessCode(generation, now - age)

\* No session is opened with a code whose generation a rotation had replaced, and
\* answered for, before the attempt was made; unless rotations overlapped.
RevokedIsRefused ==
    overlapped \/ \A r \in Requests :
        req[r].pc = "open" => ~req[r].stale

\* The page that has signed in keeps the token its writes need: what
\* web/tests/api.test.ts says of it.
SignedInWrites == \A c \in Clients : wrote[c] # "invalid_csrf"
=============================================================================
