----------------------------- MODULE SignInProofs -----------------------------
(***************************************************************************)
(* Proofs about SignIn, for any number of clients, sign-ins and rotations  *)
(* at once, and any maximum, window and grace.                             *)
(***************************************************************************)
EXTENDS SignIn, FiniteSetTheorems, TLAPS

-----------------------------------------------------------------------------
(* The inductive invariant *)

\* The attempts of a client before a bucket was started, since then, and later than then.
Before(attempts, t) == {g \in attempts : g[1] < t}
Since(attempts, t)  == {g \in attempts : g[1] >= t}
After(attempts, t)  == {g \in attempts : g[1] > t}

\* What is in guesses is at most a window old, and the next attempt's number is free.
GuessesRecent(c) ==
    /\ IsFiniteSet(guesses[c])
    /\ \A g \in guesses[c] : now - g[1] < Window
    /\ \A g \in At(guesses[c], now) : g[2] <= Cardinality(At(guesses[c], now))

\* Without a bucket a client has made fewer than the maximum, none of them just now.
NoBucketFewGuesses(c) ==
    /\ \A g \in guesses[c] : g[1] < now
    /\ Cardinality(guesses[c]) < Maximum

\* A bucket counts the attempts since it was started, the one that started it included,
\* and what remains of earlier ones lacks the attempt that started them.
BucketCounts(c) ==
    LET b == limits[c]
    IN  /\ b.started <= now
        /\ \A g \in guesses[c] : g[1] - b.started < Window
        /\ Cardinality(Before(guesses[c], b.started)) < Maximum
        /\ Cardinality(After(guesses[c], b.started)) < b.count
        /\ Cardinality(Since(guesses[c], b.started)) <= b.count
        /\ now - b.started < Window => Cardinality(Since(guesses[c], b.started)) = b.count

LimiterOf(c) ==
    /\ GuessesRecent(c)
    /\ limits[c] = NoBucket => NoBucketFewGuesses(c)
    /\ limits[c] # NoBucket => BucketCounts(c)

Limiter == \A c \in Clients : LimiterOf(c)

\* While no two rotations have overlapped, one at most is underway, which has read the
\* generation that is replaced; and what it has replaced stays below.
OneRotation ==
    /\ \A a, b \in Admins : rotation[a].pc # "none" /\ rotation[b].pc # "none" => a = b
    /\ \A a \in Admins : rotation[a].pc = "write" => rotation[a].got = generation
    /\ \A a \in Admins : rotation[a].pc = "answer" => rotation[a].got + 1 = generation
    /\ \A g \in revoked : g < generation
    /\ \A r \in Requests :
          /\ req[r].pc = "read" => (req[r].stale => req[r].code[1] < generation)
          /\ req[r].pc \in {"clear", "open"} => ~req[r].stale

Rotations == overlapped \/ OneRotation

Base ==
    /\ TypeOK
    /\ now >= Window
    /\ \A c \in Clients : IsFiniteSet(guesses[c])

Inv == Base /\ Limiter /\ RefusedForCause /\ Rotations

-----------------------------------------------------------------------------
(* Windows of the clock *)

LEMMA WindowOf ==
  ASSUME NEW n \in Nat
  PROVE  /\ n \div Window \in Nat
         /\ (n \div Window) * Window <= n
         /\ n < (n \div Window) * Window + Window
  BY SignInAssumption

LEMMA WindowIs ==
  ASSUME NEW n \in Nat, NEW q \in Nat, q * Window <= n, n < q * Window + Window
  PROVE  n \div Window = q
<1> DEFINE d == n \div Window
<1>1. d \in Nat /\ d * Window <= n /\ n < d * Window + Window
  BY WindowOf
<1> HIDE DEF d
<1> USE SignInAssumption
<1>2. CASE d > q
  <2>1. d - (q + 1) \in Nat
    BY <1>1, <1>2
  <2>2. (d - (q + 1)) * Window >= 0
    BY <2>1
  <2>3. (d - (q + 1)) * Window = d * Window - (q * Window + Window)
    BY <1>1
  <2> QED BY <1>1, <2>2, <2>3
<1>3. CASE d < q
  <2>1. q - (d + 1) \in Nat
    BY <1>1, <1>3
  <2>2. (q - (d + 1)) * Window >= 0
    BY <2>1
  <2>3. (q - (d + 1)) * Window = q * Window - (d * Window + Window)
    BY <1>1
  <2> QED BY <1>1, <2>2, <2>3
<1> QED BY <1>1, <1>2, <1>3 DEF d

\* The code on display before this window's is that of the previous one.
LEMMA PreviousWindow ==
  ASSUME now \in Nat, now >= Window
  PROVE  /\ now \div Window >= 1
         /\ (now - Window) \div Window = (now \div Window) - 1
<1> DEFINE d == now \div Window
<1>1. d \in Nat /\ d * Window <= now /\ now < d * Window + Window
  BY WindowOf
<1> HIDE DEF d
<1> USE SignInAssumption
<1>2. d >= 1
  <2>1. d = 0 => d * Window = 0
    OBVIOUS
  <2> QED BY <1>1, <2>1
<1>3. d - 1 \in Nat /\ now - Window \in Nat
  BY <1>1, <1>2
<1>4. (d - 1) * Window = d * Window - Window
  BY <1>1
<1>5. (now - Window) \div Window = d - 1
  BY <1>1, <1>3, <1>4, WindowIs
<1> QED BY <1>2, <1>5 DEF d

\* A moment at most Grace + 1 ago lies in this window or in the previous one.
LEMMA WindowAgo ==
  ASSUME now \in Nat, now >= Window, NEW age \in 0..(Grace + 1)
  PROVE  LET elapsed == now - (now \div Window) * Window
         IN  /\ now - age \in Nat
             /\ age <= elapsed => (now - age) \div Window = now \div Window
             /\ age > elapsed => (now - age) \div Window = (now \div Window) - 1
<1> DEFINE d == now \div Window
<1>1. d \in Nat /\ d * Window <= now /\ now < d * Window + Window
  BY WindowOf
<1>2. d >= 1
  BY PreviousWindow
<1> HIDE DEF d
<1> USE SignInAssumption
<1>3. now - age \in Nat /\ age <= Window
  OBVIOUS
<1>4. CASE age <= now - d * Window
  BY <1>1, <1>3, <1>4, WindowIs DEF d
<1>5. CASE age > now - d * Window
  <2>1. d - 1 \in Nat /\ (d - 1) * Window = d * Window - Window
    BY <1>1, <1>2
  <2>2. (now - age) \div Window = d - 1
    BY <1>1, <1>3, <1>5, <2>1, WindowIs
  <2> QED BY <1>1, <1>3, <1>5, <2>2 DEF d
<1> QED BY <1>1, <1>4, <1>5 DEF d

-----------------------------------------------------------------------------
(* The limiter *)

\* The bucket of c counts no further attempts: the next one starts another.
Fresh(c) == limits[c] = NoBucket \/ now - limits[c].started >= Window

LEMMA PrunedIs ==
  ASSUME TypeOK, NEW c \in Clients
  PROVE  /\ Pruned \in [Clients -> Buckets \cup {NoBucket}]
         /\ Pruned[c] = limits[c] \/ (Pruned[c] = NoBucket /\ Fresh(c))
  BY DEF TypeOK, Pruned, Fresh

Bucket(at, n) == [started |-> at, count |-> n]

\* What the limiter answers and what it leaves of its map: a first attempt ...
LEMMA FirstAttempt ==
  ASSUME TypeOK, NEW c \in Clients, Fresh(c)
  PROVE  /\ AllowAttempt(c).ok
         /\ AllowAttempt(c).limits = [Pruned EXCEPT ![c] = Bucket(now, 1)]
<1>1. Pruned[c] = NoBucket \/ now - Pruned[c].started >= Window
  BY PrunedIs DEF Fresh
<1>2. AllowAttempt(c) =
        [ok |-> 0 < Maximum,
         limits |-> IF 0 < Maximum
                    THEN [Pruned EXCEPT ![c] = [started |-> now, count |-> 0 + 1]]
                    ELSE Pruned]
  BY <1>1 DEF AllowAttempt
<1>3. 0 < Maximum
  BY SignInAssumption
<1>4. AllowAttempt(c).ok = (0 < Maximum)
  BY <1>2
<1>5. AllowAttempt(c).limits = [Pruned EXCEPT ![c] = [started |-> now, count |-> 0 + 1]]
  BY <1>2, <1>3
<1>6. AllowAttempt(c).ok
  BY <1>3, <1>4
<1>7. 0 + 1 = 1
  OBVIOUS
<1> QED BY <1>5, <1>6, <1>7 DEF Bucket

\* ... a further one ...
LEMMA FurtherAttempt ==
  ASSUME TypeOK, NEW c \in Clients, ~Fresh(c)
  PROVE  /\ limits[c] \in Buckets
         /\ Pruned[c] = limits[c]
         /\ AllowAttempt(c).ok = (limits[c].count < Maximum)
         /\ limits[c].count < Maximum =>
               AllowAttempt(c).limits =
                  [Pruned EXCEPT ![c] = Bucket(limits[c].started, limits[c].count + 1)]
         /\ ~(limits[c].count < Maximum) => AllowAttempt(c).limits = Pruned
<1>1. Pruned[c] = limits[c] /\ limits[c] # NoBucket /\ limits[c] \in Buckets
  BY PrunedIs DEF Fresh, TypeOK
<1>2. ~(Pruned[c] = NoBucket \/ now - Pruned[c].started >= Window)
  BY <1>1 DEF Fresh
<1> QED BY <1>1, <1>2 DEF AllowAttempt, Bucket

\* ... and in every case a map of buckets, in which the other clients' are as they
\* were, but for those that a new attempt would replace.
LEMMA AllowAttemptOthers ==
  ASSUME TypeOK, NEW c \in Clients
  PROVE  /\ AllowAttempt(c).limits \in [Clients -> Buckets \cup {NoBucket}]
         /\ \A d \in Clients : d # c =>
               \/ AllowAttempt(c).limits[d] = limits[d]
               \/ AllowAttempt(c).limits[d] = NoBucket /\ Fresh(d)
<1> USE SignInAssumption
<1>1. now \in Nat /\ Pruned \in [Clients -> Buckets \cup {NoBucket}]
  BY PrunedIs DEF TypeOK
<1>2. \E b \in Buckets \cup {NoBucket} : AllowAttempt(c).limits = [Pruned EXCEPT ![c] = b]
  <2>1. CASE Fresh(c)
    <3>1. Bucket(now, 1) \in Buckets
      BY <1>1 DEF Bucket, Buckets
    <3> QED BY <2>1, <3>1, FirstAttempt
  <2>2. CASE ~Fresh(c) /\ limits[c].count < Maximum
    <3>1. limits[c].started \in Nat /\ limits[c].count \in 1..Maximum
      BY <2>2, FurtherAttempt DEF Buckets
    <3>2. Bucket(limits[c].started, limits[c].count + 1) \in Buckets
      BY <2>2, <3>1 DEF Bucket, Buckets
    <3> QED BY <2>2, <3>2, FurtherAttempt
  <2>3. CASE ~Fresh(c) /\ ~(limits[c].count < Maximum)
    <3>1. AllowAttempt(c).limits = [Pruned EXCEPT ![c] = Pruned[c]]
      BY <1>1, <2>3, FurtherAttempt
    <3> QED BY <1>1, <3>1
  <2> QED BY <2>1, <2>2, <2>3
<1> QED BY <1>1, <1>2, PrunedIs

-----------------------------------------------------------------------------
(* Types *)

LEMMA InitBase == Init => Base
<1> SUFFICES ASSUME Init PROVE Base
  OBVIOUS
<1>1. NoRotation \in [pc : {"none", "write", "answer"}, got : Nat]
  BY DEF NoRotation
<1>2. TypeOK
  BY <1>1, SignInAssumption DEF Init, TypeOK
<1>3. now >= Window /\ \A c \in Clients : IsFiniteSet(guesses[c])
  BY SignInAssumption, FS_EmptySet DEF Init
<1> QED BY <1>2, <1>3 DEF Base

\* A code that is entered is a pair of numbers.
LEMMA EnteredType ==
  ASSUME TypeOK, now >= Window
  PROVE  Entered \subseteq Nat \X Nat
<1>1. now \div Window \in Nat /\ now \div Window >= 1
  BY WindowOf, PreviousWindow DEF TypeOK
<1> QED BY <1>1 DEF TypeOK, Entered

LEMMA BaseStep == Base /\ [Next]_vars => Base'
<1> SUFFICES ASSUME Base, [Next]_vars PROVE Base'
  OBVIOUS
<1> USE SignInAssumption DEF Base, serverVars, browserVars, historyVars
<1>1. CASE Tick
  <2>1. now' = now + 1 /\ \A c \in Clients : guesses'[c] \subseteq guesses[c]
    BY <1>1 DEF Tick, Recent
  <2>2. guesses' \in [Clients -> SUBSET ((0..now') \X Nat)]
    BY <1>1, <2>1 DEF Tick, TypeOK, Recent
  <2>3. \A c \in Clients : IsFiniteSet(guesses'[c])
    BY <2>1, FS_Subset
  <2> QED BY <1>1, <2>1, <2>2, <2>3 DEF Tick, TypeOK
<1>2. ASSUME NEW r \in Requests, NEW c \in Clients, NEW code \in Entered, Attempt(r, c, code)
      PROVE  Base'
  <2>1. /\ limits' \in [Clients -> Buckets \cup {NoBucket}]
        /\ now' = now
    BY <1>2, AllowAttemptOthers DEF Attempt
  <2>2. req' \in [Requests -> Underway \cup {NoRequest}]
    <3>1. code \in Nat \X Nat /\ (code[1] \in revoked) \in BOOLEAN
      BY EnteredType
    <3>2. [pc |-> "read", client |-> c, code |-> code, stale |-> code[1] \in revoked]
             \in Underway
      BY <3>1 DEF Underway
    <3> QED BY <1>2, <3>2 DEF Attempt, TypeOK
  <2> DEFINE n == Cardinality(At(guesses[c], now)) + 1
  <2>3. n \in Nat /\ guesses' = [guesses EXCEPT ![c] = @ \cup {<<now, n>>}]
    <3>1. At(guesses[c], now) \subseteq guesses[c]
      BY DEF At
    <3>2. Cardinality(At(guesses[c], now)) \in Nat
      BY <3>1, FS_Subset, FS_CardinalityType
    <3> QED BY <1>2, <3>2 DEF Attempt
  <2> HIDE DEF n
  <2>4. guesses' \in [Clients -> SUBSET ((0..now') \X Nat)]
    BY <2>1, <2>3 DEF TypeOK
  <2>5. \A d \in Clients : IsFiniteSet(guesses'[d])
    BY <2>3, FS_AddElement DEF TypeOK
  <2> QED BY <1>2, <2>1, <2>2, <2>4, <2>5 DEF Attempt, TypeOK
<1>3. ASSUME NEW c \in Clients, Refuse(c) PROVE Base'
  <2>1. limits' \in [Clients -> Buckets \cup {NoBucket}]
    BY <1>3, AllowAttemptOthers DEF Refuse
  <2> QED BY <1>3, <2>1 DEF Refuse, TypeOK
<1>4. ASSUME NEW r \in Requests, Verify(r) PROVE Base'
  <2>1. req[r] \in Underway
    BY <1>4 DEF Verify, TypeOK, NoRequest
  <2>2. [req[r] EXCEPT !.pc = "clear"] \in Underway
    BY <2>1 DEF Underway
  <2>3. req' \in [Requests -> Underway \cup {NoRequest}]
    BY <1>4, <2>2 DEF Verify, Verified, TypeOK
  <2> QED BY <1>4, <2>3 DEF Verify, TypeOK
<1>5. ASSUME NEW r \in Requests, VerifyGone(r) \/ ClearAttempts(r) PROVE Base'
  <2>1. req[r] \in Underway
    BY <1>5 DEF VerifyGone, ClearAttempts, TypeOK, NoRequest
  <2>2. [req[r] EXCEPT !.pc = "open"] \in Underway
    BY <2>1 DEF Underway
  <2>3. req' \in [Requests -> Underway \cup {NoRequest}]
    BY <1>5, <2>2 DEF VerifyGone, ClearAttempts, TypeOK
  <2>4. limits' \in [Clients -> Buckets \cup {NoBucket}]
    BY <1>5 DEF VerifyGone, ClearAttempts, TypeOK
  <2>5. /\ guesses' \in [Clients -> SUBSET ((0..now) \X Nat)]
        /\ \A c \in Clients : IsFiniteSet(guesses'[c])
    <3>1. guesses' = guesses \/ guesses' = [guesses EXCEPT ![req[r].client] = {}]
      BY <1>5 DEF VerifyGone, ClearAttempts
    <3> QED BY <3>1, FS_EmptySet DEF TypeOK
  <2> QED BY <1>5, <2>3, <2>4, <2>5 DEF VerifyGone, ClearAttempts, TypeOK
<1>6. ASSUME NEW r \in Requests, NewAccess(r) PROVE Base'
  <2>1. req[r].client \in Clients
    BY <1>6 DEF NewAccess, TypeOK, NoRequest, Underway
  <2>2. PICK c \in Clients : c = req[r].client
    BY <2>1
  <2>3. sessions' = sessions + 1 /\ sessions' \in Nat
    BY <1>6 DEF NewAccess, TypeOK
  <2>4. cookie' \in [Clients -> 1..sessions' \cup {None}]
    <3>1. cookie' = [cookie EXCEPT ![c] = sessions']
      BY <1>6, <2>2, <2>3 DEF NewAccess
    <3>2. 1..sessions \subseteq 1..sessions' /\ sessions' \in 1..sessions'
      BY <2>3 DEF TypeOK
    <3> QED BY <3>1, <3>2 DEF TypeOK
  <2>5. Stored(Answer(sessions + 1), csrf[c]) \in 1..sessions' \cup {None}
    BY <2>3 DEF Stored, Answer, TypeOK
  <2>6. csrf' = [csrf EXCEPT ![c] = Stored(Answer(sessions + 1), csrf[c])]
    BY <1>6, <2>2 DEF NewAccess
  <2>7. csrf' \in [Clients -> 1..sessions' \cup {None}]
    BY <2>3, <2>5, <2>6 DEF TypeOK
  <2> QED BY <1>6, <2>3, <2>4, <2>7 DEF NewAccess, TypeOK
<1>7. ASSUME NEW r \in Requests, NewAccessFails(r) PROVE Base'
  BY <1>7 DEF NewAccessFails, TypeOK
<1>8. ASSUME NEW c \in Clients, CreateTest(c) PROVE Base'
  BY <1>8 DEF CreateTest, TypeOK
<1>9. ASSUME NEW a \in Admins, RotateRead(a) \/ RotateWrite(a) \/ RotateAnswer(a)
                               \/ RotateGone(a)
      PROVE  Base'
  <2>1. rotation[a].got \in Nat
    BY DEF TypeOK
  <2>2. rotation' \in [Admins -> [pc : {"none", "write", "answer"}, got : Nat]]
    BY <1>9, <2>1 DEF RotateRead, RotateWrite, RotateAnswer, RotateGone, NoRotation, TypeOK
  <2>3. generation' \in Nat /\ revoked' \in SUBSET Nat
    BY <1>9, <2>1 DEF RotateRead, RotateWrite, RotateAnswer, RotateGone, TypeOK
  <2>4. overlapped' \in BOOLEAN
    BY <1>9 DEF RotateRead, RotateWrite, RotateAnswer, RotateGone, TypeOK
  <2>5. UNCHANGED <<now, limits, req, sessions, browserVars, guesses, early>>
    BY <1>9 DEF RotateRead, RotateWrite, RotateAnswer, RotateGone
  <2> QED BY <2>2, <2>3, <2>4, <2>5 DEF TypeOK
<1>10. CASE UNCHANGED vars
  BY <1>10 DEF vars, TypeOK
<1> QED
  BY <1>1, <1>2, <1>3, <1>4, <1>5, <1>6, <1>7, <1>8, <1>9, <1>10 DEF Next

-----------------------------------------------------------------------------
(* Codes *)

LEMMA Accepted == Base => AcceptedIfDisplayed
<1> SUFFICES ASSUME Base,
                    NEW code \in (0..MaxGeneration) \X (0..(now \div Window))
             PROVE  VerifyAccessCode(generation, code, now) <=>
                      \E age \in 0..(Grace + 1) : code = AccessCode(generation, now - age)
  BY DEF AcceptedIfDisplayed
<1> DEFINE d == now \div Window
           elapsed == now - d * Window
<1>1. now \in Nat /\ now >= Window
  BY DEF Base, TypeOK
<1>2. d \in Nat /\ elapsed \in Nat
  BY <1>1, WindowOf, SignInAssumption
<1>3. AccessCode(generation, now - Window) = <<generation, d - 1>>
  BY <1>1, PreviousWindow DEF AccessCode
<1>4. VerifyAccessCode(generation, code, now) <=>
        \/ code = <<generation, d>>
        \/ elapsed <= Grace /\ code = <<generation, d - 1>>
  BY <1>3 DEF VerifyAccessCode, AccessCode
<1>5. \A age \in 0..(Grace + 1) :
        AccessCode(generation, now - age) =
           IF age <= elapsed THEN <<generation, d>> ELSE <<generation, d - 1>>
  <2> TAKE age \in 0..(Grace + 1)
  <2>1. age \in Nat
    OBVIOUS
  <2>2. (now - age) \div Window = IF age <= elapsed THEN d ELSE d - 1
    BY <1>1, <1>2, <2>1, WindowAgo
  <2> QED BY <2>2 DEF AccessCode
<1> HIDE DEF d, elapsed
<1>6. ASSUME code = <<generation, d>>
      PROVE  \E age \in 0..(Grace + 1) : code = AccessCode(generation, now - age)
  <2>1. 0 \in 0..(Grace + 1) /\ 0 <= elapsed
    BY <1>2, SignInAssumption
  <2> QED BY <1>5, <1>6, <2>1
<1>7. ASSUME elapsed <= Grace, code = <<generation, d - 1>>
      PROVE  \E age \in 0..(Grace + 1) : code = AccessCode(generation, now - age)
  <2>1. elapsed + 1 \in 0..(Grace + 1) /\ ~(elapsed + 1 <= elapsed)
    BY <1>2, <1>7, SignInAssumption
  <2> QED BY <1>5, <1>7, <2>1
<1>8. ASSUME NEW age \in 0..(Grace + 1), code = AccessCode(generation, now - age)
      PROVE  \/ code = <<generation, d>>
             \/ elapsed <= Grace /\ code = <<generation, d - 1>>
  <2>1. CASE age <= elapsed
    BY <1>5, <1>8, <2>1
  <2>2. CASE ~(age <= elapsed)
    <3>1. elapsed <= Grace
      BY <1>2, <2>2, SignInAssumption
    <3> QED BY <1>5, <1>8, <2>2, <3>1
  <2> QED BY <2>1, <2>2
<1> QED BY <1>4, <1>6, <1>7, <1>8

\* Only codes of the generation are accepted.
LEMMA AcceptedGeneration ==
  ASSUME NEW g, NEW code, NEW at, VerifyAccessCode(g, code, at)
  PROVE  code[1] = g
  BY DEF VerifyAccessCode, AccessCode

-----------------------------------------------------------------------------
(* Rotations *)

LEMMA InitRotations == Init => Rotations
  BY DEF Init, Rotations, OneRotation, NoRotation, NoRequest

LEMMA RotationsStep == Base /\ Rotations /\ [Next]_vars => Rotations'
<1> SUFFICES ASSUME Base, OneRotation, ~overlapped, [Next]_vars PROVE Rotations'
  <2>1. ASSUME overlapped, [Next]_vars PROVE overlapped'
    <3> USE <2>1 DEF serverVars, browserVars, historyVars
    <3>1. ASSUME NEW a \in Admins, RotateRead(a) PROVE overlapped'
      BY <3>1 DEF RotateRead
    <3> QED
      BY <3>1 DEF Next, Tick, Attempt, Verify, VerifyGone, ClearAttempts, NewAccess,
         NewAccessFails, Refuse, CreateTest, RotateWrite, RotateAnswer, RotateGone, vars
  <2> QED BY <2>1 DEF Rotations, Base, TypeOK
<1> USE DEF Base, TypeOK, serverVars, browserVars, historyVars
<1>1. CASE UNCHANGED <<generation, rotation, req, revoked>>
  BY <1>1 DEF OneRotation, Rotations
<1>2. ASSUME NEW r \in Requests, NEW c \in Clients, NEW code \in Entered, Attempt(r, c, code)
      PROVE  Rotations'
  <2>1. UNCHANGED <<generation, rotation, revoked>>
    BY <1>2 DEF Attempt
  <2>2. req' = [req EXCEPT ![r] = [pc |-> "read", client |-> c, code |-> code,
                                   stale |-> code[1] \in revoked]]
    BY <1>2 DEF Attempt
  <2>3. code[1] \in revoked => code[1] < generation
    BY DEF OneRotation
  <2> QED BY <2>1, <2>2, <2>3 DEF OneRotation, Rotations
<1>3. ASSUME NEW r \in Requests, Verify(r) PROVE Rotations'
  <2>1. UNCHANGED <<generation, rotation, revoked>> /\ req[r].pc = "read"
    BY <1>3 DEF Verify
  <2>2. req[r] \in Underway
    BY <2>1 DEF NoRequest
  <2>3. req' = [req EXCEPT ![r] = IF VerifyAccessCode(generation, req[r].code, now)
                                  THEN [req[r] EXCEPT !.pc = "clear"] ELSE NoRequest]
    BY <1>3 DEF Verify, Verified
  <2>4. VerifyAccessCode(generation, req[r].code, now) => ~req[r].stale
    <3> SUFFICES ASSUME VerifyAccessCode(generation, req[r].code, now) PROVE ~req[r].stale
      OBVIOUS
    <3>1. req[r].code[1] = generation
      BY AcceptedGeneration
    <3> QED BY <2>1, <3>1 DEF OneRotation
  <2>5. req'[r].pc \in {"none", "clear"} /\ (req'[r].pc = "clear" => ~req'[r].stale)
    BY <2>2, <2>3, <2>4 DEF NoRequest, Underway
  <2> QED BY <2>1, <2>3, <2>5 DEF OneRotation, Rotations
<1>4. ASSUME NEW r \in Requests,
             VerifyGone(r) \/ ClearAttempts(r) \/ NewAccess(r) \/ NewAccessFails(r)
      PROVE  Rotations'
  <2>1. UNCHANGED <<generation, rotation, revoked>>
    BY <1>4 DEF VerifyGone, ClearAttempts, NewAccess, NewAccessFails
  <2>2. \/ req' = [req EXCEPT ![r] = NoRequest]
        \/ req[r].pc = "clear" /\ req' = [req EXCEPT ![r].pc = "open"]
    BY <1>4 DEF VerifyGone, ClearAttempts, NewAccess, NewAccessFails
  <2>3. req'[r].pc = "none" \/ (req'[r].pc = "open" /\ ~req'[r].stale)
    BY <2>2 DEF NoRequest, Underway, OneRotation
  <2> QED BY <2>1, <2>2, <2>3 DEF OneRotation, Rotations
<1>5. ASSUME NEW a \in Admins, RotateRead(a) PROVE Rotations'
  BY <1>5 DEF RotateRead, OneRotation, Rotations
<1>6. ASSUME NEW a \in Admins, RotateWrite(a) PROVE Rotations'
  <2>1. rotation[a].got = generation /\ generation' = generation + 1
    BY <1>6 DEF RotateWrite, OneRotation
  <2>2. \A b \in Admins : b # a => rotation[b].pc = "none"
    BY <1>6 DEF RotateWrite, OneRotation
  <2>3. /\ rotation' = [rotation EXCEPT ![a].pc = "answer"]
        /\ UNCHANGED <<req, revoked>>
    BY <1>6 DEF RotateWrite
  <2>4. (\A g \in revoked' : g < generation')
        /\ \A r \in Requests :
             /\ req'[r].pc = "read" => (req'[r].stale => req'[r].code[1] < generation')
             /\ req'[r].pc \in {"clear", "open"} => ~req'[r].stale
    <3>1. \A r \in Requests : req[r].pc = "read" => req[r].code[1] \in Nat
      BY DEF NoRequest, Underway
    <3> QED BY <2>1, <2>3, <3>1 DEF OneRotation
  <2>5. /\ \A b, d \in Admins : rotation'[b].pc # "none" /\ rotation'[d].pc # "none" => b = d
        /\ \A b \in Admins : rotation'[b].pc = "write" => rotation'[b].got = generation'
        /\ \A b \in Admins : rotation'[b].pc = "answer" => rotation'[b].got + 1 = generation'
    BY <2>1, <2>2, <2>3
  <2> QED BY <2>4, <2>5 DEF OneRotation, Rotations
<1>7. ASSUME NEW a \in Admins, RotateAnswer(a) PROVE Rotations'
  <2>1. /\ rotation' = [rotation EXCEPT ![a] = NoRotation]
        /\ revoked' = revoked \cup 0..rotation[a].got
        /\ UNCHANGED <<generation, req>> /\ rotation[a].got + 1 = generation
    BY <1>7 DEF RotateAnswer, OneRotation
  <2>2. \A g \in revoked' : g < generation'
    BY <2>1 DEF OneRotation
  <2> QED BY <2>1, <2>2 DEF OneRotation, Rotations, NoRotation
<1>8. ASSUME NEW a \in Admins, RotateGone(a) PROVE Rotations'
  BY <1>8 DEF RotateGone, OneRotation, Rotations, NoRotation
<1> QED
  BY <1>1, <1>2, <1>3, <1>4, <1>5, <1>6, <1>7, <1>8
  DEF Next, Tick, Refuse, CreateTest, vars

-----------------------------------------------------------------------------
(* What the limiter bounds *)

LEMMA Counted ==
  ASSUME Base, NEW c \in Clients
  PROVE  /\ Cardinality(guesses[c]) \in Nat
         /\ \A part \in SUBSET guesses[c] :
               /\ IsFiniteSet(part) /\ Cardinality(part) \in Nat
               /\ Cardinality(part) <= Cardinality(guesses[c])
<1>1. IsFiniteSet(guesses[c])
  BY DEF Base
<1> QED BY <1>1, FS_Subset, FS_CardinalityType

LEMMA Parts ==
  ASSUME NEW attempts, NEW t
  PROVE  /\ Before(attempts, t) \in SUBSET attempts /\ Since(attempts, t) \in SUBSET attempts
         /\ After(attempts, t) \in SUBSET attempts /\ At(attempts, t) \in SUBSET attempts
  BY DEF Before, Since, After, At

\* Attempts are pairs whose time is a number, and not later than now.
LEMMA GuessTimes ==
  ASSUME Base, NEW c \in Clients, NEW g \in guesses[c]
  PROVE  g \in (0..now) \X Nat /\ g[1] \in Nat /\ g[1] <= now
  BY DEF Base, TypeOK

\* The bound: the attempts before the bucket was started, and those since.
LEMMA Bounded == Base /\ Limiter => GuessesBounded
<1> SUFFICES ASSUME Base, Limiter, NEW c \in Clients
             PROVE  Cardinality(guesses[c]) < 2 * Maximum
  BY DEF GuessesBounded
<1> USE SignInAssumption
<1>1. CASE limits[c] = NoBucket
  <2>1. Cardinality(guesses[c]) < Maximum /\ Cardinality(guesses[c]) \in Nat
    BY <1>1, Counted DEF Limiter, LimiterOf, NoBucketFewGuesses
  <2> QED BY <2>1
<1>2. CASE limits[c] # NoBucket
  <2> DEFINE t == limits[c].started
             old == Before(guesses[c], t)
             new == Since(guesses[c], t)
  <2>1. /\ BucketCounts(c) /\ t \in Nat /\ limits[c].count \in Nat
        /\ limits[c].count <= Maximum
    BY <1>2 DEF Limiter, LimiterOf, Base, TypeOK, Buckets
  <2>2. /\ IsFiniteSet(old) /\ IsFiniteSet(new)
        /\ Cardinality(old) \in Nat /\ Cardinality(new) \in Nat
    BY Counted, Parts
  <2>3. old \cup new = guesses[c] /\ old \cap new = {}
    BY <2>1, GuessTimes DEF Before, Since
  <2>4. Cardinality(old \cup new)
           = Cardinality(old) + Cardinality(new) - Cardinality(old \cap new)
    BY <2>2, FS_Union
  <2>5. Cardinality(old \cap new) = 0
    BY <2>3, FS_EmptySet
  <2>6. Cardinality(old) < Maximum /\ Cardinality(new) <= limits[c].count
    BY <2>1 DEF BucketCounts
  <2> HIDE DEF old, new
  <2>7. Cardinality(guesses[c]) = Cardinality(old) + Cardinality(new)
    <3>1. Cardinality(old \cup new) = Cardinality(old) + Cardinality(new)
      BY <2>2, <2>4, <2>5
    <3> QED BY <2>3, <3>1
  <2> QED BY <2>1, <2>2, <2>6, <2>7
<1> QED BY <1>1, <1>2

\* A bucket that the next attempt would replace leaves few attempts behind it.
LEMMA FreshFewGuesses ==
  ASSUME Base, Limiter, NEW c \in Clients, Fresh(c)
  PROVE  NoBucketFewGuesses(c)
<1> USE SignInAssumption
<1>1. CASE limits[c] = NoBucket
  BY <1>1 DEF Limiter, LimiterOf
<1>2. CASE limits[c] # NoBucket
  <2>1. /\ BucketCounts(c) /\ GuessesRecent(c) /\ now - limits[c].started >= Window
        /\ limits[c].started \in Nat /\ limits[c].count \in Nat /\ limits[c].count <= Maximum
        /\ now \in Nat
    BY <1>2 DEF Limiter, LimiterOf, Fresh, Base, TypeOK, Buckets
  <2>2. \A g \in guesses[c] : g[1] < now
    BY <2>1, GuessTimes DEF BucketCounts
  <2>3. After(guesses[c], limits[c].started) = guesses[c]
    BY <2>1, GuessTimes DEF After, GuessesRecent
  <2>4. Cardinality(guesses[c]) < limits[c].count
    BY <2>1, <2>3 DEF BucketCounts
  <2>5. Cardinality(guesses[c]) < Maximum
    BY <2>1, <2>4, Counted
  <2> QED BY <2>2, <2>5 DEF NoBucketFewGuesses
<1> QED BY <1>1, <1>2

\* A client whose attempts stay as they are, and whose bucket stays or is pruned.
LEMMA SameGuesses ==
  ASSUME Base, Limiter, NEW c \in Clients, now' = now, guesses'[c] = guesses[c],
         limits'[c] = limits[c] \/ (limits'[c] = NoBucket /\ Fresh(c))
  PROVE  LimiterOf(c)'
<1>1. GuessesRecent(c)'
  BY DEF Limiter, LimiterOf, GuessesRecent
<1>2. CASE limits'[c] = limits[c]
  BY <1>1, <1>2 DEF Limiter, LimiterOf, NoBucketFewGuesses, BucketCounts
<1>3. CASE limits'[c] = NoBucket /\ Fresh(c)
  BY <1>1, <1>3, FreshFewGuesses DEF LimiterOf, NoBucketFewGuesses
<1> QED BY <1>1, <1>2, <1>3

\* A client that has none, and no bucket.
LEMMA ClearedGuesses ==
  ASSUME NEW c \in Clients, guesses'[c] = {}, limits'[c] = NoBucket
  PROVE  LimiterOf(c)'
<1>1. IsFiniteSet({}) /\ Cardinality({}) = 0
  BY FS_EmptySet
<1> QED BY <1>1, SignInAssumption DEF LimiterOf, GuessesRecent, NoBucketFewGuesses, At

\* As time passes attempts are forgotten, and none of those a bucket counts before it
\* expires itself.
LEMMA TickGuesses ==
  ASSUME Base, Limiter, Tick, NEW c \in Clients
  PROVE  LimiterOf(c)'
<1> USE SignInAssumption
<1>1. /\ now' = now + 1 /\ limits' = limits /\ now \in Nat
      /\ guesses'[c] = {g \in guesses[c] : now + 1 - g[1] < Window}
  BY DEF Tick, serverVars, Recent, Base, TypeOK
<1>2. guesses'[c] \subseteq guesses[c] /\ LimiterOf(c)
  BY <1>1 DEF Limiter
<1>3. /\ IsFiniteSet(guesses'[c]) /\ Cardinality(guesses'[c]) \in Nat
      /\ Cardinality(guesses'[c]) <= Cardinality(guesses[c])
  BY <1>2, Counted
<1>4. GuessesRecent(c)'
  <2>1. \A g \in guesses'[c] : now' - g[1] < Window
    <3> TAKE g \in guesses'[c]
    <3>1. now + 1 - g[1] < Window
      BY <1>1
    <3>2. now' = now + 1 /\ now \in Nat /\ g[1] \in Nat
      BY <1>1, <1>2, GuessTimes
    <3> QED BY <3>1, <3>2
  <2>2. At(guesses'[c], now') = {}
    BY <1>1, <1>2, GuessTimes DEF At
  <2> QED BY <1>3, <2>1, <2>2 DEF GuessesRecent
<1>5. CASE limits[c] = NoBucket
  <2>1. \A g \in guesses'[c] : g[1] < now'
    BY <1>1, <1>2, GuessTimes
  <2>2. Cardinality(guesses[c]) < Maximum /\ Cardinality(guesses[c]) \in Nat
    BY <1>2, <1>5, Counted DEF LimiterOf, NoBucketFewGuesses
  <2>3. Cardinality(guesses'[c]) < Maximum
    BY <1>3, <2>2
  <2> QED BY <1>1, <1>4, <1>5, <2>1, <2>3 DEF LimiterOf, NoBucketFewGuesses
<1>6. CASE limits[c] # NoBucket
  <2> DEFINE t == limits[c].started
  <2>1. BucketCounts(c) /\ t \in Nat /\ limits[c].count \in Nat
    BY <1>2, <1>6 DEF LimiterOf, Base, TypeOK, Buckets
  <2>2. /\ Before(guesses'[c], t) \subseteq Before(guesses[c], t)
        /\ After(guesses'[c], t) \subseteq After(guesses[c], t)
        /\ Since(guesses'[c], t) \subseteq Since(guesses[c], t)
    BY <1>2 DEF Before, After, Since
  <2>3. \A big, small \in SUBSET guesses[c] : small \subseteq big =>
           /\ Cardinality(small) \in Nat /\ Cardinality(big) \in Nat
           /\ Cardinality(small) <= Cardinality(big)
    BY Counted, FS_Subset
  <2>4. /\ Cardinality(Before(guesses'[c], t)) < Maximum
        /\ Cardinality(After(guesses'[c], t)) < limits[c].count
        /\ Cardinality(Since(guesses'[c], t)) <= limits[c].count
    <3>1. /\ Cardinality(Before(guesses'[c], t)) <= Cardinality(Before(guesses[c], t))
          /\ Cardinality(After(guesses'[c], t)) <= Cardinality(After(guesses[c], t))
          /\ Cardinality(Since(guesses'[c], t)) <= Cardinality(Since(guesses[c], t))
          /\ {Cardinality(Before(guesses'[c], t)), Cardinality(Before(guesses[c], t)),
              Cardinality(After(guesses'[c], t)), Cardinality(After(guesses[c], t)),
              Cardinality(Since(guesses'[c], t)), Cardinality(Since(guesses[c], t))}
                \subseteq Nat
      BY <1>2, <2>2, <2>3, Parts
    <3> QED BY <2>1, <3>1 DEF BucketCounts
  <2>5. now' - t < Window => Cardinality(Since(guesses'[c], t)) = limits[c].count
    <3> SUFFICES ASSUME now' - t < Window
                 PROVE  Cardinality(Since(guesses'[c], t)) = limits[c].count
      OBVIOUS
    <3>1. Since(guesses'[c], t) = Since(guesses[c], t)
      BY <1>1, <1>2, <2>1, GuessTimes DEF Since
    <3>2. now - t < Window
      BY <1>1, <2>1
    <3> QED BY <2>1, <3>1, <3>2 DEF BucketCounts
  <2>6. t <= now' /\ \A g \in guesses'[c] : g[1] - t < Window
    BY <1>1, <1>2, <2>1 DEF BucketCounts
  <2> QED BY <1>1, <1>4, <1>6, <2>4, <2>5, <2>6 DEF LimiterOf, BucketCounts
<1> QED BY <1>5, <1>6

\* A bucket that counts further attempts.
LEMMA BucketAtHand ==
  ASSUME TypeOK, NEW c \in Clients, ~Fresh(c)
  PROVE  /\ limits[c] # NoBucket /\ limits[c].started \in Nat /\ limits[c].count \in Nat
         /\ now - limits[c].started < Window
         /\ AllowAttempt(c).ok <=> limits[c].count < Maximum
<1>1. limits[c] # NoBucket /\ ~(now - limits[c].started >= Window)
  BY DEF Fresh
<1>2. limits[c] \in Buckets /\ AllowAttempt(c).ok = (limits[c].count < Maximum)
  BY FurtherAttempt
<1>3. limits[c].started \in Nat /\ limits[c].count \in Nat
  BY <1>2 DEF Buckets
<1>4. now - limits[c].started < Window
  BY <1>1, <1>3, SignInAssumption DEF TypeOK
<1>5. AllowAttempt(c).ok <=> limits[c].count < Maximum
  BY <1>2
<1> QED BY <1>1, <1>3, <1>4, <1>5

\* One more attempt, which its bucket counts.
LEMMA OneMoreGuess ==
  ASSUME Base, Limiter, NEW c \in Clients, now' = now,
         AllowAttempt(c).ok, limits' = AllowAttempt(c).limits,
         guesses' = [guesses EXCEPT
                        ![c] = @ \cup {<<now, Cardinality(At(@, now)) + 1>>}]
  PROVE  LimiterOf(c)'
<1> USE SignInAssumption
<1> DEFINE k == Cardinality(At(guesses[c], now))
           new == <<now, k + 1>>
<1>1. /\ LimiterOf(c) /\ now \in Nat /\ TypeOK
      /\ guesses'[c] = guesses[c] \cup {new}
  BY DEF Limiter, Base, TypeOK
<1>2. /\ IsFiniteSet(guesses[c]) /\ k \in Nat
      /\ Cardinality(guesses[c]) \in Nat
  BY Counted, Parts DEF Base
<1> HIDE DEF k
<1>3. new \notin guesses[c] /\ new[1] = now /\ new[2] = k + 1
  <2>1. new[1] = now /\ new[2] = k + 1
    OBVIOUS
  <2>2. ASSUME new \in guesses[c] PROVE FALSE
    <3>1. new \in At(guesses[c], now)
      BY <2>1, <2>2 DEF At
    <3>2. new[2] <= k
      BY <1>1, <3>1 DEF LimiterOf, GuessesRecent, k
    <3> QED BY <1>2, <2>1, <3>2
  <2> QED BY <2>1, <2>2
<1> HIDE DEF new
<1>4. \A part \in SUBSET guesses[c] :
         /\ IsFiniteSet(part \cup {new}) /\ Cardinality(part) \in Nat
         /\ Cardinality(part \cup {new}) = Cardinality(part) + 1
  BY <1>2, <1>3, FS_Subset, FS_CardinalityType, FS_AddElement
<1>5. GuessesRecent(c)'
  <2>1. At(guesses'[c], now) = At(guesses[c], now) \cup {new}
    BY <1>1, <1>3 DEF At
  <2>2. Cardinality(At(guesses'[c], now)) = k + 1
    BY <1>4, <2>1, Parts DEF k
  <2>3. \A g \in At(guesses'[c], now) : g[2] <= k + 1
    <3>1. \A g \in At(guesses[c], now) : g[2] <= k /\ g[2] \in Nat
      BY <1>1, GuessTimes DEF LimiterOf, GuessesRecent, k, At
    <3> QED BY <1>2, <1>3, <2>1, <3>1
  <2>4. \A g \in guesses'[c] : now' - g[1] < Window
    BY <1>1, <1>3 DEF LimiterOf, GuessesRecent
  <2> QED BY <1>1, <1>4, <2>2, <2>3, <2>4 DEF GuessesRecent
<1>6. CASE Fresh(c)
  <2>1. limits'[c] = Bucket(now, 1)
    BY <1>1, <1>6, FirstAttempt, PrunedIs
  <2>2. limits'[c].started = now /\ limits'[c].count = 1 /\ limits'[c] # NoBucket
    BY <2>1 DEF Bucket, NoBucket
  <2>3. (\A g \in guesses[c] : g[1] < now) /\ Cardinality(guesses[c]) < Maximum
    BY <1>6, FreshFewGuesses DEF NoBucketFewGuesses
  <2>4. \A g \in guesses[c] : g[1] \in Nat
    BY GuessTimes
  <2>5. /\ Before(guesses'[c], now) = guesses[c]
        /\ After(guesses'[c], now) = {}
        /\ Since(guesses'[c], now) = {new}
    BY <1>1, <1>3, <2>3, <2>4 DEF Before, After, Since
  <2>6. Cardinality({}) = 0 /\ Cardinality({new}) = 1
    BY FS_EmptySet, FS_Singleton
  <2>7. \A g \in guesses'[c] : g[1] - now < Window
    BY <1>1, <1>3, <2>3, <2>4
  <2>8. /\ Cardinality(Before(guesses'[c], now)) < Maximum
        /\ Cardinality(After(guesses'[c], now)) = 0
        /\ Cardinality(Since(guesses'[c], now)) = 1
    BY <2>3, <2>5, <2>6
  <2>9. BucketCounts(c)'
    BY <1>1, <2>2, <2>7, <2>8 DEF BucketCounts
  <2> QED BY <1>5, <2>2, <2>9 DEF LimiterOf
<1>7. CASE ~Fresh(c)
  <2> DEFINE t == limits[c].started
  <2>1. /\ limits[c].count < Maximum /\ t \in Nat /\ limits[c].count \in Nat
        /\ limits[c] # NoBucket /\ now - t < Window
    BY <1>1, <1>7, BucketAtHand
  <2>2. limits'[c] = Bucket(t, limits[c].count + 1)
    BY <1>1, <1>7, <2>1, FurtherAttempt, PrunedIs
  <2>3. /\ limits'[c].started = t /\ limits'[c].count = limits[c].count + 1
        /\ limits'[c] # NoBucket
    BY <2>1, <2>2 DEF Bucket, NoBucket
  <2>4. BucketCounts(c) /\ t <= now
    BY <1>1, <2>1 DEF LimiterOf, BucketCounts
  <2>5. /\ Before(guesses'[c], t) = Before(guesses[c], t)
        /\ Since(guesses'[c], t) = Since(guesses[c], t) \cup {new}
        /\ After(guesses'[c], t) \subseteq After(guesses[c], t) \cup {new}
    BY <1>1, <1>3, <2>1, <2>4 DEF Before, After, Since
  <2>6. Cardinality(Since(guesses'[c], t)) = limits[c].count + 1
    BY <1>4, <2>1, <2>4, <2>5, Parts DEF BucketCounts
  <2>7. Cardinality(After(guesses'[c], t)) < limits[c].count + 1
    <3>1. /\ Cardinality(After(guesses[c], t)) \in Nat
          /\ IsFiniteSet(After(guesses[c], t) \cup {new})
          /\ Cardinality(After(guesses[c], t) \cup {new})
                = Cardinality(After(guesses[c], t)) + 1
      BY <1>4, Parts
    <3>2. /\ IsFiniteSet(After(guesses'[c], t))
          /\ Cardinality(After(guesses'[c], t)) <= Cardinality(After(guesses[c], t) \cup {new})
      BY <2>5, <3>1, FS_Subset
    <3>3. Cardinality(After(guesses'[c], t)) \in Nat
      BY <3>2, FS_CardinalityType
    <3> QED BY <2>1, <2>4, <3>1, <3>2, <3>3 DEF BucketCounts
  <2>8. Cardinality(Before(guesses'[c], t)) < Maximum
    BY <2>4, <2>5 DEF BucketCounts
  <2>9. \A g \in guesses'[c] : g[1] - t < Window
    BY <1>1, <1>3, <2>1, <2>4 DEF BucketCounts
  <2>10. BucketCounts(c)'
    BY <2>1, <2>3, <2>4, <2>6, <2>7, <2>8, <2>9 DEF BucketCounts
  <2> QED BY <1>5, <2>3, <2>10 DEF LimiterOf
<1> QED BY <1>6, <1>7

\* A refusal finds the bucket's maximum of attempts, all of the last window.
LEMMA RefusedAtMaximum ==
  ASSUME Base, Limiter, NEW c \in Clients, ~AllowAttempt(c).ok
  PROVE  Cardinality(guesses[c]) >= Maximum
<1> USE SignInAssumption
<1>1. ~Fresh(c)
  BY FirstAttempt DEF Base
<1>2. /\ limits[c] # NoBucket /\ limits[c].started \in Nat /\ now - limits[c].started < Window
      /\ limits[c].count \in Nat /\ ~(limits[c].count < Maximum)
  BY <1>1, BucketAtHand DEF Base
<1>3. Cardinality(Since(guesses[c], limits[c].started)) = limits[c].count
  BY <1>2 DEF Limiter, LimiterOf, BucketCounts
<1>4. Cardinality(Since(guesses[c], limits[c].started)) <= Cardinality(guesses[c])
  BY Counted, Parts
<1>5. Cardinality(guesses[c]) \in Nat
  BY Counted
<1> QED BY <1>2, <1>3, <1>4, <1>5

-----------------------------------------------------------------------------
(* The invariant *)

LEMMA InitLimiter == Init => Limiter /\ RefusedForCause
<1> SUFFICES ASSUME Init, NEW c \in Clients PROVE LimiterOf(c) /\ RefusedForCause
  BY DEF Limiter, Init, RefusedForCause
<1>1. guesses[c] = {} /\ limits[c] = NoBucket /\ early = FALSE
  BY DEF Init
<1>2. IsFiniteSet({}) /\ Cardinality({}) = 0
  BY FS_EmptySet
<1> QED
  BY <1>1, <1>2, SignInAssumption
  DEF LimiterOf, GuessesRecent, NoBucketFewGuesses, At, RefusedForCause

LEMMA LimiterStep == Base /\ Limiter /\ [Next]_vars => Limiter'
<1> SUFFICES ASSUME Base, Limiter, [Next]_vars, NEW c \in Clients PROVE LimiterOf(c)'
  BY DEF Limiter
<1>1. CASE Tick
  BY <1>1, TickGuesses
<1>2. ASSUME NEW r \in Requests, NEW d \in Clients, NEW code \in Entered, Attempt(r, d, code)
      PROVE  LimiterOf(c)'
  <2>1. CASE d = c
    BY <1>2, <2>1, OneMoreGuess DEF Attempt
  <2>2. CASE d # c
    BY <1>2, <2>2, AllowAttemptOthers, SameGuesses DEF Attempt, Base, TypeOK
  <2> QED BY <2>1, <2>2
<1>3. ASSUME NEW d \in Clients, Refuse(d) PROVE LimiterOf(c)'
  <2>1. ~Fresh(d) /\ limits' = Pruned
    BY <1>3, FirstAttempt, FurtherAttempt DEF Refuse, Base
  <2> QED BY <1>3, <2>1, PrunedIs, SameGuesses DEF Refuse, Base
<1>4. ASSUME NEW r \in Requests, VerifyGone(r) \/ ClearAttempts(r) PROVE LimiterOf(c)'
  <2>1. now' = now
    BY <1>4 DEF VerifyGone, ClearAttempts
  <2>2. \/ UNCHANGED <<limits, guesses>>
        \/ /\ limits' = [limits EXCEPT ![req[r].client] = NoBucket]
           /\ guesses' = [guesses EXCEPT ![req[r].client] = {}]
    BY <1>4 DEF VerifyGone, ClearAttempts
  <2>3. CASE /\ req[r].client = c
             /\ limits' = [limits EXCEPT ![req[r].client] = NoBucket]
             /\ guesses' = [guesses EXCEPT ![req[r].client] = {}]
    BY <2>3, ClearedGuesses DEF Base, TypeOK
  <2>4. CASE UNCHANGED <<limits[c], guesses[c]>>
    BY <2>1, <2>4, SameGuesses
  <2> QED BY <2>2, <2>3, <2>4 DEF Base, TypeOK
<1>5. CASE UNCHANGED <<now, limits, guesses>>
  BY <1>5, SameGuesses
<1> QED
  BY <1>1, <1>2, <1>3, <1>4, <1>5
  DEF Next, Verify, NewAccess, NewAccessFails, CreateTest, RotateRead, RotateWrite,
      RotateAnswer, RotateGone, vars, serverVars, browserVars, historyVars

LEMMA CauseStep == Base /\ Limiter /\ RefusedForCause /\ [Next]_vars => RefusedForCause'
<1> SUFFICES ASSUME Base, Limiter, RefusedForCause, [Next]_vars PROVE RefusedForCause'
  OBVIOUS
<1>1. ASSUME NEW c \in Clients, Refuse(c) PROVE RefusedForCause'
  <2>1. Cardinality(guesses[c]) >= Maximum /\ Cardinality(guesses[c]) \in Nat
    BY <1>1, RefusedAtMaximum, Counted DEF Refuse
  <2>2. ~(Cardinality(guesses[c]) < Maximum)
    BY <2>1, SignInAssumption
  <2> QED BY <1>1, <2>2 DEF Refuse, RefusedForCause
<1>2. CASE UNCHANGED early
  BY <1>2 DEF RefusedForCause
<1> QED
  BY <1>1, <1>2
  DEF Next, Tick, Attempt, Verify, VerifyGone, ClearAttempts, NewAccess, NewAccessFails,
      CreateTest, RotateRead, RotateWrite, RotateAnswer, RotateGone, vars, serverVars,
      browserVars, historyVars

LEMMA SignInInvariant == Spec => []Inv
<1>1. Init => Inv
  BY InitBase, InitLimiter, InitRotations DEF Inv
<1>2. Inv /\ [Next]_vars => Inv'
  BY BaseStep, LimiterStep, CauseStep, RotationsStep DEF Inv
<1> QED BY <1>1, <1>2, PTL DEF Spec

-----------------------------------------------------------------------------
\* Every variable of the sign-in has its type, and no attempt is dated in the future.
THEOREM TypeCorrect == Spec => []TypeOK
<1>1. Inv => TypeOK
  BY DEF Inv, Base
<1> QED BY <1>1, SignInInvariant, PTL

\* Whatever clients there are, and however often the map of allowAttempt is pruned, a
\* client makes fewer than twice the maximum of attempts in any stretch of a window.
THEOREM GuessesTheorem == Spec => []GuessesBounded
<1>1. Inv => GuessesBounded
  BY Bounded DEF Inv
<1> QED BY <1>1, SignInInvariant, PTL

\* allowAttempt refuses no one who has not made the maximum of attempts within the last
\* window: pruning forgets no attempt too late, and a refusal does not prolong itself.
THEOREM RefusedTheorem == Spec => []RefusedForCause
<1>1. Inv => RefusedForCause
  BY DEF Inv
<1> QED BY <1>1, SignInInvariant, PTL

\* VerifyAccessCode accepts the codes that were on display within the grace, and no
\* others, for every window and every grace shorter than it.
THEOREM AcceptedTheorem == Spec => []AcceptedIfDisplayed
<1>1. Inv => AcceptedIfDisplayed
  BY Accepted DEF Inv
<1> QED BY <1>1, SignInInvariant, PTL

\* As long as no two rotateAccess handlers have overlapped, no session is opened with a
\* code that a rotation had replaced before it was entered.
THEOREM RevokedTheorem == Spec => []RevokedIsRefused
<1>1. Inv => RevokedIsRefused
  BY DEF Inv, Rotations, OneRotation, RevokedIsRefused
<1> QED BY <1>1, SignInInvariant, PTL
=============================================================================
