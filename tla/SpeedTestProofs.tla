--------------------------- MODULE SpeedTestProofs ---------------------------
(***************************************************************************)
(* Proofs about SpeedTest, for any number of streams and workers, any cap  *)
(* and any size of a request.  The bytes of several streams are added up   *)
(* as the number of pairs of a stream and a unit of its bytes, so that the *)
(* library's facts about cardinalities take the place of an induction over *)
(* the streams.                                                            *)
(***************************************************************************)
EXTENDS SpeedTest, FiniteSetTheorems, TLAPS

\* A request underway is of at least one byte.
AskedIsSome == \A s \in Streams : stream[s] \in {"asked", "serving"} => size[s] >= 1

\* Neither side exceeds the grant.
WithinGrant == reserved <= MaxBytes /\ charged <= MaxBytes

\* No stream is refused for the agent's limit of streams while no release is late.
StreamsNeverRefuse == "streams" \notin refusals

Inv == TypeOK /\ AskedIsSome /\ WithinGrant /\ StreamsNeverRefuse

-----------------------------------------------------------------------------
LEMMA CardinalityNat ==
  ASSUME NEW S, S \subseteq Streams
  PROVE  Cardinality(S) \in Nat
  BY SpeedAssumption, FS_Subset, FS_CardinalityType

\* The streams being served are fewer than all while one of them has asked.
LEMMA ServingFewer ==
  ASSUME NEW s \in Streams, stream[s] = "asked"
  PROVE  Cardinality(Serving) < MaxStreams
<1>1. Serving \subseteq Streams \ {s}
  BY DEF Serving
<1>2. IsFiniteSet(Streams \ {s}) /\ Cardinality(Streams \ {s}) = Cardinality(Streams) - 1
  BY SpeedAssumption, FS_RemoveElement
<1>3. Cardinality(Serving) <= Cardinality(Streams \ {s})
  BY <1>1, <1>2, FS_Subset
<1>4. Cardinality(Serving) \in Nat /\ Cardinality(Streams) \in Nat
  BY CardinalityNat DEF Serving
<1> QED BY <1>2, <1>3, <1>4, SpeedAssumption

LEMMA InitInv == Init => Inv
<1> SUFFICES ASSUME Init PROVE Inv
  OBVIOUS
<1>1. \A s \in Streams : stream[s] \in {"idle", "unused"}
  BY DEF Init
<1>2. stream \in [Streams -> Running \cup {"unused", "done", "rejected"}]
  BY DEF Init, Running
<1>3. TypeOK
  <2>1. size \in [Streams -> 0..Block] /\ left \in [Streams -> 0..Block]
    BY SpeedAssumption DEF Init
  <2>2. \A s \in Streams : stream[s] = "serving" => left[s] \in 1..size[s]
    BY <1>1
  <2>3. /\ kind \in {"download", "upload"} /\ astray \subseteq Streams
        /\ reserved \in Nat /\ bytes \in Nat /\ charged \in Nat /\ late \in Nat
        /\ over \in BOOLEAN /\ aborted \in BOOLEAN
        /\ outcome \in {"running", "returned", "thrown"} /\ refusals \subseteq Reasons
    BY DEF Init
  <2> QED BY <1>2, <2>1, <2>2, <2>3 DEF TypeOK
<1>4. AskedIsSome
  BY <1>1 DEF AskedIsSome
<1>5. WithinGrant /\ StreamsNeverRefuse
  BY SpeedAssumption DEF Init, WithinGrant, StreamsNeverRefuse
<1> QED BY <1>3, <1>4, <1>5 DEF Inv

\* The streams that reject leave every part of the invariant in place.
LEMMA RejectKeeps ==
  ASSUME Inv, NEW S, S \subseteq Streams, Reject(S),
         UNCHANGED <<kind, size, reserved, bytes, outcome>>,
         over' \in BOOLEAN, aborted' \in BOOLEAN
  PROVE  Inv'
<1> USE SpeedAssumption
<1>1. Cardinality(S \cap Serving) \in Nat
  BY CardinalityNat
<1>2. TypeOK'
  BY <1>1 DEF Inv, TypeOK, Reject, Running, Serving
<1>3. AskedIsSome'
  BY DEF Inv, TypeOK, Reject, AskedIsSome
<1>4. WithinGrant' /\ StreamsNeverRefuse'
  BY DEF Inv, Reject, WithinGrant, StreamsNeverRefuse
<1> QED BY <1>2, <1>3, <1>4 DEF Inv

LEMMA TypeStep == Inv /\ [Next]_vars => Inv'
<1> SUFFICES ASSUME Inv, [Next]_vars PROVE Inv'
  OBVIOUS
<1> USE SpeedAssumption
<1>1. ASSUME NEW s \in Streams, Ask(s) PROVE Inv'
  <2>1. Requested \in 1..Block /\ reserved + Requested <= MaxBytes
    BY <1>1 DEF Ask, Requested, Inv, TypeOK
  <2> PICK q \in 1..Block : q = Requested
    BY <2>1
  <2>5. /\ stream' = [stream EXCEPT ![s] = "asked"]
        /\ size' = [size EXCEPT ![s] = q]
        /\ stream[s] = "idle"
        /\ reserved' = reserved + q
        /\ UNCHANGED <<kind, left, bytes, over, aborted, outcome, astray, charged, late,
                       refusals>>
    BY <1>1 DEF Ask, agentVars
  <2>2. TypeOK'
    BY <2>5 DEF Inv, TypeOK, Running
  <2>3. AskedIsSome' /\ WithinGrant' /\ StreamsNeverRefuse'
    BY <2>1, <2>5 DEF Inv, TypeOK, AskedIsSome, WithinGrant, StreamsNeverRefuse
  <2> QED BY <2>2, <2>3 DEF Inv
<1>2. ASSUME NEW s \in Streams, EndStream(s) PROVE Inv'
  BY <1>2 DEF EndStream, agentVars, Inv, TypeOK, AskedIsSome, WithinGrant,
              StreamsNeverRefuse, Running
<1>3. ASSUME NEW s \in Streams, Receive(s) PROVE Inv'
  <2>1. TypeOK'
    BY <1>3 DEF Receive, Inv, TypeOK, Running
  <2>2. AskedIsSome' /\ WithinGrant' /\ StreamsNeverRefuse'
    BY <1>3 DEF Receive, Inv, TypeOK, AskedIsSome, WithinGrant, StreamsNeverRefuse
  <2> QED BY <2>1, <2>2 DEF Inv
<1>4. ASSUME NEW s \in Streams, Uploaded(s) PROVE Inv'
  <2>1. TypeOK'
    BY <1>4 DEF Uploaded, agentVars, Inv, TypeOK, Running
  <2>2. AskedIsSome' /\ WithinGrant' /\ StreamsNeverRefuse'
    BY <1>4 DEF Uploaded, agentVars, Inv, TypeOK, AskedIsSome, WithinGrant,
                StreamsNeverRefuse
  <2> QED BY <2>1, <2>2 DEF Inv
<1>5. ASSUME NEW s \in Streams, Fail(s) PROVE Inv'
  <2>1. over' \in BOOLEAN /\ aborted' \in BOOLEAN
    BY <1>5 DEF Fail, Inv, TypeOK
  <2> QED BY <1>5, <2>1, RejectKeeps DEF Fail
<1>6. CASE TimeUp
  <2>1. over' \in BOOLEAN /\ aborted' \in BOOLEAN /\ Underway \subseteq Streams
    BY <1>6 DEF TimeUp, Inv, TypeOK, Underway
  <2>2. CASE kind = "download"
    BY <1>6, <2>1, <2>2, RejectKeeps DEF TimeUp
  <2>3. CASE kind # "download"
    BY <1>6, <2>3 DEF TimeUp, agentVars, Inv, TypeOK, AskedIsSome, WithinGrant,
              StreamsNeverRefuse, Running
  <2> QED BY <2>2, <2>3
<1>7. CASE Abort
  <2>1. over' \in BOOLEAN /\ aborted' \in BOOLEAN /\ Underway \subseteq Streams
    BY <1>7 DEF Abort, Inv, TypeOK, Underway
  <2> QED BY <1>7, <2>1, RejectKeeps DEF Abort
<1>8. CASE ReturnDownload \/ ReturnUpload
  BY <1>8 DEF ReturnDownload, ReturnUpload, agentVars, Inv, TypeOK, AskedIsSome,
              WithinGrant, StreamsNeverRefuse
<1>9. ASSUME NEW s \in Streams, Admit(s) PROVE Inv'
  <2>1. TypeOK'
    BY <1>9 DEF Admit, Inv, TypeOK, AskedIsSome, Running
  <2>2. AskedIsSome' /\ WithinGrant' /\ StreamsNeverRefuse'
    BY <1>9 DEF Admit, Inv, TypeOK, AskedIsSome, WithinGrant, StreamsNeverRefuse
  <2> QED BY <2>1, <2>2 DEF Inv
<1>10. ASSUME NEW s \in Streams, AdmitAstray(s) PROVE Inv'
  BY <1>10 DEF AdmitAstray, clientVars, Inv, TypeOK, AskedIsSome, WithinGrant,
              StreamsNeverRefuse, Running
<1>11. ASSUME NEW s \in Streams, NEW why \in Reasons, Refuse(s, why) PROVE Inv'
  <2>1. TypeOK' /\ AskedIsSome' /\ WithinGrant'
    BY <1>11 DEF Refuse, Inv, TypeOK, AskedIsSome, WithinGrant, Running, Reasons
  <2>2. why # "streams"
    <3>1. Cardinality(Serving) < MaxStreams
      BY <1>11, ServingFewer DEF Refuse
    <3>2. Cardinality(Serving) \in Nat
      BY CardinalityNat DEF Serving
    <3> QED BY <1>11, <3>1, <3>2 DEF Refuse, Open
  <2>3. StreamsNeverRefuse'
    BY <1>11, <2>2 DEF Refuse, Inv, StreamsNeverRefuse
  <2> QED BY <2>1, <2>3 DEF Inv
<1>12. CASE Release
  BY <1>12 DEF Release, clientVars, Inv, TypeOK, AskedIsSome, WithinGrant,
              StreamsNeverRefuse, Running
<1>13. CASE UNCHANGED vars
  BY <1>13 DEF vars, clientVars, agentVars, Inv, TypeOK, AskedIsSome, WithinGrant,
              StreamsNeverRefuse, Running
<1> QED
  BY <1>1, <1>2, <1>3, <1>4, <1>5, <1>6, <1>7, <1>8, <1>9, <1>10, <1>11, <1>12, <1>13
  DEF Next

-----------------------------------------------------------------------------
(* Sums over streams *)

\* The units that the streams of S have of n, a number of bytes for each stream.
Units(S, n) == {p \in S \X (1..Block) : p[2] <= n[p[1]]}
Total(S, n) == Cardinality(Units(S, n))

Bytes == [Streams -> 0..Block]

LEMMA UnitsFinite ==
  ASSUME NEW S, S \subseteq Streams, NEW n \in Bytes
  PROVE  IsFiniteSet(Units(S, n)) /\ Total(S, n) \in Nat
<1>1. IsFiniteSet(S)
  BY SpeedAssumption, FS_Subset
<1>2. IsFiniteSet(1..Block)
  BY SpeedAssumption, FS_Interval
<1>3. IsFiniteSet(S \X (1..Block))
  BY <1>1, <1>2, FS_Product
<1>4. Units(S, n) \subseteq S \X (1..Block)
  BY DEF Units
<1>5. IsFiniteSet(Units(S, n))
  BY <1>3, <1>4, FS_Subset
<1> QED BY <1>5, FS_CardinalityType DEF Total

\* A sum depends on nothing but the numbers of the streams it is over.
LEMMA TotalSame ==
  ASSUME NEW S, S \subseteq Streams, NEW n, NEW m, \A s \in S : n[s] = m[s]
  PROVE  Total(S, n) = Total(S, m)
<1>1. Units(S, n) = Units(S, m)
  BY DEF Units
<1> QED BY <1>1 DEF Total

LEMMA TotalEmpty == ASSUME NEW n PROVE Total({}, n) = 0
<1>1. Units({}, n) = {}
  BY DEF Units
<1> QED BY <1>1, FS_EmptySet DEF Total

LEMMA TotalAdd ==
  ASSUME NEW S, S \subseteq Streams, NEW s \in Streams, s \notin S, NEW n \in Bytes
  PROVE  Total(S \cup {s}, n) = Total(S, n) + n[s]
<1> PICK k \in 0..Block : k = n[s]
  BY DEF Bytes
<1> DEFINE U == {s} \X (1..k)
<1>1. k \in Nat /\ k <= Block
  BY SpeedAssumption
<1>2. IsFiniteSet(1..k) /\ Cardinality(1..k) = k
  <2>1. 1 \in Int /\ k \in Int
    BY <1>1
  <2>2. IsFiniteSet(1..k) /\ Cardinality(1..k) = IF 1 > k THEN 0 ELSE k - 1 + 1
    BY ONLY <2>1, FS_Interval
  <2> QED BY <1>1, <2>2
<1>3. IsFiniteSet({s}) /\ Cardinality({s}) = 1
  BY FS_Singleton
<1>4. IsFiniteSet(U) /\ Cardinality(U) = k
  <2>1. IsFiniteSet(U) /\ Cardinality(U) = Cardinality({s}) * Cardinality(1..k)
    BY <1>2, <1>3, FS_Product
  <2> QED BY <2>1, <1>1, <1>2, <1>3
<1>5. Units(S \cup {s}, n) = Units(S, n) \cup U
  BY <1>1, SpeedAssumption DEF Units
<1>6. Units(S, n) \cap U = {}
  BY DEF Units
<1>7. IsFiniteSet(Units(S, n)) /\ Cardinality(Units(S, n)) \in Nat
  BY UnitsFinite DEF Total
<1>8. Cardinality(Units(S, n) \cup U) = Cardinality(Units(S, n)) + Cardinality(U)
  <2>1. Cardinality(Units(S, n) \cup U)
           = Cardinality(Units(S, n)) + Cardinality(U) - Cardinality(Units(S, n) \cap U)
    BY <1>4, <1>7, FS_Union
  <2>2. Cardinality(Units(S, n) \cap U) = 0
    BY <1>6, FS_EmptySet
  <2> QED BY <1>1, <1>4, <1>7, <2>1, <2>2
<1> QED BY <1>4, <1>5, <1>8 DEF Total

LEMMA TotalRemove ==
  ASSUME NEW S, S \subseteq Streams, NEW s \in S, NEW n \in Bytes
  PROVE  Total(S, n) = Total(S \ {s}, n) + n[s]
<1>1. S = (S \ {s}) \cup {s}
  OBVIOUS
<1> QED BY <1>1, TotalAdd

\* What all streams together have is no less than what some of them have.
LEMMA TotalMonotonic ==
  ASSUME NEW S, S \subseteq Streams, NEW T, T \subseteq S, NEW n \in Bytes
  PROVE  Total(T, n) <= Total(S, n)
<1>1. Units(T, n) \subseteq Units(S, n)
  BY DEF Units
<1> QED BY <1>1, UnitsFinite, FS_Subset DEF Total

-----------------------------------------------------------------------------
(* The accounts of both sides *)

\* Requests that may still be admitted: those asked, and those given up.
Owing == {s \in Streams : stream[s] = "asked"} \cup astray

\* Each byte the browser has asked for is one the agent has charged, one that may
\* still be charged, or lost with a refusal; each byte charged is one the browser has
\* seen, one that is on its way, or lost with a connection.
Balanced ==
  /\ charged + Total(Owing, size) <= reserved
  /\ bytes + Total(Serving, left) <= charged

Accounts ==
  /\ Balanced
  /\ \A s \in astray : stream[s] = "rejected"
  /\ kind = "upload" => \A s \in Serving : left[s] = size[s]

BytesNeverRefuse == "bytes" \notin refusals

AccountsInv == Inv /\ Accounts /\ BytesNeverRefuse

LEMMA AccountsType ==
  ASSUME TypeOK
  PROVE  /\ size \in Bytes /\ left \in Bytes
         /\ Owing \subseteq Streams /\ Serving \subseteq Streams
         /\ Total(Owing, size) \in Nat /\ Total(Serving, left) \in Nat
         /\ reserved \in Nat /\ charged \in Nat /\ bytes \in Nat
<1>1. /\ size \in Bytes /\ left \in Bytes
      /\ Owing \subseteq Streams /\ Serving \subseteq Streams
  BY DEF TypeOK, Bytes, Owing, Serving
<1> QED BY <1>1, UnitsFinite DEF TypeOK

LEMMA InitAccounts == Init => Accounts /\ BytesNeverRefuse
<1> SUFFICES ASSUME Init PROVE Accounts /\ BytesNeverRefuse
  OBVIOUS
<1>1. \A s \in Streams : stream[s] \in {"idle", "unused"}
  BY DEF Init
<1>2. Owing = {} /\ Serving = {} /\ astray = {}
  BY <1>1 DEF Owing, Serving, Init
<1>3. Total(Owing, size) = 0 /\ Total(Serving, left) = 0
  BY <1>2, TotalEmpty
<1>4. charged = 0 /\ reserved = 0 /\ bytes = 0 /\ refusals = {}
  BY DEF Init
<1> QED BY <1>2, <1>3, <1>4 DEF Balanced, Accounts, BytesNeverRefuse

\* A step that leaves the numbers of both sides alone, and the requests that may
\* still be admitted.
LEMMA RejectAccounts ==
  ASSUME AccountsInv, TypeOK', NEW S, S \subseteq Underway, Reject(S),
         UNCHANGED <<kind, size, reserved, bytes>>
  PROVE  Accounts' /\ BytesNeverRefuse'
<1> USE DEF AccountsInv, Inv
<1>1. Owing' = Owing
  BY DEF Owing, Reject, Underway, Serving, TypeOK
<1>2. Serving' \subseteq Serving /\ \A s \in Serving' : left'[s] = left[s]
  BY DEF Serving, Reject, TypeOK
<1>3. Total(Owing, size)' = Total(Owing, size)
  BY <1>1
<1>4. Total(Serving, left)' = Total(Serving', left)
  <2>1. Serving' \subseteq Streams
    BY DEF Serving
  <2> QED BY <2>1, <1>2, TotalSame
<1>5. Total(Serving', left) <= Total(Serving, left)
  BY <1>2, AccountsType, TotalMonotonic
<1>6. Total(Serving', left) \in Nat
  BY <1>2, AccountsType, UnitsFinite
<1>7. charged' = charged /\ refusals' = refusals
  BY DEF Reject
<1>8. Balanced'
  BY <1>3, <1>4, <1>5, <1>6, <1>7, AccountsType DEF Balanced, Accounts
<1>9. \A s \in astray' : stream'[s] = "rejected"
  BY DEF Reject, Accounts, TypeOK, Underway
<1>10. kind' = "upload" => \A s \in Serving' : left'[s] = size'[s]
  BY <1>2 DEF Accounts
<1> QED BY <1>7, <1>8, <1>9, <1>10 DEF Accounts, BytesNeverRefuse

\* A step after which no stream owes or expects anything else keeps the accounts.
LEMMA SameAccounts ==
  ASSUME AccountsInv, Owing' = Owing, Serving' = Serving, \A s \in astray' : s \in astray,
         \A s \in astray : stream'[s] = stream[s],
         UNCHANGED <<kind, size, left, reserved, bytes, charged>>
  PROVE  Accounts'
<1>1. /\ Total(Owing, size)' = Total(Owing, size)
      /\ Total(Serving, left)' = Total(Serving, left)
  OBVIOUS
<1> QED BY <1>1 DEF Balanced, AccountsInv, Accounts

LEMMA AccountsStep == AccountsInv /\ Inv' /\ [Next]_vars => AccountsInv'
<1> SUFFICES ASSUME AccountsInv, Inv', [Next]_vars PROVE Accounts' /\ BytesNeverRefuse'
  BY DEF AccountsInv
<1> USE SpeedAssumption DEF AccountsInv, Inv
<1> USE AccountsType
<1>1. ASSUME NEW s \in Streams, Ask(s) PROVE Accounts' /\ BytesNeverRefuse'
  <2>1. Requested \in 1..Block
    BY <1>1 DEF Ask, Requested, TypeOK, WithinGrant
  <2> PICK q \in 1..Block : q = Requested
    BY <2>1
  <2>2. /\ stream' = [stream EXCEPT ![s] = "asked"] /\ stream[s] = "idle"
        /\ size' = [size EXCEPT ![s] = q] /\ reserved' = reserved + q
        /\ UNCHANGED <<kind, left, bytes, astray, charged, refusals>>
    BY <1>1 DEF Ask, agentVars
  <2>3. s \notin Owing /\ Owing' = Owing \cup {s} /\ Serving' = Serving
    BY <2>2 DEF Owing, Serving, TypeOK, Accounts
  <2>4. \A o \in Owing : size'[o] = size[o]
    BY <2>2, <2>3 DEF TypeOK
  <2>5. size' \in Bytes /\ size'[s] = q
    BY <2>2 DEF TypeOK, Bytes
  <2>6. Total(Owing \cup {s}, size') = Total(Owing, size') + q
    BY <2>3, <2>5, TotalAdd
  <2>7. Total(Owing, size') = Total(Owing, size)
    BY <2>4, TotalSame
  <2>8. /\ Total(Owing, size)' = Total(Owing, size) + q
        /\ Total(Serving, left)' = Total(Serving, left)
    BY <2>2, <2>3, <2>6, <2>7
  <2>9. Balanced'
    BY <2>2, <2>8 DEF Balanced, Accounts
  <2>10. (\A a \in astray' : stream'[a] = "rejected")
         /\ (kind' = "upload" => \A a \in Serving' : left'[a] = size'[a])
    BY <2>2, <2>3 DEF Accounts, TypeOK, Serving
  <2> QED BY <2>2, <2>9, <2>10 DEF Accounts, BytesNeverRefuse
<1>2. ASSUME NEW s \in Streams, EndStream(s) PROVE Accounts' /\ BytesNeverRefuse'
  <2>1. /\ stream' = [stream EXCEPT ![s] = "done"] /\ stream[s] = "idle"
        /\ UNCHANGED <<kind, size, left, bytes, astray, charged, refusals, reserved>>
    BY <1>2 DEF EndStream, agentVars
  <2>2. Owing' = Owing /\ Serving' = Serving
    BY <2>1 DEF Owing, Serving, TypeOK
  <2>3. Accounts'
    BY <2>1, <2>2, SameAccounts DEF Accounts, TypeOK
  <2> QED BY <2>1, <2>3 DEF BytesNeverRefuse
<1>3. ASSUME NEW s \in Streams, Receive(s) PROVE Accounts' /\ BytesNeverRefuse'
  <2>1. /\ stream[s] = "serving" /\ kind = "download" /\ left[s] \in 1..Block
        /\ left' = [left EXCEPT ![s] = @ - 1] /\ bytes' = bytes + 1
        /\ UNCHANGED <<kind, size, astray, charged, refusals, reserved>>
    BY <1>3 DEF Receive, TypeOK, Bytes
  <2>2. stream' = IF left[s] = 1 THEN [stream EXCEPT ![s] = "idle"] ELSE stream
    BY <1>3 DEF Receive
  <2>3. s \in Serving /\ Owing' = Owing
    BY <2>1, <2>2 DEF Owing, Serving, TypeOK
  <2>4. Serving' = IF left[s] = 1 THEN Serving \ {s} ELSE Serving
    BY <2>1, <2>2 DEF Serving, TypeOK
  <2>5. left' \in Bytes /\ left'[s] = left[s] - 1
    BY <2>1 DEF TypeOK, Bytes
  <2>6. Total(Serving \ {s}, left') = Total(Serving \ {s}, left)
    <3>1. \A o \in Serving \ {s} : left'[o] = left[o]
      BY <2>1 DEF TypeOK
    <3> QED BY <3>1, TotalSame
  <2>7. Total(Serving, left) = Total(Serving \ {s}, left) + left[s]
    BY <2>3, TotalRemove
  <2>8. Total(Serving, left') = Total(Serving \ {s}, left') + left[s] - 1
    <3>1. Total(Serving, left') = Total(Serving \ {s}, left') + left'[s]
      BY <2>3, <2>5, TotalRemove
    <3>2. Total(Serving \ {s}, left') \in Nat
      BY <2>5, UnitsFinite
    <3> QED BY <2>1, <2>5, <3>1, <3>2
  <2>9. Total(Serving \ {s}, left) \in Nat
    BY UnitsFinite
  <2>10. Total(Serving, left)' = Total(Serving, left) - 1
    <3>1. CASE left[s] = 1
      BY <2>1, <2>4, <2>6, <2>7, <2>9, <3>1
    <3>2. CASE left[s] # 1
      BY <2>1, <2>4, <2>6, <2>7, <2>8, <2>9, <3>2
    <3> QED BY <3>1, <3>2
  <2>11. Total(Owing, size)' = Total(Owing, size)
    BY <2>1, <2>3
  <2>12. Balanced'
    BY <2>1, <2>10, <2>11 DEF Balanced, Accounts
  <2>13. (\A a \in astray' : stream'[a] = "rejected") /\ kind' # "upload"
    BY <2>1, <2>2 DEF Accounts, TypeOK
  <2> QED BY <2>1, <2>12, <2>13 DEF Accounts, BytesNeverRefuse
<1>4. ASSUME NEW s \in Streams, Uploaded(s) PROVE Accounts' /\ BytesNeverRefuse'
  <2>1. /\ stream[s] = "serving" /\ kind = "upload"
        /\ stream' = [stream EXCEPT ![s] = "idle"]
        /\ left' = [left EXCEPT ![s] = 0] /\ bytes' = bytes + size[s]
        /\ UNCHANGED <<kind, size, astray, charged, refusals, reserved>>
    BY <1>4 DEF Uploaded, agentVars
  <2>2. s \in Serving /\ Serving' = Serving \ {s} /\ Owing' = Owing
    BY <2>1 DEF Owing, Serving, TypeOK
  <2>3. \A o \in Serving \ {s} : left'[o] = left[o]
    BY <2>1 DEF TypeOK
  <2>4. Total(Serving, left)' = Total(Serving \ {s}, left)
    BY <2>2, <2>3, TotalSame
  <2>5. Total(Serving, left) = Total(Serving \ {s}, left) + left[s]
    BY <2>2, TotalRemove
  <2>6. left[s] = size[s] /\ size[s] \in 0..Block
    BY <2>1, <2>2 DEF Accounts, TypeOK
  <2>7. Total(Owing, size)' = Total(Owing, size)
    BY <2>1, <2>2
  <2>8. Total(Serving \ {s}, left) \in Nat
    BY UnitsFinite
  <2>9. Balanced'
    BY <2>1, <2>4, <2>5, <2>6, <2>7, <2>8 DEF Balanced, Accounts
  <2>10. (\A a \in astray' : stream'[a] = "rejected")
         /\ (kind' = "upload" => \A a \in Serving' : left'[a] = size'[a])
    BY <2>1, <2>2, <2>3 DEF Accounts, TypeOK
  <2> QED BY <2>1, <2>9, <2>10 DEF Accounts, BytesNeverRefuse
<1>5. ASSUME NEW s \in Streams, Fail(s) PROVE Accounts' /\ BytesNeverRefuse'
  BY <1>5, RejectAccounts DEF Fail, Underway
<1>6. CASE TimeUp
  <2>1. CASE kind = "download"
    BY <1>6, <2>1, RejectAccounts DEF TimeUp
  <2>2. CASE kind # "download"
    <3>1. UNCHANGED <<kind, stream, size, left, bytes, astray, charged, refusals, reserved>>
      BY <1>6, <2>2 DEF TimeUp, agentVars
    <3>2. Owing' = Owing /\ Serving' = Serving
      BY <3>1 DEF Owing, Serving
    <3> QED BY <3>1, <3>2, SameAccounts DEF BytesNeverRefuse
  <2> QED BY <2>1, <2>2
<1>7. CASE Abort
  BY <1>7, RejectAccounts DEF Abort
<1>8. CASE ReturnDownload \/ ReturnUpload \/ Release \/ UNCHANGED vars
  <2>1. UNCHANGED <<kind, stream, size, left, bytes, astray, charged, refusals, reserved>>
    BY <1>8 DEF ReturnDownload, ReturnUpload, Release, vars, clientVars, agentVars
  <2>2. Owing' = Owing /\ Serving' = Serving
    BY <2>1 DEF Owing, Serving
  <2> QED BY <2>1, <2>2, SameAccounts DEF BytesNeverRefuse
<1>9. ASSUME NEW s \in Streams, Admit(s) PROVE Accounts' /\ BytesNeverRefuse'
  <2>1. /\ stream[s] = "asked" /\ stream' = [stream EXCEPT ![s] = "serving"]
        /\ left' = [left EXCEPT ![s] = size[s]] /\ charged' = charged + size[s]
        /\ UNCHANGED <<kind, size, astray, bytes, refusals, reserved>>
    BY <1>9 DEF Admit
  <2>2. s \notin astray /\ s \notin Serving /\ size[s] \in 0..Block
    BY <2>1 DEF Accounts, TypeOK, Serving
  <2>3. s \in Owing /\ Owing' = Owing \ {s} /\ Serving' = Serving \cup {s}
    BY <2>1, <2>2 DEF Owing, Serving, TypeOK
  <2>4. Total(Owing, size) = Total(Owing, size)' + size[s]
    BY <2>1, <2>3, TotalRemove
  <2>5. left' \in Bytes /\ left'[s] = size[s]
    BY <2>1, <2>2 DEF TypeOK, Bytes
  <2>6. Total(Serving, left') = Total(Serving, left)
    <3>1. \A o \in Serving : left'[o] = left[o]
      BY <2>1, <2>2 DEF TypeOK
    <3> QED BY <3>1, TotalSame
  <2>7. Total(Serving, left)' = Total(Serving, left) + size[s]
    <3>1. Total(Serving \cup {s}, left') = Total(Serving, left') + left'[s]
      BY <2>2, <2>5, TotalAdd
    <3> QED BY <2>3, <2>5, <2>6, <3>1
  <2>8. Total(Owing, size)' \in Nat
    BY <2>1, <2>3, UnitsFinite
  <2>9. Balanced'
    BY <2>1, <2>2, <2>4, <2>7, <2>8 DEF Balanced, Accounts
  <2>10. (\A a \in astray' : stream'[a] = "rejected")
         /\ (kind' = "upload" => \A a \in Serving' : left'[a] = size'[a])
    BY <2>1, <2>2, <2>3 DEF Accounts, TypeOK, Serving
  <2> QED BY <2>1, <2>9, <2>10 DEF Accounts, BytesNeverRefuse
<1>10. ASSUME NEW s \in Streams, AdmitAstray(s) PROVE Accounts' /\ BytesNeverRefuse'
  <2>1. /\ s \in astray /\ astray' = astray \ {s} /\ charged' = charged + size[s]
        /\ UNCHANGED <<kind, stream, size, left, bytes, refusals, reserved>>
    BY <1>10 DEF AdmitAstray, clientVars
  <2>2. s \in Owing /\ Owing' = Owing \ {s} /\ Serving' = Serving /\ size[s] \in 0..Block
    BY <2>1 DEF Owing, Serving, TypeOK, Accounts
  <2>3. Total(Owing, size) = Total(Owing, size)' + size[s]
    BY <2>1, <2>2, TotalRemove
  <2>4. Total(Serving, left)' = Total(Serving, left)
    BY <2>1, <2>2
  <2>5. Total(Owing, size)' \in Nat
    BY <2>1, <2>2, UnitsFinite
  <2>6. Balanced'
    BY <2>1, <2>2, <2>3, <2>4, <2>5 DEF Balanced, Accounts
  <2>7. (\A a \in astray' : stream'[a] = "rejected")
        /\ (kind' = "upload" => \A a \in Serving' : left'[a] = size'[a])
    BY <2>1, <2>2 DEF Accounts
  <2> QED BY <2>1, <2>6, <2>7 DEF Accounts, BytesNeverRefuse
<1>11. ASSUME NEW s \in Streams, NEW why \in Reasons, Refuse(s, why)
       PROVE  Accounts' /\ BytesNeverRefuse'
  <2>1. /\ stream[s] = "asked" /\ stream' = [stream EXCEPT ![s] = "rejected"]
        /\ refusals' = refusals \cup {why}
        /\ UNCHANGED <<kind, size, left, bytes, astray, charged, reserved>>
    BY <1>11 DEF Refuse
  <2>2. s \in Owing /\ Owing' \subseteq Owing /\ Serving' = Serving
    BY <2>1 DEF Owing, Serving, TypeOK
  <2>3. Total(Owing, size)' <= Total(Owing, size) /\ Total(Owing, size)' \in Nat
    BY <2>1, <2>2, TotalMonotonic, UnitsFinite
  <2>4. Total(Serving, left)' = Total(Serving, left)
    BY <2>1, <2>2
  <2>5. Balanced'
    BY <2>1, <2>3, <2>4 DEF Balanced, Accounts
  <2>6. (\A a \in astray' : stream'[a] = "rejected")
        /\ (kind' = "upload" => \A a \in Serving' : left'[a] = size'[a])
    BY <2>1, <2>2 DEF Accounts, TypeOK
  <2>7. charged + size[s] <= MaxBytes
    <3>1. Total(Owing, size) = Total(Owing \ {s}, size) + size[s]
      BY <2>2, TotalRemove
    <3>2. Total(Owing \ {s}, size) \in Nat /\ size[s] \in 0..Block
      BY UnitsFinite DEF TypeOK
    <3> QED BY <3>1, <3>2 DEF Balanced, Accounts, WithinGrant
  <2>8. why # "bytes"
    <3>1. charged \in Nat /\ size[s] \in Nat
      BY DEF TypeOK
    <3> QED BY <1>11, <2>7, <3>1 DEF Refuse
  <2>9. BytesNeverRefuse'
    BY <2>1, <2>8 DEF BytesNeverRefuse
  <2> QED BY <2>5, <2>6, <2>9 DEF Accounts
<1> QED
  BY <1>1, <1>2, <1>3, <1>4, <1>5, <1>6, <1>7, <1>8, <1>9, <1>10, <1>11 DEF Next

-----------------------------------------------------------------------------
\* The invariant, of which the theorems below are parts.
LEMMA SpeedInvariant == Spec => []Inv
<1>1. Init => Inv
  BY InitInv
<1>2. Inv /\ [Next]_vars => Inv'
  BY TypeStep
<1> QED BY <1>1, <1>2, PTL DEF Spec

\* Every variable keeps its type, whatever the streams, the cap and the blocks.
THEOREM TypeCorrect == Spec => []TypeOK
<1>1. Inv => TypeOK
  BY DEF Inv
<1> QED BY <1>1, SpeedInvariant, PTL

\* The half of OnlyLateReleasesRefuse that concerns max_streams.
LEMMA StreamsSuffice == Spec => []StreamsNeverRefuse
<1>1. Inv => StreamsNeverRefuse
  BY DEF Inv
<1> QED BY <1>1, SpeedInvariant, PTL

\* The agent's account of a grant (u.Down, u.Up of reserve) implements a quota of
\* MaxBytes: it begins at nothing, admissions only add to it, and stay within it.
THEOREM GrantRefinement == Spec => GrantIsQuota
<1>1. Init => Budget!Init
  BY DEF Init, Budget!Init, Budget!Days
<1>2. Inv /\ Inv' /\ [Next]_vars => [Budget!Next]_(Budget!vars)
  <2> SUFFICES ASSUME Inv, Inv', [Next]_vars PROVE [Budget!Next]_(Budget!vars)
    OBVIOUS
  <2>1. ASSUME NEW s \in Streams, Admit(s) \/ AdmitAstray(s) PROVE Budget!Next
    <3>1. /\ size[s] \in 0..MaxBytes
          /\ charged + size[s] <= MaxBytes
          /\ charged' = charged + size[s]
      BY <2>1, SpeedAssumption DEF Admit, AdmitAstray, Inv, TypeOK
    <3>2. Budget!Admit(1, size[s])
      BY <3>1 DEF Budget!Admit
    <3> QED BY <3>1, <3>2 DEF Budget!Next, Budget!Days
  <2>2. ASSUME charged' = charged PROVE UNCHANGED Budget!vars
    BY <2>2 DEF Budget!vars
  <2>3. ASSUME NEW s \in Streams,
               Ask(s) \/ EndStream(s) \/ Receive(s) \/ Uploaded(s) \/ Fail(s)
               \/ (\E why \in Reasons : Refuse(s, why))
        PROVE  charged' = charged
    BY <2>3 DEF Ask, EndStream, Receive, Uploaded, Fail, Reject, Refuse, agentVars
  <2>4. ASSUME TimeUp \/ Abort \/ ReturnDownload \/ ReturnUpload \/ Release
               \/ UNCHANGED vars
        PROVE  charged' = charged
    BY <2>4 DEF TimeUp, Abort, Reject, ReturnDownload, ReturnUpload, Release, agentVars,
                vars
  <2> QED BY <2>1, <2>2, <2>3, <2>4 DEF Next
<1>3. Spec => []Inv
  BY SpeedInvariant
<1> QED BY <1>1, <1>2, <1>3, PTL DEF Spec, GrantIsQuota, Budget!Spec

-----------------------------------------------------------------------------
LEMMA AccountsInvariant == Spec => []AccountsInv
<1>1. Init => AccountsInv
  BY InitInv, InitAccounts DEF AccountsInv
<1>2. AccountsInv /\ [Next]_vars => AccountsInv'
  BY TypeStep, AccountsStep DEF AccountsInv
<1> QED BY <1>1, <1>2, PTL DEF Spec

\* The streams of measureDownload and measureUpload share `reserved' across their
\* awaits and still never ask for more than the grant's cap, and the agent charges no
\* more than they asked for, whatever is given up, refused or lost on the way.
THEOREM AsksWithinGrant == Spec => []NeverAsksTooMuch
<1>1. AccountsInv => NeverAsksTooMuch
  BY AccountsType DEF Balanced, AccountsInv, Inv, Accounts, WithinGrant, NeverAsksTooMuch
<1> QED BY <1>1, AccountsInvariant, PTL

\* Whatever bytes the browser reports as transferred, the agent has charged to the grant
\* (u.Down, u.Up), however its streams ended.
THEOREM ReportedCharged == Spec => []ReportedIsCharged
<1>1. AccountsInv => ReportedIsCharged
  BY AccountsType DEF Balanced, AccountsInv, Inv, Accounts, ReportedIsCharged
<1> QED BY <1>1, AccountsInvariant, PTL

\* The limits of the grant itself refuse a request of the browser only while handlers
\* of requests it is done with have still to release their stream.
THEOREM OnlyLateRefuse == Spec => []OnlyLateReleasesRefuse
<1>1. AccountsInv => OnlyLateReleasesRefuse
  BY DEF AccountsInv, Inv, StreamsNeverRefuse, BytesNeverRefuse, OnlyLateReleasesRefuse
<1> QED BY <1>1, AccountsInvariant, PTL
=============================================================================
