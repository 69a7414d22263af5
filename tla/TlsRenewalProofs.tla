-------------------------- MODULE TlsRenewalProofs --------------------------
(***************************************************************************)
(* Proofs of the safety properties of TlsRenewal, for any certificates and *)
(* any interleaving of crashes, failed renewals and the operator.          *)
(***************************************************************************)
EXTENDS TlsRenewal, TLAPS

Renewing == {"obtain", "writeCert", "writeKey"}

\* A renewal writes a certificate that the key on disk does not go with, and a tick
\* has looked at the pair that is on disk until then.
RenewalState ==
    /\ pc \in Renewing => mode = "acme"
    /\ pc \in {"writeCert", "writeKey"} => got # keyFile
    /\ pc = "writeKey" => certFile = got
    /\ pc \in {"obtain", "writeCert"} /\ phase = "tick" /\ Pair => seen = certFile

\* Until Run has loaded a pair, nothing is served.
StartState ==
    /\ pc = "down" => phase = "start"
    /\ phase = "start" /\ pc # "wait" => ~tlsReady

\* With ACME, what is served is the pair on disk, wherever there is one that is not
\* about to be loaded.
ServedIsOnDisk == mode = "acme" /\ Pair /\ pc # "reload" /\ tlsReady => cert = certFile

\* ... and from the end of a check on, a valid pair is what is served.
Checked == pc = "wait" \/ (phase = "tick" /\ pc \in {"load", "obtain", "writeCert"})
StaysServed == mode = "acme" /\ Checked /\ Valid => tlsReady /\ cert = certFile

Inv == TypeOK /\ RenewalState /\ StartState /\ ServedIsOnDisk /\ StaysServed

-----------------------------------------------------------------------------
LEMMA InitInv == Init => Inv
<1> SUFFICES ASSUME Init PROVE Inv
  OBVIOUS
<1>1. TypeOK
  <2>1. InUse \subseteq Certs \cup {None}
    BY DEF Init, InUse
  <2>2. age \in [Certs -> {"fresh", "due", "expired"}]
    BY DEF Init
  <2>3. /\ mode \in {"acme", "files"} /\ phase \in {"start", "tick"}
        /\ pc = "down" /\ tlsReady = FALSE /\ began = FALSE /\ got = None
    BY DEF Init
  <2>4. (got # None) = (pc \in {"writeCert", "writeKey"})
    BY DEF Init
  <2> QED BY <2>1, <2>2, <2>3, <2>4 DEF TypeOK
<1>2. RenewalState /\ StartState /\ ServedIsOnDisk /\ StaysServed
  BY DEF Init, RenewalState, StartState, ServedIsOnDisk, StaysServed, Renewing, Checked, Pair,
         Valid
<1> QED BY <1>1, <1>2 DEF Inv

LEMMA StepInv == Inv /\ [Next]_vars => Inv'
<1> SUFFICES ASSUME Inv, [Next]_vars PROVE Inv'
  OBVIOUS
<1> USE CertsAssumption DEF Renewing
<1>1. ASSUME NEW c \in Certs, Age(c) PROVE Inv'
  <2>1. TypeOK'
    BY <1>1 DEF Age, files, served, InUse, Inv, TypeOK, Pair, Valid
  <2>2. RenewalState'
    BY <1>1 DEF Age, files, served, InUse, Inv, TypeOK, RenewalState, Pair, Valid
  <2>3. StartState'
    BY <1>1 DEF Age, files, served, InUse, Inv, TypeOK, StartState, Pair, Valid
  <2>4. ServedIsOnDisk'
    BY <1>1 DEF Age, files, served, InUse, Inv, TypeOK, RenewalState, StartState,
        ServedIsOnDisk, Pair, Valid
  <2>5. StaysServed'
    BY <1>1 DEF Age, files, served, InUse, Inv, TypeOK, RenewalState, StartState,
        ServedIsOnDisk, StaysServed, Checked, Pair, Valid, Expired
  <2> QED BY <2>1, <2>2, <2>3, <2>4, <2>5 DEF Inv
<1>2. ASSUME NEW c \in Certs, Operator(c) PROVE Inv'
  <2>1. TypeOK'
    BY <1>2 DEF Operator, files, served, InUse, Inv, TypeOK, Pair, Valid
  <2>2. RenewalState'
    BY <1>2 DEF Operator, files, served, InUse, Inv, TypeOK, RenewalState, Pair,
        Valid
  <2>3. StartState'
    BY <1>2 DEF Operator, files, served, InUse, Inv, TypeOK, StartState, Pair, Valid
  <2>4. ServedIsOnDisk'
    BY <1>2 DEF Operator, files, served, InUse, Inv, TypeOK, RenewalState,
        StartState, ServedIsOnDisk, Pair, Valid
  <2>5. StaysServed'
    BY <1>2 DEF Operator, files, served, InUse, Inv, TypeOK, RenewalState,
        StartState, ServedIsOnDisk, StaysServed, Checked, Pair, Valid, Expired
  <2> QED BY <2>1, <2>2, <2>3, <2>4, <2>5 DEF Inv
<1>3. CASE Crash
  <2>1. TypeOK'
    <3>1. InUse' \subseteq Certs \cup {None}
      BY <1>3 DEF Crash, files, Inv, TypeOK, InUse
    <3>2. /\ mode' \in {"acme", "files"} /\ phase' \in {"start", "tick"}
          /\ pc' \in {"down", "load", "obtain", "writeCert", "writeKey", "reload", "wait"}
          /\ age' \in [Certs -> {"fresh", "due", "expired"}]
          /\ began' \in BOOLEAN
      BY <1>3 DEF Crash, files, Inv, TypeOK
    <3>3. tlsReady' \in BOOLEAN
      BY <1>3 DEF Crash, files, Inv, TypeOK
    <3>4. tlsReady' => cert' # None
      BY <1>3, CertsAssumption DEF Crash, files, Inv, TypeOK, Pair, Valid
    <3>5. (got' # None) = (pc' \in {"writeCert", "writeKey"})
      BY <1>3 DEF Crash, files, Inv, TypeOK
    <3> QED BY <3>1, <3>2, <3>3, <3>4, <3>5 DEF TypeOK
  <2>2. RenewalState'
    BY <1>3 DEF Crash, files, Inv, TypeOK, InUse, RenewalState, Pair, Valid
  <2>3. StartState'
    BY <1>3 DEF Crash, files, Inv, TypeOK, StartState, Pair, Valid
  <2>4. ServedIsOnDisk'
    BY <1>3 DEF Crash, files, Inv, TypeOK, InUse, RenewalState, StartState,
        ServedIsOnDisk, Pair, Valid
  <2>5. StaysServed'
    BY <1>3 DEF Crash, files, Inv, TypeOK, InUse, RenewalState, StartState,
        ServedIsOnDisk, StaysServed, Checked, Pair, Valid, Expired
  <2> QED BY <2>1, <2>2, <2>3, <2>4, <2>5 DEF Inv
<1>4. CASE Start
  <2>1. TypeOK'
    BY <1>4 DEF Start, files, served, Inv, TypeOK, InUse, Pair, Valid
  <2>2. RenewalState'
    BY <1>4 DEF Start, files, served, Inv, TypeOK, InUse, RenewalState, Pair, Valid
  <2>3. StartState'
    BY <1>4 DEF Start, files, served, Inv, TypeOK, StartState, Pair, Valid
  <2>4. ServedIsOnDisk'
    BY <1>4 DEF Start, files, served, Inv, TypeOK, InUse, RenewalState, StartState,
        ServedIsOnDisk, Pair, Valid
  <2>5. StaysServed'
    BY <1>4 DEF Start, files, served, Inv, TypeOK, InUse, RenewalState, StartState,
        ServedIsOnDisk, StaysServed, Checked, Pair, Valid, Expired
  <2> QED BY <2>1, <2>2, <2>3, <2>4, <2>5 DEF Inv
<1>5. CASE Tick
  <2>1. TypeOK'
    BY <1>5 DEF Tick, files, served, Expired, Inv, TypeOK, InUse, Pair, Valid
  <2>2. RenewalState'
    BY <1>5 DEF Tick, files, served, Expired, Inv, TypeOK, InUse, RenewalState,
        Pair, Valid
  <2>3. StartState'
    BY <1>5 DEF Tick, files, served, Expired, Inv, TypeOK, StartState, Pair, Valid
  <2>4. ServedIsOnDisk'
    BY <1>5 DEF Tick, files, served, Expired, Inv, TypeOK, InUse, RenewalState,
        StartState, ServedIsOnDisk, Pair, Valid
  <2>5. StaysServed'
    BY <1>5 DEF Tick, files, served, Expired, Inv, TypeOK, InUse, RenewalState,
        StartState, ServedIsOnDisk, StaysServed, Checked, Pair, Valid
  <2> QED BY <2>1, <2>2, <2>3, <2>4, <2>5 DEF Inv
<1>6. CASE StartLoad
  <2>1. TypeOK'
    BY <1>6 DEF StartLoad, files, served, Inv, TypeOK, InUse, Pair, Valid
  <2>2. RenewalState'
    BY <1>6 DEF StartLoad, files, served, Inv, TypeOK, InUse, RenewalState, Pair,
        Valid
  <2>3. StartState'
    BY <1>6 DEF StartLoad, files, served, Inv, TypeOK, StartState, Pair, Valid
  <2>4. ServedIsOnDisk'
    BY <1>6 DEF StartLoad, files, served, Inv, TypeOK, InUse, RenewalState,
        StartState, ServedIsOnDisk, Pair, Valid
  <2>5. StaysServed'
    BY <1>6 DEF StartLoad, files, served, Inv, TypeOK, InUse, RenewalState,
        StartState, ServedIsOnDisk, StaysServed, Checked, Pair, Valid, Expired
  <2> QED BY <2>1, <2>2, <2>3, <2>4, <2>5 DEF Inv
<1>7. ASSUME NEW asked \in BOOLEAN, TickLoad(asked) PROVE Inv'
  <2>1. TypeOK'
    <3>1. InUse' \subseteq Certs \cup {None}
      BY <1>7 DEF TickLoad, files, served, RenewalDue, Inv, TypeOK, InUse
    <3>2. /\ mode' \in {"acme", "files"} /\ phase' \in {"start", "tick"}
          /\ pc' \in {"down", "load", "obtain", "writeCert", "writeKey", "reload", "wait"}
          /\ age' \in [Certs -> {"fresh", "due", "expired"}]
          /\ began' \in BOOLEAN
      BY <1>7 DEF TickLoad, files, served, RenewalDue, Inv, TypeOK
    <3>3. tlsReady' \in BOOLEAN
      BY <1>7 DEF TickLoad, files, served, RenewalDue, Inv, TypeOK
    <3>4. tlsReady' => cert' # None
      BY <1>7, CertsAssumption DEF TickLoad, files, served, RenewalDue, Inv, TypeOK, Pair, Valid
    <3>5. (got' # None) = (pc' \in {"writeCert", "writeKey"})
      BY <1>7 DEF TickLoad, files, served, RenewalDue, Inv, TypeOK
    <3> QED BY <3>1, <3>2, <3>3, <3>4, <3>5 DEF TypeOK
  <2>2. RenewalState'
    BY <1>7 DEF TickLoad, files, served, RenewalDue, Inv, TypeOK, InUse,
        RenewalState, Pair, Valid
  <2>3. StartState'
    BY <1>7 DEF TickLoad, files, served, RenewalDue, Inv, TypeOK, StartState, Pair,
        Valid
  <2>4. ServedIsOnDisk'
    BY <1>7 DEF TickLoad, files, served, RenewalDue, Inv, TypeOK, InUse,
        RenewalState, StartState, ServedIsOnDisk, Pair, Valid
  <2>5. StaysServed'
    BY <1>7 DEF TickLoad, files, served, RenewalDue, Inv, TypeOK, InUse,
        RenewalState, StartState, ServedIsOnDisk, StaysServed, Checked, Pair, Valid,
        Expired
  <2> QED BY <2>1, <2>2, <2>3, <2>4, <2>5 DEF Inv
<1>8. ASSUME NEW c \in Certs, Obtain(c) PROVE Inv'
  <2>1. TypeOK'
    BY <1>8 DEF Obtain, files, served, InUse, Inv, TypeOK, Pair, Valid
  <2>2. RenewalState'
    BY <1>8 DEF Obtain, files, served, InUse, Inv, TypeOK, RenewalState, Pair, Valid
  <2>3. StartState'
    BY <1>8 DEF Obtain, files, served, InUse, Inv, TypeOK, StartState, Pair, Valid
  <2>4. ServedIsOnDisk'
    BY <1>8 DEF Obtain, files, served, InUse, Inv, TypeOK, RenewalState, StartState,
        ServedIsOnDisk, Pair, Valid
  <2>5. StaysServed'
    BY <1>8 DEF Obtain, files, served, InUse, Inv, TypeOK, RenewalState, StartState,
        ServedIsOnDisk, StaysServed, Checked, Pair, Valid, Expired
  <2> QED BY <2>1, <2>2, <2>3, <2>4, <2>5 DEF Inv
<1>9. CASE WriteCert
  <2>1. TypeOK'
    BY <1>9 DEF WriteCert, served, Inv, TypeOK, InUse, Pair, Valid
  <2>2. RenewalState'
    BY <1>9 DEF WriteCert, served, Inv, TypeOK, InUse, RenewalState, Pair, Valid
  <2>3. StartState'
    BY <1>9 DEF WriteCert, served, Inv, TypeOK, StartState, Pair, Valid
  <2>4. ServedIsOnDisk'
    BY <1>9 DEF WriteCert, served, Inv, TypeOK, InUse, RenewalState, StartState,
        ServedIsOnDisk, Pair, Valid
  <2>5. StaysServed'
    BY <1>9 DEF WriteCert, served, Inv, TypeOK, InUse, RenewalState, StartState,
        ServedIsOnDisk, StaysServed, Checked, Pair, Valid, Expired
  <2> QED BY <2>1, <2>2, <2>3, <2>4, <2>5 DEF Inv
<1>10. CASE WriteKey
  <2>1. TypeOK'
    BY <1>10 DEF WriteKey, served, Inv, TypeOK, InUse, Pair, Valid
  <2>2. RenewalState'
    BY <1>10 DEF WriteKey, served, Inv, TypeOK, InUse, RenewalState, Pair, Valid
  <2>3. StartState'
    BY <1>10 DEF WriteKey, served, Inv, TypeOK, StartState, Pair, Valid
  <2>4. ServedIsOnDisk'
    BY <1>10 DEF WriteKey, served, Inv, TypeOK, InUse, RenewalState, StartState,
        ServedIsOnDisk, Pair, Valid
  <2>5. StaysServed'
    BY <1>10 DEF WriteKey, served, Inv, TypeOK, InUse, RenewalState, StartState,
        ServedIsOnDisk, StaysServed, Checked, Pair, Valid, Expired
  <2> QED BY <2>1, <2>2, <2>3, <2>4, <2>5 DEF Inv
<1>11. CASE RenewFails
  <2>1. TypeOK'
    <3>1. InUse' \subseteq Certs \cup {None}
      BY <1>11 DEF RenewFails, files, Inv, TypeOK, InUse
    <3>2. /\ mode' \in {"acme", "files"} /\ phase' \in {"start", "tick"}
          /\ pc' \in {"down", "load", "obtain", "writeCert", "writeKey", "reload", "wait"}
          /\ age' \in [Certs -> {"fresh", "due", "expired"}]
          /\ began' \in BOOLEAN
      BY <1>11 DEF RenewFails, files, Inv, TypeOK
    <3>3. tlsReady' \in BOOLEAN
      BY <1>11 DEF RenewFails, files, Inv, TypeOK
    <3>4. tlsReady' => cert' # None
      BY <1>11, CertsAssumption DEF RenewFails, files, Inv, TypeOK, Pair, Valid
    <3>5. (got' # None) = (pc' \in {"writeCert", "writeKey"})
      BY <1>11 DEF RenewFails, files, Inv, TypeOK
    <3> QED BY <3>1, <3>2, <3>3, <3>4, <3>5 DEF TypeOK
  <2>2. RenewalState'
    BY <1>11 DEF RenewFails, files, Expired, Inv, TypeOK, InUse, RenewalState, Pair,
        Valid
  <2>3. StartState'
    BY <1>11 DEF RenewFails, files, Expired, Inv, TypeOK, StartState, Pair, Valid
  <2>4. ServedIsOnDisk'
    BY <1>11 DEF RenewFails, files, Expired, Inv, TypeOK, InUse, RenewalState,
        StartState, ServedIsOnDisk, Pair, Valid
  <2>5. StaysServed'
    BY <1>11 DEF RenewFails, files, Expired, Inv, TypeOK, InUse, RenewalState,
        StartState, ServedIsOnDisk, StaysServed, Checked, Pair, Valid
  <2> QED BY <2>1, <2>2, <2>3, <2>4, <2>5 DEF Inv
<1>12. CASE Reload
  <2>1. TypeOK'
    <3>1. InUse' \subseteq Certs \cup {None}
      BY <1>12 DEF Reload, files, Inv, TypeOK, InUse
    <3>2. /\ mode' \in {"acme", "files"} /\ phase' \in {"start", "tick"}
          /\ pc' \in {"down", "load", "obtain", "writeCert", "writeKey", "reload", "wait"}
          /\ age' \in [Certs -> {"fresh", "due", "expired"}]
          /\ began' \in BOOLEAN
      BY <1>12 DEF Reload, files, Inv, TypeOK
    <3>3. tlsReady' \in BOOLEAN
      BY <1>12 DEF Reload, files, Inv, TypeOK
    <3>4. tlsReady' => cert' # None
      BY <1>12, CertsAssumption DEF Reload, files, Inv, TypeOK, Pair, Valid
    <3>5. (got' # None) = (pc' \in {"writeCert", "writeKey"})
      BY <1>12 DEF Reload, files, Inv, TypeOK
    <3> QED BY <3>1, <3>2, <3>3, <3>4, <3>5 DEF TypeOK
  <2>2. RenewalState'
    BY <1>12 DEF Reload, files, Inv, TypeOK, InUse, RenewalState, Pair, Valid
  <2>3. StartState'
    BY <1>12 DEF Reload, files, Inv, TypeOK, StartState, Pair, Valid
  <2>4. ServedIsOnDisk'
    BY <1>12 DEF Reload, files, Inv, TypeOK, InUse, RenewalState, StartState,
        ServedIsOnDisk, Pair, Valid
  <2>5. StaysServed'
    BY <1>12 DEF Reload, files, Inv, TypeOK, InUse, RenewalState, StartState,
        ServedIsOnDisk, StaysServed, Checked, Pair, Valid, Expired
  <2> QED BY <2>1, <2>2, <2>3, <2>4, <2>5 DEF Inv
<1>13. CASE UNCHANGED vars
  BY <1>13 DEF vars, files, served, Inv, TypeOK, InUse, RenewalState, StartState,
             ServedIsOnDisk, StaysServed, Checked, Pair, Valid
<1> QED
  BY <1>1, <1>2, <1>3, <1>4, <1>5, <1>6, <1>7, <1>8, <1>9, <1>10, <1>11, <1>12, <1>13
  DEF Next, Agent, Renewed

-----------------------------------------------------------------------------
\* The invariant, of which TypeOK is a part and the action properties consequences.
LEMMA RenewalInvariant == Spec => []Inv
<1>1. Init => Inv
  BY InitInv
<1>2. Inv /\ [Next]_vars => Inv'
  BY StepInv
<1> QED BY <1>1, <1>2, PTL DEF Spec

\* Every variable keeps its type; nothing is served that this process has not loaded.
THEOREM TypeCorrect == Spec => []TypeOK
<1>1. Inv => TypeOK
  BY DEF Inv
<1> QED BY <1>1, RenewalInvariant, PTL

\* The steps that end Run or a check.
LEMMA DoneSteps ==
  ASSUME Inv, Next, Done
  PROVE  (\E asked \in BOOLEAN : TickLoad(asked)) \/ RenewFails \/ Reload
  BY DEF Next, Agent, Renewed, Done, Age, Operator, Crash, Start, Tick, StartLoad, Obtain,
         WriteCert, WriteKey

\* A renewal that fails in a tick leaves the pair on disk in service if it is valid,
\* and withdraws it if it has expired.
LEMMA FailedTick ==
  ASSUME Inv, RenewFails, Done, Pair
  PROVE  /\ ~(tlsReady' /\ Expired(cert'))
         /\ Valid => tlsReady' /\ cert' = certFile
<1>1. pc \in Renewing /\ cert' = cert
  BY DEF RenewFails, Renewing
<1>2. phase = "tick"
  BY DEF RenewFails, Done, Inv, TypeOK
<1>3. mode = "acme" /\ pc \in {"obtain", "writeCert"}
  BY <1>1 DEF Inv, RenewalState, Renewing, Pair
<1>4. tlsReady' = (tlsReady /\ ~Expired(seen))
  BY <1>2 DEF RenewFails
<1>5. seen = certFile
  BY <1>2, <1>3 DEF Inv, RenewalState
<1>6. tlsReady => cert = certFile
  BY <1>3 DEF Inv, ServedIsOnDisk
<1>7. Valid => tlsReady /\ cert = certFile
  BY <1>2, <1>3 DEF Inv, StaysServed, Checked
<1>8. Valid => ~Expired(seen)
  BY <1>5 DEF Valid, Expired
<1> QED BY <1>1, <1>4, <1>5, <1>6, <1>7, <1>8

\* A check that began with an expired certificate in service does not end with it
\* still in service (renewLoop's a.tlsReady.Store(false)), if the files make a pair.
THEOREM ExpiredWithdrawn == Spec => ExpiredIsWithdrawn
<1>1. Inv /\ [Next]_vars
        => [Done /\ began /\ Pair => ~(tlsReady' /\ Expired(cert'))]_vars
  <2> SUFFICES ASSUME Inv, Next, Done, Pair PROVE ~(tlsReady' /\ Expired(cert'))
    OBVIOUS
  <2>1. ASSUME NEW asked \in BOOLEAN, TickLoad(asked) PROVE ~Expired(cert')
    BY <2>1 DEF TickLoad, Done, Valid, Expired
  <2>2. CASE RenewFails
    BY <2>2, FailedTick
  <2>3. CASE Reload
    BY <2>3 DEF Reload, Valid, Expired
  <2> QED BY <2>1, <2>2, <2>3, DoneSteps
<1> QED BY <1>1, RenewalInvariant, PTL DEF Spec, ExpiredIsWithdrawn

\* Whenever Run or a check is done and the files hold a valid pair, it is in service.
THEOREM ValidServed == Spec => ValidIsServed
<1>1. Inv /\ [Next]_vars => [Done /\ Valid => tlsReady' /\ cert' = certFile]_vars
  <2> SUFFICES ASSUME Inv, Next, Done, Valid PROVE tlsReady' /\ cert' = certFile
    OBVIOUS
  <2>1. ASSUME NEW asked \in BOOLEAN, TickLoad(asked) PROVE tlsReady' /\ cert' = certFile
    BY <2>1 DEF TickLoad, Done
  <2>2. CASE RenewFails
    BY <2>2, FailedTick DEF Valid
  <2>3. CASE Reload
    BY <2>3 DEF Reload
  <2> QED BY <2>1, <2>2, <2>3, DoneSteps
<1> QED BY <1>1, RenewalInvariant, PTL DEF Spec, ValidIsServed
=============================================================================
