------------------------------ MODULE TlsRenewal ------------------------------
(***************************************************************************)
(* The certificate of an agent's data endpoint: Run and renewLoop of       *)
(* internal/agent/agent.go over the providers of                           *)
(* internal/tlsprovider/tls.go.                                            *)
(*                                                                         *)
(* A certificate and its key are one member of Certs; the two files may    *)
(* hold halves of different ones.  Of its validity only this matters:      *)
(* whether it is due for renewal and whether it has expired.  The rename   *)
(* of one file is atomic, and so is reading the pair.                      *)
(***************************************************************************)
EXTENDS Naturals, FiniteSets

CONSTANTS
    Certs,      \* certificates there may be at once; their names are reused
    None

ASSUME CertsAssumption == None \notin Certs

VARIABLES
    mode,       \* the provider: "acme" or "files"
    pc,         \* where the agent is in Run or in renewLoop
    phase,      \* "start" in Run, "tick" in renewLoop
    certFile, keyFile,
    age,        \* of each certificate: fresh, due or expired
    got,        \* the certificate Renew has obtained
    seen,       \* st.NotAfter of the tick's Load: the certificate it is of, if any
    cert,       \* a.cert
    tlsReady,   \* a.tlsReady
    began       \* when the tick began, a.cert had expired

files  == <<certFile, keyFile>>
served == <<cert, tlsReady>>
vars   == <<mode, pc, phase, files, age, got, seen, served, began>>

-----------------------------------------------------------------------------
InUse   == {certFile, keyFile, got, seen, cert}
Pair    == certFile # None /\ certFile = keyFile
Valid   == Pair /\ age[certFile] # "expired"
Expired(c) == c # None /\ age[c] = "expired"

Init ==
    /\ mode \in {"acme", "files"}
    /\ pc = "down" /\ phase = "start"
    /\ certFile = None /\ keyFile = None
    /\ age = [c \in Certs |-> "fresh"]
    /\ got = None /\ seen = None
    /\ cert = None /\ tlsReady = FALSE
    /\ began = FALSE

-----------------------------------------------------------------------------
(* The environment *)

\* A certificate is not due before the check that obtains it is done: it lasts for
\* days, and a check for seconds.
Age(c) ==
    /\ c \in InUse
    /\ \/ age[c] = "fresh" /\ pc \in {"down", "wait"} /\ age' = [age EXCEPT ![c] = "due"]
       \/ age[c] = "due" /\ age' = [age EXCEPT ![c] = "expired"]
    /\ UNCHANGED <<mode, pc, phase, files, got, seen, served, began>>

\* With the provider "files" the operator replaces one file, and then the other.
Operator(c) ==
    /\ mode = "files"
    /\ IF certFile = keyFile
       THEN /\ c \notin InUse
            /\ age' = [age EXCEPT ![c] = "fresh"]
            /\ \/ certFile' = c /\ UNCHANGED keyFile
               \/ keyFile' = c /\ UNCHANGED certFile
       ELSE /\ c \in {certFile, keyFile}
            /\ certFile' = c /\ keyFile' = c
            /\ UNCHANGED age
    /\ UNCHANGED <<mode, pc, phase, got, seen, served, began>>

\* The process dies, or is stopped.
Crash ==
    /\ pc # "down"
    /\ pc' = "down" /\ phase' = "start"
    /\ cert' = None /\ tlsReady' = FALSE
    /\ got' = None /\ seen' = None /\ began' = FALSE
    /\ UNCHANGED <<mode, files, age>>

-----------------------------------------------------------------------------
(* Run, and a tick of renewLoop *)

Start ==
    /\ pc = "down"
    /\ pc' = "load"
    /\ UNCHANGED <<mode, phase, files, age, got, seen, served, began>>

Tick ==
    /\ pc = "wait"
    /\ pc' = "load" /\ phase' = "tick"
    /\ began' = Expired(cert)
    /\ UNCHANGED <<mode, files, age, got, seen, served>>

\* Run: with ACME, no valid pair is a reason to renew.  With files it just loads.
StartLoad ==
    /\ pc = "load" /\ phase = "start"
    /\ pc' = IF mode = "acme" /\ ~Valid THEN "obtain" ELSE "reload"
    /\ UNCHANGED <<mode, phase, files, age, got, seen, served, began>>

\* RenewAt: 72 hours before the end, or what the ACME server says of it.
RenewalDue(asked) == IF mode = "acme" THEN asked ELSE age[certFile] = "due"

\* Mutant: a tick that finds nothing to do leaves the certificate it serves.
TickLoadKeeps(asked) ==
    /\ pc = "load" /\ phase = "tick"
    /\ IF Valid /\ ~RenewalDue(asked)
       THEN /\ pc' = "wait"
            /\ UNCHANGED <<served, seen>>
       ELSE /\ pc' = IF mode = "acme" THEN "obtain" ELSE "reload"
            /\ seen' = IF Pair THEN certFile ELSE None
            /\ UNCHANGED served
    /\ UNCHANGED <<mode, phase, files, age, got, began>>

\* Mutant: a pair that cannot be read is left to the next start.
TickLoadLeaves(asked) ==
    /\ pc = "load" /\ phase = "tick"
    /\ IF (Valid /\ ~RenewalDue(asked)) \/ ~Pair
       THEN /\ pc' = "wait"
            /\ UNCHANGED <<served, seen>>
       ELSE /\ pc' = IF mode = "acme" THEN "obtain" ELSE "reload"
            /\ seen' = IF Pair THEN certFile ELSE None
            /\ UNCHANGED served
    /\ UNCHANGED <<mode, phase, files, age, got, began>>

TickLoad(asked) ==
    /\ pc = "load" /\ phase = "tick"
    /\ IF Valid /\ ~RenewalDue(asked)
       THEN /\ pc' = "wait"
            /\ cert' = certFile /\ tlsReady' = TRUE
            /\ UNCHANGED seen
       ELSE /\ pc' = IF mode = "acme" THEN "obtain" ELSE "reload"
            /\ seen' = IF Pair THEN certFile ELSE None
            /\ UNCHANGED served
    /\ UNCHANGED <<mode, phase, files, age, got, began>>

\* ACME.Renew: obtain, write the certificate, write the key.
Obtain(c) ==
    /\ pc = "obtain" /\ c \notin InUse
    /\ got' = c /\ age' = [age EXCEPT ![c] = "fresh"]
    /\ pc' = "writeCert"
    /\ UNCHANGED <<mode, phase, files, seen, served, began>>

WriteCert ==
    /\ pc = "writeCert"
    /\ certFile' = got
    /\ pc' = "writeKey"
    /\ UNCHANGED <<mode, phase, keyFile, age, got, seen, served, began>>

WriteKey ==
    /\ pc = "writeKey"
    /\ keyFile' = got
    /\ pc' = "reload" /\ got' = None /\ seen' = None
    /\ UNCHANGED <<mode, phase, certFile, age, served, began>>

\* Mutant: a renewal that fails changes nothing.
RenewFailsQuietly ==
    /\ pc \in {"obtain", "writeCert", "writeKey"}
    /\ pc' = IF phase = "start" THEN "reload" ELSE "wait"
    /\ got' = None /\ seen' = None
    /\ UNCHANGED <<mode, phase, files, age, served, began>>

\* Any of the three fails.  Run goes on to load what there is; a tick withdraws the
\* endpoint if its Load could read the certificate and that one has expired.
RenewFails ==
    /\ pc \in {"obtain", "writeCert", "writeKey"}
    /\ IF phase = "start" THEN pc' = "reload" /\ UNCHANGED tlsReady
       ELSE pc' = "wait" /\ tlsReady' = (tlsReady /\ ~Expired(seen))
    /\ got' = None /\ seen' = None
    /\ UNCHANGED <<mode, phase, files, age, cert, began>>

\* The second Load, of Run and of a tick.
Reload ==
    /\ pc = "reload"
    /\ IF Valid THEN cert' = certFile /\ tlsReady' = TRUE
       ELSE tlsReady' = FALSE /\ UNCHANGED cert
    /\ pc' = "wait" /\ seen' = None
    /\ UNCHANGED <<mode, phase, files, age, got, began>>

-----------------------------------------------------------------------------
Renewed == (\E c \in Certs : Obtain(c)) \/ WriteCert \/ WriteKey

Agent ==
    \/ Start \/ Tick \/ StartLoad
    \/ \E asked \in BOOLEAN : TickLoad(asked)
    \/ Renewed \/ RenewFails \/ Reload

Next ==
    \/ Agent \/ Crash
    \/ \E c \in Certs : Age(c) \/ Operator(c)

Spec == Init /\ [][Next]_vars

\* The agent runs and is restarted when it has died; the steps of a renewal do not
\* fail for ever.
Fairness == /\ WF_vars(Agent)
            /\ SF_vars(\E c \in Certs : Obtain(c))
            /\ SF_vars(WriteCert) /\ SF_vars(WriteKey)

FairSpec == Spec /\ Fairness

-----------------------------------------------------------------------------
(* Properties *)

\* Every variable has its type; what is served was loaded by this process.
TypeOK ==
    /\ mode \in {"acme", "files"}
    /\ pc \in {"down", "load", "obtain", "writeCert", "writeKey", "reload", "wait"}
    /\ phase \in {"start", "tick"}
    /\ InUse \subseteq Certs \cup {None}
    /\ age \in [Certs -> {"fresh", "due", "expired"}]
    /\ tlsReady \in BOOLEAN /\ began \in BOOLEAN
    /\ tlsReady => cert # None
    /\ (got # None) = (pc \in {"writeCert", "writeKey"})

\* Run has loaded what there is, or a check is done.
Done == pc \notin {"wait", "down"} /\ pc' = "wait"

\* A check that began with an expired certificate in service does not end with it
\* still in service, unless the two files do not make a pair.
ExpiredIsWithdrawn ==
    [][Done /\ began /\ Pair => ~(tlsReady' /\ Expired(cert'))]_vars

\* Whenever Run or a check is done and the files hold a valid pair, that pair is in
\* service: also after a renewal that failed half-way, and after the operator's own
\* replacement.
ValidIsServed ==
    [][Done /\ Valid => tlsReady' /\ cert' = certFile]_vars

\* With ACME, in a process that does not die any more, the endpoint becomes ready
\* again whatever befalls it: a pair torn by a crash or by a failed write is replaced,
\* at the next start or at the next check.
ReadyAgain == (mode = "acme" /\ <>[](pc # "down")) => []<>tlsReady
=============================================================================
