-------------------------- MODULE PolicyBundleProofs --------------------------
(***************************************************************************)
(* Proofs about PolicyBundle for every set of policies, key ids and        *)
(* secrets, every keyring and any clock of the signer.                     *)
(***************************************************************************)
EXTENDS PolicyBundle, TLAPS

Bundles == [schema : {"bundle"}, payload : Payloads, key_id : KeyIds,
            digest : Payloads, signature : [secret : Secrets, payload : Payloads]]
Files == Bundles \cup [schema : {"plain"}, policy : Policies] \cup {Torn}

(* Whoever edits a bundle cannot make a signature: each one there is       *)
(* belongs to a payload that was signed.                                   *)
Signed(b) == [payload |-> b.signature.payload, secret |-> b.signature.secret] \in signed

FileOK ==
    /\ now \in Nat /\ file \in Files
    /\ file.schema = "bundle" => Signed(file)
    /\ signing # Idle => signing \in Bundles /\ Signed(signing)

(* What an engine enforces, and what it says it enforces. *)
EngineOK(e) ==
    /\ e.required => e.provenance # NoProvenance
    /\ e.provenance # NoProvenance =>
          /\ e.policy = e.provenance.digest.policy
          /\ [payload |-> e.provenance.digest, secret |-> e.keys[e.provenance.key_id]] \in signed

(* What a start found: a bundle either verified or not, and if it did it   *)
(* had been signed by then.                                                *)
AttemptOK(a) ==
    a.file.schema = "bundle" /\ a.keys # NoVerifier =>
        /\ a.file \in Bundles
        /\ a.file.key_id \in DOMAIN a.keys =>
              (a.up <=> Authentic(a.file, a.keys) /\ a.file.payload.issued_at <= a.at)
        /\ Authentic(a.file, a.keys) =>
              [payload |-> a.file.payload, secret |-> a.keys[a.file.key_id]] \in signed

Inv == /\ FileOK
       /\ attempt # Idle => AttemptOK(attempt)
       /\ service # Down => EngineOK(service)
       /\ decision # Undecided => EngineOK(decision)

----------------------------------------------------------------------------
(* Bundles *)

(* A bundle that verifies is, but for its key id, one that was signed.     *)
LEMMA AuthenticIsSigned ==
    ASSUME NEW b \in Bundles, NEW keys, Authentic(b, keys)
    PROVE  b = Bundle(b.payload, b.key_id, keys[b.key_id])
BY DEF Bundles, Authentic, Bundle

(* Conversely, what was signed with a key verifies with it. *)
LEMMA SignedIsAuthentic ==
    ASSUME NEW b, NEW keys, b.key_id \in DOMAIN keys,
           b = Bundle(b.payload, b.key_id, keys[b.key_id])
    PROVE  Authentic(b, keys)
<1>1. /\ b.digest = b.payload
      /\ b.signature = [secret |-> keys[b.key_id], payload |-> b.payload]
  BY DEF Bundle
<1> QED BY <1>1 DEF Authentic

(* Signing more changes nothing about what was signed. *)
LEMMA SignedStays ==
    ASSUME signed \subseteq signed'
    PROVE  /\ \A e : EngineOK(e) => EngineOK(e)'
           /\ \A a : AttemptOK(a) => AttemptOK(a)'
           /\ \A b : Signed(b) => Signed(b)'
BY DEF EngineOK, AttemptOK, Signed

----------------------------------------------------------------------------
(* Preservation *)

LEMMA InitInv == Init => Inv
BY DEF Init, Inv, FileOK, Files, Plain

(* The steps that leave the service, its start and its decision alone, and *)
(* put at most a file there whose signature was made.                      *)
LEMMA FileStepOK ==
    ASSUME Inv, signed \subseteq signed', FileOK',
           UNCHANGED <<service, attempt, decision>>
    PROVE  Inv'
BY SignedStays DEF Inv

(* sign_policy.py *)
LEMMA SignOK ==
    ASSUME Inv, NEW policy \in Policies, NEW key_id \in KeyIds, NEW secret \in Secrets,
           NEW skew \in Skews, Sign(policy, key_id, secret, skew)
    PROVE  Inv'
<1> DEFINE payload == [policy |-> policy, issued_at |-> now + skew]
<1>1. /\ signing' = Bundle(payload, key_id, secret) /\ file' = Torn
      /\ signed' = signed \cup {[payload |-> payload, secret |-> secret]}
      /\ UNCHANGED <<now, service, attempt, decision>>
  BY DEF Sign
<1>2. payload \in Payloads /\ now \in Nat
  BY BundleAssumption DEF Inv, FileOK, Payloads
<1> HIDE DEF payload
<1>3. /\ signing' \in Bundles
      /\ signing'.signature = [secret |-> secret, payload |-> payload]
  BY <1>1, <1>2 DEF Bundle, Bundles
<1>4. Signed(signing)'
  BY <1>1, <1>3 DEF Signed
<1>5. FileOK'
  BY <1>1, <1>2, <1>3, <1>4 DEF FileOK, Files, Torn
<1> QED BY <1>1, <1>5, FileStepOK

(* Someone without a secret. *)
LEMMA OverwriteOK == ASSUME Inv, Overwrite PROVE Inv'
<1>1. UNCHANGED <<now, signing, signed, service, attempt, decision>>
  BY DEF Overwrite
<1>2. CASE file' \in {Plain(p) : p \in Policies}
  <2>1. file' \in Files /\ file'.schema = "plain"
    BY <1>2 DEF Plain, Files
  <2>2. FileOK'
    BY <1>1, <2>1 DEF Inv, FileOK, Signed
  <2> QED BY <1>1, <2>2, FileStepOK
<1>3. ASSUME file.schema = "bundle", NEW policy \in Policies, NEW key_id \in KeyIds,
             NEW time \in {0, file.payload.issued_at},
             file' \in Edits(file, policy, time, key_id)
      PROVE  Inv'
  <2>1. file \in Bundles /\ Signed(file)
    BY <1>3 DEF Inv, FileOK, Files, Plain, Torn
  <2>2. [policy |-> policy, issued_at |-> time] \in Payloads
    BY <1>3, <2>1 DEF Bundles, Payloads
  <2>3. file' \in Bundles /\ file'.signature = file.signature
    BY <1>3, <2>1, <2>2 DEF Edits, Bundles
  <2>4. FileOK'
    BY <1>1, <2>1, <2>3 DEF Inv, FileOK, Files, Signed
  <2> QED BY <1>1, <2>4, FileStepOK
<1> QED BY <1>2, <1>3 DEF Overwrite

(* The service starts, or refuses to. *)
LEMMA StartOK ==
    ASSUME Inv, NEW keys, NEW required \in BOOLEAN, Start(keys, required)
    PROVE  Inv'
<1> DEFINE up == Loadable(file, keys, required)
<1>1. /\ service' = IF up THEN Engine(file, keys, required) ELSE Down
      /\ attempt' = [file |-> file, keys |-> keys, at |-> now, up |-> up]
      /\ UNCHANGED <<now, file, signing, signed, decision>>
  BY DEF Start
<1>2. file.schema = "bundle" => file \in Bundles /\ Signed(file)
  BY DEF Inv, FileOK, Files, Plain, Torn
<1>3. ASSUME file.schema = "bundle", Authentic(file, keys)
      PROVE  [payload |-> file.payload, secret |-> keys[file.key_id]] \in signed
  BY <1>2, <1>3 DEF Authentic, Signed
<1>4. ASSUME up PROVE EngineOK(Engine(file, keys, required))
  <2>1. CASE file.schema = "plain"
    BY <1>4, <2>1 DEF Loadable, Engine, EngineOK
  <2>2. CASE file.schema = "bundle"
    <3>1. [key_id |-> file.key_id, digest |-> file.payload] # NoProvenance
      BY <1>2, <2>2, BundleAssumption DEF Bundles
    <3> QED BY <1>3, <1>4, <2>2, <3>1 DEF Loadable, Engine, EngineOK
  <2> QED BY <1>4, <2>1, <2>2 DEF Loadable
<1>5. AttemptOK(attempt')
  <2>1. file.schema = "bundle" /\ keys # NoVerifier =>
           (up <=> Authentic(file, keys) /\ file.payload.issued_at <= now)
    BY <1>2 DEF Loadable, FromFuture, Bundles, Payloads, Inv, FileOK
  <2>2. /\ attempt'.file = file /\ attempt'.keys = keys /\ attempt'.at = now
        /\ attempt'.up <=> up
    BY <1>1
  <2> QED BY <1>2, <1>3, <2>1, <2>2 DEF AttemptOK
<1>6. AttemptOK(attempt)'
  BY <1>1, <1>5 DEF AttemptOK
<1>7. service' # Down => EngineOK(service)'
  BY <1>1, <1>4 DEF EngineOK
<1>8. FileOK' /\ (decision' # Undecided => EngineOK(decision)')
  BY <1>1 DEF Inv, FileOK, EngineOK, Signed
<1> QED BY <1>6, <1>7, <1>8 DEF Inv

(* A decision enforces and says what the engine does. *)
LEMMA DecideOK == ASSUME Inv, Decide PROVE Inv'
<1>1. /\ service # Down
      /\ decision' = [policy |-> service.policy, provenance |-> service.provenance,
                      keys |-> service.keys, required |-> service.required]
      /\ UNCHANGED <<now, file, signing, signed, service, attempt>>
  BY DEF Decide
<1>2. EngineOK(service)
  BY <1>1 DEF Inv
<1>3. EngineOK(decision)'
  BY <1>1, <1>2 DEF EngineOK
<1>4. FileOK' /\ (attempt' # Idle => AttemptOK(attempt)')
                /\ (service' # Down => EngineOK(service)')
  BY <1>1 DEF Inv, FileOK, AttemptOK, EngineOK, Signed
<1> QED BY <1>3, <1>4 DEF Inv

LEMMA StepInv == ASSUME Inv, [Next]_vars PROVE Inv'
<1>1. CASE Tick
  <2>1. FileOK'
    BY <1>1 DEF Tick, Inv, FileOK, Signed
  <2> QED BY <1>1, <2>1, FileStepOK DEF Tick
<1>2. CASE WriteBundle
  <2>1. FileOK'
    BY <1>2 DEF WriteBundle, Inv, FileOK, Files, Signed
  <2> QED BY <1>2, <2>1, FileStepOK DEF WriteBundle
<1>3. CASE SignerDies
  <2>1. FileOK'
    BY <1>3 DEF SignerDies, Inv, FileOK, Signed
  <2> QED BY <1>3, <2>1, FileStepOK DEF SignerDies
<1>4. CASE Overwrite
  BY <1>4, OverwriteOK
<1>5. CASE Stop
  BY <1>5 DEF Stop, Inv, FileOK, AttemptOK, EngineOK, Signed
<1>6. CASE Decide
  BY <1>6, DecideOK
<1>7. ASSUME NEW policy \in Policies, NEW key_id \in KeyIds, NEW secret \in Secrets,
             NEW skew \in Skews, Sign(policy, key_id, secret, skew)
      PROVE  Inv'
  BY <1>7, SignOK
<1>8. ASSUME NEW keys \in Keyrings \cup {NoVerifier}, NEW required \in BOOLEAN,
             Start(keys, required)
      PROVE  Inv'
  BY <1>8, StartOK
<1>9. CASE UNCHANGED vars
  BY <1>9 DEF vars, Inv, FileOK, AttemptOK, EngineOK, Signed
<1> QED BY <1>1, <1>2, <1>3, <1>4, <1>5, <1>6, <1>7, <1>8, <1>9 DEF Next

(* The invariant of the bundle: every signature there is was made with its *)
(* secret, and what verified at a start is what the decisions quote.       *)
THEOREM BundleInv == Spec => []Inv
<1> QED BY InitInv, StepInv, PTL DEF Spec

----------------------------------------------------------------------------
(* What follows *)

(* Every decision that names a digest was taken by the rules signed under  *)
(* it, with the secret the service holds for the key id it names.          *)
THEOREM ProvenanceIsTrue == Spec => []DecidedAsSigned
<1>1. Inv => DecidedAsSigned
  BY DEF Inv, EngineOK, DecidedAsSigned
<1> QED BY <1>1, BundleInv, PTL

(* In signed-policy-required mode every decision names one. *)
THEOREM RequiredIsSigned == Spec => []RequiredMeansSigned
<1>1. Inv => RequiredMeansSigned
  BY DEF Inv, EngineOK, RequiredMeansSigned
<1> QED BY <1>1, BundleInv, PTL

(* A bundle under a key the service holds starts it if and only if it was  *)
(* signed with that key and its signer's clock is not ahead.               *)
THEOREM StartIsExact == Spec => []StartsIffGenuine
<1>1. ASSUME Inv PROVE StartsIffGenuine
  <2> DEFINE b == attempt.file
             k == attempt.keys
             Genuine == \E s \in signed : b = Bundle(s.payload, b.key_id, k[b.key_id])
                                            /\ s.secret = k[b.key_id]
  <2> SUFFICES ASSUME attempt # Idle, b.schema = "bundle", k # NoVerifier,
                      b.key_id \in DOMAIN k
               PROVE  attempt.up <=> Genuine /\ b.payload.issued_at <= attempt.at
    BY DEF StartsIffGenuine
  <2>1. /\ b \in Bundles
        /\ attempt.up <=> Authentic(b, k) /\ b.payload.issued_at <= attempt.at
        /\ Authentic(b, k) => [payload |-> b.payload, secret |-> k[b.key_id]] \in signed
    BY <1>1 DEF Inv, AttemptOK
  <2>2. ASSUME Authentic(b, k) PROVE Genuine
    <3> DEFINE s == [payload |-> b.payload, secret |-> k[b.key_id]]
    <3>1. s \in signed /\ s.payload = b.payload /\ s.secret = k[b.key_id]
      BY <2>1, <2>2
    <3>2. b = Bundle(b.payload, b.key_id, k[b.key_id])
      BY <2>1, <2>2, AuthenticIsSigned
    <3> QED BY <3>1, <3>2
  <2>3. ASSUME NEW s \in signed, b = Bundle(s.payload, b.key_id, k[b.key_id])
        PROVE  Authentic(b, k)
    <3>1. b.payload = s.payload
      BY <2>3 DEF Bundle
    <3> QED BY <2>3, <3>1, SignedIsAuthentic
  <2>4. Authentic(b, k) <=> Genuine
    BY <2>2, <2>3
  <2> QED BY <2>1, <2>4
<1> QED BY <1>1, BundleInv, PTL

=============================================================================
