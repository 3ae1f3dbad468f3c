---------------------------- MODULE PolicyBundle ----------------------------
(***************************************************************************)
(* Signed policy bundles from the tool that signs them to the decisions    *)
(* they stand behind: tools/sign_policy.py, PolicyBundleVerifier           *)
(* (src/trust_gateway/policy_bundle.py), the loading in PolicyEngine       *)
(* (policy.py 13-32) as app.py 26-35 configures it, and the provenance     *)
(* PolicyEngine copies into each decision.                                 *)
(*                                                                         *)
(* The file on disk is shared: the tool truncates it and then writes it,   *)
(* others copy plain policies over it or edit it, and the service reads it *)
(* once, when it starts.  The digest of a payload is the payload, and a    *)
(* signature is made of the secret and the payload.  The signer's clock    *)
(* may be ahead of the service's.                                          *)
(***************************************************************************)
EXTENDS Naturals, FiniteSets

CONSTANTS Policies, KeyIds, Secrets,
          Keyrings,            \* functions from key ids to secrets
          NoVerifier,          \* AATG_POLICY_SECRET is not set
          NoProvenance, Idle, Down, Undecided,
          Skews, MaxTime, MaxSigned

Payloads == [policy : Policies, issued_at : Nat]

ASSUME BundleAssumption == /\ Skews \subseteq Nat
                           /\ NoProvenance \notin [key_id : KeyIds, digest : Payloads]

VARIABLES now, file,
          signing,     \* the bundle the tool has ready, the file being truncated
          signed,      \* history: payloads with the secret they were signed with
          service,     \* Down, or the policy in force and how it was started
          attempt,     \* history: the last start, its time, file and keys
          decision     \* the last decision

vars == <<now, file, signing, signed, service, attempt, decision>>

Bundle(payload, key_id, secret) ==
    [schema |-> "bundle", payload |-> payload, key_id |-> key_id,
     digest |-> payload, signature |-> [secret |-> secret, payload |-> payload]]
Plain(policy) == [schema |-> "plain", policy |-> policy]
Torn == [schema |-> "torn"]

Init == /\ now = 0 /\ signing = Idle /\ signed = {} /\ service = Down
        /\ file \in {Plain(p) : p \in Policies}
        /\ attempt = Idle /\ decision = Undecided

Tick == /\ now < MaxTime /\ now' = now + 1
        /\ UNCHANGED <<file, signing, signed, service, attempt, decision>>

----------------------------------------------------------------------------
(* The file *)

(* sign_policy.py: sign, then write_text, which truncates first. *)
Sign(policy, key_id, secret, skew) ==
    /\ signing = Idle /\ Cardinality(signed) < MaxSigned
    /\ LET payload == [policy |-> policy, issued_at |-> now + skew] IN
       /\ signing' = Bundle(payload, key_id, secret)
       /\ signed' = signed \cup {[payload |-> payload, secret |-> secret]}
    /\ file' = Torn
    /\ UNCHANGED <<now, service, attempt, decision>>

WriteBundle == /\ signing # Idle
               /\ file' = signing /\ signing' = Idle
               /\ UNCHANGED <<now, signed, service, attempt, decision>>

SignerDies == /\ signing # Idle /\ signing' = Idle
              /\ UNCHANGED <<now, file, signed, service, attempt, decision>>

(* Someone without a secret: a plain policy, or an edit of the bundle, with *)
(* or without the digest brought up to date.                               *)
Edits(b, policy, time, key_id) ==
    LET edited == [b EXCEPT !.payload = [policy |-> policy, issued_at |-> time],
                            !.key_id = key_id]
    IN {edited, [edited EXCEPT !.digest = edited.payload]}

Overwrite ==
    /\ signing = Idle
    /\ \/ file' \in {Plain(p) : p \in Policies}
       \/ /\ file.schema = "bundle"
          /\ \E policy \in Policies, key_id \in KeyIds, time \in {0, file.payload.issued_at} :
                file' \in Edits(file, policy, time, key_id)
    /\ UNCHANGED <<now, signing, signed, service, attempt, decision>>

----------------------------------------------------------------------------
(* The service *)

(* PolicyBundleVerifier.verify. *)
MutAuthentic(b, keys) == b.key_id \in DOMAIN keys /\ b.digest = b.payload
Authentic(b, keys) ==
    /\ b.key_id \in DOMAIN keys
    /\ b.digest = b.payload
    /\ b.signature = [secret |-> keys[b.key_id], payload |-> b.payload]

MutFromFuture(b) == b.payload.issued_at >= now
FromFuture(b) == b.payload.issued_at > now

(* PolicyEngine.__init__: what each kind of file needs. *)
MutLoadable(f, keys, required) ==
    \/ f.schema = "plain"
    \/ f.schema = "bundle" /\ keys # NoVerifier /\ Authentic(f, keys) /\ ~FromFuture(f)
Loadable(f, keys, required) ==
    \/ f.schema = "plain" /\ ~required
    \/ f.schema = "bundle" /\ keys # NoVerifier /\ Authentic(f, keys) /\ ~FromFuture(f)

Engine(f, keys, required) ==
    IF f.schema = "plain"
    THEN [policy |-> f.policy, provenance |-> NoProvenance, keys |-> keys,
          required |-> required]
    ELSE [policy |-> f.payload.policy,
          provenance |-> [key_id |-> f.key_id, digest |-> f.payload],
          keys |-> keys, required |-> required]

Start(keys, required) ==
    /\ service = Down
    /\ LET up == Loadable(file, keys, required) IN
       /\ service' = IF up THEN Engine(file, keys, required) ELSE Down
       /\ attempt' = [file |-> file, keys |-> keys, at |-> now, up |-> up]
    /\ UNCHANGED <<now, file, signing, signed, decision>>

Stop == /\ service # Down /\ service' = Down
        /\ UNCHANGED <<now, file, signing, signed, attempt, decision>>

(* PolicyEngine._decision, for whatever the rules say of a proposal. *)
Decide == /\ service # Down
          /\ decision' = [policy |-> service.policy, provenance |-> service.provenance,
                          keys |-> service.keys, required |-> service.required]
          /\ UNCHANGED <<now, file, signing, signed, service, attempt>>

Next == \/ Tick \/ WriteBundle \/ SignerDies \/ Overwrite \/ Stop \/ Decide
        \/ \E policy \in Policies, key_id \in KeyIds, secret \in Secrets, skew \in Skews :
              Sign(policy, key_id, secret, skew)
        \/ \E keys \in Keyrings \cup {NoVerifier}, required \in BOOLEAN : Start(keys, required)

Spec == Init /\ [][Next]_vars

----------------------------------------------------------------------------
(* Properties *)

(* Signed policy provenance identifies which policy authorized a decision  *)
(* (README.md, security invariant 3): the rules a decision was taken by    *)
(* are the ones that were signed under the digest it records, with the     *)
(* secret the service holds for the key id it records, whatever happened   *)
(* to the file before and after the start.                                 *)
DecidedAsSigned ==
    decision # Undecided /\ decision.provenance # NoProvenance =>
        LET from == decision.provenance IN
        /\ decision.policy = from.digest.policy
        /\ [payload |-> from.digest, secret |-> decision.keys[from.key_id]] \in signed

(* In signed-policy-required mode no decision comes from an unsigned file. *)
RequiredMeansSigned ==
    decision # Undecided /\ decision.required => decision.provenance # NoProvenance

(* A bundle starts a service that holds a key of its key id exactly when   *)
(* it is, in everything that its signature covers (the key id is not), one *)
(* that was signed with that key, and its signer's clock is not ahead of   *)
(* the service's (policy_bundle.py 123): an edited bundle never does, an   *)
(* old genuine one does.                                                   *)
StartsIffGenuine ==
    attempt # Idle /\ attempt.file.schema = "bundle" /\ attempt.keys # NoVerifier =>
        LET b == attempt.file  keys == attempt.keys IN
        b.key_id \in DOMAIN keys =>
            (attempt.up <=>
                /\ \E s \in signed : b = Bundle(s.payload, b.key_id, keys[b.key_id])
                                       /\ s.secret = keys[b.key_id]
                /\ b.payload.issued_at <= attempt.at)

=============================================================================
