----------------------------- MODULE Credentials -----------------------------
(***************************************************************************)
(* The life of the two kinds of token: capabilities, with their revocation *)
(* (src/trust_gateway/capabilities.py, the revoke endpoint of app.py       *)
(* 146-154), and workload identity assertions (identity.py).               *)
(*                                                                         *)
(* Time is a number of ticks, Second of them to the second to which iat    *)
(* and exp are cut.  Tokens are issued by holders of the secret, whose     *)
(* clocks may differ from the service's by a Skew.  A tampered token is to *)
(* verify what one of an unknown key is.  Only the service's threads, its  *)
(* restarts and its store interleave: in a check, the look at the clock    *)
(* and the look at the revocations are two steps, in a revocation the      *)
(* verification, the insert and the audit event are three.                 *)
(*                                                                         *)
(* How execute puts the two checks in order, and what follows them, is in  *)
(* Gateway; here each call checks one token.                               *)
(***************************************************************************)
EXTENDS Integers, Sequences

CONSTANTS Threads, Agents, Audiences, Secrets,
          Audience,           \* the service's own
          Second, Leeway,     \* in ticks; Leeway is the 30 seconds of identity.py
          Lives, Skews,       \* ttls asked for, issuers' clocks less the service's
          MaxTime, MaxTokens, MaxRestarts     \* bounds

ASSUME ClockAssumption ==
    /\ Second \in Nat \ {0} /\ Leeway \in Nat /\ MaxTokens \in Nat
    /\ Lives \subseteq Nat /\ Skews \subseteq Int

VARIABLES now, issued,         \* tokens made; the id of one is its place
          secret,              \* the secret the running service was started with
          revoked, journal,    \* durable: ids revoked, ids of capability_revoked
          pc, token, reply,    \* per thread: next step, its token, the answer
          looked, doomed,      \* history, per thread: when the check read the
                               \* clock; was the token revoked when it started,
                               \* by the store or by the audit journal?
          first,               \* history, per id: when it was first accepted, or Never
          torn,                \* history: ids whose revocation a failure cut short
          restarts

vars == <<now, issued, secret, revoked, journal, pc, token, reply, looked,
          doomed, first, torn, restarts>>

Ids == 1..MaxTokens
Never == -1

Init == /\ now = 0 /\ issued = <<>> /\ secret \in Secrets
        /\ revoked = {} /\ journal = {} /\ torn = {} /\ restarts = 0
        /\ pc = [t \in Threads |-> "idle"]
        /\ token = [t \in Threads |-> 0]
        /\ reply = [t \in Threads |-> "none"]
        /\ looked = [t \in Threads |-> 0]
        /\ doomed = [t \in Threads |-> FALSE]
        /\ first = [i \in Ids |-> Never]

calls == <<pc, token, reply, looked, doomed>>
store == <<revoked, journal, torn>>

Tick == /\ now < MaxTime /\ now' = now + 1
        /\ UNCHANGED <<issued, secret, store, calls, first, restarts>>

----------------------------------------------------------------------------
(* Tokens *)

(* int(time.timestamp()), back in ticks. *)
MutToSeconds(time) == ((time + Second - 1) \div Second) * Second
ToSeconds(time) == (time \div Second) * Second

(* issue of either class: kind, claims, and the signature as its secret. *)
Token(kind, sub, aud, key, skew, life) ==
    [kind |-> kind, sub |-> sub, aud |-> aud, key |-> key,
     iat |-> ToSeconds(now + skew), exp |-> ToSeconds(now + skew + life),
     born |-> now + skew, life |-> life]

Issue == /\ Len(issued) < MaxTokens
         /\ \E kind \in {"capability", "identity"}, sub \in Agents, aud \in Audiences,
               key \in Secrets, skew \in Skews, life \in Lives :
               issued' = Append(issued, Token(kind, sub, aud, key, skew, life))
         /\ UNCHANGED <<now, secret, store, calls, first, restarts>>

Expired(c) == c.exp <= now

(* WorkloadIdentity.verify; the reason matters as far as it is the time. *)
MutIdentityVerdict(c, agent) ==
    IF c.key # secret \/ c.aud # Audience \/ c.sub # agent THEN "refused"
    ELSE IF Expired(c) THEN "expired" ELSE "accepted"
IdentityVerdict(c, agent) ==
    IF c.key # secret \/ c.aud # Audience \/ c.sub # agent THEN "refused"
    ELSE IF Expired(c) THEN "expired"
    ELSE IF c.iat > now + Leeway THEN "refused" ELSE "accepted"

(* CapabilityIssuer.verify up to the revocation: no look at iat. *)
CapabilityVerdict(c) ==
    IF c.key # secret \/ c.aud # Audience THEN "refused"
    ELSE IF Expired(c) THEN "expired" ELSE "valid"

----------------------------------------------------------------------------
(* Checks *)

Answer(t, verdict) == /\ reply' = [reply EXCEPT ![t] = verdict]
                      /\ pc' = [pc EXCEPT ![t] = "idle"]
                      /\ first' = IF verdict = "accepted" /\ first[token[t]] = Never
                                  THEN [first EXCEPT ![token[t]] = looked'[t]]
                                  ELSE first

Start(t, i, step) ==
    /\ pc[t] = "idle" /\ i \in DOMAIN issued
    /\ token' = [token EXCEPT ![t] = i]
    /\ reply' = [reply EXCEPT ![t] = "none"]
    /\ doomed' = [doomed EXCEPT ![t] = i \in revoked \cup journal]
    /\ looked' = [looked EXCEPT ![t] = 0]
    /\ pc' = [pc EXCEPT ![t] = step]
    /\ UNCHANGED <<now, issued, secret, store, first, restarts>>

CheckIdentity(t) ==
    /\ pc[t] = "check" /\ issued[token[t]].kind = "identity"
    /\ looked' = [looked EXCEPT ![t] = now]
    /\ \E agent \in Agents : Answer(t, IdentityVerdict(issued[token[t]], agent))
    /\ UNCHANGED <<now, issued, secret, store, token, doomed, restarts>>

CheckCapability(t) ==
    /\ pc[t] = "check" /\ issued[token[t]].kind = "capability"
    /\ looked' = [looked EXCEPT ![t] = now]
    /\ LET verdict == CapabilityVerdict(issued[token[t]]) IN
       IF verdict = "valid"
       THEN /\ pc' = [pc EXCEPT ![t] = "revocation"]
            /\ UNCHANGED <<reply, first>>
       ELSE Answer(t, verdict)
    /\ UNCHANGED <<now, issued, secret, store, token, doomed, restarts>>

(* is_revoked, and then, in authorize, the subject. *)
CheckRevocation(t) ==
    /\ pc[t] = "revocation"
    /\ UNCHANGED looked
    /\ \E agent \in Agents :
          Answer(t, IF token[t] \in revoked THEN "refused"
                    ELSE IF issued[token[t]].sub # agent THEN "refused"
                    ELSE "accepted")
    /\ UNCHANGED <<now, issued, secret, store, token, doomed, restarts>>

----------------------------------------------------------------------------
(* Revocation *)

MutAfterVerify == "journal"
AfterVerify == "insert"

(* revoke: verify without the revocation check; an id needs no proof. *)
VerifyForRevoke(t, raw) ==
    /\ pc[t] = "revoke"
    /\ UNCHANGED looked
    /\ LET verdict == CapabilityVerdict(issued[token[t]]) IN
       IF raw \/ (issued[token[t]].kind = "capability" /\ verdict = "valid")
       THEN /\ pc' = [pc EXCEPT ![t] = AfterVerify]
            /\ UNCHANGED <<reply, first>>
       ELSE Answer(t, "refused")
    /\ UNCHANGED <<now, issued, secret, store, token, doomed, restarts>>

InsertRevocation(t) ==
    /\ pc[t] = "insert"
    /\ revoked' = revoked \cup {token[t]}
    /\ pc' = [pc EXCEPT ![t] = "journal"]
    /\ UNCHANGED <<now, issued, secret, journal, torn, token, reply, looked,
                   doomed, first, restarts>>

JournalRevocation(t) ==
    /\ pc[t] = "journal"
    /\ journal' = journal \cup {token[t]}
    /\ UNCHANGED looked
    /\ Answer(t, "revocation_done")
    /\ UNCHANGED <<now, issued, secret, revoked, torn, token, doomed, restarts>>

(* The store or the journal raises: the client gets an error. *)
Raise(t) ==
    /\ pc[t] \in {"revocation", "insert", "journal"}
    /\ torn' = IF pc[t] = "journal" THEN torn \cup {token[t]} ELSE torn
    /\ UNCHANGED looked
    /\ Answer(t, "refused")
    /\ UNCHANGED <<now, issued, secret, revoked, journal, token, doomed, restarts>>

(* The process ends and is started again, perhaps with another secret; its *)
(* revocations are in the database.                                        *)
MutSurvives(set) == {}
Survives(set) == set

Restart(new) ==
    /\ restarts < MaxRestarts /\ restarts' = restarts + 1
    /\ secret' = new
    /\ revoked' = Survives(revoked)
    /\ torn' = torn \cup {token[t] : t \in {u \in Threads : pc[u] = "journal"}}
    /\ pc' = [t \in Threads |-> "idle"]
    /\ reply' = [t \in Threads |-> "none"]
    /\ UNCHANGED <<now, issued, journal, token, looked, doomed, first>>

Step(t) == \/ CheckIdentity(t) \/ CheckCapability(t) \/ CheckRevocation(t)
           \/ \E raw \in BOOLEAN : VerifyForRevoke(t, raw)
           \/ InsertRevocation(t) \/ JournalRevocation(t) \/ Raise(t)

Next == \/ Tick \/ Issue
        \/ \E new \in Secrets : Restart(new)
        \/ \E t \in Threads : \/ Step(t)
                              \/ \E i \in Ids, step \in {"check", "revoke"} : Start(t, i, step)

Spec == Init /\ [][Next]_vars

----------------------------------------------------------------------------
(* Properties *)

(* A capability that is revoked when a check of it starts is not accepted  *)
(* by it, nor by any later check, whatever restarts and rotations lie      *)
(* between ("durable revocation", docs/THREAT_MODEL.md:71).  An assertion  *)
(* of identity is not looked up: it cannot be revoked.                     *)
RevokedNeverAccepted ==
    \A t \in Threads : reply[t] = "accepted" /\ doomed[t] =>
        issued[token[t]].kind = "identity"

(* The audit event of a revocation follows the durable insert (app.py      *)
(* 152-153): no event without its revocation, and a revocation without     *)
(* event only while its call is in between or where a failure ended it.    *)
RevocationLeavesTrace ==
    /\ journal \subseteq revoked
    /\ \A i \in revoked \ journal :
          i \in torn \/ \E t \in Threads : pc[t] = "journal" /\ token[t] = i

(* Cutting exp to seconds (capabilities.py 131, identity.py 64) costs a    *)
(* token less than a second of its ttl and never adds to it.  The end is    *)
(* stamped by the issuer's clock and looked at by the service's: when that *)
(* one has reached the end, the token is not accepted, and it is not       *)
(* refused as expired while that one is a second or more before it.        *)
ExpiryIsOnTime ==
    \A t \in Threads : token[t] # 0 =>
        LET c == issued[token[t]] end == c.born + c.life IN
        /\ reply[t] = "accepted" => looked[t] < end
        /\ reply[t] = "expired" => looked[t] > end - Second

(* The from-future check bounds the time over which one identity assertion *)
(* can be presented, whatever the issuer's clock (identity.py 88-91); a    *)
(* capability has no such check, and the issuer's clock counts.            *)
WindowIsBounded ==
    \A t \in Threads : reply[t] = "accepted" =>
        LET c == issued[token[t]] IN
        IF c.kind = "identity"
        THEN looked[t] - first[token[t]] < c.life + Leeway + Second
        ELSE looked[t] < c.born + c.life

=============================================================================
