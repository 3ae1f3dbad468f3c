-------------------------- MODULE CredentialsProofs --------------------------
(***************************************************************************)
(* Proofs about Credentials for every set of threads, agents, audiences    *)
(* and secrets, every length of a second, leeway, ttl and skew: that what  *)
(* is revoked is refused, that a revocation leaves its trace, and what the *)
(* cut of a timestamp to seconds and an issuer's clock can do.             *)
(***************************************************************************)
EXTENDS Credentials, SequenceTheorems, TLAPS

(* The tokens of issue: their timestamps are cut from the times meant.     *)
Tokens ==
    {c \in [kind : {"capability", "identity"}, sub : Agents, aud : Audiences,
            key : Secrets, iat : Int, exp : Int, born : Int, life : Nat] :
        c.iat = ToSeconds(c.born) /\ c.exp = ToSeconds(c.born + c.life)}

Steps == {"idle", "check", "revoke", "revocation", "insert", "journal"}
Replies == {"none", "accepted", "refused", "expired", "revocation_done"}

TypeInv ==
    /\ now \in Nat /\ issued \in Seq(Tokens) /\ Len(issued) <= MaxTokens
    /\ pc \in [Threads -> Steps] /\ reply \in [Threads -> Replies]
    /\ token \in [Threads -> Nat] /\ looked \in [Threads -> Nat]
    /\ doomed \in [Threads -> BOOLEAN] /\ first \in [Ids -> Int]

(* What a call has found out about its token, at each of its steps and     *)
(* when it has answered.                                                   *)
ThreadOK(t) ==
    /\ token[t] \in 0..Len(issued)
    /\ pc[t] # "idle" => token[t] # 0 /\ reply[t] = "none"
    /\ reply[t] # "none" => token[t] # 0
    /\ pc[t] = "revocation" => /\ issued[token[t]].kind = "capability"
                               /\ looked[t] < issued[token[t]].exp
    /\ doomed[t] => token[t] \in revoked
    /\ reply[t] = "accepted" => /\ looked[t] < issued[token[t]].exp
                                /\ doomed[t] => issued[token[t]].kind = "identity"
                                /\ first[token[t]] # Never
    /\ reply[t] = "expired" => looked[t] >= issued[token[t]].exp

(* An assertion was first accepted no earlier than its iat, but for the    *)
(* leeway; ids that are not given yet were never accepted.                 *)
FirstOK ==
    \A i \in Ids : first[i] # Never =>
        /\ i <= Len(issued)
        /\ issued[i].kind = "identity" => issued[i].iat <= first[i] + Leeway

StoreOK ==
    /\ RevocationLeavesTrace
    /\ \A t \in Threads : pc[t] = "journal" => token[t] \in revoked

Inv == TypeInv /\ (\A t \in Threads : ThreadOK(t)) /\ FirstOK /\ StoreOK

----------------------------------------------------------------------------
(* Seconds *)

(* Cutting to seconds takes away less than a second.                       *)
LEMMA CutBound ==
    ASSUME NEW x \in Int
    PROVE  /\ ToSeconds(x) \in Int
           /\ ToSeconds(x) <= x /\ x - Second < ToSeconds(x)
<1>1. Second \in Int /\ Second > 0
  BY ClockAssumption
<1>2. /\ (x \div Second) \in Int /\ (x % Second) \in 0..(Second - 1)
      /\ x = Second * (x \div Second) + (x % Second)
  BY <1>1
<1> QED BY <1>1, <1>2 DEF ToSeconds
(* A token's timestamps are integers. *)
LEMMA NewToken ==
    ASSUME NEW kind \in {"capability", "identity"}, NEW sub \in Agents,
           NEW aud \in Audiences, NEW key \in Secrets, NEW skew \in Skews,
           NEW life \in Lives, now \in Nat
    PROVE  Token(kind, sub, aud, key, skew, life) \in Tokens
<1>1. /\ now + skew \in Int /\ now + skew + life \in Int /\ life \in Nat
  BY ClockAssumption
<1>2. /\ ToSeconds(now + skew) \in Int /\ ToSeconds(now + skew + life) \in Int
  BY <1>1, CutBound
<1> QED BY <1>1, <1>2 DEF Token, Tokens

(* What the cut leaves of the times meant for a token. *)
LEMMA TokenTimes ==
    ASSUME NEW c \in Tokens
    PROVE  /\ c.born \in Int /\ c.life \in Int /\ c.exp \in Int /\ c.iat \in Int
           /\ c.exp <= c.born + c.life /\ c.born + c.life - Second < c.exp
           /\ c.born - Second < c.iat
<1>1. /\ c.born \in Int /\ c.life \in Int /\ c.born + c.life \in Int
      /\ c.iat = ToSeconds(c.born) /\ c.exp = ToSeconds(c.born + c.life)
  BY DEF Tokens
<1>2. /\ ToSeconds(c.born) \in Int /\ c.born - Second < ToSeconds(c.born)
  BY <1>1, CutBound
<1> DEFINE end == c.born + c.life
<1>3. end \in Int /\ c.exp = ToSeconds(end)
  BY <1>1
<1> HIDE DEF end
<1>4. ToSeconds(end) \in Int /\ ToSeconds(end) <= end /\ end - Second < ToSeconds(end)
  BY <1>3, CutBound
<1>5. c.exp \in Int /\ c.exp <= end /\ end - Second < c.exp /\ Second \in Int
  BY <1>3, <1>4, ClockAssumption
<1>6. c.exp \in Int /\ c.exp <= c.born + c.life /\ c.born + c.life - Second < c.exp
  BY <1>1, <1>5 DEF end
<1> QED BY <1>1, <1>2, <1>6

----------------------------------------------------------------------------
(* Initial states, time and new tokens *)

LEMMA InitInv == Init => Inv
<1> SUFFICES ASSUME Init PROVE Inv
  OBVIOUS
<1>1. issued = <<>> /\ issued \in Seq(Tokens) /\ Len(issued) = 0
  BY EmptySeq, LenProperties DEF Init
<1>2. TypeInv
  BY <1>1, ClockAssumption DEF Init, TypeInv, Steps, Replies, Never
<1>3. ASSUME NEW t \in Threads PROVE ThreadOK(t)
  <2>1. /\ pc[t] = "idle" /\ token[t] = 0 /\ reply[t] = "none" /\ ~doomed[t]
        /\ Len(issued) = 0
    BY <1>1 DEF Init
  <2> QED BY <2>1 DEF ThreadOK
<1>4. FirstOK /\ StoreOK
  BY DEF Init, FirstOK, StoreOK, RevocationLeavesTrace
<1> QED BY <1>2, <1>3, <1>4 DEF Inv

LEMMA TickOK == Inv /\ Tick => Inv'
<1> SUFFICES ASSUME Inv, Tick PROVE Inv'
  OBVIOUS
<1> USE DEF Inv, Tick, store, calls
<1>1. TypeInv'
  BY DEF TypeInv
<1>2. \A t \in Threads : ThreadOK(t)'
  BY DEF ThreadOK
<1>3. FirstOK' /\ StoreOK'
  BY DEF FirstOK, StoreOK, RevocationLeavesTrace
<1> QED BY <1>1, <1>2, <1>3

LEMMA IssueOK == Inv /\ Issue => Inv'
<1> SUFFICES ASSUME Inv, Issue PROVE Inv'
  OBVIOUS
<1>1. PICK c \in Tokens : issued' = Append(issued, c)
  BY NewToken DEF Issue, Inv, TypeInv
<1>2. /\ issued \in Seq(Tokens) /\ Len(issued) \in Nat /\ Len(issued) < MaxTokens
      /\ UNCHANGED <<now, secret, store, calls, first, restarts>>
  BY LenProperties DEF Issue, Inv, TypeInv
<1>3. /\ issued' \in Seq(Tokens) /\ Len(issued') = Len(issued) + 1
      /\ \A i \in 1..Len(issued) : issued'[i] = issued[i]
  BY <1>1, <1>2, AppendProperties
<1>4. TypeInv'
  BY <1>2, <1>3, ClockAssumption DEF Inv, TypeInv, calls
<1>5. ASSUME NEW t \in Threads PROVE ThreadOK(t)'
  <2>1. ThreadOK(t) /\ token[t] \in Nat
    BY DEF Inv, TypeInv
  <2>2. token[t] # 0 => token[t] \in 1..Len(issued) /\ issued'[token[t]] = issued[token[t]]
    BY <1>2, <1>3, <2>1 DEF ThreadOK
  <2> QED BY <1>2, <1>3, <2>1, <2>2 DEF ThreadOK, calls, store
<1>6. FirstOK'
  BY <1>2, <1>3 DEF Inv, FirstOK, Ids
<1>7. StoreOK'
  BY <1>2 DEF Inv, StoreOK, RevocationLeavesTrace, store, calls
<1> QED BY <1>4, <1>5, <1>6, <1>7 DEF Inv

LEMMA RestartOK == ASSUME Inv, NEW new \in Secrets, Restart(new) PROVE Inv'
<1> USE DEF Inv, Restart, Survives
<1>1. TypeInv'
  BY DEF TypeInv, Steps, Replies
<1>2. \A t \in Threads : ThreadOK(t)'
  BY DEF ThreadOK, TypeInv
<1>3. FirstOK'
  BY DEF FirstOK
<1>4. StoreOK'
  BY DEF StoreOK, RevocationLeavesTrace
<1> QED BY <1>1, <1>2, <1>3, <1>4
----------------------------------------------------------------------------
(* The steps of one thread *)

(* What a step of another thread leaves alone, and what it may extend.     *)
LEMMA BystanderOK ==
    ASSUME Inv, NEW u \in Threads, issued' = issued, revoked \subseteq revoked',
           \A i \in Ids : first[i] # Never => first'[i] # Never,
           pc'[u] = pc[u], token'[u] = token[u], reply'[u] = reply[u],
           looked'[u] = looked[u], doomed'[u] = doomed[u]
    PROVE  ThreadOK(u)'
<1>1. ThreadOK(u) /\ token[u] \in Nat /\ Len(issued) <= MaxTokens /\ Len(issued) \in Nat
  BY LenProperties DEF Inv, TypeInv
<1>2. token[u] # 0 => token[u] \in Ids
  BY <1>1, ClockAssumption DEF ThreadOK, Ids
<1> QED BY <1>1, <1>2 DEF ThreadOK

(* The token that a running call holds is one that was issued. *)
LEMMA HeldToken ==
    ASSUME Inv, NEW t \in Threads, token[t] # 0
    PROVE  /\ token[t] \in 1..Len(issued) /\ token[t] \in Ids /\ token[t] \in DOMAIN issued
           /\ issued[token[t]] \in Tokens /\ token[t] <= Len(issued)
<1>1. ThreadOK(t) /\ token[t] \in Nat /\ Len(issued) \in Nat /\ Len(issued) <= MaxTokens
      /\ issued \in Seq(Tokens)
  BY LenProperties DEF Inv, TypeInv
<1>2. token[t] \in 1..Len(issued)
  BY <1>1 DEF ThreadOK
<1> QED BY <1>1, <1>2, ElementOfSeq, ClockAssumption DEF Ids

(* An answer fills in when its token was first accepted. *)
LEMMA AnswerFirst ==
    ASSUME Inv, NEW t \in Threads, token[t] # 0, NEW v \in Replies, Answer(t, v),
           issued' = issued, looked'[t] \in Nat,
           v = "accepted" /\ issued[token[t]].kind = "identity" =>
               issued[token[t]].iat <= looked'[t] + Leeway
    PROVE  /\ first' \in [Ids -> Int] /\ FirstOK'
           /\ \A i \in Ids : first[i] # Never => first'[i] # Never
           /\ v = "accepted" => first'[token[t]] # Never
<1>1. token[t] \in Ids /\ token[t] <= Len(issued) /\ first \in [Ids -> Int]
  BY HeldToken DEF Inv, TypeInv
<1>2. looked'[t] # Never
  BY DEF Never
<1>3. CASE v = "accepted" /\ first[token[t]] = Never
  <2>1. first' = [first EXCEPT ![token[t]] = looked'[t]]
    BY <1>3 DEF Answer
  <2>2. FirstOK'
    BY <1>1, <1>2, <1>3, <2>1 DEF FirstOK, Inv
  <2> QED BY <1>1, <1>2, <1>3, <2>1, <2>2
<1>4. CASE ~(v = "accepted" /\ first[token[t]] = Never)
  <2>1. first' = first
    BY <1>4 DEF Answer
  <2> QED BY <1>1, <1>4, <2>1 DEF FirstOK, Inv
<1> QED BY <1>3, <1>4

(* A step that touches no store, and no thread's turn at the journal.      *)
LEMMA StoreStays ==
    ASSUME Inv, UNCHANGED <<store, token>>,
           \A t \in Threads : pc[t] = "journal" <=> pc'[t] = "journal"
    PROVE  StoreOK'
BY DEF Inv, StoreOK, RevocationLeavesTrace, store

(* A call starts. *)
LEMMA StartOK ==
    ASSUME Inv, NEW t \in Threads, NEW i \in Ids, NEW step \in {"check", "revoke"},
           Start(t, i, step)
    PROVE  Inv'
<1>1. /\ i \in Nat /\ i # 0 /\ i \in 1..Len(issued) /\ Len(issued) \in Nat
  BY ClockAssumption, LenProperties DEF Start, Ids, Inv, TypeInv
<1>2. TypeInv'
  BY <1>1 DEF Start, Inv, TypeInv, Steps, Replies, store
<1>3. ThreadOK(t)'
  <2>1. /\ pc'[t] \in {"check", "revoke"} /\ token'[t] = i /\ reply'[t] = "none"
        /\ UNCHANGED <<issued, revoked>>
    BY DEF Start, Inv, TypeInv, store
  <2>2. doomed'[t] => i \in revoked
    BY DEF Start, Inv, TypeInv, StoreOK, RevocationLeavesTrace
  <2>3. token'[t] \in 0..Len(issued') /\ token'[t] # 0
    BY <1>1, <2>1
  <2>4. doomed'[t] => token'[t] \in revoked'
    BY <2>1, <2>2
  <2> QED BY <2>1, <2>3, <2>4 DEF ThreadOK
<1>4. ASSUME NEW u \in Threads, u # t PROVE ThreadOK(u)'
  BY <1>4, BystanderOK DEF Start, Inv, TypeInv, store
<1>5. FirstOK'
  BY DEF Start, Inv, FirstOK
<1>6. StoreOK'
  <2>1. /\ pc[t] = "idle" /\ pc'[t] # "journal"
        /\ \A u \in Threads \ {t} : pc'[u] = pc[u]
        /\ \A u \in Threads \ {t} : token'[u] = token[u]
    BY DEF Start, Inv, TypeInv
  <2>2. UNCHANGED <<revoked, journal, torn>> /\ StoreOK
    BY DEF Start, Inv, store
  <2>3. ASSUME NEW u \in Threads, pc[u] = "journal"
        PROVE  pc'[u] = "journal" /\ token'[u] = token[u]
    BY <2>1, <2>3
  <2>4. RevocationLeavesTrace'
    BY <2>2, <2>3 DEF StoreOK, RevocationLeavesTrace
  <2>5. \A u \in Threads : pc'[u] = "journal" => token'[u] \in revoked'
    BY <2>1, <2>2 DEF StoreOK
  <2> QED BY <2>4, <2>5 DEF StoreOK
<1> QED BY <1>2, <1>3, <1>4, <1>5, <1>6 DEF Inv

(* WorkloadIdentity.verify: what is accepted has begun and has not ended.  *)
LEMMA CheckIdentityOK ==
    ASSUME Inv, NEW t \in Threads, CheckIdentity(t)
    PROVE  Inv'
<1> DEFINE c == issued[token[t]]
<1>1. PICK agent \in Agents : Answer(t, IdentityVerdict(c, agent))
  BY DEF CheckIdentity
<1> DEFINE v == IdentityVerdict(c, agent)
<1>2. /\ pc[t] = "check" /\ c.kind = "identity" /\ looked' = [looked EXCEPT ![t] = now]
      /\ UNCHANGED <<now, issued, secret, store, token, doomed, restarts>>
      /\ token[t] # 0 /\ now \in Nat /\ looked'[t] = now
  BY DEF CheckIdentity, Inv, TypeInv, ThreadOK
<1>3. /\ v \in Replies
      /\ v = "accepted" => c.exp > now /\ c.iat <= now + Leeway
      /\ v = "expired" => c.exp <= now
      /\ c.iat \in Int /\ c.exp \in Int
  BY <1>2, HeldToken, ClockAssumption DEF IdentityVerdict, Expired, Replies, Tokens
<1>4. /\ first' \in [Ids -> Int] /\ FirstOK'
      /\ \A i \in Ids : first[i] # Never => first'[i] # Never
      /\ v = "accepted" => first'[token[t]] # Never
  BY <1>1, <1>2, <1>3, AnswerFirst
<1>5. /\ reply' = [reply EXCEPT ![t] = v] /\ pc' = [pc EXCEPT ![t] = "idle"]
  BY <1>1 DEF Answer
<1>6. TypeInv'
  BY <1>2, <1>3, <1>4, <1>5 DEF Inv, TypeInv, Steps
<1>7. ThreadOK(t)'
  BY <1>2, <1>3, <1>4, <1>5 DEF Inv, TypeInv, ThreadOK, store
<1>8. ASSUME NEW u \in Threads, u # t PROVE ThreadOK(u)'
  BY <1>2, <1>4, <1>5, <1>8, BystanderOK DEF Inv, TypeInv, store
<1>9. StoreOK'
  BY <1>2, <1>5, StoreStays DEF Inv, TypeInv
<1> QED BY <1>4, <1>6, <1>7, <1>8, <1>9 DEF Inv

(* CapabilityIssuer.verify, up to the revocation. *)
LEMMA CheckCapabilityOK ==
    ASSUME Inv, NEW t \in Threads, CheckCapability(t)
    PROVE  Inv'
<1> DEFINE c == issued[token[t]]
<1> DEFINE v == CapabilityVerdict(c)
<1>1. /\ pc[t] = "check" /\ c.kind = "capability" /\ looked' = [looked EXCEPT ![t] = now]
      /\ UNCHANGED <<now, issued, secret, store, token, doomed, restarts>>
      /\ token[t] # 0 /\ now \in Nat /\ looked'[t] = now /\ reply[t] = "none"
  BY DEF CheckCapability, Inv, TypeInv, ThreadOK
<1>2. /\ v \in {"refused", "expired", "valid"}
      /\ v = "valid" => c.exp > now
      /\ v = "expired" => c.exp <= now
  BY <1>1, HeldToken DEF CapabilityVerdict, Expired, Tokens
<1>3. CASE v = "valid"
  <2>1. pc' = [pc EXCEPT ![t] = "revocation"] /\ UNCHANGED <<reply, first>>
    BY <1>3 DEF CheckCapability
  <2>2. TypeInv'
    BY <1>1, <2>1 DEF Inv, TypeInv, Steps
  <2>3. ThreadOK(t)'
    BY <1>1, <1>2, <1>3, <2>1, HeldToken DEF Inv, TypeInv, ThreadOK, store, Tokens
  <2>4. ASSUME NEW u \in Threads, u # t PROVE ThreadOK(u)'
    BY <1>1, <2>1, <2>4, BystanderOK DEF Inv, TypeInv, store
  <2>5. FirstOK'
    BY <1>1, <2>1 DEF Inv, FirstOK
  <2>6. StoreOK'
    BY <1>1, <2>1, StoreStays DEF Inv, TypeInv
  <2> QED BY <2>2, <2>3, <2>4, <2>5, <2>6 DEF Inv
<1>4. CASE v # "valid"
  <2>1. Answer(t, v) /\ v \in {"refused", "expired"} /\ v \in Replies
    BY <1>2, <1>4 DEF CheckCapability, Replies
  <2>2. /\ first' \in [Ids -> Int] /\ FirstOK'
        /\ \A i \in Ids : first[i] # Never => first'[i] # Never
    BY <1>1, <2>1, AnswerFirst
  <2>3. /\ reply' = [reply EXCEPT ![t] = v] /\ pc' = [pc EXCEPT ![t] = "idle"]
    BY <2>1 DEF Answer
  <2>4. TypeInv'
    BY <1>1, <2>1, <2>2, <2>3 DEF Inv, TypeInv, Steps
  <2>5. ThreadOK(t)'
    BY <1>1, <1>2, <2>1, <2>3, HeldToken DEF Inv, TypeInv, ThreadOK, store, Tokens
  <2>6. ASSUME NEW u \in Threads, u # t PROVE ThreadOK(u)'
    BY <1>1, <2>2, <2>3, <2>6, BystanderOK DEF Inv, TypeInv, store
  <2>7. StoreOK'
    BY <1>1, <2>3, StoreStays DEF Inv, TypeInv
  <2> QED BY <2>2, <2>4, <2>5, <2>6, <2>7 DEF Inv
<1> QED BY <1>3, <1>4
(* is_revoked: a token that was revoked when the call began still is.      *)
LEMMA CheckRevocationOK ==
    ASSUME Inv, NEW t \in Threads, CheckRevocation(t)
    PROVE  Inv'
<1> DEFINE c == issued[token[t]]
<1>1. PICK agent \in Agents : Answer(t, IF token[t] \in revoked THEN "refused"
                                        ELSE IF c.sub # agent THEN "refused"
                                        ELSE "accepted")
  BY DEF CheckRevocation
<1> DEFINE v == IF token[t] \in revoked THEN "refused"
                ELSE IF c.sub # agent THEN "refused" ELSE "accepted"
<1>2. /\ pc[t] = "revocation" /\ c.kind = "capability" /\ looked[t] < c.exp
      /\ UNCHANGED <<now, issued, secret, store, token, doomed, restarts, looked>>
      /\ token[t] # 0 /\ looked[t] \in Nat /\ looked' = looked
      /\ doomed[t] => token[t] \in revoked
  BY DEF CheckRevocation, Inv, TypeInv, ThreadOK
<1>3. /\ v \in {"refused", "accepted"} /\ v \in Replies
      /\ v = "accepted" => token[t] \notin revoked
  BY DEF Replies
<1>4. /\ first' \in [Ids -> Int] /\ FirstOK'
      /\ \A i \in Ids : first[i] # Never => first'[i] # Never
      /\ v = "accepted" => first'[token[t]] # Never
  BY <1>1, <1>2, <1>3, AnswerFirst
<1>5. /\ reply' = [reply EXCEPT ![t] = v] /\ pc' = [pc EXCEPT ![t] = "idle"]
  BY <1>1 DEF Answer
<1>6. TypeInv'
  BY <1>2, <1>3, <1>4, <1>5 DEF Inv, TypeInv, Steps
<1>7. ThreadOK(t)'
  <2>1. /\ pc'[t] = "idle" /\ reply'[t] = v /\ UNCHANGED <<revoked, issued>>
        /\ token'[t] = token[t] /\ doomed'[t] = doomed[t] /\ looked'[t] = looked[t]
        /\ token[t] \in 0..Len(issued)
    BY <1>2, <1>5 DEF Inv, TypeInv, ThreadOK, store
  <2> QED BY <1>2, <1>3, <1>4, <2>1 DEF ThreadOK
<1>8. ASSUME NEW u \in Threads, u # t PROVE ThreadOK(u)'
  BY <1>2, <1>4, <1>5, <1>8, BystanderOK DEF Inv, TypeInv, store
<1>9. StoreOK'
  BY <1>2, <1>5, StoreStays DEF Inv, TypeInv
<1> QED BY <1>4, <1>6, <1>7, <1>8, <1>9 DEF Inv

(* A plain answer to a call whose token has been judged. *)
LEMMA PlainAnswer ==
    ASSUME Inv, NEW t \in Threads, pc[t] # "idle", issued' = issued, now' = now,
           NEW v \in {"refused", "revocation_done"}, Answer(t, v),
           revoked \subseteq revoked', UNCHANGED <<token, looked, doomed>>
    PROVE  TypeInv' /\ FirstOK' /\ (\A u \in Threads : ThreadOK(u)')
<1>1. /\ first' = first /\ reply' = [reply EXCEPT ![t] = v]
      /\ pc' = [pc EXCEPT ![t] = "idle"]
  BY DEF Answer
<1>2. TypeInv' /\ FirstOK'
  BY <1>1 DEF Inv, TypeInv, FirstOK, Steps, Replies
<1>3. ThreadOK(t)'
  <2>1. /\ pc'[t] = "idle" /\ reply'[t] = v /\ ThreadOK(t)
        /\ v # "none" /\ v # "accepted" /\ v # "expired"
    BY <1>1 DEF Inv, TypeInv
  <2> QED BY <2>1 DEF ThreadOK
<1>4. ASSUME NEW u \in Threads, u # t PROVE ThreadOK(u)'
  BY <1>1, <1>4, BystanderOK DEF Inv, TypeInv
<1> QED BY <1>2, <1>3, <1>4

(* revoke: the verification. *)
LEMMA VerifyForRevokeOK ==
    ASSUME Inv, NEW t \in Threads, NEW raw \in BOOLEAN, VerifyForRevoke(t, raw)
    PROVE  Inv'
<1>1. /\ pc[t] = "revoke" /\ UNCHANGED <<now, issued, store, token, looked, doomed>>
  BY DEF VerifyForRevoke
<1>2. CASE Answer(t, "refused")
  <2>1. pc' = [pc EXCEPT ![t] = "idle"]
    BY <1>2 DEF Answer
  <2> QED BY <1>1, <1>2, <2>1, PlainAnswer, StoreStays DEF Inv, TypeInv, store
<1>3. CASE pc' = [pc EXCEPT ![t] = "insert"] /\ UNCHANGED <<reply, first>>
  <2>1. TypeInv' /\ FirstOK'
    BY <1>1, <1>3 DEF Inv, TypeInv, FirstOK, Steps
  <2>2. ThreadOK(t)'
    <3>1. pc'[t] = "insert" /\ ThreadOK(t)
      BY <1>3 DEF Inv, TypeInv
    <3> QED BY <1>1, <1>3, <3>1 DEF ThreadOK, store
  <2>3. ASSUME NEW u \in Threads, u # t PROVE ThreadOK(u)'
    BY <1>1, <1>3, <2>3, BystanderOK DEF Inv, TypeInv, store
  <2>4. StoreOK'
    BY <1>1, <1>3, StoreStays DEF Inv, TypeInv
  <2> QED BY <2>1, <2>2, <2>3, <2>4 DEF Inv
<1> QED BY <1>2, <1>3 DEF VerifyForRevoke, AfterVerify

(* revoke: the durable insert. *)
LEMMA InsertRevocationOK ==
    ASSUME Inv, NEW t \in Threads, InsertRevocation(t)
    PROVE  Inv'
<1>1. /\ pc[t] = "insert" /\ pc' = [pc EXCEPT ![t] = "journal"]
      /\ revoked' = revoked \cup {token[t]}
      /\ UNCHANGED <<now, issued, journal, torn, token, reply, looked, doomed, first>>
  BY DEF InsertRevocation
<1>2. TypeInv' /\ FirstOK'
  BY <1>1 DEF Inv, TypeInv, FirstOK, Steps
<1>3. ThreadOK(t)'
  <2>1. pc'[t] = "journal" /\ ThreadOK(t)
    BY <1>1 DEF Inv, TypeInv
  <2> QED BY <1>1, <2>1 DEF ThreadOK
<1>4. ASSUME NEW u \in Threads, u # t PROVE ThreadOK(u)'
  BY <1>1, <1>4, BystanderOK DEF Inv, TypeInv
<1>5. StoreOK'
  <2>1. pc'[t] = "journal" /\ \A u \in Threads \ {t} : pc'[u] = pc[u]
    BY <1>1 DEF Inv, TypeInv
  <2>2. RevocationLeavesTrace'
    BY <1>1, <2>1 DEF Inv, StoreOK, RevocationLeavesTrace
  <2>3. \A u \in Threads : pc'[u] = "journal" => token'[u] \in revoked'
    BY <1>1, <2>1 DEF Inv, StoreOK
  <2> QED BY <2>2, <2>3 DEF StoreOK
<1> QED BY <1>2, <1>3, <1>4, <1>5 DEF Inv
(* revoke: the audit event. *)
LEMMA JournalRevocationOK ==
    ASSUME Inv, NEW t \in Threads, JournalRevocation(t)
    PROVE  Inv'
<1>1. /\ pc[t] = "journal" /\ journal' = journal \cup {token[t]}
      /\ Answer(t, "revocation_done") /\ pc' = [pc EXCEPT ![t] = "idle"]
      /\ UNCHANGED <<now, issued, revoked, torn, token, looked, doomed>>
  BY DEF JournalRevocation, Answer
<1>2. TypeInv' /\ FirstOK' /\ (\A u \in Threads : ThreadOK(u)')
  BY <1>1, PlainAnswer
<1>3. \A u \in Threads \ {t} : pc'[u] = pc[u]
  BY <1>1 DEF Inv, TypeInv
<1>4. RevocationLeavesTrace'
  BY <1>1, <1>3 DEF Inv, StoreOK, RevocationLeavesTrace
<1>5. \A u \in Threads : pc'[u] = "journal" => token'[u] \in revoked'
  BY <1>1, <1>3 DEF Inv, TypeInv, StoreOK
<1> QED BY <1>2, <1>4, <1>5 DEF Inv, StoreOK

(* A failure of the store or of the journal. *)
LEMMA RaiseOK ==
    ASSUME Inv, NEW t \in Threads, Raise(t)
    PROVE  Inv'
<1>1. /\ pc[t] \in {"revocation", "insert", "journal"}
      /\ torn' = IF pc[t] = "journal" THEN torn \cup {token[t]} ELSE torn
      /\ Answer(t, "refused") /\ pc' = [pc EXCEPT ![t] = "idle"]
      /\ UNCHANGED <<now, issued, revoked, journal, token, looked, doomed>>
  BY DEF Raise, Answer
<1>2. TypeInv' /\ FirstOK' /\ (\A u \in Threads : ThreadOK(u)')
  BY <1>1, PlainAnswer
<1>3. \A u \in Threads \ {t} : pc'[u] = pc[u]
  BY <1>1 DEF Inv, TypeInv
<1>4. RevocationLeavesTrace'
  BY <1>1, <1>3 DEF Inv, StoreOK, RevocationLeavesTrace
<1>5. \A u \in Threads : pc'[u] = "journal" => token'[u] \in revoked'
  BY <1>1, <1>3 DEF Inv, TypeInv, StoreOK
<1> QED BY <1>2, <1>4, <1>5 DEF Inv, StoreOK

----------------------------------------------------------------------------
(* Theorems *)

LEMMA StepInv == Inv /\ [Next]_vars => Inv'
<1> SUFFICES ASSUME Inv, [Next]_vars PROVE Inv'
  OBVIOUS
<1>1. CASE UNCHANGED vars
  <2>1. TypeInv' /\ FirstOK'
    BY <1>1 DEF vars, Inv, TypeInv, FirstOK
  <2>2. \A t \in Threads : ThreadOK(t)'
    BY <1>1, BystanderOK DEF vars, Inv
  <2>3. StoreOK'
    BY <1>1, StoreStays DEF vars, store
  <2> QED BY <2>1, <2>2, <2>3 DEF Inv
<1>2. CASE Tick \/ Issue \/ \E new \in Secrets : Restart(new)
  BY <1>2, TickOK, IssueOK, RestartOK
<1>3. ASSUME NEW t \in Threads, NEW i \in Ids, NEW step \in {"check", "revoke"},
             Start(t, i, step)
      PROVE  Inv'
  BY <1>3, StartOK
<1>4. ASSUME NEW t \in Threads, Step(t) PROVE Inv'
  BY <1>4, CheckIdentityOK, CheckCapabilityOK, CheckRevocationOK, VerifyForRevokeOK,
     InsertRevocationOK, JournalRevocationOK, RaiseOK DEF Step
<1> QED BY <1>1, <1>2, <1>3, <1>4 DEF Next

(* The strengthened invariant holds throughout. *)
THEOREM CredentialsInv == Spec => []Inv
BY InitInv, StepInv, PTL DEF Spec

(* No check that starts after a revocation accepts the token, across       *)
(* restarts and changes of the secret.                                     *)
THEOREM RevokedIsRefused == Spec => []RevokedNeverAccepted
<1>1. Inv => RevokedNeverAccepted
  BY DEF Inv, ThreadOK, RevokedNeverAccepted
<1> QED BY <1>1, CredentialsInv, PTL

(* Audit events follow their revocations, and only a failure separates a   *)
(* revocation from its event for good.                                     *)
THEOREM RevocationIsTraced == Spec => []RevocationLeavesTrace
<1>1. Inv => RevocationLeavesTrace
  BY DEF Inv, StoreOK
<1> QED BY <1>1, CredentialsInv, PTL

(* The cut to seconds never lengthens a ttl and shortens it by less than a *)
(* second.                                                                 *)
THEOREM ExpiryIsExact == Spec => []ExpiryIsOnTime
<1>1. ASSUME Inv, NEW t \in Threads, token[t] # 0
      PROVE  /\ reply[t] = "accepted" =>
                   looked[t] < issued[token[t]].born + issued[token[t]].life
             /\ reply[t] = "expired" =>
                   looked[t] > issued[token[t]].born + issued[token[t]].life - Second
             /\ issued[token[t]].born \in Int /\ issued[token[t]].life \in Int
             /\ Second \in Int /\ looked[t] \in Int
  <2> DEFINE c == issued[token[t]]
  <2>1. /\ c \in Tokens /\ looked[t] \in Nat
        /\ reply[t] = "accepted" => looked[t] < c.exp
        /\ reply[t] = "expired" => looked[t] >= c.exp
    BY <1>1, HeldToken DEF Inv, TypeInv, ThreadOK
  <2> HIDE DEF c
  <2>2. /\ c.born \in Int /\ c.life \in Int /\ c.exp \in Int /\ Second \in Int
        /\ c.exp <= c.born + c.life /\ c.born + c.life - Second < c.exp
    BY <2>1, TokenTimes, ClockAssumption
  <2>3. /\ reply[t] = "accepted" => looked[t] < c.born + c.life
        /\ reply[t] = "expired" => looked[t] > c.born + c.life - Second
    BY <2>1, <2>2
  <2> QED BY <2>1, <2>2, <2>3 DEF c
<1>2. Inv => ExpiryIsOnTime
  BY <1>1 DEF ExpiryIsOnTime
<1> QED BY <1>2, CredentialsInv, PTL

(* However wrong the clock of its issuer, an assertion of identity can be  *)
(* presented for no longer than its ttl, the leeway and a second.          *)
THEOREM WindowBound == Spec => []WindowIsBounded
<1>1. ASSUME Inv, NEW t \in Threads, reply[t] = "accepted"
      PROVE  LET c == issued[token[t]] IN
             IF c.kind = "identity"
             THEN looked[t] - first[token[t]] < c.life + Leeway + Second
             ELSE looked[t] < c.born + c.life
  <2> DEFINE c == issued[token[t]]
  <2>1. /\ looked[t] \in Nat /\ looked[t] < c.exp /\ token[t] # 0 /\ first[token[t]] # Never
    BY <1>1 DEF Inv, TypeInv, ThreadOK
  <2>2. c \in Tokens /\ token[t] \in Ids /\ first[token[t]] \in Int
    BY <1>1, <2>1, HeldToken DEF Inv, TypeInv
  <2>3. c.kind = "identity" => c.iat <= first[token[t]] + Leeway
    BY <1>1, <2>1, <2>2 DEF Inv, FirstOK
  <2> HIDE DEF c
  <2>4. /\ c.born \in Int /\ c.life \in Int /\ c.exp \in Int /\ c.iat \in Int
        /\ c.exp <= c.born + c.life /\ c.born - Second < c.iat
        /\ Second \in Int /\ Leeway \in Int
    BY <2>2, TokenTimes, ClockAssumption
  <2>5. /\ c.kind = "identity" => looked[t] - first[token[t]] < c.life + Leeway + Second
        /\ looked[t] < c.born + c.life
    BY <2>1, <2>2, <2>3, <2>4
  <2> QED BY <2>5 DEF c
<1>2. Inv => WindowIsBounded
  BY <1>1 DEF WindowIsBounded
<1> QED BY <1>2, CredentialsInv, PTL

=============================================================================
