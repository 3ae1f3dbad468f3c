--------------------------- MODULE MCPClientProofs ---------------------------
(***************************************************************************)
(* Proofs about MCPClient for every set of threads and of server modes and *)
(* any number of requests: the answers a client accepts are answers to its *)
(* own requests until two allocations of an id overlap, and the cases of   *)
(* the lab hold throughout.                                                *)
(***************************************************************************)
EXTENDS MCPClient, TLAPS

Requests == [method : Methods, serial : Nat, id : Nat]

TypeInv ==
    /\ request_id \in Nat /\ sent \in Nat /\ raced \in BOOLEAN
    /\ pc \in [Threads -> {"idle", "store", "read", "wait", "served"}]
    /\ loaded \in [Threads -> Nat]
    /\ DOMAIN request = Threads /\ request = [t \in Threads |-> request[t]]
    /\ \A t \in Threads : pc[t] # "idle" => request[t] \in Requests
    /\ result = [t \in Threads |-> result[t]]
    /\ \A answer \in wire : answer.id \in Nat

(* One allocation at a time: the thread that has it has the counter to     *)
(* itself, and its id will be one that no request or answer carries.       *)
AllocationOK ==
    /\ \A t, u \in Threads : Allocating(t) /\ Allocating(u) => t = u
    /\ \A t \in Threads :
          /\ pc[t] = "store" => loaded[t] = request_id
          /\ pc[t] = "read" =>
                /\ request_id > 0
                /\ \A u \in Threads : Waiting(u) => request[u].id < request_id
                /\ \A answer \in wire : answer.id < request_id

(* Ids name requests. *)
IdsOK ==
    /\ \A t \in Threads : Waiting(t) => request[t].id <= request_id
    /\ \A answer \in wire : answer.id <= request_id
    /\ \A t, u \in Threads :
          Waiting(t) /\ Waiting(u) /\ request[t].id = request[u].id => t = u
    /\ \A t \in Threads : \A answer \in wire :
          Waiting(t) /\ answer.id = request[t].id => answer.serial = request[t].serial

(* What a call returned is what its method made of the answer it got.      *)
ResultsOK ==
    \A t \in Threads : result[t] # Nothing =>
        /\ result[t].taints = Outcome(request[t], result[t].answer)
        /\ pc[t] = "idle"

Inv == /\ TypeInv /\ ResultsOK
       /\ ~raced => AllocationOK /\ IdsOK /\ OwnAnswerUnlessRaced

----------------------------------------------------------------------------
(* Preservation *)

LEMMA InitInv == Init => Inv
<1> SUFFICES ASSUME Init PROVE Inv
  OBVIOUS
<1>1. TypeInv
  <2>1. request = [t \in Threads |-> request[t]] /\ result = [t \in Threads |-> result[t]]
    BY DEF Init
  <2> QED BY <2>1 DEF Init, TypeInv
<1>2. \A t \in Threads : pc[t] = "idle" /\ result[t] = Nothing
  BY DEF Init
<1>3. ResultsOK /\ OwnAnswerUnlessRaced
  BY <1>2 DEF ResultsOK, OwnAnswerUnlessRaced, Accepted
<1>4. AllocationOK /\ IdsOK
  BY <1>2 DEF Init, AllocationOK, IdsOK, Allocating, Waiting
<1> QED BY <1>1, <1>3, <1>4 DEF Inv

(* An id is allocated: the counter is read. *)
LEMMA LoadOK ==
    ASSUME Inv, NEW t \in Threads, NEW method \in Methods, Load(t, method)
    PROVE  Inv'
<1> USE DEF Inv
<1>1. /\ pc[t] = "idle" /\ pc' = [pc EXCEPT ![t] = "store"] /\ sent' = sent + 1
      /\ request' = [request EXCEPT ![t] = [method |-> method, serial |-> sent', id |-> 0]]
      /\ result' = [result EXCEPT ![t] = Nothing]
      /\ loaded' = [loaded EXCEPT ![t] = request_id]
      /\ UNCHANGED <<request_id, wire>>
  BY DEF Load, Goto
<1>2. /\ raced' \in BOOLEAN
      /\ ~raced' => ~raced /\ \A u \in Threads : ~Allocating(u)
  BY DEF Load, TypeInv
<1>3. TypeInv'
  <2>1. /\ request' = [u \in Threads |-> request'[u]] /\ DOMAIN request' = Threads
        /\ result' = [u \in Threads |-> result'[u]]
    BY <1>1 DEF TypeInv
  <2>2. sent' \in Nat
    BY <1>1 DEF TypeInv
  <2>3. \A u \in Threads : pc'[u] # "idle" => request'[u] \in Requests
    BY <1>1, <2>2 DEF TypeInv, Requests
  <2> QED BY <1>1, <1>2, <2>1, <2>2, <2>3 DEF TypeInv
<1>4. ResultsOK'
  BY <1>1 DEF ResultsOK, TypeInv
<1>5. \A u \in Threads : u # t =>
         /\ pc'[u] = pc[u] /\ request'[u] = request[u] /\ result'[u] = result[u]
  BY <1>1 DEF TypeInv
<1>6. ASSUME ~raced' PROVE AllocationOK'
  BY <1>1, <1>2, <1>5, <1>6 DEF AllocationOK, Allocating, Waiting, TypeInv
<1>7. ASSUME ~raced' PROVE IdsOK'
  BY <1>1, <1>2, <1>5, <1>7 DEF IdsOK, Waiting, TypeInv
<1>8. ASSUME ~raced' PROVE OwnAnswerUnlessRaced'
  BY <1>1, <1>2, <1>5, <1>8 DEF OwnAnswerUnlessRaced, Accepted, TypeInv
<1> QED BY <1>3, <1>4, <1>6, <1>7, <1>8

(* The counter is stored, one up. *)
LEMMA StoreOK ==
    ASSUME Inv, NEW t \in Threads, Store(t)
    PROVE  Inv'
<1> USE DEF Inv
<1>1. /\ pc[t] = "store" /\ pc' = [pc EXCEPT ![t] = "read"]
      /\ request_id' = loaded[t] + 1 /\ request_id' \in Nat
      /\ UNCHANGED <<loaded, request, wire, result, sent, raced>>
  BY DEF Store, Goto, Increment, TypeInv
<1>2. TypeInv'
  BY <1>1 DEF TypeInv
<1>3. ResultsOK'
  BY <1>1 DEF ResultsOK, TypeInv
<1>4. ASSUME ~raced'
      PROVE  /\ request_id' = request_id + 1 /\ request_id \in Nat
             /\ AllocationOK /\ IdsOK /\ OwnAnswerUnlessRaced
             /\ \A u \in Threads : Waiting(u)' <=> Waiting(u)
             /\ \A u \in Threads : Waiting(u) => request[u].id \in Nat
             /\ \A u \in Threads : Allocating(u)' => u = t
             /\ \A u \in Threads : pc'[u] = "store" => u # t /\ Allocating(u)
    BY <1>1, <1>4 DEF AllocationOK, Waiting, Allocating, TypeInv, Requests
<1>5. ASSUME ~raced' PROVE AllocationOK'
  <2>1. ASSUME NEW u \in Threads, pc'[u] = "store" PROVE FALSE
    BY <1>1, <1>4, <1>5, <2>1 DEF AllocationOK, Allocating
  <2>2. \A u \in Threads : Waiting(u)' => request'[u].id < request_id'
    BY <1>1, <1>4, <1>5 DEF IdsOK
  <2>3. \A answer \in wire' : answer.id < request_id'
    BY <1>1, <1>4, <1>5 DEF IdsOK, TypeInv
  <2>4. request_id' > 0
    BY <1>4, <1>5
  <2> QED BY <1>4, <1>5, <2>1, <2>2, <2>3, <2>4 DEF AllocationOK
<1>6. ASSUME ~raced' PROVE IdsOK'
  <2>1. \A u \in Threads : Waiting(u)' => request'[u].id <= request_id'
    BY <1>1, <1>4, <1>6 DEF IdsOK
  <2>2. \A answer \in wire' : answer.id <= request_id'
    BY <1>1, <1>4, <1>6 DEF IdsOK, TypeInv
  <2> QED BY <1>1, <1>4, <1>6, <2>1, <2>2 DEF IdsOK
<1>7. ASSUME ~raced' PROVE OwnAnswerUnlessRaced'
  BY <1>1, <1>4, <1>7 DEF OwnAnswerUnlessRaced, Accepted
<1> QED BY <1>2, <1>3, <1>5, <1>6, <1>7

(* The counter is read for the request's id: no other carries it.          *)
LEMMA ReadIdOK ==
    ASSUME Inv, NEW t \in Threads, ReadId(t)
    PROVE  Inv'
<1> USE DEF Inv
<1>1. /\ pc[t] = "read" /\ pc' = [pc EXCEPT ![t] = "wait"]
      /\ request' = [request EXCEPT ![t].id = request_id]
      /\ loaded' = [loaded EXCEPT ![t] = 0] /\ request[t] \in Requests
      /\ UNCHANGED <<request_id, wire, result, sent, raced>>
  BY DEF ReadId, Goto, TypeInv
<1>2. /\ request'[t] = [request[t] EXCEPT !.id = request_id]
      /\ \A u \in Threads \ {t} : request'[u] = request[u] /\ pc'[u] = pc[u]
                                  /\ loaded'[u] = loaded[u]
      /\ pc'[t] = "wait"
  BY <1>1 DEF TypeInv
<1>3. request'[t] \in Requests /\ request'[t].id = request_id
      /\ request'[t].serial = request[t].serial
  BY <1>1, <1>2 DEF Requests, TypeInv
<1>4. TypeInv'
  BY <1>1, <1>2, <1>3 DEF TypeInv
<1>5. ResultsOK'
  <2>1. result[t] = Nothing
    BY <1>1 DEF ResultsOK
  <2> QED BY <1>1, <1>2, <2>1 DEF ResultsOK
<1>6. ASSUME ~raced' PROVE AllocationOK'
  <2>1. AllocationOK /\ Allocating(t)
    BY <1>1, <1>6 DEF Allocating
  <2>2. \A u \in Threads : ~Allocating(u)'
    BY <1>2, <2>1 DEF AllocationOK, Allocating
  <2> QED BY <2>2 DEF AllocationOK, Allocating
<1>7. ASSUME ~raced' PROVE IdsOK'
  <2>1. /\ \A u \in Threads : Waiting(u) => request[u].id < request_id
        /\ \A answer \in wire : answer.id < request_id
        /\ IdsOK /\ request_id \in Nat
        /\ \A u \in Threads : Waiting(u) => request[u].id \in Nat
        /\ \A answer \in wire : answer.id \in Nat
    BY <1>1, <1>7 DEF AllocationOK, TypeInv, Waiting, Requests
  <2>2. /\ \A u \in Threads \ {t} : Waiting(u)' <=> Waiting(u)
        /\ Waiting(t)'
    BY <1>2 DEF Waiting
  <2>0. \A u \in Threads \ {t} : Waiting(u)' => request'[u].id # request_id
    BY <1>2, <2>1, <2>2
  <2>3. \A u \in Threads : Waiting(u)' => request'[u].id <= request_id'
    BY <1>1, <1>2, <1>3, <2>1, <2>2
  <2>4. \A answer \in wire' : answer.id <= request_id'
    BY <1>1, <2>1
  <2>5. \A u, v \in Threads : Waiting(u)' /\ Waiting(v)' /\ request'[u].id = request'[v].id
                                 => u = v
    <3> TAKE u, v \in Threads
    <3> HAVE Waiting(u)' /\ Waiting(v)' /\ request'[u].id = request'[v].id
    <3>1. CASE u # t /\ v # t
      BY <1>2, <2>1, <2>2, <3>1 DEF IdsOK
    <3>2. CASE u = t /\ v # t
      BY <1>3, <2>0, <3>2
    <3>3. CASE u # t /\ v = t
      BY <1>3, <2>0, <3>3
    <3> QED BY <3>1, <3>2, <3>3
  <2>6. \A u \in Threads : \A answer \in wire' :
           Waiting(u)' /\ answer.id = request'[u].id => answer.serial = request'[u].serial
    BY <1>1, <1>2, <1>3, <2>1, <2>2 DEF IdsOK
  <2> QED BY <2>3, <2>4, <2>5, <2>6 DEF IdsOK
<1>8. ASSUME ~raced' PROVE OwnAnswerUnlessRaced'
  BY <1>1, <1>2, <1>3, <1>8 DEF OwnAnswerUnlessRaced, Accepted
<1> QED BY <1>4, <1>5, <1>6, <1>7, <1>8
(* The server answers a request under that request's id and no other.      *)
LEMMA ServeOK ==
    ASSUME Inv, NEW t \in Threads, NEW m \in Modes, Serve(t, m)
    PROVE  Inv'
<1> USE DEF Inv
<1> DEFINE new == [id |-> request[t].id, serial |-> request[t].serial,
                   server |-> SERVER_ID(m), body |-> Body(request[t].method, m)]
<1>1. /\ pc[t] = "wait" /\ pc' = [pc EXCEPT ![t] = "served"] /\ wire' = wire \cup {new}
      /\ UNCHANGED <<request_id, loaded, request, result, sent, raced>>
      /\ request[t] \in Requests
  BY DEF Serve, Goto, TypeInv
<1>2. new.id = request[t].id /\ new.serial = request[t].serial /\ new.id \in Nat
  BY <1>1 DEF Requests
<1> HIDE DEF new
<1>3. /\ \A u \in Threads : Waiting(u)' <=> Waiting(u)
      /\ \A u \in Threads : Allocating(u)' <=> Allocating(u)
      /\ \A u \in Threads : /\ pc'[u] = "store" <=> pc[u] = "store"
                            /\ pc'[u] = "read" <=> pc[u] = "read"
      /\ Waiting(t)
  BY <1>1 DEF Waiting, Allocating, TypeInv
<1>4. TypeInv'
  BY <1>1, <1>2 DEF TypeInv
<1>5. ResultsOK'
  BY <1>1 DEF ResultsOK, TypeInv
<1>6. ASSUME ~raced' PROVE AllocationOK'
  BY <1>1, <1>2, <1>3, <1>6 DEF AllocationOK
<1>7. ASSUME ~raced' PROVE IdsOK'
  BY <1>1, <1>2, <1>3, <1>7 DEF IdsOK
<1>8. ASSUME ~raced' PROVE OwnAnswerUnlessRaced'
  BY <1>1, <1>8 DEF OwnAnswerUnlessRaced, Accepted
<1> QED BY <1>4, <1>5, <1>6, <1>7, <1>8

(* An answer is delivered. *)
LEMMA ReceiveOK ==
    ASSUME Inv, NEW t \in Threads, NEW answer \in wire, Receive(t, answer)
    PROVE  Inv'
<1> USE DEF Inv
<1>1. /\ Waiting(t) /\ pc' = [pc EXCEPT ![t] = "idle"] /\ wire' = wire \ {answer}
      /\ result' = [result EXCEPT ![t] =
            [answer |-> answer, taints |-> Outcome(request[t], answer)]]
      /\ UNCHANGED <<request_id, loaded, request, sent, raced>>
  BY DEF Receive, Goto
<1>2. /\ result'[t] = [answer |-> answer, taints |-> Outcome(request[t], answer)]
      /\ pc'[t] = "idle"
      /\ \A u \in Threads \ {t} : result'[u] = result[u] /\ pc'[u] = pc[u]
  BY <1>1 DEF TypeInv
<1>3. /\ \A u \in Threads : Waiting(u)' => Waiting(u)
      /\ \A u \in Threads : Allocating(u)' => Allocating(u)
      /\ \A u \in Threads : /\ pc'[u] = "store" => pc[u] = "store"
                            /\ pc'[u] = "read" => pc[u] = "read"
  BY <1>2 DEF Waiting, Allocating
<1>4. TypeInv'
  BY <1>1 DEF TypeInv
<1>5. ResultsOK'
  BY <1>1, <1>2 DEF ResultsOK
<1>6. ASSUME ~raced' PROVE AllocationOK'
  BY <1>1, <1>3, <1>6 DEF AllocationOK
<1>7. ASSUME ~raced' PROVE IdsOK'
  BY <1>1, <1>3, <1>7 DEF IdsOK
<1>8. ASSUME ~raced' PROVE OwnAnswerUnlessRaced'
  <2>1. ASSUME Outcome(request[t], answer) # Refused
        PROVE  answer.serial = request[t].serial
    <3>1. answer.id = request[t].id
      BY <2>1 DEF Outcome
    <3> QED BY <1>1, <1>8, <3>1 DEF IdsOK
  <2> QED BY <1>1, <1>2, <1>8, <2>1 DEF OwnAnswerUnlessRaced, Accepted
<1> QED BY <1>4, <1>5, <1>6, <1>7, <1>8

(* A request comes to nothing; its answer may still arrive. *)
LEMMA TransportFailureOK ==
    ASSUME Inv, NEW t \in Threads, TransportFailure(t)
    PROVE  Inv'
<1> USE DEF Inv
<1>1. /\ Waiting(t) /\ pc' = [pc EXCEPT ![t] = "idle"]
      /\ UNCHANGED <<request_id, loaded, request, wire, result, sent, raced>>
  BY DEF TransportFailure, Goto
<1>2. /\ \A u \in Threads : Waiting(u)' => Waiting(u)
      /\ \A u \in Threads : Allocating(u)' => Allocating(u)
      /\ \A u \in Threads : /\ pc'[u] = "store" => pc[u] = "store"
                            /\ pc'[u] = "read" => pc[u] = "read"
  BY <1>1 DEF Waiting, Allocating, TypeInv
<1>3. TypeInv'
  BY <1>1 DEF TypeInv
<1>4. ResultsOK'
  BY <1>1 DEF ResultsOK, TypeInv
<1>5. ASSUME ~raced' PROVE AllocationOK' /\ IdsOK'
  BY <1>1, <1>2, <1>5 DEF AllocationOK, IdsOK
<1>6. ASSUME ~raced' PROVE OwnAnswerUnlessRaced'
  BY <1>1, <1>6 DEF OwnAnswerUnlessRaced, Accepted
<1> QED BY <1>3, <1>4, <1>5, <1>6

LEMMA StepInv == Inv /\ [Next]_vars => Inv'
<1>1. ASSUME Inv, UNCHANGED vars PROVE Inv'
  BY <1>1 DEF vars, Inv, TypeInv, ResultsOK, AllocationOK, IdsOK, Allocating, Waiting,
              OwnAnswerUnlessRaced, Accepted
<1>2. ASSUME Inv, Next PROVE Inv'
  BY <1>2, LoadOK, StoreOK, ReadIdOK, ServeOK, ReceiveOK, TransportFailureOK DEF Next
<1> QED BY <1>1, <1>2

----------------------------------------------------------------------------
(* Theorems *)

(* The strengthened invariant holds throughout. *)
THEOREM ClientInv == Spec => []Inv
BY InitInv, StepInv, PTL DEF Spec

(* Correlation by id is sound until two allocations overlap: no late or    *)
(* misdirected answer is taken for one's own.                              *)
THEOREM AnswersAreOwn == Spec => []OwnAnswerUnlessRaced
<1>1. Inv => OwnAnswerUnlessRaced
  BY DEF Inv, OwnAnswerUnlessRaced
<1> QED BY <1>1, ClientInv, PTL

(* Nothing of an impersonator is accepted, no changed schema is listed,    *)
(* and what is bad or from outside carries its labels, whichever answers   *)
(* the network delivers.                                                   *)
THEOREM LabCases == Spec => []LabCasesHold
<1>1. ASSUME Inv, NEW t \in Threads, Accepted(t)
      PROVE  LET answer == result[t].answer  taints == result[t].taints
                 asked == request[t].method IN
             /\ answer.server # "evil-lookalike-server"
             /\ asked = "tools/list" =>
                   /\ answer.body.schema # "swapped"
                   /\ answer.body.description = "bad" => "suspicious_tool_metadata" \in taints
             /\ asked = "tools/call" =>
                   /\ {"external_tool_output", "unverified_tool_output", "untrusted_mcp_content"}
                         \subseteq taints
                   /\ answer.body = Body(asked, "injected_output")
                         => "prompt_injection_suspected" \in taints
  <2> DEFINE answer == result[t].answer
             taints == result[t].taints
             asked == request[t].method
  <2>1. taints = Outcome(request[t], answer) /\ taints # Refused
    BY <1>1 DEF Inv, ResultsOK, Accepted
  <2>2. Verified(answer)
    BY <2>1 DEF Outcome
  <2>3. asked = "tools/list" => taints = Listing(answer.body)
    BY <2>1 DEF Outcome
  <2>4. asked = "tools/call" => taints = Output(answer.body)
    BY <2>1 DEF Outcome
  <2>5. ASSUME asked = "tools/call", answer.body = Body(asked, "injected_output")
        PROVE  answer.body.kind = "content" /\ answer.body.text = "bad"
    BY <2>5 DEF Body
  <2> HIDE DEF answer, taints, asked
  <2>6. answer.server # "evil-lookalike-server"
    BY <2>2 DEF Verified
  <2>7. asked = "tools/list" =>
           /\ answer.body.schema # "swapped"
           /\ answer.body.description = "bad" => "suspicious_tool_metadata" \in taints
    BY <2>1, <2>3 DEF Listing, Suspicious
  <2>8. asked = "tools/call" =>
           {"external_tool_output", "unverified_tool_output", "untrusted_mcp_content"}
               \subseteq taints
    BY <2>4 DEF Output
  <2>9. asked = "tools/call" /\ answer.body = Body(asked, "injected_output")
           => "prompt_injection_suspected" \in taints
    BY <2>4, <2>5 DEF Output, Suspicious
  <2> QED BY <2>6, <2>7, <2>8, <2>9 DEF answer, taints, asked
<1>2. Inv => LabCasesHold
  BY <1>1 DEF LabCasesHold
<1> QED BY <1>2, ClientInv, PTL

----------------------------------------------------------------------------
(* One request at a time *)

(* A client that one thread uses accepts nothing but the answer to its own *)
(* request, however late or misdirected the others arrive: the correlation *)
(* of ids that docs/THREAT_MODEL.md promises, for the lab's use of it.     *)
THEOREM SoloAnswersAreOwn ==
    ASSUME \A t, u \in Threads : t = u
    PROVE  Spec => [](\A t \in Threads : Accepted(t) =>
                          result[t].answer.serial = request[t].serial)
<1>1. Init => ~raced
  BY DEF Init
<1>2. ~raced /\ [Next]_vars => ~raced'
  <2> SUFFICES ASSUME ~raced, [Next]_vars PROVE ~raced'
    OBVIOUS
  <2>1. ASSUME NEW t \in Threads, NEW method \in Methods, Load(t, method)
        PROVE  ~raced'
    <3>1. \A u \in Threads : ~Allocating(u)
      BY <2>1 DEF Load, Allocating
    <3> QED BY <2>1, <3>1 DEF Load
  <2>2. ASSUME NEW t \in Threads,
               \/ Store(t) \/ ReadId(t) \/ TransportFailure(t)
               \/ \E m \in Modes : Serve(t, m)
               \/ \E answer \in wire : Receive(t, answer)
        PROVE  UNCHANGED raced
    BY <2>2 DEF Store, ReadId, TransportFailure, Serve, Receive
  <2> QED BY <2>1, <2>2 DEF Next, vars
<1>3. OwnAnswerUnlessRaced /\ ~raced =>
         \A t \in Threads : Accepted(t) => result[t].answer.serial = request[t].serial
  BY DEF OwnAnswerUnlessRaced
<1> QED BY <1>1, <1>2, <1>3, AnswersAreOwn, PTL DEF Spec

=============================================================================
