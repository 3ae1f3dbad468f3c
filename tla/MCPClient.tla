------------------------------ MODULE MCPClient ------------------------------
(***************************************************************************)
(* StatelessHTTPMCPClient (src/trust_gateway/mcp_live.py), used by several *)
(* threads, against the lab server (tools/lab_mcp_server.py), which may be *)
(* in another of its modes at each request, as lab/run_live_lab.py has it  *)
(* from case to case.                                                      *)
(*                                                                         *)
(* A request id is allocated in three steps (load and store of +=, then a  *)
(* read).  A request gets its answer on a connection of its own; what the  *)
(* id check is there for is that something between client and server may   *)
(* hand it an answer to another request, an earlier one included, or none  *)
(* before the timeout.  Answers are never forged.  Of the bodies there is  *)
(* what the client looks at: schemas and texts that are as they should be  *)
(* or not.                                                                 *)
(***************************************************************************)
EXTENDS Naturals

CONSTANTS Threads, Modes, MaxRequests, Nothing

VARIABLES request_id,    \* the counter the threads share
          pc, loaded, request,     \* per thread: next step, += in progress, request
          wire,          \* answers the network may deliver
          result,        \* per thread: what its last call returned, or Nothing
          sent,          \* requests begun; its value names the request
          raced          \* history: two allocations of an id have overlapped

vars == <<request_id, pc, loaded, request, wire, result, sent, raced>>

Methods == {"server/discover", "tools/list", "tools/call"}

Init == /\ request_id = 0 /\ wire = {} /\ sent = 0 /\ raced = FALSE
        /\ pc = [t \in Threads |-> "idle"]
        /\ loaded = [t \in Threads |-> 0]
        /\ request = [t \in Threads |-> Nothing]
        /\ result = [t \in Threads |-> Nothing]

Goto(t, step) == pc' = [pc EXCEPT ![t] = step]

----------------------------------------------------------------------------
(* The server *)

SERVER_ID(m) == IF m = "impersonator" THEN "evil-lookalike-server" ELSE "aatg-lab-server"

Suspicious == {"bad"}

(* tool_descriptor, call_result and the body of server/discover. *)
Body(method, m) ==
    CASE method = "tools/list" ->
            [kind |-> "tools",
             schema |-> IF m = "schema_swap" THEN "swapped" ELSE "pinned",
             description |-> IF m = "malicious_metadata" THEN "bad" ELSE "good"]
      [] method = "tools/call" ->
            [kind |-> "content",
             text |-> IF m \in {"injected_output", "exfiltration"} THEN "bad" ELSE "good"]
      [] OTHER -> [kind |-> "info"]

(* do_POST of a server in mode m; serial is for the properties. *)
Serve(t, m) ==
    /\ pc[t] = "wait"
    /\ wire' = wire \cup {[id |-> request[t].id, serial |-> request[t].serial,
                           server |-> SERVER_ID(m), body |-> Body(request[t].method, m)]}
    /\ Goto(t, "served")
    /\ UNCHANGED <<request_id, loaded, request, result, sent, raced>>

----------------------------------------------------------------------------
(* The client *)

Allocating(t) == pc[t] \in {"store", "read"}

Load(t, method) ==
    /\ pc[t] = "idle" /\ sent < MaxRequests
    /\ sent' = sent + 1
    /\ request' = [request EXCEPT ![t] = [method |-> method, serial |-> sent', id |-> 0]]
    /\ result' = [result EXCEPT ![t] = Nothing]
    /\ loaded' = [loaded EXCEPT ![t] = request_id]
    /\ raced' = (raced \/ \E u \in Threads : Allocating(u))
    /\ Goto(t, "store")
    /\ UNCHANGED <<request_id, wire>>

MutIncrement(n) == 1
Increment(n) == n + 1

Store(t) == /\ pc[t] = "store"
            /\ request_id' = Increment(loaded[t])
            /\ Goto(t, "read")
            /\ UNCHANGED <<loaded, request, wire, result, sent, raced>>

ReadId(t) == /\ pc[t] = "read"
             /\ request' = [request EXCEPT ![t].id = request_id]
             /\ loaded' = [loaded EXCEPT ![t] = 0]
             /\ Goto(t, "wait")
             /\ UNCHANGED <<request_id, wire, result, sent, raced>>

Refused == {"refused"}

(* list_tools: the pin of each tool, then what the metadata guard says. *)
Listing(body) ==
    IF body.kind # "tools" \/ body.schema # "pinned" THEN Refused
    ELSE IF body.description \in Suspicious THEN {"suspicious_tool_metadata"} ELSE {}

(* call_tool: a body without content is an empty result. *)
Output(body) ==
    {"external_tool_output", "unverified_tool_output", "untrusted_mcp_content"}
    \cup IF body.kind = "content" /\ body.text \in Suspicious
         THEN {"prompt_injection_suspected"} ELSE {}

MutVerified(answer) == TRUE
Verified(answer) == answer.server = "aatg-lab-server"

(* What the method makes of an answer: _request, _verify_server, and the   *)
(* reading of the body: the labels on what is returned.                    *)
Outcome(r, answer) ==
    IF answer.id # r.id \/ ~Verified(answer) THEN Refused
    ELSE CASE r.method = "tools/list" -> Listing(answer.body)
           [] r.method = "tools/call" -> Output(answer.body)
           [] OTHER -> {}

Waiting(t) == pc[t] \in {"wait", "served"}

Receive(t, answer) ==
    /\ Waiting(t) /\ answer \in wire
    /\ wire' = wire \ {answer}
    /\ result' = [result EXCEPT ![t] =
          [answer |-> answer, taints |-> Outcome(request[t], answer)]]
    /\ Goto(t, "idle")
    /\ UNCHANGED <<request_id, loaded, request, sent, raced>>

(* URLError, an HTTP status of an error, the timeout, or no JSON. *)
TransportFailure(t) ==
    /\ Waiting(t)
    /\ Goto(t, "idle")
    /\ UNCHANGED <<request_id, loaded, request, wire, result, sent, raced>>

Next == \E t \in Threads :
              \/ \E method \in Methods : Load(t, method)
              \/ Store(t) \/ ReadId(t) \/ TransportFailure(t)
              \/ \E m \in Modes : Serve(t, m)
              \/ \E answer \in wire : Receive(t, answer)

Spec == Init /\ [][Next]_vars

----------------------------------------------------------------------------
(* Properties *)

Accepted(t) == result[t] # Nothing /\ result[t].taints # Refused

(* Request ids are correlated (docs/THREAT_MODEL.md:147): an answer to     *)
(* another request, or a late one to an earlier request that timed out, is *)
(* accepted only if at some time two threads allocated ids at once         *)
(* (mcp_live.py 117-118).                                                  *)
OwnAnswerUnlessRaced ==
    \A t \in Threads : Accepted(t) /\ ~raced =>
        result[t].answer.serial = request[t].serial

(* The cases of lab/run_live_lab.py and more, whatever the modes of the    *)
(* server and whichever answer arrives: nothing of an impersonator is      *)
(* accepted, a changed schema is never listed, bad metadata and output are *)
(* labelled, and no output comes without the labels of external content.   *)
LabCasesHold ==
    \A t \in Threads : Accepted(t) =>
        LET answer == result[t].answer  taints == result[t].taints  asked == request[t].method IN
        /\ answer.server # "evil-lookalike-server"
        /\ asked = "tools/list" =>
              /\ answer.body.schema # "swapped"
              /\ answer.body.description = "bad" => "suspicious_tool_metadata" \in taints
        /\ asked = "tools/call" =>
              /\ {"external_tool_output", "unverified_tool_output", "untrusted_mcp_content"}
                    \subseteq taints
              /\ answer.body = Body(asked, "injected_output")
                    => "prompt_injection_suspected" \in taints

=============================================================================
