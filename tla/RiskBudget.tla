----------------------------- MODULE RiskBudget -----------------------------
(***************************************************************************)
(* The sliding-window budget of src/trust_gateway/risk.py as               *)
(* TrustGateway.execute uses it: can_consume early (gateway.py 121),       *)
(* consume much later (170, its answer unused), remaining for the audit    *)
(* event.  No lock protects the dict of lists.  Each of the three calls    *)
(* runs _active, which reads the clock, fetches an agent's list, filters   *)
(* it into a new one and puts that in its place; what is summed afterwards *)
(* is the list in the dict, to which others may have appended.  consume    *)
(* fetches the list of the moment, takes a time and appends; if the list   *)
(* was replaced meanwhile, the charge is lost.  Every access to the clock, *)
(* the dict or a list is a step of its own.                                *)
(*                                                                         *)
(* A list is an object, which several threads may hold.  It is filtered by *)
(* time and summed, nothing else: what it holds stands here as the cost    *)
(* for each moment.  A loop over a list that only grows sees what is in it *)
(* when the loop ends, which is when its step is taken.  The clock is      *)
(* discrete and shared.  What lies between the check and the charge        *)
(* (approvals, reservation) is the step Proceed, and the tool runs after   *)
(* the report: neither touches the budget.                                 *)
(***************************************************************************)
EXTENDS Naturals

CONSTANTS Threads, Agents, Limit, Window,
          Costs,         \* the values of RISK_COST that proposals have
          Lists,         \* list objects, named for each agent by themselves
          MaxTime,       \* the clock stops here
          MaxCalls,      \* calls of execute made in all
          NoJob, NoList

ASSUME BudgetAssumption ==
    /\ Limit \in Nat /\ Window \in Nat \ {0} /\ Costs \subseteq Nat
    /\ MaxTime \in Nat /\ MaxCalls \in Nat
    /\ NoJob \notin [agent : Agents, cost : Costs]
    /\ NoList \notin Lists

VARIABLES now,
          lists,         \* per agent and list object: what it holds
          events,        \* per agent: its entry in the dict
          pc, use, job,  \* per thread: next step, whose _active it is in,
                         \* and [agent, cost] of its call
          clock,         \* per thread: the time it read last
          list,          \* per thread: the list it holds
          granted,       \* history: per agent and time, the cost let through
          raced,         \* history: agents that had two calls at a time
          calls

vars == <<now, lists, events, pc, use, job, clock, list, granted, raced, calls>>

Times == 0..MaxTime
Charges == [Times -> Nat]
Nothing == [time \in Times |-> 0]
Jobs == [agent : Agents, cost : Costs]

Steps == {"idle", "clock", "fetch", "filter", "install", "sum",
          "proceed", "setdefault", "stamp", "append"}
Uses == {"check", "consume", "report", "refused"}

(* event.timestamp > cutoff, where the cutoff is read - Window *)
MutRecent(time, read) == TRUE
Recent(time, read) == time + Window > read

Active(charges, read) ==
    [time \in Times |-> IF Recent(time, read) THEN charges[time] ELSE 0]

Total(charges) ==
    LET sum[time \in Times] ==
            IF time = 0 THEN charges[0] ELSE sum[time - 1] + charges[time]
    IN sum[MaxTime]

(* The comparison of can_consume. *)
MutFits(charges, cost) == Total(charges) <= Limit
Fits(charges, cost) == Total(charges) + cost <= Limit

Init ==
    /\ now = 0
    /\ lists = [a \in Agents |-> [l \in Lists |-> Nothing]]
    /\ events = [a \in Agents |-> NoList]
    /\ pc = [t \in Threads |-> "idle"]
    /\ use = [t \in Threads |-> "check"]
    /\ job = [t \in Threads |-> NoJob]
    /\ clock = [t \in Threads |-> 0]
    /\ list = [t \in Threads |-> NoList]
    /\ granted = [a \in Agents |-> Nothing]
    /\ raced = {} /\ calls = 0

Goto(t, step) == pc' = [pc EXCEPT ![t] = step]

(* t runs _active for another purpose. *)
Enter(t, purpose) == Goto(t, "clock") /\ use' = [use EXCEPT ![t] = purpose]

Hold(t, l) == list' = [list EXCEPT ![t] = l]
Drop(t) == Hold(t, NoList)

Submit(t, j) ==
    /\ pc[t] = "idle" /\ calls < MaxCalls
    /\ j \in Jobs
    /\ raced' = raced \cup {a \in {j.agent} : \E u \in Threads :
                                job[u] # NoJob /\ job[u].agent = a}
    /\ job' = [job EXCEPT ![t] = j]
    /\ calls' = calls + 1
    /\ Enter(t, "check")
    /\ UNCHANGED <<now, lists, events, clock, list, granted>>

Return(t) ==
    /\ Goto(t, "idle")
    /\ job' = [job EXCEPT ![t] = NoJob]

----------------------------------------------------------------------------
(* _active *)

ReadClock(t) ==
    /\ pc[t] = "clock"
    /\ clock' = [clock EXCEPT ![t] = now]
    /\ Goto(t, "fetch")
    /\ UNCHANGED <<now, lists, events, use, job, list, granted, raced, calls>>

(* self.events.get(agent_id, []) *)
Fetch(t) ==
    /\ pc[t] = "fetch"
    /\ Hold(t, events[job[t].agent])
    /\ Goto(t, "filter")
    /\ UNCHANGED <<now, lists, events, use, job, clock, granted, raced, calls>>

Contents(t) == IF list[t] = NoList THEN Nothing ELSE lists[job[t].agent][list[t]]

(* The list objects of an agent that somebody can reach. *)
Reachable(a) == {events[a]} \cup {list[t] : t \in {u \in Threads :
                                       job[u] # NoJob /\ job[u].agent = a}}

(* The list comprehension: a new object with what is recent. *)
Filter(t) ==
    /\ pc[t] = "filter"
    /\ \E l \in Lists \ Reachable(job[t].agent) :
          /\ lists' = [lists EXCEPT ![job[t].agent][l] = Active(Contents(t), clock[t])]
          /\ Hold(t, l)
    /\ Goto(t, "install")
    /\ UNCHANGED <<now, events, use, job, clock, granted, raced, calls>>

(* It replaces whatever is in the dict now, which those who fetched it     *)
(* keep, out of the budget's sight.  What remaining sums is only reported. *)
Install(t) ==
    /\ pc[t] = "install"
    /\ events' = [events EXCEPT ![job[t].agent] = list[t]]
    /\ \/ use[t] \in {"check", "consume"} /\ Goto(t, "sum") /\ UNCHANGED <<list, job>>
       \/ use[t] \in {"report", "refused"} /\ Return(t) /\ Drop(t)
    /\ UNCHANGED <<now, lists, use, clock, granted, raced, calls>>

----------------------------------------------------------------------------
(* can_consume, consume, and execute between them *)

Check(t) ==
    /\ pc[t] = "sum" /\ use[t] = "check"
    /\ \/ /\ Fits(Contents(t), job[t].cost)
          /\ Goto(t, "proceed") /\ UNCHANGED use
       \/ /\ ~Fits(Contents(t), job[t].cost)
          /\ Enter(t, "refused")
    /\ Drop(t)
    /\ UNCHANGED <<now, lists, events, job, clock, granted, raced, calls>>

(* The approvals and the reservation; they may also end the call. *)
Proceed(t) ==
    /\ pc[t] = "proceed"
    /\ \/ Enter(t, "consume") /\ UNCHANGED job
       \/ Return(t) /\ UNCHANGED use
    /\ UNCHANGED <<now, lists, events, clock, list, granted, raced, calls>>

Grant(t, time) == granted' = [granted EXCEPT ![job[t].agent][time] = @ + job[t].cost]

(* `if cost': nothing is recorded for a low risk. *)
MutHasCost(t) == TRUE
HasCost(t) == job[t].cost > 0

(* consume checks again.  Its verdict is not looked at: the call goes on   *)
(* either way.                                                             *)
Consume(t) ==
    /\ pc[t] = "sum" /\ use[t] = "consume"
    /\ Drop(t)
    /\ LET charges == Fits(Contents(t), job[t].cost) /\ HasCost(t) IN
       \/ charges /\ Goto(t, "setdefault") /\ UNCHANGED <<use, granted>>
       \/ ~charges /\ Grant(t, now) /\ Enter(t, "report")
    /\ UNCHANGED <<now, lists, events, job, clock, raced, calls>>

(* self.events.setdefault(agent_id, []): the entry is there by now. *)
SetDefault(t) ==
    /\ pc[t] = "setdefault"
    /\ Hold(t, events[job[t].agent])
    /\ Goto(t, "stamp")
    /\ UNCHANGED <<now, lists, events, use, job, clock, granted, raced, calls>>

Stamp(t) ==
    /\ pc[t] = "stamp"
    /\ clock' = [clock EXCEPT ![t] = now]
    /\ Goto(t, "append")
    /\ UNCHANGED <<now, lists, events, use, job, list, granted, raced, calls>>

MutRecorded(t) == 2 * job[t].cost
Recorded(t) == job[t].cost

AppendEvent(t) ==
    /\ pc[t] = "append"
    /\ lists' = [lists EXCEPT ![job[t].agent][list[t]][clock[t]] = @ + Recorded(t)]
    /\ Grant(t, clock[t])
    /\ Enter(t, "report") /\ Drop(t)
    /\ UNCHANGED <<now, events, job, clock, raced, calls>>

Tick ==
    /\ now < MaxTime
    /\ now' = now + 1
    /\ UNCHANGED <<lists, events, pc, use, job, clock, list, granted, raced, calls>>

Step(t) ==
    \/ ReadClock(t) \/ Fetch(t) \/ Filter(t) \/ Install(t)
    \/ Check(t) \/ Proceed(t) \/ Consume(t)
    \/ SetDefault(t) \/ Stamp(t) \/ AppendEvent(t)

Next ==
    \/ \E t \in Threads : Step(t)
    \/ \E t \in Threads, j \in Jobs : Submit(t, j)
    \/ Tick

Spec == Init /\ [][Next]_vars

----------------------------------------------------------------------------
(* Properties *)

(* What was let through for an agent in the window that ends at time w,    *)
(* and in that window and up to a later time.                              *)
Span(charges, w, end) ==
    [time \in Times |-> IF time + Window > w /\ time <= end THEN charges[time] ELSE 0]
GrantedSince(a, w, end) == Total(Span(granted[a], w, end))
GrantedIn(a, w) == GrantedSince(a, w, w)

(* Also: only a cost is ever recorded. *)
TypeOK ==
    /\ now \in Times
    /\ lists \in [Agents -> [Lists -> Charges]]
    /\ events \in [Agents -> Lists \cup {NoList}]
    /\ pc \in [Threads -> Steps]
    /\ use \in [Threads -> Uses]
    /\ job \in [Threads -> Jobs \cup {NoJob}]
    /\ clock \in [Threads -> Times]
    /\ list \in [Threads -> Lists \cup {NoList}]
    /\ granted \in [Agents -> Charges]
    /\ raced \subseteq Agents
    /\ calls \in 0..MaxCalls
    /\ \A t \in Threads :
          /\ pc[t] = "idle" <=> job[t] = NoJob
          /\ pc[t] \in {"setdefault", "stamp", "append"} => job[t].cost > 0

(* Cumulative authority is bounded by the budget: in no window is an agent *)
(* let through for more than the limit (README.md, security invariant 5).  *)
GrantsWithinLimit == \A a \in Agents, w \in 0..now : GrantedIn(a, w) <= Limit

(* It is for an agent that runs one proposal at a time, whatever the calls *)
(* of other agents do meanwhile.                                           *)
SoloWithinLimit ==
    \A a \in Agents \ raced, w \in 0..now : GrantedIn(a, w) <= Limit

(* Races lose charges and never invent them: whatever the interleaving, a  *)
(* list holds at most what was let through at each moment, so no agent is  *)
(* refused for authority that nobody used.                                 *)
NeverOvercharged ==
    \A a \in Agents : events[a] # NoList =>
        \A time \in Times : lists[a][events[a]][time] <= granted[a][time]

(* A call is refused only for what its agent was let through since the     *)
(* beginning of the window that ended when the check read the clock: in    *)
(* that window alone if the agent runs one proposal at a time, and also    *)
(* while the check was under way if others were charged to it meanwhile.   *)
(* So calls that race are refused in excess only by what raced.            *)
RefusedOnlyWhenFull ==
    \A t \in Threads : pc[t] = "clock" /\ use[t] = "refused" =>
        LET a == job[t].agent IN
        /\ GrantedSince(a, clock[t], now) + job[t].cost > Limit
        /\ a \notin raced => GrantedIn(a, clock[t]) + job[t].cost > Limit

=============================================================================
