---------------------------- MODULE MCRiskBudget ----------------------------
(***************************************************************************)
(* Instances of RiskBudget for TLC: the costs of risk.py, a window of two  *)
(* ticks, and a clock long enough for a charge to leave the window while   *)
(* others are in it.  Under a limit of 2 two medium risks just fit and a   *)
(* high one never does, so three calls suffice for one to be refused for a *)
(* charge that was appended while its check was under way.                 *)
(***************************************************************************)
EXTENDS RiskBudget, TLC

CONSTANTS t1, t2, a1, a2

TwoThreads == {t1, t2}
TwoAgents == {a1, a2}
OneAgent == {a1}

MCCosts == {0, 1, 3}
HighCosts == {3}

(* One in the dict, and one in the hands of each thread. *)
MCLists == 1..3

Symmetry == Permutations(Threads) \cup Permutations(Agents)

(* The VIEW of the runs.  Two states are the same if they differ only in   *)
(* the names of list objects, in objects that nobody can reach, and in a   *)
(* clock or a purpose that is set again before it is looked at: they then  *)
(* allow the same steps, to states that are the same again, and the        *)
(* properties do not tell them apart.                                      *)
Busy(t) == job[t] # NoJob

Sharing(t) == IF ~Busy(t) \/ list[t] = NoList THEN {}
              ELSE {u \in Threads : Busy(u) /\ job[u].agent = job[t].agent
                                    /\ list[u] = list[t]}

InDict(t) == Busy(t) /\ list[t] # NoList /\ events[job[t].agent] = list[t]

Entry(a) == IF events[a] = NoList THEN NoList ELSE lists[a][events[a]]

ClockInUse(t) ==
    \/ pc[t] \in {"fetch", "filter", "append"}
    \/ pc[t] \in {"install", "sum"} /\ use[t] = "check"
    \/ pc[t] = "clock" /\ use[t] = "refused"

View == <<now, pc, job, granted, raced, calls,
          [a \in Agents |-> Entry(a)],
          [t \in Threads |-> IF Busy(t) THEN <<use[t], Contents(t)>> ELSE <<>>],
          [t \in Threads |-> IF ClockInUse(t) THEN clock[t] ELSE 0],
          [t \in Threads |-> <<list[t] = NoList, Sharing(t), InDict(t)>>]>>

=============================================================================
