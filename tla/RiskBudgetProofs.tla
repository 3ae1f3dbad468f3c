------------------------- MODULE RiskBudgetProofs -------------------------
(***************************************************************************)
(* Proofs about RiskBudget for any threads and agents, any limit, window   *)
(* and costs, and any number of calls.                                     *)
(***************************************************************************)
EXTENDS RiskBudget, Integers, WellFoundedInduction, TLAPS

(* A set of naturals has a least element: < is well-founded on Nat.        *)
LEMMA LessOnNat == \A x, y \in Nat : x < y => <<x, y>> \in OpToRel(<, Nat)
BY DEF OpToRel

LEMMA NatIsWellOrdered ==
    \E R : IsWellFoundedOn(R, Nat) /\ \A x, y \in Nat : x < y => <<x, y>> \in R
BY NatLessThanWellFounded, LessOnNat

LEMMA LeastNatural ==
    ASSUME NEW T, T \subseteq Nat, T # {}
    PROVE  \E n \in T : \A m \in T : n <= m
<1>1. PICK R : IsWellFoundedOn(R, Nat) /\ \A x, y \in Nat : x < y => <<x, y>> \in R
  BY NatIsWellOrdered
<1>2. IsWellFoundedOn(R, Nat)
  BY <1>1
<1>3. \E n \in T : \A m \in T : ~ (<<m, n>> \in R)
  BY <1>2, WFMin
<1>4. PICK n \in T : \A m \in T : ~ (<<m, n>> \in R)
  BY <1>3
<1>5. ASSUME NEW m \in T PROVE n <= m
  <2>1. n \in Nat /\ m \in Nat
    OBVIOUS
  <2>2. ~ (m < n)
    BY <1>1, <1>4, <2>1
  <2> QED BY <2>1, <2>2
<1> QED BY <1>5

----------------------------------------------------------------------------
(* Sums *)

(* sum is the table of partial sums of f. *)
IsSum(sum, f) ==
    /\ sum \in [Times -> Nat]
    /\ sum[0] = f[0]
    /\ \A time \in Times \ {0} : sum[time] = sum[time - 1] + f[time]

LEMMA TimesFacts ==
    /\ MaxTime \in Nat /\ 0 \in Times /\ MaxTime \in Times /\ Times \subseteq Nat
    /\ \A time \in Times \ {0} : time - 1 \in Times
BY BudgetAssumption DEF Times

(* Partial sums up to any moment exist: the least one without does not.    *)
LEMMA SumExists == ASSUME NEW f \in Charges PROVE \E sum : IsSum(sum, f)
<1> DEFINE Sums(n) == {s \in [0..n -> Nat] : /\ s[0] = f[0]
                          /\ \A k \in (0..n) \ {0} : s[k] = s[k - 1] + f[k]}
<1> DEFINE Bad == {n \in Times : Sums(n) = {}}
<1>1. ASSUME Bad # {} PROVE FALSE
  <2>1. Bad \subseteq Nat
    BY TimesFacts
  <2>2. \E n \in Bad : \A m \in Bad : n <= m
    BY <1>1, <2>1, LeastNatural
  <2>3. PICK n \in Bad : \A m \in Bad : n <= m
    BY <2>2
  <2>4. n \in Times /\ n \in Nat
    BY <2>3, TimesFacts
  <2>5. CASE n = 0
    <3>1. [k \in 0..0 |-> f[0]] \in Sums(0)
      BY TimesFacts DEF Charges
    <3> QED BY <2>3, <2>5, <3>1
  <2>6. CASE n # 0
    <3> DEFINE below == n - 1
    <3>0. below \in Times /\ ~(n <= below)
      BY <2>4, <2>6, TimesFacts
    <3>1. below \in Times /\ below \notin Bad
      BY <2>3, <3>0
    <3> HIDE DEF below
    <3>2. PICK s : s \in Sums(below)
      BY <3>1
    <3> USE DEF below
    <3> DEFINE longer == [k \in 0..n |-> IF k = n THEN s[n - 1] + f[n] ELSE s[k]]
    <3>3. /\ s \in [0..(n - 1) -> Nat] /\ s[0] = f[0]
          /\ \A k \in (0..(n - 1)) \ {0} : s[k] = s[k - 1] + f[k]
      BY <3>2
    <3>4. longer \in [0..n -> Nat] /\ longer[0] = f[0]
      BY <2>4, <2>6, <3>3 DEF Charges
    <3>5. ASSUME NEW k \in (0..n) \ {0} PROVE longer[k] = longer[k - 1] + f[k]
      <4>1. CASE k = n
        BY <2>4, <2>6, <4>1
      <4>2. CASE k # n
        <5>1. k \in (0..(n - 1)) \ {0} /\ k \in 0..n /\ k - 1 \in 0..n /\ k - 1 # n
          BY <2>4, <2>6, <4>2
        <5>2. longer[k] = s[k] /\ longer[k - 1] = s[k - 1]
          BY <4>2, <5>1
        <5> QED BY <3>3, <5>1, <5>2
      <4> QED BY <4>1, <4>2
    <3>6. longer \in Sums(n)
      BY <3>4, <3>5
    <3> QED BY <2>3, <3>6
  <2> QED BY <2>5, <2>6
<1>2. PICK s : s \in Sums(MaxTime)
  BY <1>1, TimesFacts
<1>3. IsSum(s, f)
  BY <1>2 DEF IsSum, Times
<1> QED BY <1>3

(* There is only one, and it solves the equation by which Total defines it. *)
Solves(s, f) == s = [time \in Times |-> IF time = 0 THEN f[0] ELSE s[time - 1] + f[time]]

LEMMA SumUnique ==
    ASSUME NEW f \in Charges, NEW s, NEW r, Solves(s, f), IsSum(r, f)
    PROVE  s = r
<1>1. /\ s[0] = f[0]
      /\ \A time \in Times \ {0} : s[time] = s[time - 1] + f[time]
  BY TimesFacts DEF Solves
<1> DEFINE Bad == {n \in Times : s[n] # r[n]}
<1>2. ASSUME Bad # {} PROVE FALSE
  <2>0. Bad \subseteq Nat
    BY TimesFacts
  <2>1. \E n \in Bad : \A m \in Bad : n <= m
    BY <1>2, <2>0, LeastNatural
  <2>2. PICK n \in Bad : \A m \in Bad : n <= m
    BY <2>1
  <2>3. n # 0 /\ n \in Times /\ n \in Nat
    BY <1>1, <2>2, TimesFacts DEF IsSum
  <2>4. n - 1 \in Times /\ ~(n <= n - 1)
    BY <2>3, TimesFacts
  <2>5. s[n - 1] = r[n - 1]
    BY <2>2, <2>4
  <2> QED BY <1>1, <2>2, <2>3, <2>5 DEF IsSum
<1>3. \A n \in Times : s[n] = r[n]
  BY <1>2
<1>4. s = [n \in Times |-> s[n]]
  BY DEF Solves
<1>5. r = [n \in Times |-> r[n]]
  BY DEF IsSum
<1> QED BY <1>3, <1>4, <1>5

LEMMA TotalIsSum ==
    ASSUME NEW f \in Charges, NEW sum, IsSum(sum, f)
    PROVE  Total(f) = sum[MaxTime]
<1>1. Solves(sum, f)
  BY DEF IsSum, Solves
<1>2. Solves(CHOOSE s : Solves(s, f), f)
  BY <1>1
<1>3. (CHOOSE s : Solves(s, f)) = sum
  BY <1>2, SumUnique
<1>4. Total(f) = (CHOOSE s : Solves(s, f))[MaxTime]
  BY DEF Total, Solves
<1> QED BY <1>3, <1>4

Below(f, g) == \A time \in Times : f[time] <= g[time]

LEMMA TotalIsNatural == ASSUME NEW f \in Charges PROVE Total(f) \in Nat
<1>1. PICK s : IsSum(s, f)
  BY SumExists
<1>2. Total(f) = s[MaxTime]
  BY <1>1, TotalIsSum
<1> QED BY <1>1, <1>2, TimesFacts DEF IsSum

LEMMA TotalIsMonotone ==
    ASSUME NEW f \in Charges, NEW g \in Charges, Below(f, g)
    PROVE  Total(f) <= Total(g)
<1>1. PICK s : IsSum(s, f)
  BY SumExists
<1>2. PICK r : IsSum(r, g)
  BY SumExists
<1> DEFINE Bad == {n \in Times : ~(s[n] <= r[n])}
<1>3. ASSUME Bad # {} PROVE FALSE
  <2>1. Bad \subseteq Nat
    BY TimesFacts
  <2>2. \E n \in Bad : \A m \in Bad : n <= m
    BY <1>3, <2>1, LeastNatural
  <2>3. PICK n \in Bad : \A m \in Bad : n <= m
    BY <2>2
  <2>4. n # 0 /\ n \in Times /\ n \in Nat
    BY <1>1, <1>2, <2>3, TimesFacts DEF IsSum, Below
  <2>5. n - 1 \in Times /\ ~(n <= n - 1)
    BY <2>4, TimesFacts
  <2>6. s[n - 1] <= r[n - 1] /\ f[n] <= g[n]
    BY <2>3, <2>4, <2>5 DEF Below
  <2>7. /\ s[n] = s[n - 1] + f[n] /\ r[n] = r[n - 1] + g[n]
        /\ s[n - 1] \in Nat /\ r[n - 1] \in Nat /\ f[n] \in Nat /\ g[n] \in Nat
    BY <1>1, <1>2, <2>4, <2>5 DEF IsSum, Charges
  <2>8. s[n] <= r[n]
    BY <2>6, <2>7
  <2> QED BY <2>3, <2>8
<1>4. s[MaxTime] <= r[MaxTime]
  BY <1>3, TimesFacts
<1>5. Total(f) = s[MaxTime] /\ Total(g) = r[MaxTime]
  BY <1>1, <1>2, TotalIsSum
<1> QED BY <1>4, <1>5

LEMMA TotalAdds ==
    ASSUME NEW f \in Charges, NEW at \in Times, NEW c \in Nat
    PROVE  Total([f EXCEPT ![at] = @ + c]) = Total(f) + c
<1> DEFINE g == [f EXCEPT ![at] = @ + c]
<1>1. PICK s : IsSum(s, f)
  BY SumExists
<1> DEFINE r == [n \in Times |-> IF n < at THEN s[n] ELSE s[n] + c]
<1>2. /\ g \in Charges /\ g[at] = f[at] + c /\ f[at] \in Nat
      /\ \A n \in Times : n # at => g[n] = f[n]
      /\ \A n \in Times : f[n] \in Nat /\ s[n] \in Nat
  BY <1>1 DEF Charges, IsSum
<1> HIDE DEF g
<1>3. r \in [Times -> Nat]
  BY <1>2
<1>4. r[0] = g[0]
  BY <1>1, <1>2, TimesFacts DEF IsSum
<1>5. ASSUME NEW n \in Times \ {0} PROVE r[n] = r[n - 1] + g[n]
  <2>1. /\ n - 1 \in Times /\ n \in Nat /\ at \in Nat
        /\ s[n] = s[n - 1] + f[n] /\ s[n - 1] \in Nat /\ f[n] \in Nat
    BY <1>1, <1>2, TimesFacts DEF IsSum
  <2>2. CASE n < at
    BY <1>2, <2>1, <2>2
  <2>3. CASE n = at
    BY <1>2, <2>1, <2>3
  <2>4. CASE n > at
    BY <1>2, <2>1, <2>4
  <2> QED BY <2>1, <2>2, <2>3, <2>4
<1>6. IsSum(r, g)
  BY <1>3, <1>4, <1>5 DEF IsSum
<1>7. Total(f) = s[MaxTime] /\ Total(g) = r[MaxTime]
  BY <1>1, <1>2, <1>6, TotalIsSum
<1>8. r[MaxTime] = s[MaxTime] + c
  BY TimesFacts, BudgetAssumption DEF Times
<1> QED BY <1>7, <1>8 DEF g

----------------------------------------------------------------------------
(* Windows *)

LEMMA SpanTyped ==
    ASSUME NEW f \in Charges, NEW w, NEW end PROVE Span(f, w, end) \in Charges
BY TimesFacts DEF Span, Charges

LEMMA SpanIsNatural ==
    ASSUME NEW f \in Charges, NEW w, NEW end PROVE Total(Span(f, w, end)) \in Nat
BY SpanTyped, TotalIsNatural

(* What lies below f, and only inside the span, adds up to no more.        *)
LEMMA SpanCovers ==
    ASSUME NEW f \in Charges, NEW g \in Charges, Below(g, f), NEW w \in Times, NEW end,
           \A time \in Times : g[time] # 0 => time + Window > w /\ time <= end
    PROVE  Total(g) <= Total(Span(f, w, end))
<1>1. ASSUME NEW time \in Times PROVE g[time] <= Span(f, w, end)[time]
  <2>1. g[time] <= f[time] /\ g[time] \in Nat /\ f[time] \in Nat
    BY DEF Below, Charges
  <2>2. CASE g[time] = 0
    BY <2>1, <2>2 DEF Span
  <2>3. CASE g[time] # 0
    BY <2>1, <2>3 DEF Span
  <2> QED BY <2>2, <2>3
<1> QED BY <1>1, SpanTyped, TotalIsMonotone DEF Below

(* More let through, or a later end. *)
LEMMA SpanGrows ==
    ASSUME NEW f \in Charges, NEW g \in Charges, Below(f, g), NEW w \in Times,
           NEW end \in Times, NEW later \in Times, end <= later
    PROVE  Total(Span(f, w, end)) <= Total(Span(g, w, later))
<1> DEFINE s == Span(f, w, end)
<1>1. s \in Charges
  BY SpanTyped
<1>2. ASSUME NEW time \in Times
      PROVE  /\ s[time] <= g[time]
             /\ s[time] # 0 => time + Window > w /\ time <= later
  <2>1. f[time] <= g[time] /\ f[time] \in Nat /\ g[time] \in Nat
    BY DEF Below, Charges
  <2> QED BY <2>1, TimesFacts DEF Span
<1> HIDE DEF s
<1>3. Total(s) <= Total(Span(g, w, later))
  BY <1>1, <1>2, SpanCovers DEF Below
<1> QED BY <1>3 DEF s

(* Time passes: nothing has been let through at the moment that begins.    *)
LEMMA WindowSlides ==
    ASSUME NEW f \in Charges, NEW w \in Times, w + 1 \in Times, f[w + 1] = 0
    PROVE  Total(Span(f, w + 1, w + 1)) <= Total(Span(f, w, w))
<1> DEFINE s == Span(f, w + 1, w + 1)
<1>1. s \in Charges
  BY SpanTyped
<1>2. ASSUME NEW time \in Times
      PROVE  /\ s[time] <= f[time]
             /\ s[time] # 0 => time + Window > w /\ time <= w
  <2>1. time \in Nat /\ w \in Nat /\ f[time] \in Nat /\ Window \in Nat
    BY TimesFacts, BudgetAssumption DEF Charges
  <2>2. s[time] = IF time + Window > w + 1 /\ time <= w + 1 THEN f[time] ELSE 0
    BY DEF Span
  <2>3. CASE time = w + 1
    BY <2>1, <2>2, <2>3
  <2>4. CASE time # w + 1
    BY <2>1, <2>2, <2>4
  <2> QED BY <2>3, <2>4
<1> HIDE DEF s
<1>3. Total(s) <= Total(Span(f, w, w))
  BY <1>1, <1>2, SpanCovers DEF Below
<1> QED BY <1>3 DEF s

(* A cost let through adds itself to the spans around it. *)
LEMMA SpanAdds ==
    ASSUME NEW f \in Charges, NEW at \in Times, NEW c \in Nat, NEW g,
           g = [f EXCEPT ![at] = @ + c], NEW w \in Times, NEW end \in Times
    PROVE  /\ Total(Span(g, w, end)) <= Total(Span(f, w, end)) + c
           /\ end < at => Span(g, w, end) = Span(f, w, end)
<1>1. /\ g \in Charges /\ g[at] = f[at] + c /\ at \in Nat /\ end \in Nat
      /\ \A time \in Times : time # at => g[time] = f[time]
      /\ \A time \in Times : f[time] \in Nat /\ time \in Nat
  BY TimesFacts DEF Charges
<1>2. Span(g, w, end) \in Charges /\ Span(f, w, end) \in Charges
  BY <1>1, SpanTyped
<1>3. ASSUME end < at PROVE Span(g, w, end) = Span(f, w, end)
  BY <1>1, <1>3 DEF Span
<1> DEFINE s == Span(f, w, end)
<1> HIDE DEF s
<1> DEFINE h == [s EXCEPT ![at] = @ + c]
<1>4. /\ h \in Charges /\ h[at] = s[at] + c
      /\ \A time \in Times : time # at => h[time] = s[time]
      /\ \A time \in Times : s[time] \in Nat
  <2>1. s \in Charges
    BY <1>2 DEF s
  <2>2. \A time \in Times : s[time] \in Nat
    BY <2>1 DEF Charges
  <2>3. h \in [Times -> Nat]
    <3>1. PICK d \in Nat : d = s[at] + c
      BY <2>2
    <3>2. h = [s EXCEPT ![at] = d] /\ s \in [Times -> Nat]
      BY <2>1, <3>1 DEF Charges
    <3> HIDE DEF h
    <3> QED BY <3>2
  <2>4. h[at] = s[at] + c /\ \A time \in Times : time # at => h[time] = s[time]
    BY <2>1 DEF Charges
  <2> QED BY <2>2, <2>3, <2>4 DEF Charges
<1> HIDE DEF h
<1>5. ASSUME NEW time \in Times PROVE Span(g, w, end)[time] <= h[time]
  <2>1. s[time] = IF time + Window > w /\ time <= end THEN f[time] ELSE 0
    BY DEF Span, s
  <2>2. Span(g, w, end)[time] = IF time + Window > w /\ time <= end THEN g[time] ELSE 0
    BY DEF Span
  <2>3. CASE time = at
    BY <1>1, <1>4, <2>1, <2>2, <2>3
  <2>4. CASE time # at
    BY <1>1, <1>4, <2>1, <2>2, <2>4
  <2> QED BY <2>3, <2>4
<1>6. Total(Span(g, w, end)) <= Total(h)
  BY <1>2, <1>4, <1>5, TotalIsMonotone DEF Below
<1>7. Total(h) = Total(Span(f, w, end)) + c
  BY <1>2, TotalAdds DEF h, s
<1> QED BY <1>3, <1>6, <1>7

----------------------------------------------------------------------------
(* The invariant *)

(* A list is there where a step uses one, and in the dict once installed.  *)
HeldOK ==
    \A t \in Threads :
        /\ pc[t] \in {"install", "sum", "stamp", "append"} => list[t] \in Lists
        /\ pc[t] \in {"sum", "setdefault"} => events[job[t].agent] # NoList

TypeInv == TypeOK /\ HeldOK

NoFuture ==
    /\ \A a \in Agents, time \in Times : time > now => granted[a][time] = 0
    /\ \A t \in Threads : clock[t] <= now

(* No list object holds more than was let through, reachable or not.       *)
AllReal == \A a \in Agents, l \in Lists : Below(lists[a][l], granted[a])

(* What a thread filtered holds only what was recent when it read the      *)
(* clock, and whoever is about to append to it took the time later.        *)
FreshOK(t) ==
    LET a == job[t].agent IN
    pc[t] \in {"install", "sum"} =>
        /\ \A time \in Times : lists[a][list[t]][time] # 0 => Recent(time, clock[t])
        /\ \A u \in Threads : pc[u] = "append" /\ job[u].agent = a /\ list[u] = list[t]
                                 => clock[u] >= clock[t]

ChargesInv ==
    /\ TypeInv /\ NoFuture /\ AllReal
    /\ \A t \in Threads : FreshOK(t)

(* An agent that is not in raced has at most one call. *)
OneCall == \A t, u \in Threads :
              /\ pc[t] # "idle" /\ pc[u] # "idle"
              /\ job[t].agent = job[u].agent /\ job[t].agent \notin raced
              => t = u

Entry(a) == IF events[a] = NoList THEN Nothing ELSE lists[a][events[a]]

Exact == \A a \in Agents \ raced, time \in Times :
            Recent(time, now) => Entry(a)[time] = granted[a][time]

Working == {"fetch", "filter", "install", "sum"}

Room(a, cost, w) == GrantedIn(a, w) + cost <= Limit

(* A call past its check. *)
Passed(t) ==
    \/ pc[t] \in {"proceed", "setdefault", "stamp", "append"}
    \/ pc[t] # "idle" /\ use[t] = "consume"

(* What a call of an agent with one call at a time knows of the budget:    *)
(* nothing was let through since it read the clock, the list it holds is   *)
(* the agent's, and past the check there is room for the cost.             *)
SoloOK(t) ==
    LET a == job[t].agent IN
    pc[t] # "idle" /\ a \notin raced =>
        /\ pc[t] \in Working =>
              \A time \in Times : time > clock[t] => granted[a][time] = 0
        /\ pc[t] \in {"filter", "sum", "stamp", "append"} => list[t] = events[a]
        /\ pc[t] = "install" => \A time \in Times :
              Recent(time, now) => lists[a][list[t]][time] = granted[a][time]
        /\ Passed(t) => Room(a, job[t].cost, now)
        /\ Passed(t) /\ pc[t] \in Working \cup {"append"} =>
              \A w \in clock[t]..now : Room(a, job[t].cost, w)

SoloInv ==
    /\ OneCall /\ Exact /\ SoloWithinLimit
    /\ \A t \in Threads : SoloOK(t)

Inv == ChargesInv /\ SoloInv /\ RefusedOnlyWhenFull

----------------------------------------------------------------------------
(* Types *)

LEMMA HasJob ==
    ASSUME TypeOK, NEW t \in Threads, pc[t] # "idle"
    PROVE  /\ job[t] \in Jobs /\ job[t].agent \in Agents /\ job[t].cost \in Costs
           /\ job[t].cost \in Nat /\ job[t] # NoJob
BY BudgetAssumption DEF TypeOK, Jobs

LEMMA NothingTyped == Nothing \in Charges /\ \A time \in Times : Nothing[time] = 0
BY DEF Nothing, Charges

LEMMA Contained ==
    ASSUME TypeOK, NEW t \in Threads, pc[t] # "idle"
    PROVE  Contents(t) \in Charges
BY HasJob, NothingTyped DEF TypeOK, Contents

LEMMA ActiveTyped ==
    ASSUME NEW f \in Charges, NEW read PROVE Active(f, read) \in Charges
BY TimesFacts DEF Active, Charges

(* The steps that change what list objects hold. *)
LEMMA Filtered ==
    ASSUME TypeInv, NEW t \in Threads, Filter(t), NEW a, a = job[t].agent
    PROVE  \E l \in Lists :
             /\ l \notin Reachable(a) /\ list' = [list EXCEPT ![t] = l] /\ list'[t] = l
             /\ lists' \in [Agents -> [Lists -> Charges]]
             /\ lists'[a][l] = Active(Contents(t), clock[t])
             /\ \A b \in Agents, k \in Lists : b # a \/ k # l => lists'[b][k] = lists[b][k]
             /\ \A b \in Agents : b # a => lists'[b] = lists[b]
<1>1. /\ lists \in [Agents -> [Lists -> Charges]] /\ a \in Agents /\ lists[a] \in [Lists -> Charges]
      /\ list \in [Threads -> Lists \cup {NoList}]
      /\ Active(Contents(t), clock[t]) \in Charges
  BY HasJob, Contained, ActiveTyped DEF TypeInv, TypeOK, Filter
<1>2. PICK l \in Lists :
          /\ l \notin Reachable(a) /\ list' = [list EXCEPT ![t] = l]
          /\ lists' = [lists EXCEPT ![a][l] = Active(Contents(t), clock[t])]
  BY DEF Filter, Hold
<1> DEFINE cells == [lists[a] EXCEPT ![l] = Active(Contents(t), clock[t])]
<1>3. /\ cells \in [Lists -> Charges] /\ cells[l] = Active(Contents(t), clock[t])
      /\ \A k \in Lists : k # l => cells[k] = lists[a][k]
  BY <1>1
<1>4. lists' = [lists EXCEPT ![a] = cells]
  BY <1>2
<1> HIDE DEF cells
<1>5. /\ lists' \in [Agents -> [Lists -> Charges]] /\ lists'[a] = cells
      /\ \A b \in Agents : b # a => lists'[b] = lists[b]
  BY <1>1, <1>3, <1>4
<1>6. list'[t] = l
  BY <1>1, <1>2
<1>7. \A b \in Agents, k \in Lists : b # a \/ k # l => lists'[b][k] = lists[b][k]
  BY <1>3, <1>5
<1>8. lists'[a][l] = Active(Contents(t), clock[t])
  BY <1>3, <1>5
<1> HIDE DEF Reachable
<1> QED BY <1>2, <1>5, <1>6, <1>7, <1>8

(* A cost is let through at a time. *)
LEMMA Granted ==
    ASSUME TypeOK, NEW t \in Threads, pc[t] # "idle", NEW at \in Times, Grant(t, at),
           NEW a, a = job[t].agent
    PROVE  /\ granted' \in [Agents -> Charges]
           /\ granted'[a] = [granted[a] EXCEPT ![at] = @ + job[t].cost]
           /\ granted'[a][at] = granted[a][at] + job[t].cost
           /\ \A time \in Times : time # at => granted'[a][time] = granted[a][time]
           /\ \A b \in Agents : b # a => granted'[b] = granted[b]
           /\ \A b \in Agents : Below(granted[b], granted'[b])
<1>1. /\ a \in Agents /\ job[t].cost \in Nat /\ granted \in [Agents -> Charges]
      /\ granted[a] \in Charges /\ \A b \in Agents : granted[b] \in Charges
  BY HasJob DEF TypeOK
<1> DEFINE f == [granted[a] EXCEPT ![at] = @ + job[t].cost]
<1>2. /\ f \in Charges /\ f[at] = granted[a][at] + job[t].cost
      /\ \A time \in Times : time # at => f[time] = granted[a][time]
      /\ \A time \in Times : granted[a][time] \in Nat
  BY <1>1 DEF Charges
<1>3. granted' = [granted EXCEPT ![a] = f]
  BY DEF Grant
<1>4. f = [granted[a] EXCEPT ![at] = @ + job[t].cost]
  OBVIOUS
<1> HIDE DEF f
<1>5. /\ granted' \in [Agents -> Charges] /\ granted'[a] = f
      /\ \A b \in Agents : b # a => granted'[b] = granted[b]
  BY <1>1, <1>2, <1>3
<1>6. ASSUME NEW b \in Agents, NEW time \in Times PROVE granted[b][time] <= granted'[b][time]
  <2>1. CASE b # a
    <3>1. granted'[b][time] = granted[b][time] /\ granted[b][time] \in Nat
      BY <1>1, <1>5, <2>1 DEF Charges
    <3> QED BY <3>1
  <2>2. CASE b = a
    BY <1>1, <1>2, <1>5, <2>2
  <2> QED BY <2>1, <2>2
<1> QED BY <1>2, <1>4, <1>5, <1>6 DEF Below

LEMMA GrantedAt ==
    ASSUME TypeOK, NEW t \in Threads, pc[t] # "idle", NEW at \in Times, Grant(t, at),
           NEW a, a = job[t].agent, NEW time \in Times
    PROVE  granted'[a][time] = IF time = at THEN granted[a][at] + job[t].cost
                                            ELSE granted[a][time]
<1>1. granted'[a] = [granted[a] EXCEPT ![at] = @ + job[t].cost]
  BY Granted
<1>2. granted[a] \in [Times -> Nat]
  BY HasJob DEF TypeOK, Charges
<1> QED BY <1>1, <1>2

LEMMA Appended ==
    ASSUME TypeInv, NEW t \in Threads, AppendEvent(t), NEW a, a = job[t].agent,
           NEW l, l = list[t]
    PROVE  /\ l \in Lists /\ lists' \in [Agents -> [Lists -> Charges]]
           /\ lists'[a][l][clock[t]] = lists[a][l][clock[t]] + job[t].cost
           /\ \A time \in Times : time # clock[t] => lists'[a][l][time] = lists[a][l][time]
           /\ \A b \in Agents, k \in Lists : b # a \/ k # l => lists'[b][k] = lists[b][k]
           /\ \A b \in Agents : b # a => lists'[b] = lists[b]
<1>1. /\ lists \in [Agents -> [Lists -> Charges]] /\ a \in Agents /\ lists[a] \in [Lists -> Charges]
      /\ l \in Lists /\ lists[a][l] \in Charges /\ clock[t] \in Times /\ job[t].cost \in Nat
  BY HasJob DEF TypeInv, TypeOK, HeldOK, AppendEvent
<1>2. lists' = [lists EXCEPT ![a][l][clock[t]] = @ + job[t].cost]
  BY DEF AppendEvent, Recorded
<1> DEFINE f == [lists[a][l] EXCEPT ![clock[t]] = @ + job[t].cost]
<1>3. /\ f \in Charges /\ f[clock[t]] = lists[a][l][clock[t]] + job[t].cost
      /\ \A time \in Times : time # clock[t] => f[time] = lists[a][l][time]
  BY <1>1 DEF Charges
<1> DEFINE cells == [lists[a] EXCEPT ![l] = f]
<1>4. lists' = [lists EXCEPT ![a] = cells]
  BY <1>2
<1> HIDE DEF f
<1>5. /\ cells \in [Lists -> Charges] /\ cells[l] = f
      /\ \A k \in Lists : k # l => cells[k] = lists[a][k]
  BY <1>1, <1>3
<1> HIDE DEF cells
<1>6. /\ lists' \in [Agents -> [Lists -> Charges]] /\ lists'[a] = cells
      /\ \A b \in Agents : b # a => lists'[b] = lists[b]
  BY <1>1, <1>4, <1>5
<1> QED BY <1>1, <1>3, <1>5, <1>6

(* A step of a thread leaves the others and other agents' budgets alone.   *)
LEMMA StepFrame ==
    ASSUME TypeInv, NEW t \in Threads, Step(t), NEW a, a = job[t].agent
    PROVE  /\ now' = now /\ raced' = raced /\ calls' = calls
           /\ pc[t] # "idle" /\ job[t] # NoJob /\ a \in Agents /\ job[t].cost \in Nat
           /\ \A u \in Threads : u # t =>
                 /\ pc'[u] = pc[u] /\ use'[u] = use[u] /\ job'[u] = job[u]
                 /\ clock'[u] = clock[u] /\ list'[u] = list[u]
           /\ pc'[t] # "idle" => job'[t] = job[t]
           /\ \A b \in Agents : b # a => /\ events'[b] = events[b] /\ lists'[b] = lists[b]
                                         /\ granted'[b] = granted[b]
           /\ \A b \in Agents : events[b] # NoList => events'[b] # NoList
<1> USE DEF Goto, Enter, Hold, Drop, Return
<1>0. /\ TypeOK /\ HeldOK /\ pc \in [Threads -> Steps] /\ events \in [Agents -> Lists \cup {NoList}]
      /\ job \in [Threads -> Jobs \cup {NoJob}]
  BY DEF TypeInv, TypeOK
<1>00. pc[t] # "idle"
  BY DEF Step, ReadClock, Fetch, Filter, Install, Check, Proceed, Consume, SetDefault,
         Stamp, AppendEvent
<1>01. /\ job[t] # NoJob /\ a \in Agents /\ job[t].cost \in Nat /\ now \in Times
       /\ clock[t] \in Times
  BY <1>0, <1>00, HasJob DEF TypeOK
<1>1. ASSUME ReadClock(t) \/ Fetch(t) \/ Check(t) \/ SetDefault(t) \/ Stamp(t) \/ Proceed(t)
      PROVE  /\ UNCHANGED <<now, raced, calls, events, lists, granted>>
             /\ \A u \in Threads : u # t =>
                   /\ pc'[u] = pc[u] /\ use'[u] = use[u] /\ job'[u] = job[u]
                   /\ clock'[u] = clock[u] /\ list'[u] = list[u]
             /\ pc'[t] # "idle" => job'[t] = job[t]
  BY <1>0, <1>1 DEF ReadClock, Fetch, Check, SetDefault, Stamp, Proceed, TypeOK
<1>2. CASE ReadClock(t) \/ Fetch(t) \/ Check(t) \/ SetDefault(t) \/ Stamp(t) \/ Proceed(t)
  BY <1>00, <1>01, <1>1, <1>2
<1>3. CASE Filter(t)
  <2>1. /\ UNCHANGED <<now, events, use, job, clock, granted, raced, calls>>
        /\ \A u \in Threads : u # t => pc'[u] = pc[u]
    BY <1>0, <1>3 DEF Filter, TypeOK
  <2>2. /\ \A b \in Agents : b # a => lists'[b] = lists[b]
        /\ \A u \in Threads : u # t => list'[u] = list[u]
    BY <1>0, <1>3, Filtered DEF TypeOK
  <2> QED BY <1>00, <1>01, <2>1, <2>2
<1>4. CASE Install(t)
  <2>1. /\ UNCHANGED <<now, lists, use, clock, granted, raced, calls>>
        /\ \A u \in Threads : u # t => pc'[u] = pc[u] /\ list'[u] = list[u] /\ job'[u] = job[u]
        /\ pc'[t] # "idle" => job'[t] = job[t]
    BY <1>0, <1>4 DEF Install, TypeOK
  <2>2. events' = [events EXCEPT ![a] = list[t]] /\ list[t] \in Lists /\ list[t] # NoList
    BY <1>0, <1>4, BudgetAssumption DEF Install, HeldOK
  <2>3. \A b \in Agents : /\ b # a => events'[b] = events[b]
                          /\ events[b] # NoList => events'[b] # NoList
    BY <1>0, <1>01, <2>2
  <2> QED BY <1>00, <1>01, <2>1, <2>3
<1>5. CASE Consume(t)
  <2>1. /\ UNCHANGED <<now, lists, events, job, clock, raced, calls>>
        /\ \A u \in Threads : u # t => pc'[u] = pc[u] /\ list'[u] = list[u] /\ use'[u] = use[u]
        /\ granted' = granted \/ Grant(t, now)
    BY <1>0, <1>5 DEF Consume, TypeOK
  <2>2. ASSUME Grant(t, now) PROVE \A b \in Agents : b # a => granted'[b] = granted[b]
    <3>1. granted' = [granted EXCEPT ![a][now] = @ + job[t].cost]
      BY <2>2 DEF Grant
    <3> QED BY <1>0, <3>1 DEF TypeOK
  <2>3. \A b \in Agents : b # a => granted'[b] = granted[b]
    BY <2>1, <2>2
  <2> QED BY <1>00, <1>01, <2>1, <2>3
<1>6. CASE AppendEvent(t)
  <2>1. /\ UNCHANGED <<now, events, job, clock, raced, calls>> /\ Grant(t, clock[t])
        /\ \A u \in Threads : u # t => pc'[u] = pc[u] /\ list'[u] = list[u] /\ use'[u] = use[u]
    BY <1>0, <1>6 DEF AppendEvent, TypeOK
  <2>2. \A b \in Agents : b # a => granted'[b] = granted[b]
    <3>1. granted' = [granted EXCEPT ![a][clock[t]] = @ + job[t].cost]
      BY <2>1 DEF Grant
    <3> QED BY <1>0, <3>1 DEF TypeOK
  <2>3. \A b \in Agents : b # a => lists'[b] = lists[b]
    BY <1>6, Appended
  <2> QED BY <1>00, <1>01, <2>1, <2>2, <2>3
<1> QED BY <1>2, <1>3, <1>4, <1>5, <1>6 DEF Step

(* The types of what the steps of a call set. *)
LEMMA StepTypes ==
    ASSUME TypeInv, NEW t \in Threads, Step(t)
    PROVE  TypeOK'
<1> USE DEF Goto, Enter, Hold, Drop, Return
<1>0. /\ TypeOK /\ HeldOK /\ pc[t] # "idle" /\ job[t] # NoJob
      /\ now' = now /\ raced' = raced /\ calls' = calls
      /\ job[t].agent \in Agents /\ job[t].cost \in Nat
  BY StepFrame DEF TypeInv
<1>1. /\ lists' \in [Agents -> [Lists -> Charges]]
  <2>1. CASE UNCHANGED lists
    BY <1>0, <2>1 DEF TypeOK
  <2>2. CASE Filter(t)
    BY <2>2, Filtered
  <2>3. CASE AppendEvent(t)
    BY <2>3, Appended
  <2> QED BY <2>1, <2>2, <2>3 DEF Step, ReadClock, Fetch, Install, Check, Proceed, Consume,
                                  SetDefault, Stamp
<1>2. granted' \in [Agents -> Charges]
  <2>1. CASE UNCHANGED granted
    BY <1>0, <2>1 DEF TypeOK
  <2>2. CASE Grant(t, now)
    <3>1. now \in Times
      BY <1>0 DEF TypeOK
    <3> QED BY <1>0, <2>2, <3>1, Granted
  <2>3. CASE Grant(t, clock[t])
    <3>1. clock[t] \in Times
      BY <1>0 DEF TypeOK
    <3> QED BY <1>0, <2>3, <3>1, Granted
  <2> QED BY <2>1, <2>2, <2>3 DEF Step, ReadClock, Fetch, Filter, Install, Check, Proceed,
                                  Consume, SetDefault, Stamp, AppendEvent
<1>3. events' \in [Agents -> Lists \cup {NoList}]
  BY <1>0 DEF TypeOK, Step, ReadClock, Fetch, Filter, Install, Check, Proceed,
              Consume, SetDefault, Stamp, AppendEvent
<1>4. /\ clock' \in [Threads -> Times] /\ use' \in [Threads -> Uses]
  BY <1>0 DEF TypeOK, Uses, Step, ReadClock, Fetch, Filter, Install, Check, Proceed,
              Consume, SetDefault, Stamp, AppendEvent
<1>5. list' \in [Threads -> Lists \cup {NoList}]
  BY <1>0 DEF TypeOK, Step, ReadClock, Fetch, Filter, Install, Check, Proceed,
              Consume, SetDefault, Stamp, AppendEvent
<1>6. /\ pc' \in [Threads -> Steps] /\ job' \in [Threads -> Jobs \cup {NoJob}]
  BY <1>0 DEF TypeOK, Steps, Step, ReadClock, Fetch, Filter, Install, Check, Proceed,
              Consume, SetDefault, Stamp, AppendEvent
<1>7. /\ pc'[t] = "idle" <=> job'[t] = NoJob
      /\ pc'[t] \in {"setdefault", "stamp", "append"} => job'[t].cost > 0
  <2>1. CASE ReadClock(t) \/ Fetch(t) \/ Filter(t) \/ Check(t)
    BY <1>0, <2>1 DEF TypeOK, ReadClock, Fetch, Filter, Check
  <2>2. CASE Install(t) \/ Proceed(t)
    BY <1>0, <2>2 DEF TypeOK, Install, Proceed
  <2>3. CASE Consume(t) \/ SetDefault(t) \/ Stamp(t) \/ AppendEvent(t)
    BY <1>0, <2>3 DEF TypeOK, Consume, HasCost, SetDefault, Stamp, AppendEvent
  <2> QED BY <2>1, <2>2, <2>3 DEF Step
<1>8. ASSUME NEW u \in Threads, u # t
      PROVE  /\ pc'[u] = "idle" <=> job'[u] = NoJob
             /\ pc'[u] \in {"setdefault", "stamp", "append"} => job'[u].cost > 0
  <2>1. pc'[u] = pc[u] /\ job'[u] = job[u]
    BY <1>8, StepFrame
  <2> QED BY <1>0, <2>1 DEF TypeOK
<1>9. \A u \in Threads : /\ pc'[u] = "idle" <=> job'[u] = NoJob
                         /\ pc'[u] \in {"setdefault", "stamp", "append"} => job'[u].cost > 0
  BY <1>7, <1>8
<1>10. now' \in Times /\ raced' \subseteq Agents /\ calls' \in 0..MaxCalls
  BY <1>0 DEF TypeOK
<1> QED BY <1>1, <1>2, <1>3, <1>4, <1>5, <1>6, <1>9, <1>10 DEF TypeOK

LEMMA StepHolds ==
    ASSUME TypeInv, NEW t \in Threads, Step(t)
    PROVE  HeldOK'
<1> USE DEF Goto, Enter, Hold, Drop, Return
<1>0. /\ TypeOK /\ HeldOK /\ job[t].agent \in Agents
      /\ pc \in [Threads -> Steps] /\ list \in [Threads -> Lists \cup {NoList}]
      /\ events \in [Agents -> Lists \cup {NoList}] /\ NoList \notin Lists
  BY StepFrame, BudgetAssumption DEF TypeInv, TypeOK
<1>1. /\ pc'[t] \in {"install", "sum", "stamp", "append"} => list'[t] \in Lists
      /\ pc'[t] \in {"sum", "setdefault"} => events'[job'[t].agent] # NoList
  <2>1. CASE ReadClock(t) \/ Fetch(t) \/ Check(t) \/ Proceed(t) \/ AppendEvent(t)
    BY <1>0, <2>1 DEF ReadClock, Fetch, Check, Proceed, AppendEvent
  <2>2. CASE Filter(t)
    <3>1. list'[t] \in Lists
      BY <2>2, Filtered
    <3> QED BY <1>0, <2>2, <3>1 DEF Filter
  <2>3. CASE Install(t)
    BY <1>0, <2>3 DEF Install, HeldOK
  <2>4. CASE Consume(t)
    BY <1>0, <2>4 DEF Consume, HeldOK
  <2>5. CASE SetDefault(t) \/ Stamp(t)
    BY <1>0, <2>5 DEF SetDefault, Stamp, HeldOK
  <2> QED BY <2>1, <2>2, <2>3, <2>4, <2>5 DEF Step
<1>2. ASSUME NEW u \in Threads, u # t
      PROVE  /\ pc'[u] \in {"install", "sum", "stamp", "append"} => list'[u] \in Lists
             /\ pc'[u] \in {"sum", "setdefault"} => events'[job'[u].agent] # NoList
  <2>1. /\ pc'[u] = pc[u] /\ job'[u] = job[u] /\ list'[u] = list[u]
        /\ \A b \in Agents : events[b] # NoList => events'[b] # NoList
    BY <1>2, StepFrame
  <2>2. pc[u] # "idle" => job[u].agent \in Agents
    BY <1>0, HasJob
  <2> QED BY <1>0, <2>1, <2>2 DEF HeldOK
<1> QED BY <1>1, <1>2 DEF HeldOK

LEMMA SubmitTypes ==
    ASSUME TypeInv, NEW t \in Threads, NEW j \in Jobs, Submit(t, j)
    PROVE  TypeInv'
<1>1. /\ pc[t] = "idle" /\ calls < MaxCalls /\ calls' = calls + 1
      /\ job' = [job EXCEPT ![t] = j] /\ pc' = [pc EXCEPT ![t] = "clock"]
      /\ use' = [use EXCEPT ![t] = "check"]
      /\ raced' = raced \cup {a \in {j.agent} : \E u \in Threads :
                                 job[u] # NoJob /\ job[u].agent = a}
      /\ UNCHANGED <<now, lists, events, clock, list, granted>>
  BY DEF Submit, Enter, Goto
<1>2. /\ raced' \subseteq Agents /\ j # NoJob
  BY <1>1, BudgetAssumption DEF TypeInv, TypeOK, Jobs
<1>3. /\ calls' \in 0..MaxCalls /\ pc' \in [Threads -> Steps]
      /\ use' \in [Threads -> Uses] /\ job' \in [Threads -> Jobs \cup {NoJob}]
  BY <1>1, BudgetAssumption DEF TypeInv, TypeOK, Steps, Uses
<1>4. \A u \in Threads : /\ pc'[u] = "idle" <=> job'[u] = NoJob
                         /\ pc'[u] \in {"setdefault", "stamp", "append"} => job'[u].cost > 0
  BY <1>1, <1>2 DEF TypeInv, TypeOK
<1>5. HeldOK'
  BY <1>1 DEF TypeInv, TypeOK, HeldOK
<1> QED BY <1>1, <1>2, <1>3, <1>4, <1>5 DEF TypeInv, TypeOK

LEMMA TypeStep == TypeInv /\ [Next]_vars => TypeInv'
<1> SUFFICES ASSUME TypeInv, [Next]_vars PROVE TypeInv'
  OBVIOUS
<1>1. ASSUME NEW t \in Threads, Step(t) PROVE TypeInv'
  BY <1>1, StepTypes, StepHolds DEF TypeInv
<1>2. ASSUME NEW t \in Threads, NEW j \in Jobs, Submit(t, j) PROVE TypeInv'
  BY <1>2, SubmitTypes
<1>3. CASE Tick
  <2>1. now' \in Times
    BY <1>3, TimesFacts DEF Tick, TypeInv, TypeOK, Times
  <2> QED BY <1>3, <2>1 DEF Tick, TypeInv, TypeOK, HeldOK
<1>4. CASE UNCHANGED vars
  BY <1>4 DEF vars, TypeInv, TypeOK, HeldOK
<1> QED BY <1>1, <1>2, <1>3, <1>4 DEF Next

LEMMA InitTypes == Init => TypeInv
<1> SUFFICES ASSUME Init PROVE TypeInv
  OBVIOUS
<1>1. /\ now = 0 /\ lists = [a \in Agents |-> [l \in Lists |-> Nothing]]
      /\ granted = [a \in Agents |-> Nothing] /\ clock = [t \in Threads |-> 0]
  BY DEF Init
<1>2. /\ lists \in [Agents -> [Lists -> Charges]] /\ granted \in [Agents -> Charges]
      /\ clock \in [Threads -> Times] /\ now \in Times
  BY <1>1, NothingTyped, TimesFacts
<1>3. HeldOK
  BY DEF Init, HeldOK
<1>4. /\ events \in [Agents -> Lists \cup {NoList}] /\ pc \in [Threads -> Steps]
      /\ use \in [Threads -> Uses] /\ job \in [Threads -> Jobs \cup {NoJob}]
      /\ list \in [Threads -> Lists \cup {NoList}]
      /\ raced \subseteq Agents /\ calls \in 0..MaxCalls
      /\ \A t \in Threads : pc[t] = "idle" /\ job[t] = NoJob
  BY BudgetAssumption DEF Init, Steps, Uses
<1> QED BY <1>2, <1>3, <1>4 DEF TypeInv, TypeOK

----------------------------------------------------------------------------
(* Charges *)

(* What a call is let through bears a time that is not in the future.      *)
LEMMA LetThrough ==
    ASSUME TypeInv, NoFuture, NEW t \in Threads, Step(t)
    PROVE  \/ granted' = granted
           \/ \E at \in Times : at <= now /\ Grant(t, at)
<1>1. now \in Times /\ clock[t] \in Times /\ clock[t] <= now /\ now <= now
  BY TimesFacts DEF TypeInv, TypeOK, NoFuture
<1>2. CASE UNCHANGED granted
  BY <1>2
<1>3. CASE Grant(t, now)
  BY <1>1, <1>3
<1>4. CASE Grant(t, clock[t])
  BY <1>1, <1>4
<1> QED BY <1>2, <1>3, <1>4 DEF Step, ReadClock, Fetch, Filter, Install, Check, Proceed,
                                Consume, SetDefault, Stamp, AppendEvent

LEMMA SelfBelow == ASSUME NEW f \in Charges PROVE Below(f, f)
BY DEF Below, Charges

LEMMA BelowIsTransitive ==
    ASSUME NEW f \in Charges, NEW g \in Charges, NEW h \in Charges, Below(f, g), Below(g, h)
    PROVE  Below(f, h)
BY DEF Below, Charges

LEMMA GrantedGrows ==
    ASSUME TypeInv, NoFuture, NEW t \in Threads, Step(t)
    PROVE  \A b \in Agents : Below(granted[b], granted'[b])
<1>1. \A b \in Agents : granted[b] \in Charges
  BY DEF TypeInv, TypeOK
<1>2. CASE granted' = granted
  BY <1>1, <1>2, SelfBelow
<1>3. ASSUME NEW at \in Times, Grant(t, at)
      PROVE  \A b \in Agents : Below(granted[b], granted'[b])
  BY <1>3, StepFrame, Granted DEF TypeInv
<1> QED BY <1>2, <1>3, LetThrough

LEMMA StepNoFuture ==
    ASSUME TypeInv, NoFuture, NEW t \in Threads, Step(t)
    PROVE  NoFuture'
<1>0. /\ now' = now /\ now \in Nat /\ clock \in [Threads -> Times]
      /\ \A u \in Threads : clock[u] <= now
  BY StepFrame, TimesFacts DEF TypeInv, TypeOK, NoFuture
<1>1. \A a \in Agents, time \in Times : time > now => granted'[a][time] = 0
  <2>1. CASE granted' = granted
    BY <2>1 DEF NoFuture
  <2>2. ASSUME NEW at \in Times, at <= now, Grant(t, at),
               NEW a \in Agents, NEW time \in Times, time > now
        PROVE  granted'[a][time] = 0
    <3>1. granted[a][time] = 0 /\ time # at
      BY <1>0, <2>2, TimesFacts DEF NoFuture
    <3>2. granted'[a][time] = granted[a][time]
      <4>0. TypeOK /\ pc[t] # "idle" /\ at \in Times /\ Grant(t, at)
        BY <2>2, StepFrame DEF TypeInv
      <4>1. CASE a = job[t].agent
        <5>1. granted'[a][time] = IF time = at THEN granted[a][at] + job[t].cost
                                               ELSE granted[a][time]
          BY <4>0, <4>1, GrantedAt
        <5> QED BY <3>1, <5>1
      <4>2. CASE a # job[t].agent
        BY <4>2, StepFrame
      <4> QED BY <4>1, <4>2
    <3> QED BY <3>1, <3>2
  <2> QED BY <2>1, <2>2, LetThrough
<1>2. \A u \in Threads : clock'[u] \in {clock[u], now}
  BY <1>0 DEF Step, ReadClock, Fetch, Filter, Install, Check, Proceed,
              Consume, SetDefault, Stamp, AppendEvent
<1>3. now <= now
  BY <1>0
<1>4. \A u \in Threads : clock'[u] <= now
  BY <1>0, <1>2, <1>3
<1> QED BY <1>0, <1>1, <1>4 DEF NoFuture

LEMMA ContentsReal ==
    ASSUME TypeInv, AllReal, NEW t \in Threads, pc[t] # "idle", NEW a, a = job[t].agent
    PROVE  Below(Contents(t), granted[a])
<1>1. a \in Agents /\ granted[a] \in Charges /\ list[t] \in Lists \cup {NoList}
  BY HasJob DEF TypeInv, TypeOK
<1>2. CASE list[t] = NoList
  BY <1>1, <1>2, NothingTyped DEF Contents, Below, Charges
<1>3. CASE list[t] # NoList
  BY <1>1, <1>3 DEF Contents, AllReal
<1> QED BY <1>2, <1>3

LEMMA StepAllReal ==
    ASSUME TypeInv, NoFuture, AllReal, NEW t \in Threads, Step(t)
    PROVE  AllReal'
<1>a. PICK a : a = job[t].agent
  OBVIOUS
<1>0. /\ \A b \in Agents : /\ granted[b] \in Charges /\ granted'[b] \in Charges
                           /\ Below(granted[b], granted'[b])
      /\ \A b \in Agents, l \in Lists : lists[b][l] \in Charges /\ lists'[b][l] \in Charges
      /\ \A b \in Agents : b # a => lists'[b] = lists[b]
      /\ pc[t] # "idle" /\ a \in Agents /\ job[t].cost \in Nat
  BY <1>a, GrantedGrows, StepFrame, StepTypes DEF TypeInv, TypeOK
<1>1. ASSUME NEW b \in Agents, NEW l \in Lists, lists'[b][l] = lists[b][l]
      PROVE  Below(lists'[b][l], granted'[b])
  <2>1. Below(lists[b][l], granted[b])
    BY DEF AllReal
  <2> QED BY <1>0, <1>1, <2>1, BelowIsTransitive
<1>2. CASE UNCHANGED lists
  BY <1>1, <1>2 DEF AllReal
<1>3. CASE Filter(t)
  <2>1. PICK l \in Lists :
             /\ lists'[a][l] = Active(Contents(t), clock[t])
             /\ \A b \in Agents, k \in Lists : b # a \/ k # l => lists'[b][k] = lists[b][k]
    BY <1>a, <1>3, Filtered
  <2>2. Below(Contents(t), granted[a]) /\ Contents(t) \in Charges
    BY <1>a, <1>0, ContentsReal, Contained DEF TypeInv
  <2>3. Below(Active(Contents(t), clock[t]), granted[a])
    BY <1>0, <2>2 DEF Active, Below, Charges
  <2>4. Active(Contents(t), clock[t]) \in Charges
    BY <2>2, ActiveTyped
  <2>5. Below(lists'[a][l], granted'[a])
    BY <1>0, <2>1, <2>3, <2>4, BelowIsTransitive
  <2>6. \A b \in Agents, k \in Lists : b # a \/ k # l => Below(lists'[b][k], granted'[b])
    BY <1>1, <2>1
  <2> QED BY <2>5, <2>6 DEF AllReal
<1>4. CASE AppendEvent(t)
  <2> DEFINE l == list[t]
  <2>0. clock[t] \in Times /\ l \in Lists /\ Grant(t, clock[t])
    BY <1>4, Appended DEF TypeInv, TypeOK, AppendEvent
  <2>1. /\ lists'[a][l][clock[t]] = lists[a][l][clock[t]] + job[t].cost
        /\ \A time \in Times : time # clock[t] => lists'[a][l][time] = lists[a][l][time]
        /\ \A b \in Agents, k \in Lists : b # a \/ k # l => lists'[b][k] = lists[b][k]
    BY <1>a, <1>4, Appended
  <2>2. /\ granted'[a][clock[t]] = granted[a][clock[t]] + job[t].cost
        /\ \A time \in Times : time # clock[t] => granted'[a][time] = granted[a][time]
    <3>1. TypeOK /\ pc[t] # "idle"
      BY <1>0 DEF TypeInv
    <3>2. \A time \in Times :
             granted'[a][time] = IF time = clock[t] THEN granted[a][clock[t]] + job[t].cost
                                                    ELSE granted[a][time]
      BY <1>a, <2>0, <3>1, GrantedAt
    <3> QED BY <2>0, <3>2
  <2>3. \A time \in Times : /\ lists[a][l][time] <= granted[a][time]
                            /\ lists[a][l][time] \in Nat /\ granted[a][time] \in Nat
    BY <1>0, <2>0 DEF AllReal, Below, Charges
  <2>4. ASSUME NEW time \in Times PROVE lists'[a][l][time] <= granted'[a][time]
    <3>1. CASE time = clock[t]
      BY <1>0, <2>1, <2>2, <2>3, <3>1
    <3>2. CASE time # clock[t]
      BY <2>1, <2>2, <2>3, <3>2
    <3> QED BY <3>1, <3>2
  <2>5. Below(lists'[a][l], granted'[a])
    BY <2>4 DEF Below
  <2>6. \A b \in Agents, k \in Lists : b # a \/ k # l => Below(lists'[b][k], granted'[b])
    BY <1>1, <2>1
  <2> QED BY <2>5, <2>6 DEF AllReal
<1> QED BY <1>2, <1>3, <1>4 DEF Step, ReadClock, Fetch, Install, Check, Proceed, Consume,
                                SetDefault, Stamp

(* A list object in somebody's hands is not made again. *)
LEMMA HandsOff ==
    ASSUME TypeInv, NEW t \in Threads, NEW u \in Threads, Filter(t),
           pc[u] # "idle", job[u].agent = job[t].agent, list[u] \in Lists,
           NEW l, l \notin Reachable(job[t].agent)
    PROVE  list[u] # l
BY HasJob DEF TypeInv, Reachable

LEMMA OwnFresh ==
    ASSUME ChargesInv, NEW t \in Threads, Step(t)
    PROVE  FreshOK(t)'
<1> USE DEF Goto, Enter, Hold, Drop, Return
<1> DEFINE a == job[t].agent
<1>0. /\ TypeInv /\ FreshOK(t) /\ pc[t] # "idle" /\ a \in Agents
      /\ pc \in [Threads -> Steps]
      /\ \A u \in Threads : u # t =>
            pc'[u] = pc[u] /\ job'[u] = job[u] /\ list'[u] = list[u] /\ clock'[u] = clock[u]
  BY StepFrame DEF ChargesInv, TypeInv, TypeOK
<1>1. CASE Filter(t)
  <2>1. PICK l \in Lists :
             /\ l \notin Reachable(a) /\ list'[t] = l
             /\ lists'[a][l] = Active(Contents(t), clock[t])
    BY <1>0, <1>1, Filtered
  <2>2. pc'[t] = "install" /\ job' = job /\ clock' = clock
    BY <1>0, <1>1 DEF Filter
  <2>3. ASSUME NEW time \in Times, lists'[a][l][time] # 0 PROVE Recent(time, clock[t])
    BY <2>1, <2>3 DEF Active
  <2>4. ASSUME NEW u \in Threads, pc'[u] = "append", job'[u].agent = a, list'[u] = l
        PROVE  FALSE
    <3>1. u # t
      BY <2>2, <2>4
    <3>2. pc[u] = "append" /\ job[u].agent = a /\ list[u] = l
      BY <1>0, <2>4, <3>1
    <3> QED BY <1>0, <1>1, <2>1, <3>2, HandsOff
  <2> QED BY <2>1, <2>2, <2>3, <2>4 DEF FreshOK, Recent
<1>2. CASE Install(t)
  <2>1. /\ pc[t] = "install" /\ lists' = lists /\ clock' = clock
        /\ pc'[t] # "append" /\ pc'[t] # "install"
        /\ pc'[t] = "sum" => job' = job /\ list' = list
    BY <1>0, <1>2 DEF Install
  <2>2. ASSUME pc'[t] = "sum" PROVE FreshOK(t)'
    <3>1. \A u \in Threads : pc'[u] = "append" => pc[u] = "append"
      BY <1>0, <2>1
    <3> QED BY <1>0, <2>1, <2>2, <3>1 DEF FreshOK, Recent
  <2> QED BY <2>1, <2>2 DEF FreshOK
<1>3. CASE ~Filter(t) /\ ~Install(t)
  <2>1. pc'[t] \notin {"install", "sum"}
    BY <1>0, <1>3 DEF Step, ReadClock, Fetch, Check, Proceed, Consume, SetDefault,
                      Stamp, AppendEvent
  <2> QED BY <2>1 DEF FreshOK
<1> QED BY <1>1, <1>2, <1>3

LEMMA OthersFresh ==
    ASSUME ChargesInv, NEW t \in Threads, Step(t), NEW v \in Threads, v # t
    PROVE  FreshOK(v)'
<1>a. PICK a : a = job[t].agent
  OBVIOUS
<1>0. /\ TypeInv /\ FreshOK(v) /\ pc[t] # "idle" /\ a \in Agents /\ clock[v] <= now
      /\ pc \in [Threads -> Steps] /\ clock \in [Threads -> Times] /\ now \in Nat
      /\ \A u \in Threads : u # t =>
            pc'[u] = pc[u] /\ job'[u] = job[u] /\ list'[u] = list[u] /\ clock'[u] = clock[u]
      /\ \A b \in Agents : b # a => lists'[b] = lists[b]
  BY <1>a, StepFrame, TimesFacts DEF ChargesInv, TypeInv, TypeOK, NoFuture
<1>1. CASE pc[v] \notin {"install", "sum"}
  BY <1>0, <1>1 DEF FreshOK
<1>2. CASE pc[v] \in {"install", "sum"}
  <2> DEFINE b == job[v].agent
  <2> DEFINE l == list[v]
  <2>0. b \in Agents /\ l \in Lists /\ pc[v] # "idle" /\ clock[v] \in Nat
    BY <1>0, <1>2, HasJob, TimesFacts DEF TypeInv, HeldOK
  <2>1. /\ \A time \in Times : lists[b][l][time] # 0 => Recent(time, clock[v])
        /\ \A u \in Threads : pc[u] = "append" /\ job[u].agent = b /\ list[u] = l
                                 => clock[u] >= clock[v]
    BY <1>0, <1>2 DEF FreshOK
  <2>2. \A time \in Times : lists'[b][l][time] # 0 => Recent(time, clock[v])
    <3>1. CASE lists'[b][l] = lists[b][l]
      BY <2>1, <3>1
    <3>2. CASE Filter(t)
      <4>1. PICK k \in Lists :
                 /\ k \notin Reachable(a)
                 /\ \A c \in Agents, m \in Lists : c # a \/ m # k => lists'[c][m] = lists[c][m]
        BY <1>0, <1>a, <3>2, Filtered
      <4>2. b # a \/ l # k
        BY <1>0, <1>a, <2>0, <3>2, <4>1, HandsOff
      <4> QED BY <2>0, <3>1, <4>1, <4>2
    <3>3. CASE AppendEvent(t) /\ ~(lists'[b][l] = lists[b][l])
      <4>1. /\ \A c \in Agents, m \in Lists : c # a \/ m # list[t] => lists'[c][m] = lists[c][m]
            /\ \A time \in Times : time # clock[t] => lists'[a][list[t]][time] = lists[a][list[t]][time]
        BY <1>0, <1>a, <3>3, Appended
      <4>2. b = a /\ l = list[t]
        BY <2>0, <3>3, <4>1
      <4>3. pc[t] = "append" /\ clock[t] \in Nat
        BY <1>0, <3>3, TimesFacts DEF AppendEvent
      <4>4. clock[t] >= clock[v]
        BY <1>a, <2>1, <4>2, <4>3
      <4>5. Recent(clock[t], clock[v])
        BY <2>0, <4>3, <4>4, BudgetAssumption DEF Recent
      <4> QED BY <2>1, <4>1, <4>2, <4>5
    <3>4. CASE UNCHANGED lists
      BY <2>1, <3>4
    <3> QED BY <3>1, <3>2, <3>3, <3>4
            DEF Step, ReadClock, Fetch, Install, Check, Proceed, Consume, SetDefault, Stamp
  <2>3. ASSUME NEW u \in Threads, pc'[u] = "append", job'[u].agent = b, list'[u] = l
        PROVE  clock'[u] >= clock[v]
    <3>1. CASE u # t
      BY <1>0, <2>1, <2>3, <3>1
    <3>2. CASE u = t
      <4>1. Stamp(t)
        BY <1>0, <2>3, <3>2 DEF Step, ReadClock, Fetch, Filter, Install, Check, Proceed,
                                Consume, SetDefault, AppendEvent,
                                Goto, Enter, Return
      <4>2. clock'[t] = now
        BY <1>0, <4>1 DEF Stamp
      <4> QED BY <1>0, <2>0, <3>2, <4>2
    <3> QED BY <3>1, <3>2
  <2> QED BY <1>0, <2>2, <2>3 DEF FreshOK, Recent
<1> QED BY <1>1, <1>2

LEMMA ChargesStep == ChargesInv /\ [Next]_vars => ChargesInv'
<1> SUFFICES ASSUME ChargesInv, [Next]_vars PROVE ChargesInv'
  OBVIOUS
<1>0. TypeInv /\ NoFuture /\ AllReal /\ TypeInv'
  BY TypeStep DEF ChargesInv
<1>1. ASSUME NEW t \in Threads, Step(t) PROVE ChargesInv'
  BY <1>0, <1>1, StepNoFuture, StepAllReal, OwnFresh, OthersFresh DEF ChargesInv
<1>2. ASSUME NEW t \in Threads, NEW j \in Jobs, Submit(t, j) PROVE ChargesInv'
  <2>1. /\ UNCHANGED <<now, lists, events, clock, list, granted>> /\ pc[t] = "idle"
        /\ pc' = [pc EXCEPT ![t] = "clock"] /\ job' = [job EXCEPT ![t] = j]
        /\ pc \in [Threads -> Steps] /\ job \in [Threads -> Jobs \cup {NoJob}]
    BY <1>0, <1>2 DEF Submit, Enter, Goto, TypeInv, TypeOK
  <2>2. \A u \in Threads : /\ u # t => pc'[u] = pc[u] /\ job'[u] = job[u]
                           /\ pc'[t] = "clock"
    BY <2>1
  <2>3. \A u \in Threads : FreshOK(u)'
    BY <2>1, <2>2 DEF ChargesInv, FreshOK, Recent
  <2>4. NoFuture' /\ AllReal'
    BY <1>0, <2>1 DEF NoFuture, AllReal
  <2> QED BY <1>0, <2>3, <2>4 DEF ChargesInv
<1>3. CASE Tick
  <2>1. /\ now' = now + 1 /\ UNCHANGED <<lists, events, pc, job, clock, list, granted>>
        /\ now \in Nat /\ clock \in [Threads -> Times]
    BY <1>0, <1>3, TimesFacts DEF Tick, TypeInv, TypeOK
  <2>2. NoFuture'
    <3>1. \A a \in Agents, time \in Times : time > now' => granted'[a][time] = 0
      BY <1>0, <2>1, TimesFacts DEF NoFuture
    <3>2. ASSUME NEW t \in Threads PROVE clock'[t] <= now'
      <4>1. clock[t] \in Nat /\ clock[t] <= now /\ clock'[t] = clock[t]
        BY <1>0, <2>1, TimesFacts DEF NoFuture
      <4> QED BY <2>1, <4>1
    <3> QED BY <3>1, <3>2 DEF NoFuture
  <2>3. AllReal' /\ \A u \in Threads : FreshOK(u)'
    BY <2>1 DEF ChargesInv, AllReal, FreshOK, Recent
  <2> QED BY <1>0, <2>2, <2>3 DEF ChargesInv
<1>4. CASE UNCHANGED vars
  BY <1>0, <1>4 DEF vars, ChargesInv, NoFuture, AllReal, FreshOK, Recent
<1> QED BY <1>1, <1>2, <1>3, <1>4 DEF Next

----------------------------------------------------------------------------
(* Agents with one call at a time *)

ExactAt(a) == \A time \in Times : Recent(time, now) => Entry(a)[time] = granted[a][time]

BoundAt(a) == \A w \in 0..now : GrantedIn(a, w) <= Limit

(* What of an agent's budget a step leaves alone stays exact and bounded.  *)
LEMMA SameBudget ==
    ASSUME NEW a \in Agents, ExactAt(a), BoundAt(a), now' = now,
           Entry(a)' = Entry(a), granted'[a] = granted[a]
    PROVE  ExactAt(a)' /\ BoundAt(a)'
BY DEF ExactAt, BoundAt, Recent, GrantedIn, GrantedSince, Span

(* What the window that ends now holds, the entry in the dict holds too.   *)
LEMMA EntryCovers ==
    ASSUME NEW a \in Agents, now \in Times, ExactAt(a),
           Entry(a) \in Charges, granted[a] \in Charges
    PROVE  GrantedIn(a, now) <= Total(Entry(a))
<1> DEFINE s == Span(granted[a], now, now)
<1>1. s \in Charges
  BY SpanTyped
<1>2. ASSUME NEW time \in Times PROVE s[time] <= Entry(a)[time]
  <2>1. Entry(a)[time] \in Nat
    BY DEF Charges
  <2>2. CASE Recent(time, now)
    <3>1. Entry(a)[time] = granted[a][time]
      BY <2>2 DEF ExactAt
    <3> QED BY <2>1, <3>1 DEF Span
  <2>3. CASE ~Recent(time, now)
    BY <2>1, <2>3 DEF Recent, Span
  <2> QED BY <2>2, <2>3
<1> HIDE DEF s
<1>3. Total(s) <= Total(Entry(a))
  BY <1>1, <1>2, TotalIsMonotone DEF Below
<1> QED BY <1>3 DEF s, GrantedIn, GrantedSince

(* The list that a check sums holds only what was let through in the time  *)
(* that its window and the check took.                                     *)
LEMMA SummedIn ==
    ASSUME ChargesInv, NEW t \in Threads, pc[t] = "sum", NEW a, a = job[t].agent,
           NEW end \in Times, \A time \in Times : time > end => granted[a][time] = 0
    PROVE  Total(Contents(t)) <= GrantedSince(a, clock[t], end)
<1>1. /\ TypeOK /\ TypeInv /\ AllReal /\ list[t] \in Lists /\ NoList \notin Lists
      /\ a \in Agents /\ clock[t] \in Times /\ granted[a] \in Charges
  BY HasJob, BudgetAssumption DEF ChargesInv, TypeInv, TypeOK, HeldOK
<1>2. Contents(t) \in Charges /\ Contents(t) = lists[a][list[t]]
  BY <1>1, Contained DEF Contents
<1>3. Below(Contents(t), granted[a])
  BY <1>1, ContentsReal
<1> DEFINE g == Contents(t)
<1>4. \A time \in Times : g[time] # 0 => Recent(time, clock[t])
  BY <1>2 DEF ChargesInv, FreshOK
<1>5. g \in Charges /\ Below(g, granted[a])
  BY <1>2, <1>3
<1> HIDE DEF g
<1>6. ASSUME NEW time \in Times, g[time] # 0
      PROVE  time + Window > clock[t] /\ time <= end
  <2>1. time \in Nat /\ end \in Nat /\ g[time] <= granted[a][time] /\ g[time] \in Nat
    BY <1>5, TimesFacts DEF Below, Charges
  <2>2. granted[a][time] # 0
    BY <1>1, <1>6, <2>1 DEF Charges
  <2> QED BY <1>4, <1>6, <2>1, <2>2 DEF Recent
<1>7. Total(g) <= Total(Span(granted[a], clock[t], end))
  BY <1>1, <1>5, <1>6, SpanCovers
<1> QED BY <1>7 DEF g, GrantedSince

(* What a thread with the only call of an agent may count on. *)
LEMMA OwnFacts ==
    ASSUME ChargesInv, SoloInv, NEW t \in Threads, pc[t] # "idle", NEW a, a = job[t].agent,
           a \notin raced
    PROVE  /\ TypeOK /\ TypeInv /\ a \in Agents /\ job[t].cost \in Nat /\ now \in Times
           /\ clock[t] \in Times /\ clock[t] <= now /\ granted[a] \in Charges
           /\ Entry(a) \in Charges /\ ExactAt(a) /\ BoundAt(a) /\ SoloOK(t)
           /\ NoList \notin Lists /\ events \in [Agents -> Lists \cup {NoList}]
           /\ pc[t] = "sum" => list[t] \in Lists /\ Contents(t) = Entry(a)
           /\ pc[t] = "append" => list[t] \in Lists /\ Entry(a) = lists[a][list[t]]
<1>1. /\ TypeOK /\ TypeInv /\ a \in Agents /\ job[t].cost \in Nat /\ NoList \notin Lists
      /\ HeldOK
  BY HasJob, BudgetAssumption DEF ChargesInv, TypeInv
<1>2. /\ now \in Times /\ clock[t] \in Times /\ clock[t] <= now /\ granted[a] \in Charges
      /\ events \in [Agents -> Lists \cup {NoList}]
      /\ lists \in [Agents -> [Lists -> Charges]]
  BY <1>1 DEF ChargesInv, TypeOK, NoFuture
<1>3. Entry(a) \in Charges
  BY <1>1, <1>2, NothingTyped DEF Entry
<1>4. ExactAt(a) /\ BoundAt(a) /\ SoloOK(t)
  BY <1>1 DEF SoloInv, Exact, ExactAt, SoloWithinLimit, BoundAt
<1>5. /\ pc[t] \in {"sum", "append"} => list[t] \in Lists
      /\ pc[t] \in {"sum", "append"} => list[t] = events[a]
  BY <1>1, <1>4 DEF HeldOK, SoloOK
<1>6. /\ pc[t] = "sum" => Contents(t) = Entry(a)
      /\ pc[t] = "append" => Entry(a) = lists[a][list[t]]
  BY <1>1, <1>5 DEF Contents, Entry
<1> QED BY <1>1, <1>2, <1>3, <1>4, <1>5, <1>6

(* The second check lets such a call through if the first one did, so it   *)
(* is not charged only if it costs nothing.                                *)
LEMMA ChargedInFull ==
    ASSUME ChargesInv, SoloInv, NEW t \in Threads, NEW a, a = job[t].agent, a \notin raced,
           pc[t] = "sum", use[t] = "consume", ~(Fits(Contents(t), job[t].cost) /\ HasCost(t))
    PROVE  job[t].cost = 0
<1>1. /\ TypeOK /\ a \in Agents /\ job[t].cost \in Nat /\ clock[t] \in Times /\ now \in Times
      /\ clock[t] <= now /\ granted[a] \in Charges /\ SoloOK(t)
  BY OwnFacts
<1>2. /\ \A time \in Times : time > clock[t] => granted[a][time] = 0
      /\ \A w \in clock[t]..now : Room(a, job[t].cost, w)
  BY <1>1 DEF SoloOK, Passed, Working
<1>3. Total(Contents(t)) <= GrantedSince(a, clock[t], clock[t])
  BY <1>1, <1>2, SummedIn
<1>4. clock[t] \in clock[t]..now
  BY <1>1, TimesFacts
<1>5. GrantedSince(a, clock[t], clock[t]) + job[t].cost <= Limit
  BY <1>2, <1>4 DEF Room, GrantedIn
<1>6. Contents(t) \in Charges
  BY <1>1, Contained
<1>7. Total(Contents(t)) \in Nat /\ GrantedSince(a, clock[t], clock[t]) \in Nat
  BY <1>1, <1>6, TotalIsNatural, SpanIsNatural DEF GrantedSince
<1>8. Fits(Contents(t), job[t].cost)
  BY <1>1, <1>3, <1>5, <1>7, BudgetAssumption DEF Fits
<1> QED BY <1>1, <1>8 DEF HasCost

LEMMA OwnBudget ==
    ASSUME ChargesInv, SoloInv, NEW t \in Threads, Step(t), NEW a, a = job[t].agent,
           a \notin raced
    PROVE  ExactAt(a)' /\ BoundAt(a)'
<1>0. pc[t] # "idle" /\ now' = now
  BY StepFrame DEF ChargesInv
<1>1. /\ TypeOK /\ TypeInv /\ a \in Agents /\ job[t].cost \in Nat /\ now \in Times
      /\ clock[t] \in Times /\ clock[t] <= now /\ granted[a] \in Charges
      /\ Entry(a) \in Charges /\ ExactAt(a) /\ BoundAt(a) /\ SoloOK(t)
      /\ NoList \notin Lists /\ events \in [Agents -> Lists \cup {NoList}]
  BY <1>0, OwnFacts
<1>2. CASE UNCHANGED <<lists, events, granted>>
  BY <1>0, <1>1, <1>2, SameBudget DEF Entry
<1>3. CASE Filter(t)
  <2>1. PICK l \in Lists :
             /\ l \notin Reachable(a)
             /\ \A b \in Agents, k \in Lists : b # a \/ k # l => lists'[b][k] = lists[b][k]
    BY <1>1, <1>3, Filtered
  <2>2. events' = events /\ granted' = granted
    BY <1>3 DEF Filter
  <2>3. events[a] # l
    BY <2>1 DEF Reachable
  <2>4. Entry(a)' = Entry(a)
    BY <1>1, <2>1, <2>2, <2>3 DEF Entry
  <2> QED BY <1>0, <1>1, <2>2, <2>4, SameBudget
<1>4. CASE Install(t)
  <2>1. /\ pc[t] = "install" /\ lists' = lists /\ granted' = granted
        /\ events' = [events EXCEPT ![a] = list[t]] /\ list[t] \in Lists
    BY <1>1, <1>4 DEF Install, TypeInv, HeldOK
  <2>2. Entry(a)' = lists[a][list[t]]
    BY <1>1, <2>1 DEF Entry
  <2>3. \A time \in Times : Recent(time, now) => lists[a][list[t]][time] = granted[a][time]
    BY <1>1, <2>1 DEF SoloOK
  <2>4. ExactAt(a)'
    BY <1>0, <2>1, <2>2, <2>3 DEF ExactAt, Recent
  <2> QED BY <1>0, <1>1, <2>1, <2>4 DEF BoundAt, GrantedIn, GrantedSince, Span
<1>5. CASE Consume(t) /\ Grant(t, now)
  <2>1. /\ pc[t] = "sum" /\ use[t] = "consume" /\ lists' = lists /\ events' = events
        /\ \/ ~(Fits(Contents(t), job[t].cost) /\ HasCost(t))
           \/ granted' = granted
    BY <1>5 DEF Consume
  <2>2. CASE granted' = granted
    BY <1>2, <2>1, <2>2
  <2>3. CASE ~(Fits(Contents(t), job[t].cost) /\ HasCost(t))
    <3>1. job[t].cost = 0
      BY <2>1, <2>3, ChargedInFull
    <3>2. ASSUME NEW time \in Times PROVE granted'[a][time] = granted[a][time]
      <4>1. granted'[a][time] = IF time = now THEN granted[a][now] + job[t].cost
                                              ELSE granted[a][time]
        BY <1>0, <1>1, <1>5, GrantedAt
      <4>2. granted[a][time] \in Nat
        BY <1>1 DEF Charges
      <4> QED BY <3>1, <4>1, <4>2
    <3>3. granted'[a] \in Charges
      BY <1>1, StepTypes DEF TypeOK
    <3>4. granted'[a] = granted[a]
      BY <1>1, <3>2, <3>3 DEF Charges
    <3>5. Entry(a)' = Entry(a)
      BY <2>1 DEF Entry
    <3> QED BY <1>0, <1>1, <3>4, <3>5, SameBudget
  <2> QED BY <2>1, <2>2, <2>3
<1>6. CASE AppendEvent(t)
  <2> DEFINE l == list[t]
  <2>1. /\ pc[t] = "append" /\ events' = events /\ Grant(t, clock[t]) /\ l \in Lists
        /\ Entry(a) = lists[a][l] /\ l = events[a]
    BY <1>0, <1>1, <1>6, OwnFacts DEF AppendEvent, SoloOK
  <2>2. /\ lists'[a][l][clock[t]] = lists[a][l][clock[t]] + job[t].cost
        /\ \A time \in Times : time # clock[t] => lists'[a][l][time] = lists[a][l][time]
    BY <1>1, <1>6, Appended
  <2>3. Entry(a)' = lists'[a][l]
    BY <1>1, <2>1 DEF Entry
  <2>4. \A time \in Times :
           granted'[a][time] = IF time = clock[t] THEN granted[a][clock[t]] + job[t].cost
                                                  ELSE granted[a][time]
    BY <1>0, <1>1, <2>1, GrantedAt
  <2>5. ExactAt(a)'
    <3>1. ASSUME NEW time \in Times, Recent(time, now)
          PROVE  lists'[a][l][time] = granted'[a][time]
      <4>1. lists[a][l][time] = granted[a][time]
        BY <1>1, <2>1, <3>1 DEF ExactAt
      <4> QED BY <2>2, <2>4, <4>1
    <3> QED BY <1>0, <2>3, <3>1 DEF ExactAt, Recent
  <2>6. granted'[a] = [granted[a] EXCEPT ![clock[t]] = @ + job[t].cost]
    BY <1>0, <1>1, <2>1, Granted
  <2>7. \A w \in clock[t]..now : Room(a, job[t].cost, w)
    BY <1>0, <1>1, <2>1 DEF SoloOK, Passed
  <2>8. ASSUME NEW w \in 0..now PROVE Total(Span(granted'[a], w, w)) <= Limit
    <3>1. w \in Times /\ w \in Nat /\ clock[t] \in Nat
      BY <1>1, TimesFacts DEF Times
    <3>2. /\ Total(Span(granted'[a], w, w)) <= Total(Span(granted[a], w, w)) + job[t].cost
          /\ w < clock[t] => Span(granted'[a], w, w) = Span(granted[a], w, w)
      BY <1>1, <2>6, <3>1, SpanAdds
    <3>3. CASE w < clock[t]
      BY <1>1, <3>2, <3>3 DEF BoundAt, GrantedIn, GrantedSince
    <3>4. CASE ~(w < clock[t])
      <4>1. w \in clock[t]..now
        BY <3>1, <3>4
      <4>2. Total(Span(granted[a], w, w)) + job[t].cost <= Limit
        BY <2>7, <4>1 DEF Room, GrantedIn, GrantedSince
      <4>3. Total(Span(granted[a], w, w)) \in Nat /\ Total(Span(granted'[a], w, w)) \in Nat
        <5>1. granted'[a] \in Charges
          BY <1>1, StepTypes DEF TypeOK
        <5> QED BY <1>1, <5>1, SpanIsNatural
      <4> QED BY <1>1, <3>2, <4>2, <4>3, BudgetAssumption
    <3> QED BY <3>3, <3>4
  <2>9. BoundAt(a)'
    BY <1>0, <2>8 DEF BoundAt, GrantedIn, GrantedSince, Span
  <2> QED BY <2>5, <2>9
<1> QED BY <1>2, <1>3, <1>4, <1>5, <1>6 DEF Step, ReadClock, Fetch, Check, Proceed, Consume,
                                            SetDefault, Stamp

LEMMA SoloAgain ==
    ASSUME NEW t \in Threads, NEW a, a = job[t].agent, now' = now, granted' = granted,
           pc'[t] # "idle" => job'[t] = job[t],
           pc'[t] \in Working =>
              \A time \in Times : time > clock'[t] => granted[a][time] = 0,
           pc'[t] \in {"filter", "sum", "stamp", "append"} => list'[t] = events'[a],
           pc'[t] = "install" => \A time \in Times :
              Recent(time, now) => lists'[a][list'[t]][time] = granted[a][time],
           Passed(t)' => Room(a, job[t].cost, now),
           Passed(t)' /\ pc'[t] \in Working \cup {"append"} =>
              \A w \in clock'[t]..now : Room(a, job[t].cost, w)
    PROVE  SoloOK(t)'
BY DEF SoloOK, Room, GrantedIn, GrantedSince, Span, Recent

LEMMA OwnCall ==
    ASSUME ChargesInv, SoloInv, NEW t \in Threads, Step(t), NEW a, a = job[t].agent,
           a \notin raced
    PROVE  SoloOK(t)'
<1> USE DEF Goto, Enter, Hold, Drop, Return
<1>0. pc[t] # "idle" /\ now' = now /\ (pc'[t] # "idle" => job'[t] = job[t])
  BY StepFrame DEF ChargesInv
<1>1. /\ TypeOK /\ TypeInv /\ a \in Agents /\ now \in Times /\ now \in Nat
      /\ clock[t] \in Nat /\ clock[t] <= now /\ granted[a] \in Charges
      /\ Entry(a) \in Charges /\ ExactAt(a) /\ SoloOK(t) /\ NoFuture
      /\ events \in [Agents -> Lists \cup {NoList}] /\ pc \in [Threads -> Steps]
      /\ use \in [Threads -> Uses] /\ list \in [Threads -> Lists \cup {NoList}]
      /\ clock \in [Threads -> Times]
  BY <1>0, OwnFacts, TimesFacts DEF ChargesInv, TypeOK
<1>2. /\ Passed(t) => Room(a, job[t].cost, now)
      /\ Passed(t) /\ pc[t] \in Working =>
            \A w \in clock[t]..now : Room(a, job[t].cost, w)
      /\ pc[t] \in Working =>
            \A time \in Times : time > clock[t] => granted[a][time] = 0
  BY <1>0, <1>1 DEF SoloOK
<1>3. CASE pc'[t] = "idle" \/ (pc'[t] = "clock" /\ use'[t] # "consume")
  BY <1>3 DEF SoloOK, Passed, Working
<1>4. CASE ReadClock(t)
  <2>1. /\ pc[t] = "clock" /\ pc'[t] = "fetch" /\ clock'[t] = now
        /\ UNCHANGED <<use, granted>>
    BY <1>1, <1>4 DEF ReadClock
  <2>2. Passed(t)' => Passed(t)
    BY <2>1 DEF Passed
  <2>3. now..now = {now}
    BY <1>1
  <2>4. \A time \in Times : time > clock'[t] => granted[a][time] = 0
    BY <1>1, <2>1 DEF NoFuture
  <2> QED BY <1>0, <1>2, <2>1, <2>2, <2>3, <2>4, SoloAgain
<1>5. CASE Fetch(t)
  <2>1. /\ pc[t] = "fetch" /\ pc'[t] = "filter" /\ list'[t] = events'[a]
        /\ UNCHANGED <<use, granted, clock>>
    BY <1>1, <1>5 DEF Fetch
  <2>2. Passed(t)' => Passed(t)
    BY <2>1 DEF Passed
  <2> QED BY <1>0, <1>2, <2>1, <2>2, SoloAgain DEF Working
<1>6. CASE Filter(t)
  <2>1. /\ pc[t] = "filter" /\ pc'[t] = "install" /\ list[t] = events[a]
        /\ UNCHANGED <<use, granted, clock>>
    BY <1>1, <1>6 DEF Filter, SoloOK
  <2>2. Passed(t)' => Passed(t)
    BY <2>1 DEF Passed
  <2>3. lists'[a][list'[t]] = Active(Contents(t), clock[t])
    BY <1>1, <1>6, Filtered
  <2>4. Contents(t) = Entry(a)
    BY <2>1 DEF Contents, Entry
  <2>5. ASSUME NEW time \in Times, Recent(time, now)
        PROVE  lists'[a][list'[t]][time] = granted[a][time]
    <3>1. Recent(time, clock[t])
      BY <1>1, <2>5, TimesFacts, BudgetAssumption DEF Recent
    <3>2. Entry(a)[time] = granted[a][time]
      BY <1>1, <2>5 DEF ExactAt
    <3> QED BY <2>3, <2>4, <3>1, <3>2 DEF Active
  <2> QED BY <1>0, <1>2, <2>1, <2>2, <2>5, SoloAgain DEF Working
<1>7. CASE Install(t)
  <2>1. /\ pc[t] = "install" /\ events'[a] = list[t]
        /\ UNCHANGED <<use, granted, clock>>
        /\ pc'[t] = "idle" \/ (pc'[t] = "sum" /\ list'[t] = list[t])
    BY <1>1, <1>7 DEF Install
  <2>2. CASE pc'[t] = "sum" /\ list'[t] = list[t]
    <3>1. Passed(t)' => Passed(t)
      BY <2>1, <2>2 DEF Passed
    <3> QED BY <1>0, <1>2, <2>1, <2>2, <3>1, SoloAgain DEF Working
  <2> QED BY <1>3, <2>1, <2>2
<1>8. CASE Check(t)
  <2>1. /\ pc[t] = "sum" /\ UNCHANGED granted
        /\ \/ /\ Fits(Contents(t), job[t].cost)
              /\ pc'[t] = "proceed"
           \/ pc'[t] = "clock" /\ use'[t] = "refused"
    BY <1>1, <1>8 DEF Check
  <2>2. CASE Fits(Contents(t), job[t].cost) /\ pc'[t] = "proceed"
    <3>1. Contents(t) = Entry(a)
      BY <1>0, <2>1, OwnFacts
    <3>2. GrantedIn(a, now) <= Total(Contents(t))
      BY <1>1, <3>1, EntryCovers
    <3>3. GrantedIn(a, now) \in Nat /\ Total(Contents(t)) \in Nat /\ job[t].cost \in Nat
      BY <1>0, <1>1, <3>1, SpanIsNatural, TotalIsNatural, OwnFacts DEF GrantedIn, GrantedSince
    <3>4. Room(a, job[t].cost, now)
      BY <2>2, <3>2, <3>3, BudgetAssumption DEF Fits, Room
    <3> QED BY <1>0, <2>1, <2>2, <3>4, SoloAgain DEF Working
  <2> QED BY <1>3, <2>1, <2>2
<1>9. CASE Proceed(t)
  <2>1. /\ pc[t] = "proceed" /\ UNCHANGED granted
        /\ pc'[t] = "idle" \/ pc'[t] = "clock"
    BY <1>1, <1>9 DEF Proceed
  <2>2. Passed(t)
    BY <2>1 DEF Passed
  <2> QED BY <1>0, <1>2, <1>3, <2>1, <2>2, SoloAgain DEF Working
<1>10. CASE Consume(t)
  <2>1. /\ pc[t] = "sum" /\ use[t] = "consume"
        /\ \/ pc'[t] = "setdefault" /\ UNCHANGED granted
           \/ pc'[t] = "clock" /\ use'[t] = "report"
    BY <1>1, <1>10 DEF Consume
  <2>2. Passed(t)
    BY <1>0, <2>1 DEF Passed
  <2>3. CASE pc'[t] = "setdefault" /\ UNCHANGED granted
    BY <1>0, <1>2, <2>2, <2>3, SoloAgain DEF Working
  <2> QED BY <1>3, <2>1, <2>3
<1>11. CASE SetDefault(t)
  <2>1. /\ pc[t] = "setdefault" /\ UNCHANGED granted /\ pc'[t] = "stamp"
        /\ list'[t] = events'[a]
    BY <1>1, <1>11 DEF SetDefault
  <2>2. Passed(t)
    BY <2>1 DEF Passed
  <2> QED BY <1>0, <1>2, <2>1, <2>2, SoloAgain DEF Working
<1>12. CASE Stamp(t)
  <2>1. /\ pc[t] = "stamp" /\ UNCHANGED <<granted, list, events>> /\ pc'[t] = "append"
        /\ clock'[t] = now
    BY <1>1, <1>12 DEF Stamp
  <2>2. Passed(t) /\ list[t] = events[a]
    BY <1>0, <1>1, <2>1 DEF Passed, SoloOK
  <2>3. now..now = {now}
    BY <1>1
  <2> QED BY <1>0, <1>2, <2>1, <2>2, <2>3, SoloAgain DEF Working
<1>13. CASE AppendEvent(t)
  BY <1>1, <1>3, <1>13 DEF AppendEvent
<1> QED BY <1>4, <1>5, <1>6, <1>7, <1>8, <1>9, <1>10, <1>11, <1>12, <1>13 DEF Step

LEMMA SoloStep ==
    ASSUME ChargesInv, SoloInv, NEW t \in Threads, Step(t)
    PROVE  SoloInv'
<1>a. PICK a : a = job[t].agent
  OBVIOUS
<1>0. /\ TypeInv /\ pc[t] # "idle" /\ a \in Agents
      /\ now' = now /\ raced' = raced
      /\ \A u \in Threads : u # t =>
            /\ pc'[u] = pc[u] /\ use'[u] = use[u] /\ job'[u] = job[u]
            /\ clock'[u] = clock[u] /\ list'[u] = list[u]
      /\ pc'[t] # "idle" => job'[t] = job[t]
      /\ \A b \in Agents : b # a => /\ events'[b] = events[b] /\ lists'[b] = lists[b]
                                    /\ granted'[b] = granted[b]
  BY <1>a, StepFrame DEF ChargesInv
<1>1. OneCall'
  BY <1>0 DEF SoloInv, OneCall
<1>2. ASSUME NEW b \in Agents \ raced PROVE ExactAt(b)' /\ BoundAt(b)'
  <2>1. ExactAt(b) /\ BoundAt(b)
    BY DEF SoloInv, Exact, ExactAt, SoloWithinLimit, BoundAt
  <2>2. CASE b = a
    BY <1>a, <2>2, OwnBudget
  <2>3. CASE b # a
    <3>1. Entry(b)' = Entry(b) /\ granted'[b] = granted[b]
      BY <1>0, <2>3 DEF Entry
    <3> QED BY <1>0, <2>1, <3>1, SameBudget
  <2> QED BY <2>2, <2>3
<1>3. Exact' /\ SoloWithinLimit'
  <2>1. Exact'
    BY <1>0, <1>2 DEF Exact, ExactAt
  <2>2. SoloWithinLimit'
    BY <1>0, <1>2 DEF SoloWithinLimit, BoundAt
  <2> QED BY <2>1, <2>2
<1>4. ASSUME NEW u \in Threads PROVE SoloOK(u)'
  <2>1. CASE u = t /\ a \notin raced
    BY <1>a, <2>1, OwnCall
  <2>2. CASE u = t /\ a \in raced
    BY <1>a, <1>0, <2>2 DEF SoloOK
  <2>3. CASE u # t
    <3>1. CASE pc[u] = "idle" \/ job[u].agent \in raced
      BY <1>0, <2>3, <3>1 DEF SoloOK
    <3>2. CASE pc[u] # "idle" /\ job[u].agent \notin raced
      <4>1. PICK b : b = job[u].agent
        OBVIOUS
      <4>2. b \in Agents /\ b # a
        BY <1>a, <1>0, <2>3, <3>2, <4>1, HasJob DEF TypeInv, SoloInv, OneCall
      <4>3. /\ events'[b] = events[b] /\ lists'[b] = lists[b] /\ granted'[b] = granted[b]
            /\ job'[u].agent = b /\ pc'[u] = pc[u] /\ use'[u] = use[u] /\ job'[u] = job[u]
            /\ clock'[u] = clock[u] /\ list'[u] = list[u]
        BY <1>0, <2>3, <4>1, <4>2
      <4>4. SoloOK(u)
        BY DEF SoloInv
      <4> QED BY <1>0, <4>1, <4>3, <4>4
              DEF SoloOK, Passed, Room, GrantedIn, GrantedSince, Span, Recent
    <3> QED BY <3>1, <3>2
  <2> QED BY <2>1, <2>2, <2>3
<1> QED BY <1>1, <1>3, <1>4 DEF SoloInv

LEMMA SubmitSolo ==
    ASSUME ChargesInv, SoloInv, NEW t \in Threads, NEW j \in Jobs, Submit(t, j)
    PROVE  SoloInv'
<1>1. /\ UNCHANGED <<now, lists, events, clock, list, granted>> /\ pc[t] = "idle"
      /\ pc' = [pc EXCEPT ![t] = "clock"] /\ job' = [job EXCEPT ![t] = j]
      /\ use' = [use EXCEPT ![t] = "check"]
      /\ raced' = raced \cup {a \in {j.agent} : \E u \in Threads :
                                 job[u] # NoJob /\ job[u].agent = a}
      /\ pc \in [Threads -> Steps] /\ job \in [Threads -> Jobs \cup {NoJob}]
      /\ use \in [Threads -> Uses] /\ \A u \in Threads : pc[u] = "idle" <=> job[u] = NoJob
  BY DEF Submit, Enter, Goto, ChargesInv, TypeInv, TypeOK
<1>2. /\ pc'[t] = "clock" /\ use'[t] = "check" /\ job'[t] = j
      /\ \A u \in Threads : u # t => pc'[u] = pc[u] /\ job'[u] = job[u] /\ use'[u] = use[u]
      /\ raced \subseteq raced'
      /\ j.agent \notin raced' => \A u \in Threads : pc[u] # "idle" => job[u].agent # j.agent
  BY <1>1
<1>3. OneCall'
  BY <1>1, <1>2 DEF SoloInv, OneCall
<1>4. Exact' /\ SoloWithinLimit'
  BY <1>1, <1>2 DEF SoloInv, Exact, SoloWithinLimit, Entry, Recent, GrantedIn,
                    GrantedSince, Span
<1>5. ASSUME NEW u \in Threads PROVE SoloOK(u)'
  <2>1. CASE u = t
    BY <1>2, <2>1 DEF SoloOK, Passed, Working
  <2>2. CASE u # t
    <3>1. /\ pc'[u] = pc[u] /\ job'[u] = job[u] /\ use'[u] = use[u] /\ SoloOK(u)
      BY <1>2, <2>2 DEF SoloInv
    <3> QED BY <1>1, <1>2, <3>1
            DEF SoloOK, Passed, Room, GrantedIn, GrantedSince, Span, Recent
  <2> QED BY <2>1, <2>2
<1> QED BY <1>3, <1>4, <1>5 DEF SoloInv

(* Time passes: the window that ends now holds no more than the last one.  *)
LEMMA TickSolo == ASSUME ChargesInv, SoloInv, Tick PROVE SoloInv'
<1>1. /\ UNCHANGED <<lists, events, pc, use, job, clock, list, granted, raced>>
      /\ now' = now + 1 /\ now \in Times /\ now' \in Times /\ now \in Nat
      /\ granted \in [Agents -> Charges] /\ clock \in [Threads -> Times]
      /\ TypeOK /\ NoFuture /\ \A t \in Threads : clock[t] \in Nat
  BY TypeStep, TimesFacts DEF Tick, Next, ChargesInv, TypeInv, TypeOK
<1>2. ASSUME NEW a \in Agents
      PROVE  /\ GrantedIn(a, now + 1) <= GrantedIn(a, now)
             /\ GrantedIn(a, now + 1) \in Nat /\ GrantedIn(a, now) \in Nat
  <2>1. granted[a] \in Charges /\ now + 1 \in Times
    BY <1>1
  <2>2. granted[a][now + 1] = 0
    BY <1>1, <2>1 DEF NoFuture
  <2> QED BY <1>1, <2>1, <2>2, WindowSlides, SpanIsNatural DEF GrantedIn, GrantedSince
<1>3. ASSUME NEW time \in Times, Recent(time, now + 1) PROVE Recent(time, now)
  BY <1>1, <1>3, TimesFacts, BudgetAssumption DEF Recent
<1>4. Exact'
  <2>1. ASSUME NEW a \in Agents \ raced, NEW time \in Times, Recent(time, now + 1)
        PROVE  Entry(a)[time] = granted[a][time]
    BY <1>3, <2>1 DEF SoloInv, Exact
  <2> QED BY <1>1, <2>1 DEF Exact, Entry, Recent
<1>5. ASSUME NEW a \in Agents \ raced, NEW w \in 0..(now + 1)
      PROVE  GrantedIn(a, w) <= Limit
  <2>1. CASE w \in 0..now
    BY <2>1 DEF SoloInv, SoloWithinLimit
  <2>2. CASE w = now + 1
    <3>1. GrantedIn(a, now) <= Limit
      BY <1>1 DEF SoloInv, SoloWithinLimit
    <3> QED BY <1>2, <2>2, <3>1, BudgetAssumption
  <2>3. w \in 0..now \/ w = now + 1
    BY <1>1
  <2> QED BY <2>1, <2>2, <2>3
<1>6. SoloWithinLimit'
  BY <1>1, <1>5 DEF SoloWithinLimit, GrantedIn, GrantedSince, Span
<1>7. ASSUME NEW t \in Threads PROVE SoloOK(t)'
  <2>1. CASE pc[t] = "idle" \/ job[t].agent \in raced
    BY <1>1, <2>1 DEF SoloOK
  <2>2. CASE pc[t] # "idle" /\ job[t].agent \notin raced
    <3>a. PICK a : a = job[t].agent
      OBVIOUS
    <3>0. a \in Agents /\ job[t].cost \in Nat /\ SoloOK(t)
      BY <1>1, <2>2, <3>a, HasJob DEF SoloInv
    <3>1. Room(a, job[t].cost, now) => Room(a, job[t].cost, now + 1)
      BY <1>2, <3>0, BudgetAssumption DEF Room
    <3>2. Passed(t) => Room(a, job[t].cost, now + 1)
      BY <2>2, <3>a, <3>0, <3>1 DEF SoloOK
    <3>3. ASSUME Passed(t), pc[t] \in Working \cup {"append"}, NEW w \in clock[t]..(now + 1)
          PROVE  Room(a, job[t].cost, w)
      <4>1. w \in clock[t]..now \/ w = now + 1
        BY <1>1
      <4> QED BY <2>2, <3>a, <3>0, <3>2, <3>3, <4>1 DEF SoloOK
    <3>4. pc[t] = "install" => \A time \in Times :
             Recent(time, now + 1) => lists[a][list[t]][time] = granted[a][time]
      BY <1>3, <2>2, <3>a, <3>0 DEF SoloOK
    <3>5. /\ pc[t] \in Working =>
                \A time \in Times : time > clock[t] => granted[a][time] = 0
          /\ pc[t] \in {"filter", "sum", "stamp", "append"} => list[t] = events[a]
      BY <2>2, <3>a, <3>0 DEF SoloOK
    <3> QED BY <1>1, <3>a, <3>2, <3>3, <3>4, <3>5
            DEF SoloOK, Passed, Room, GrantedIn, GrantedSince, Span, Recent
  <2> QED BY <2>1, <2>2
<1> QED BY <1>1, <1>4, <1>6, <1>7 DEF SoloInv, OneCall

----------------------------------------------------------------------------
(* Refusals *)

RefusalOK(t) ==
    LET a == job[t].agent IN
    pc[t] = "clock" /\ use[t] = "refused" =>
        /\ GrantedSince(a, clock[t], now) + job[t].cost > Limit
        /\ a \notin raced => GrantedIn(a, clock[t]) + job[t].cost > Limit

(* A check refuses for what the list it sums holds. *)
LEMMA OwnRefusal ==
    ASSUME ChargesInv, SoloInv, NEW t \in Threads, Step(t)
    PROVE  RefusalOK(t)'
<1>a. PICK a : a = job[t].agent
  OBVIOUS
<1>0. pc[t] # "idle" /\ now' = now /\ raced' = raced /\ (pc'[t] # "idle" => job'[t] = job[t])
  BY StepFrame DEF ChargesInv
<1>1. /\ TypeOK /\ a \in Agents /\ job[t].cost \in Nat /\ clock[t] \in Times
      /\ now \in Times /\ granted[a] \in Charges /\ NoFuture
      /\ pc \in [Threads -> Steps] /\ use \in [Threads -> Uses]
  BY <1>a, <1>0, HasJob DEF ChargesInv, TypeInv, TypeOK
<1>2. CASE ~(pc'[t] = "clock" /\ use'[t] = "refused")
  BY <1>2 DEF RefusalOK
<1>3. CASE pc'[t] = "clock" /\ use'[t] = "refused"
  <2>1. /\ pc[t] = "sum" /\ ~Fits(Contents(t), job[t].cost)
        /\ UNCHANGED <<clock, granted, job>>
    BY <1>1, <1>3 DEF Step, ReadClock, Fetch, Filter, Install, Check, Proceed, Consume,
                      SetDefault, Stamp, AppendEvent, Goto, Enter, Return
  <2>2. Contents(t) \in Charges
    BY <1>0, <1>1, Contained
  <2>3. Total(Contents(t)) + job[t].cost > Limit /\ Total(Contents(t)) \in Nat
    BY <1>1, <2>1, <2>2, TotalIsNatural, BudgetAssumption DEF Fits
  <2>4. ASSUME NEW end \in Times, \A time \in Times : time > end => granted[a][time] = 0
        PROVE  GrantedSince(a, clock[t], end) + job[t].cost > Limit
    <3>1. Total(Contents(t)) <= GrantedSince(a, clock[t], end)
      BY <1>a, <2>1, <2>4, SummedIn
    <3>2. GrantedSince(a, clock[t], end) \in Nat
      BY <1>1, SpanIsNatural DEF GrantedSince
    <3> QED BY <1>1, <2>3, <3>1, <3>2, BudgetAssumption
  <2>5. GrantedSince(a, clock[t], now) + job[t].cost > Limit
    BY <1>1, <2>4 DEF NoFuture
  <2>6. ASSUME a \notin raced PROVE GrantedIn(a, clock[t]) + job[t].cost > Limit
    <3>1. SoloOK(t)
      BY DEF SoloInv
    <3>2. \A time \in Times : time > clock[t] => granted[a][time] = 0
      BY <1>a, <2>1, <2>6, <3>1 DEF SoloOK, Working
    <3> QED BY <1>1, <2>4, <3>2 DEF GrantedIn
  <2> QED BY <1>a, <1>0, <2>1, <2>5, <2>6 DEF RefusalOK, GrantedIn, GrantedSince, Span
<1> QED BY <1>2, <1>3

(* It stays so: what was let through is not taken back. *)
LEMMA RefusalStands ==
    ASSUME TypeOK, NEW u \in Threads, RefusalOK(u), pc[u] # "idle", NEW a, a = job[u].agent,
           pc'[u] = pc[u], use'[u] = use[u], job'[u] = job[u], clock'[u] = clock[u],
           granted'[a] \in Charges, Below(granted[a], granted'[a]),
           now' \in Times, now <= now', raced \subseteq raced'
    PROVE  RefusalOK(u)'
<1>0. a \in Agents /\ job[u].cost \in Nat
  BY HasJob
<1>1. /\ a \in Agents /\ granted[a] \in Charges /\ clock[u] \in Times /\ clock[u] <= clock[u]
      /\ now \in Times /\ job[u].cost \in Nat
  <2>1. granted[a] \in Charges /\ clock[u] \in Times /\ now \in Times
    BY <1>0 DEF TypeOK
  <2>2. clock[u] \in Nat
    BY <2>1, TimesFacts
  <2> QED BY <1>0, <2>1, <2>2
<1>2. /\ Total(Span(granted[a], clock[u], now)) <= Total(Span(granted'[a], clock[u], now'))
      /\ Total(Span(granted[a], clock[u], clock[u]))
            <= Total(Span(granted'[a], clock[u], clock[u]))
  BY <1>1, SpanGrows
<1>3. /\ Total(Span(granted[a], clock[u], now)) \in Nat
      /\ Total(Span(granted'[a], clock[u], now')) \in Nat
      /\ Total(Span(granted[a], clock[u], clock[u])) \in Nat
      /\ Total(Span(granted'[a], clock[u], clock[u])) \in Nat
  BY <1>1, SpanIsNatural
<1>4. CASE pc[u] = "clock" /\ use[u] = "refused"
  <2>1. /\ Total(Span(granted[a], clock[u], now)) + job[u].cost > Limit
        /\ a \notin raced => Total(Span(granted[a], clock[u], clock[u])) + job[u].cost > Limit
    BY <1>4 DEF RefusalOK, GrantedIn, GrantedSince
  <2>2. /\ Total(Span(granted'[a], clock[u], now')) + job[u].cost > Limit
        /\ a \notin raced' => Total(Span(granted'[a], clock[u], clock[u])) + job[u].cost > Limit
    BY <1>1, <1>2, <1>3, <2>1, BudgetAssumption
  <2> QED BY <2>2 DEF RefusalOK, GrantedIn, GrantedSince, Span
<1>5. CASE ~(pc[u] = "clock" /\ use[u] = "refused")
  BY <1>5 DEF RefusalOK
<1> QED BY <1>4, <1>5

LEMMA RefusalStep ==
    ASSUME ChargesInv, SoloInv, \A t \in Threads : RefusalOK(t), [Next]_vars
    PROVE  \A t \in Threads : RefusalOK(t)'
<1>0. /\ TypeOK /\ TypeInv /\ TypeOK' /\ NoFuture /\ now \in Times /\ now' \in Times
      /\ \A a \in Agents : granted[a] \in Charges /\ granted'[a] \in Charges
  BY TypeStep DEF ChargesInv, TypeInv, TypeOK
<1>1. ASSUME NEW u \in Threads, pc[u] = "idle", pc'[u] = pc[u] PROVE RefusalOK(u)'
  BY <1>1 DEF RefusalOK
<1>2. ASSUME NEW u \in Threads,
             pc'[u] = pc[u], use'[u] = use[u], job'[u] = job[u], clock'[u] = clock[u],
             \A a \in Agents : Below(granted[a], granted'[a]),
             now <= now', raced \subseteq raced'
      PROVE  RefusalOK(u)'
  <2>a. PICK a : a = job[u].agent
    OBVIOUS
  <2>1. CASE pc[u] # "idle"
    <3>1. a \in Agents
      BY <1>0, <2>a, <2>1, HasJob
    <3> QED BY <1>0, <1>2, <2>a, <2>1, <3>1, RefusalStands
  <2> QED BY <1>1, <1>2, <2>1
<1>3. now <= now /\ now <= now + 1 /\ \A a \in Agents : Below(granted[a], granted[a])
  BY <1>0, TimesFacts, SelfBelow
<1>4. ASSUME NEW t \in Threads, Step(t), NEW u \in Threads PROVE RefusalOK(u)'
  <2>1. CASE u = t
    BY <1>4, <2>1, OwnRefusal
  <2>2. CASE u # t
    <3>1. /\ pc'[u] = pc[u] /\ use'[u] = use[u] /\ job'[u] = job[u] /\ clock'[u] = clock[u]
          /\ now' = now /\ raced' = raced
      BY <1>0, <1>4, <2>2, StepFrame
    <3>2. \A a \in Agents : Below(granted[a], granted'[a])
      BY <1>0, <1>4, GrantedGrows
    <3> QED BY <1>2, <1>3, <3>1, <3>2
  <2> QED BY <2>1, <2>2
<1>5. ASSUME NEW t \in Threads, NEW j \in Jobs, Submit(t, j), NEW u \in Threads
      PROVE  RefusalOK(u)'
  <2>1. /\ pc' = [pc EXCEPT ![t] = "clock"] /\ use' = [use EXCEPT ![t] = "check"]
        /\ job' = [job EXCEPT ![t] = j] /\ UNCHANGED <<now, clock, granted>>
        /\ raced \subseteq raced'
        /\ pc \in [Threads -> Steps] /\ use \in [Threads -> Uses]
        /\ job \in [Threads -> Jobs \cup {NoJob}]
    BY <1>0, <1>5 DEF Submit, Enter, Goto, TypeOK
  <2>2. CASE u = t
    BY <2>1, <2>2 DEF RefusalOK
  <2>3. CASE u # t
    BY <1>2, <1>3, <2>1, <2>3
  <2> QED BY <2>2, <2>3
<1>6. ASSUME Tick, NEW u \in Threads PROVE RefusalOK(u)'
  BY <1>2, <1>3, <1>6 DEF Tick
<1>7. ASSUME UNCHANGED vars, NEW u \in Threads PROVE RefusalOK(u)'
  BY <1>2, <1>3, <1>7 DEF vars
<1> QED BY <1>4, <1>5, <1>6, <1>7 DEF Next

----------------------------------------------------------------------------
(* Theorems *)

LEMMA NothingLetThrough ==
    ASSUME NEW w, NEW end PROVE Total(Span(Nothing, w, end)) = 0
<1>1. Span(Nothing, w, end) = Nothing
  BY DEF Span, Nothing
<1>2. IsSum(Nothing, Nothing) /\ Nothing \in Charges
  BY NothingTyped, TimesFacts DEF IsSum, Charges
<1>3. Total(Nothing) = 0
  BY <1>2, TotalIsSum, NothingTyped, TimesFacts
<1> QED BY <1>1, <1>3

LEMMA InitInv == Init => Inv
<1> SUFFICES ASSUME Init PROVE Inv
  OBVIOUS
<1>1. /\ now = 0 /\ events = [a \in Agents |-> NoList] /\ clock = [t \in Threads |-> 0]
      /\ lists = [a \in Agents |-> [l \in Lists |-> Nothing]]
      /\ granted = [a \in Agents |-> Nothing]
      /\ \A t \in Threads : pc[t] = "idle"
  BY DEF Init
<1>2. \A time \in Times : Nothing[time] = 0 /\ time \in Nat
  BY NothingTyped, TimesFacts
<1>3. NoFuture /\ AllReal /\ \A t \in Threads : FreshOK(t)
  BY <1>1, <1>2, SelfBelow, NothingTyped DEF NoFuture, AllReal, FreshOK
<1>4. ChargesInv
  BY <1>3, InitTypes DEF ChargesInv
<1>5. SoloWithinLimit
  BY <1>1, NothingLetThrough, BudgetAssumption DEF SoloWithinLimit, GrantedIn, GrantedSince
<1>6. Exact /\ OneCall /\ \A t \in Threads : SoloOK(t)
  BY <1>1 DEF Exact, Entry, OneCall, SoloOK
<1>7. RefusedOnlyWhenFull
  BY <1>1 DEF RefusedOnlyWhenFull
<1> QED BY <1>4, <1>5, <1>6, <1>7 DEF Inv, SoloInv

LEMMA StepInv == Inv /\ [Next]_vars => Inv'
<1> SUFFICES ASSUME Inv, [Next]_vars PROVE Inv'
  OBVIOUS
<1>1. ChargesInv /\ SoloInv /\ ChargesInv'
  BY ChargesStep DEF Inv
<1>2. \A t \in Threads : RefusalOK(t)
  BY DEF Inv, RefusedOnlyWhenFull, RefusalOK
<1>3. SoloInv'
  <2>1. ASSUME NEW t \in Threads, Step(t) PROVE SoloInv'
    BY <1>1, <2>1, SoloStep
  <2>2. ASSUME NEW t \in Threads, NEW j \in Jobs, Submit(t, j) PROVE SoloInv'
    BY <1>1, <2>2, SubmitSolo
  <2>3. CASE Tick
    BY <1>1, <2>3, TickSolo
  <2>4. CASE UNCHANGED vars
    BY <1>1, <2>4 DEF vars, SoloInv, OneCall, Exact, Entry, Recent, SoloWithinLimit, SoloOK,
                      Passed, Room, GrantedIn, GrantedSince, Span
  <2> QED BY <2>1, <2>2, <2>3, <2>4 DEF Next
<1>4. \A t \in Threads : RefusalOK(t)'
  BY <1>1, <1>2, RefusalStep
<1>5. RefusedOnlyWhenFull'
  BY <1>4 DEF RefusedOnlyWhenFull, RefusalOK
<1> QED BY <1>1, <1>3, <1>5 DEF Inv

(* What holds of the lists, the calls and the refusals in every reachable  *)
(* state.                                                                  *)
THEOREM BudgetInv == Spec => []Inv
<1> QED BY InitInv, StepInv, PTL DEF Spec

(* The variables keep their types, and only a cost is ever recorded.       *)
THEOREM TypeCorrect == Spec => []TypeOK
<1>1. Inv => TypeOK
  BY DEF Inv, ChargesInv, TypeInv
<1> QED BY <1>1, BudgetInv, PTL

(* An agent that runs one proposal at a time is let through for no more    *)
(* than the limit in any window, whatever the calls of other agents do to  *)
(* the shared dict.                                                        *)
THEOREM SoloIsBounded == Spec => []SoloWithinLimit
<1>1. Inv => SoloWithinLimit
  BY DEF Inv, SoloInv
<1> QED BY <1>1, BudgetInv, PTL

(* Lost updates go one way: the list of an agent never holds more than was *)
(* let through for it.                                                     *)
THEOREM ChargesAreReal == Spec => []NeverOvercharged
<1>1. ASSUME Inv PROVE NeverOvercharged
  <2>1. AllReal /\ events \in [Agents -> Lists \cup {NoList}]
    BY <1>1 DEF Inv, ChargesInv, TypeInv, TypeOK
  <2> QED BY <2>1 DEF AllReal, Below, NeverOvercharged
<1> QED BY <1>1, BudgetInv, PTL

(* A refusal is explained by what was let through since the beginning of   *)
(* the window of its check, and for an agent that runs one proposal at a   *)
(* time by that window alone.                                              *)
THEOREM RefusalsAreFair == Spec => []RefusedOnlyWhenFull
<1>1. Inv => RefusedOnlyWhenFull
  BY DEF Inv
<1> QED BY <1>1, BudgetInv, PTL

=============================================================================
