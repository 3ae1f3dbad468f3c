# A TLA+ model of the AI Agent Trust Gateway

The gateway stands between an agent that *proposes* an action and a tool that
*performs* it. This directory holds TLA+ modules for the parts of
`src/trust_gateway/` that decide and execute, the TLC configurations that check
them on small instances, and theorems checked by TLAPS for every value of the
constants. `PROJECT.json` relates every definition to the lines it stands for.

Run `tlc -config gw_race.cfg MCGateway` and the like for the runs in the table
below, and `tlapm GatewayProofs.tla` for the proofs.

## 1. The system

| Part | State it keeps | Operations | Module |
|---|---|---|---|
| Execution pipeline, `gateway.py` | locals of a call | `execute`, `_mark_terminal` | `Gateway` |
| Execution ledger, `execution_state.py` | SQLite table proposal_id -> digest, state, terminal status | `reserve`, `state`, `complete` | `Gateway`, `ExecutionContract` |
| Approval ledger, `approvals.py` | SQLite table (or a locked set) of consumed approval ids | `validate`, `is_consumed`, `consume` | `Gateway` |
| Capabilities, `capabilities.py` | SQLite table (or a set) of revoked token ids | `issue`, `verify`, `authorize`, `revoke` | `Credentials`; order of the checks in `Gateway`, argument envelope in `Policy` |
| Workload identity, `identity.py` | none | `issue`, `verify` | `Credentials`, `Gateway` |
| Policy engine, `policy.py` | rules read at start | `__init__`, `evaluate` | `PolicyBundle` (start), `Policy` (decision) |
| Signed policies, `policy_bundle.py`, `tools/sign_policy.py` | the policy file, the keyring | `sign`, `verify` | `PolicyBundle` |
| Information flow, `information_flow.py`, `infoflow.py` | none | two `evaluate` | `Policy` |
| Declassification, `declassification.py` | grants, held by the caller | `evidence_digest`, `issue`, `verify` | `Declassification` |
| Records, `models.py` | none | digest, taints and domains of a proposal | `Gateway`, `Policy` |
| Risk budget, `risk.py` | in memory, a dict from agents to lists of (time, cost) | `can_consume`, `consume`, `remaining` | `RiskBudget` |
| Audit journal, `audit.py` | a JSONL file of hash-chained events | `append`, `verify` | `AuditJournal` |
| HTTP service, `app.py` | one gateway for a pool of threads | execute, revoke, health, audit | `Gateway` (concurrent calls), `Credentials` (revoke), `PolicyBundle` (start) |
| Reference tools, `tools.py` | notes and services in memory | `execute`, `verify`, `taints` | `Tools`; in `Gateway` a tool acts or raises |
| Live MCP client, `mcp_live.py` | request id, pins | `discover`, `list_tools`, `call_tool` | `MCPClient` |
| Lab server, `tools/lab_mcp_server.py` | its mode | the three methods | `MCPClient` (answers) |
| MCP adapter, `mcp.py`; remote endpoints, `remote_trust.py` | none | stateless wrappers and checks | not modelled |
| Scripts, `lab/`, `tools/` | none of the gateway's | drivers of the parts above | not modelled |

A request to `/v1/execute` runs `TrustGateway.execute` on a thread of the
server's pool. Calls share, through objects built once in `app.py`, the
authority database (execution ledger, consumed approvals, revoked capabilities,
each operation on a SQLite connection of its own), the journal file and the
in-memory budget. Nothing serialises two calls except the database's uniqueness
constraints: that is where the hard behaviour is.

What is hard, and which property is about it:

* two calls, or a call and a retry, with one `proposal_id`; retries with other
  content: `AtMostOneEffect`, `InDoubtOnlyAfterFailure`, `ImplementsContract`;
* approvals looked up at line 142 and consumed at line 161 of `gateway.py`, one
  at a time, with other calls in between; ids and approvers that occur twice:
  `PaidByQuorum`;
* a crash, or an exception of SQLite or the journal, between any two steps:
  `ReservedBeforeSpent`, `EffectIsJournaled`, `InDoubtOnlyAfterFailure`;
* a retry told of a row that the first call is settling: `ReplyMatchesLedger`;
* credentials that are revoked, expire or are consumed meanwhile:
  `StaleAuthorityNeverActs`;
* a call that stops half-way through its approvals: `CallsReturn`,
  `ReservationsSettle`;
* unlocked lists that are fetched, filtered, replaced, summed and appended to
  by several threads, each with a clock reading of its own: `SoloWithinLimit`,
  `NeverOvercharged`, `RefusedOnlyWhenFull`;
* a journal whose tail is read in one step and extended in another, torn lines
  and changes from outside: `OnlyForksAlarm`, `NothingLost`, `TamperingShows`,
  `DamageStays`;
* two information-flow checks with different lists that look at different
  places: `WorseEvidenceNeverHelps`, `CrossDomainNeverDrives`,
  `OnlyStoredClaimsSlip`, `LowRiskStaysAvailable`;
* evidence that loses taints before the gateway sees it, by grants that may be
  edited, stale or for something else: `RemovedByReview`;
* an unlocked list of notes that is appended to, measured and verified in
  steps: `UnverifiedOnlyIfOvertaken`, `IndexExactUnlessRaced`,
  `VerifiedReadMissesOnlyRaces`;
* a revocation that races checks, restarts and its own audit event:
  `RevokedNeverAccepted`, `RevocationLeavesTrace`;
* expiry in whole seconds between clocks that differ: `ExpiryIsOnTime`,
  `WindowIsBounded`;
* a policy file that is truncated, written, copied over and edited between the
  starts of services whose keys rotate: `DecidedAsSigned`, `RequiredMeansSigned`,
  `StartsIffGenuine`;
* request ids allocated by `+=` in several threads, answers that are another's:
  `OwnAnswerUnlessRaced`; a server that is not the same from one answer to the
  next: `LabCasesHold`.

## 2. The modules

**`ExecutionContract`** is the promise, without threads or steps: a proposal_id
is taken once by one proposal, the tool acts only under that reservation and
once, and the recorded outcome tells truly whether it acted and is final
(`docs/ARCHITECTURE.md`, "at-most-once intent at the gateway boundary").

**`Gateway`** is `execute` step by step. `pc[t]` says where the call of thread
`t` stands; an action is one stretch of the function that touches shared state
at most once, so any interleaving of database and journal operations is a
behaviour of the model.

| Step | Code in `gateway.py` | Shared state |
|---|---|---|
| `Identify` | 78-92 | reads expiry |
| `Decide` | 94-97 | none (the policy is fixed) |
| `Authorize` | 99-119 | reads revocations |
| `CheckBudget` | 121-126 | any answer; `RiskBudget` models it |
| `CheckQuorum`, `ValidateApproval` | 128-145 | reads consumed approvals, one per turn of the loop |
| `Reserve`, `ReportReplay` | 147-156 | INSERT of the row; on a conflict a second, separate read |
| `Journal` | 157, 162, 165-168, 171-174, 179, 188-191 | one event at a time |
| `ConsumeApproval` | 159-162 | one INSERT per turn of the loop |
| `RunTool`, `Verify` | 176-187 | the effect; nothing |
| `Complete` | 203-205 | UPDATE of the row by proposal_id |
| `Raise`, `Crash` | any | an exception leaves `execute`; a process dies with its calls |
| `Revoke`, `Expire` | `app.py`, the clock | a credential dies |

`effects`, `spent`, `interrupted` and `void` are history variables: no guard
reads them. A proposal stands for its digest, so two proposals with one
`proposal_id` are the retry whose content changed. Tokens carry the set of
proposals they cover (`Scope`). Events written before the reservation are left
out, since nothing depends on them. `UseLedger`, `UseCapabilities` and
`UseIdentities` are the optional collaborators of the constructor.

**`RiskBudget`** has the three uses `execute` makes of the budget. Each runs
`_active`, whose accesses are one step each: the clock (`risk.py:31`), the fetch
of the agent's list and the filtering of it into a new one (32), the replacement
in the dict (33); `can_consume` then sums the list it put there (37, 43), and a
charge fetches the list of the moment, takes a time and appends (50-51). The
clock, other calls' appends and their replacements may come between any two of
them.

| Step | Code | Shared state |
|---|---|---|
| `ReadClock`, `Stamp` | `risk.py` 31, 51 | the clock |
| `Fetch`, `SetDefault` | 32, 50 | the dict |
| `Filter` | 32 | reads a list, makes another |
| `Install` | 33 | the dict |
| `Check`, `Consume` | 37, 43 in `can_consume` and in `consume` | reads a list |
| `AppendEvent` | 50-52 | a list |
| `Proceed` | `gateway.py` 128-168 | none of the budget's |

Lists are objects (`lists`), and a thread has a reference to one (`list`), which
need not be the one in the dict any more (`events`): what it appends there is
lost to the budget, and what another thread appends to the list it has just put
in the dict is summed with it. What a list holds stands as the cost for each
moment, since it is only filtered by time and summed. `granted` and `raced` are
history variables. The bound is one of a process: the lists are in memory, and a
restart forgets them.

**`AuditJournal`** has `append` as a read of the tail and a write, the write
possibly cut short, and edits and exchanges of lines from outside. Hashes are
ideal: the hash of an event is the sequence of the payloads under it.

**`Policy`** is the decision: rule, parameters, information flow, guard, in the
two steps in which `TrustGateway.evaluate` takes it. **`Declassification`**
extends it with what comes before: evidence as servers and the notes tool return
it, grants with their digest, domain, reviewer and end, the verification of a
grant (as issued, or edited on its way), and proposals that cite evidence in
their claims or by their taints alone. Several declassifications and decisions
follow each other while the clock moves. The gateway is given neither the grants
nor the authority, and the model does not give them to it either.

**`Tools`** is the registry as the tail of `execute` drives it: one step per
access to the list of notes, the services and `fail_next`, in several threads.
It derives what `Gateway` merely allows, that a completed effect is reported as
`verification_failed`. `before` and `overtaken` are history variables.

**`Credentials`** has the life of one token of either kind: issued by a clock
that may differ from the service's, expiry cut to seconds, verified in one step
and looked up among the revocations in another, revoked in three steps (verify,
insert, audit event) any of which may raise, through restarts with another
secret. Time is in ticks, `Second` of them to a second, so the cut is visible.

**`PolicyBundle`** goes from `sign_policy.py` to the provenance of a decision:
signing, truncation and writing of the file, plain and edited files put in its
place, the start of a service under a keyring or none and with signing required
or not, and the decisions it takes.

**`MCPClient`** is the client in several threads against the lab server in any
of its modes. A request id takes three steps to allocate. Each request of this
client has a connection of its own; `wire` is more general, and hands any answer
to any request, which is what the id is compared for.

The modules compose where components share state: `Gateway` has the ledgers, the
credentials' verdicts and the tool's effect in one state and implements
`ExecutionContract` through a refinement mapping; `Declassification` runs
`Policy`'s `Next` as part of its own. `RiskBudget`, `AuditJournal`, `Tools`,
`Credentials`, `PolicyBundle` and `MCPClient` are refinements in the small of
steps that `Gateway` takes as one or as a free choice: no state of the pipeline
depends on what is inside them, only on their verdicts.

The `MC*` modules give the constants their values. Definitions whose name
begins with `Mut` are plausible mistakes in the definition that follows them;
each property is violated when one of them takes its place.

## 3. The runs

| Run | Question | Instance |
|---|---|---|
| `gw_paths` | Does every path of `execute`, with any kind of request and a failure at any step, keep the journal ahead of the world and refuse dead credentials, and do calls return and reservations settle? | 1 thread, 5 proposals on 3 ids, 15 requests, an approval and an identity that expire, a revocable capability; fair; 383 000 states |
| `gw_race` | What holds when two calls contend for an id and for approvals, and is the contract implemented? | 2 threads, 3 requests on 2 ids, one approval id shared; 384 000 states |
| `gw_library` | Without an execution ledger, do the approvals alone pay for each effect? | 2 threads, 6 requests on one id |
| `budget_race` | What survives the races of the budget? | 2 threads, 2 agents, 3 calls, costs 0, 1, 3, limit 2, window 2, time 0..3; 1.1 million states up to `View` |
| `budget_overdraft` | Is cumulative authority bounded? (violated) | 2 threads, 1 agent, 2 calls of cost 3, limit 3 |
| `journal_race` | What survives races, torn writes and tampering? | 2 writers, 4 lines, 1 cut, 2 edits; 459 000 states |
| `journal_fork` | Does an untouched journal verify? (violated) | 2 writers, no damage |
| `tools_race` | What can a caller be told of its effect that is not so? | 2 threads, 3 notes of 2 texts, 2 services, 1 injected failure; 497 000 states |
| `credentials` | Is a token accepted exactly while it should be, across revocation, restart and clock skew? | 2 threads, 1 token of either kind, 2 agents, 2 secrets, 1 restart, an issuer behind, right or ahead, half-second ticks 0..7; 2.7 million states |
| `bundle_start` | Do the rules in force come from the bundle their decisions quote? | 2 policies, 2 key ids, 2 secrets, a clock ahead by 0 or 2, time 0..2, 1 signing; 421 000 states |
| `mcp_client` | Which answers are accepted, and how are they labelled? | 2 threads, 3 requests, 6 modes; 499 000 states |
| `evidence_flow` | Does evidence only lower a decision, does a taint go only by review, does a capability only narrow? | the rules of `policies/default.json`, a rule without constraints and an unknown target; all arguments over 2 keys and 3 values; all sets of 4 taints, one claim, 2 domains; 4 items of evidence, 2 grants; 487 000 states |

Why the bounds are enough. An id is contended by two calls at a time at its one
INSERT; a third adds a second loser of the same kind. Approvals interfere only
through shared ids, so two calls whose sets overlap in one id (`gw_race`), and a set
that names one id twice (`gw_paths`, `gw_library`), are all the ways to meet in the loop; a quorum of 2 is the
smallest for which a set can be consumed in part. Nothing bounds the retries: a
thread that is done may submit any request again, and crashes and exceptions are
unlimited. Without a ledger the effects are bounded by the approvals there are.
For the budget a window of 2 and times up to 3 let a charge leave the window
while another stays. Under a limit of 2 two calls of cost 1 are the exact fit and
a third is one too many, so with three calls a check can be refused for a charge
that was appended after it had read the clock, though no single window holds as
much; three list objects are one in the dict and one in the hands of each of two
threads. `View` (`MCRiskBudget`) identifies states that differ only in the names
of list objects, in objects nobody can reach and in values that are set again
before they are read: such states have the same steps, and the properties do not
tell them apart. Four
journal lines leave a middle to exchange and a line to glue. Three notes let two
appends overtake a third call. In `credentials` a check looks at one token and
no token refers to another, so one is enough; ttls of 1 and 3 ticks lie on both
sides of a second, the leeway is one second, and the issuer is behind by half of
it or ahead by more than it. `bundle_start` needs one genuine bundle, since edits make all others out of
it and a key rotated away makes it foreign. In `mcp_client` two overlapping
allocations and one earlier request are the fewest for an id to come back.
In `evidence_flow` a decision reads the proposal alone, so any proposal is
decided from an initial state, and the flow of evidence goes through the two
versions of a record and the two states of a note with two grants in a row.

`CHECK_DEADLOCK FALSE` stands in the runs in which the clock, the requests or
the journal are used up and the system stops (`budget_*`, `journal_*`,
`credentials`, `mcp_client`). The gateway's runs, `tools_race`, `bundle_start`
and `evidence_flow` check for deadlock.

**Fairness.** `FairSpec` (run `gw_paths`) has weak fairness of `Step(t)` for
every thread: a
running call keeps being scheduled by the operating system, and no step of
`execute` waits for another call (SQLite's busy timeout ends in an exception,
which is `Raise`). No client has to submit, and no failure, revocation or expiry
has to happen. `ReservationsSettle` therefore excepts ids whose call was ended
by an exception or a crash: for those the row stays reserved for good, as the
documentation says (`execution_in_doubt`). One thread is enough to ask: no step
of a call is enabled or disabled by another call.

### Where the code and its documents disagree

* `budget_overdraft`. The budget is checked at line 121 and charged at line 170
  of `gateway.py`, and the answer of the charge is not looked at. In the run two
  high-risk calls of one agent both pass the check; one is charged its 3, the
  other is refused the charge and acts all the same: 6 let through a limit of 3.
  README, invariant 5: "Cumulative authority is bounded by risk budgets." An
  agent with one call at a time stays within the bound (`SoloWithinLimit`).
* `journal_fork`. Two threads that append at once read one tail hash, and
  `verify()` is False from then on. `tests/test_audit.py:11` asserts
  `journal.verify() is True` of a journal only appended to. `OnlyForksAlarm`
  says that nothing else raises a false alarm.

Observations that properties state as they are:

* The guard does not see taints carried by claims (`infoflow.py:31`), and the
  policy's list lacks `stored_user_content`: that taint, in a claim, reaches a
  high-risk action. `OnlyStoredClaimsSlip` says that nothing else does.
* The guard denies low-risk proposals with injection taints (`infoflow.py:34`),
  although low-risk observation is to remain available; `LowRiskStaysAvailable`
  says that this is the only exception.
* An empty `allowed_keys` in a rule admits any argument (`policy.py:83`), as
  `notes.read` of the default policy has it, and admits none in a capability.
  `CapabilityOnlyNarrows` says on which side the difference falls.
* A claim carries the ids of the grants its evidence was declassified under
  (`models.py:32`); no code reads them.
* A completed append or read is reported as `verification_failed` when another
  append comes between (`tools.py:36-39`), and an append may report the index of
  a later note (`tools.py:50`). The properties of `Tools` say that this is all.
* `request_id` of the MCP client is not safe for threads (`mcp_live.py:117-118`).
* Calls of one agent that race may be refused for more than any one window
  holds: the cutoff is read before the list, and what is appended until the sum
  counts too (`risk.py:31-37`). `RefusedOnlyWhenFull` says how far this goes.

What some properties leave open: `TamperingShows` is about changed payloads and
exchanged lines, not about a last line rewritten together with its hash or cut
off, which no hash chain shows; `ReplyMatchesLedger` does not speak of
`approval_rejected`, a reply that a call gives both before and after it has a
row; a service that finds a torn policy file does not start, which is no
violation of any property here.

## 4. The proofs

`GatewayProofs` proves, for any finite or infinite sets of threads, proposals,
approvals, tokens and requests and for any quorum:

| Theorem | Says | Inductive invariant |
|---|---|---|
| `TypeCorrect` | `TypeOK` | `TypeInv` |
| `InDoubtIsHonest` | `InDoubtOnlyAfterFailure` | `TypeInv /\ OwnersOK` |
| `EffectOnce` (with the ledger) | `AtMostOneEffect` | the above and `EffectsOK` |
| `Refinement` (with the ledger) | `ImplementsContract` | the same |
| `StaleIsRefused` | `StaleAuthorityNeverActs` | `TypeInv /\ StaleOK` |
| `SpentBehindReservation` (with the ledger) | `ReservedBeforeSpent` | `TypeInv`, `MatchedOK`, `SpentOK` |
| `EffectsArePaid` | `PaidByQuorum` | `TypeInv`, `MatchedOK`, `QuorateOK`, `PaidOK` |
| `JournalRunsAhead` | `EffectIsJournaled` | `TypeInv /\ OwnersOK`, `QuorateOK`, `AnnouncedOK`, `JournalOK` |
| `RepliesAreTrue` (with the ledger) | `ReplyMatchesLedger` | `TypeInv /\ OwnersOK`, `EffectsOK`, `AnsweredOK` |
| `OutcomesAreFinal` | `OutcomesStand`: the row of an id that is settled, or was left in doubt, never changes | `TypeInv /\ OwnersOK` |
| `RetriesActNoMore` (with the ledger) | `EffectsStand`: nor does the tool act for it again | the same |
| `MediationIsComplete` | `EveryEffectPermitted`: behind each effect is a request the policy does not deny, with its identity, capability and approvals | `TypeInv`, `MatchedOK`, `QuorateOK`, `ClearedOK` |
| `CallsAreBounded` | `CallsMakeProgress`: each step of a call lowers its rank, nothing raises it | `TypeInv` |

The last four properties are stated in `GatewayProofs`, beside their theorems.

The assumptions are those of `Gateway`: `ValuesAssumption` (the markers for "no
row" and "no call" are no rows or requests, the quorum is positive, the switches
are Booleans), `ProposalsAssumption` (a proposal's id is an id) and
`RequestsAssumption` (a request names a proposal and a list of approvals).
`UseLedger` is assumed where it says so: without it there is no reservation.

The argument.

* `TypeInv`. `TypeOK` is not inductive: that a loop stays within its approvals
  needs to know that it starts at the first (`CallsOK`), that the row being
  settled has the type of a row needs the row to be there, and that what is
  settled is terminal needs the outcome to have been set.
* `OwnersOK`. For each id the row is reserved exactly while one thread holds it
  or after its holder was interrupted. It is stated per thread, so that one
  lemma covers all the steps that neither take nor give back a reservation
  (`QuietSteps`, `OwnersFrame`), and three the ones that do.
* `EffectsOK`. The number of effects is a function of what the row says and of
  where the holder stands: none before the tool, one between the tool and the
  recording if the outcome says so. With `OwnersOK` no second call can be at the
  tool. At-most-once, and the refinement of `ExecutionContract` with a row as
  the phase of the proposal it was reserved for, follow from it.
* `StaleOK`. A call submitted on a dead credential has not yet passed the check
  that will refuse it (`Unread`), since dead credentials never come back to
  life (`DeadStays`).
* `MatchedOK`. Every approval a call has passed in its loop, and all of them
  once it is past the loop, are given for its own proposal; with `RecordedStays`
  (a row is never taken away nor given to another proposal) an approval that is
  spent has its row.
* `QuorateOK`, `PaidOK`. A call past the count of its approvals has a quorum of
  them by different people. An approval that was consumed is either in the hand
  of the one call that consumed it and may still act (`InHand`), or in nobody's
  (`Unheld`). No two hands share one, since an id that is taken is not consumed
  again. For each proposal there are at least quorum times its effects unheld
  approvals: a tool that acts moves a full hand to them (`FullHand`,
  `ToolPaid`), and a call that dies or is refused half way only adds to them.
  Ids and approvals are one to one, so counting one is counting the other
  (`ImageCount`, `IndependentCount`, `PartsAddUp`). The ledger plays no part:
  without it an effect may be repeated, but never on the same approvals.
* `AnnouncedOK`, `JournalOK`. Where a holder stands says which of its events
  are in the journal, which only grows; an effect and a terminal row inherit
  them from the call that makes them.
* `AnsweredOK`. A reply is true of the row when it is made, and it stays true
  until the client has it because rows that are settled do not change: the
  owner of the row is the only one that could.
* `ClearedOK`. The checks that a call has passed are known from where it stands;
  together with `MatchedOK` and `QuorateOK` they add up to `Permitted` at the
  tool. That a credential may die after it was checked is not denied: that is
  what `StaleOK` is about, for the ones dead from the start.
* `Rank`. It counts the steps a call has before it, with what is left of its two
  loops. It falls with every step of the call and depends on nothing else.

The other proof modules, with the assumptions of the module they are about and
no bound on threads, requests or time unless it is a constant there:

| Module | Theorems (property) | Inductive invariant |
|---|---|---|
| `RiskBudgetProofs`, from `BudgetAssumption` | `TypeCorrect`, `SoloIsBounded` (`SoloWithinLimit`), `ChargesAreReal` (`NeverOvercharged`), `RefusalsAreFair` (`RefusedOnlyWhenFull`) | `Inv` |
| `JournalProofs`, from `GarbageAssumption` | `AlarmMeansFork` (`OnlyForksAlarm`), `AllIsKept` (`NothingLost`), `TamperingIsSeen` (`TamperingShows`), `DamageIsKept` (`DamageStays`); `SoloNeverAlarms` (`NoFalseAlarm`, for one writer) | `Inv`; `SoloOK` |
| `ToolsProofs`, from `ServicesAssumption` | `ToolsTypeCorrect`, `VerificationDeniesRaces`, `IndexIsThePlace`, `ReadIsAPrefix`; `SoloCallsAreExact` (for one thread) | `Inv`; `OvertakenByOthers` |
| `CredentialsProofs`, from `ClockAssumption` | `RevokedIsRefused`, `RevocationIsTraced`, `ExpiryIsExact`, `WindowBound` | `Inv` |
| `PolicyBundleProofs`, from `BundleAssumption` | `ProvenanceIsTrue`, `RequiredIsSigned`, `StartIsExact` | `Inv` |
| `MCPClientProofs` | `AnswersAreOwn`, `LabCases`; `SoloAnswersAreOwn` (for one thread) | `Inv` |
| `DeclassificationProofs`, from `PolicyAssumption`, `FlowAssumption` | `RemovalIsReviewed`, `EvidenceOnlyLowers`, `TaintsDontDrive`, `OnlyStoredClaims`, `LowRiskStays`, `CapabilityNarrows` | `Inv` |

* Budget. `Inv` has two halves. `ChargesInv` holds for every agent: no list
  object, in the dict or not, holds more than was let through (`AllReal`); the
  list a thread has filtered holds only what was recent by the clock it read,
  since whoever appends to that list later fetched it from the dict and took the
  time afterwards (`FreshOK`); nothing bears a time in the future (`NoFuture`).
  So what a check sums was let through between the beginning of its window and
  now, which is the first half of `RefusedOnlyWhenFull`. `SoloInv` is about
  agents with one call at a time: the list in the dict has exactly what was let
  through in the window (`Exact`), nothing was let through since the call read
  the clock, the list it holds is the one in the dict, and past the check there
  is room for its cost in every window that may yet be charged (`SoloOK`); the
  second check can therefore refuse nothing that the first allowed
  (`ChargedInFull`). Sums are partial sums; that they exist,
  are monotone and add up is shown from the least moment at which they would
  not (`LeastNatural`, `SumExists`, `TotalIsMonotone`, `TotalAdds`).
* Journal. While nothing was damaged every line is sealed, every tail that was
  read is the hash of a line, and the chain is whole or forked (`ChainOK`);
  an append on a tail that is not the last forks it. In a whole chain the hash
  under line k is made of k - 1 payloads (`DepthOfHash`), so an exchanged line
  shows.
* One at a time. Three theorems say what the same code promises to a single
  writer, caller or thread, which is how the tests and the lab use it: no false
  alarm, no effect reported unverified, no answer but one's own. What the runs
  and theorems about races leave open is therefore due to the races alone.
* Tools. A thread's note stays at the place where it was put, and whatever lies
  behind it was appended by a thread in `overtaken`.
* Credentials. A token found revoked at the start of a check is in the store for
  good; `first` of an identity is no earlier than `iat` less the leeway
  (`FirstOK`); the cut of a time lies less than a second below it
  (`TokenTimes`).
* Policy bundles. Every signature on the file was made (`FileOK`), and a service
  or decision keeps the bundle that passed (`EngineOK`).
* MCP client. Until two allocations overlap, the ids handed out are the numbers
  up to `request_id`, each to one request (`AllocationOK`, `IdsOK`).
* Declassification. Every grant was issued, and each removal is on record with
  the grant in force; the facts about decisions are lemmas about `Decide` for
  every policy and proposal.

Only model-checked: the two liveness properties, `CallsReturn` and
`ReservationsSettle`, since fairness and `ENABLED` are beyond this prover. Their
safety half is proved: by `CallsAreBounded` a call cannot go on for ever, and by
`InDoubtIsHonest` a reserved row has a live owner or was left by a failure; what
remains for TLC is that a call that runs always has a step to take. What a
definition by recursion over data computes is out of reach too where no argument
by least counterexample is given.

## 5. Not modelled

Parsing and validation of JSON by pydantic, the texts of events and replies, and
the details of SQLite beyond the atomicity of a statement. Signatures and
digests are ideal. In `Gateway` a tool acts at once or raises having done
nothing, and the budget's and the journal's own failures reach it as exceptions
of the steps that use them. The in-memory ledgers differ from the SQLite ones
only in being forgotten at a restart; the service uses the latter and so does
the model. Key management is a keyring that changes between starts.

`mcp.py` holds two stateless wrappers that the service does not use.
`remote_trust.py` checks a URL, a certificate digest and the presence of a token
once, when a client is constructed: there is no sequence of steps in it.
`InformationFlowPolicy.require` and like helpers that raise what `evaluate`
denies have no caller. `lab/run_live_lab.py`, `tools/run_scenarios.py`,
`tools/evaluate_redteam.py` and `tools/evaluate_policy_differential.py` drive
the components on fixed cases and count the answers; the lab's cases are
`LabCasesHold`. Requests that the lab server rejects for their path, version or
headers are transport failures to the client.

## 6. What is left to do

`Credentials` checks one token at a time; an instance with a capability and an
identity in one call would repeat what `Gateway` has of their order.
