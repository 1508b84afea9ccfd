# ConcIR in TLA+

ConcIR is a small concurrent intermediate language with a verifier around it.
A document (modules of functions, resources and protection rules) is validated,
lowered to a resolved program, and run by one of two executable semantics - a
reference interpreter and a Petri engine - that share one interface. An explorer
walks the states of either under analysis bounds and answers the properties of a
contract; a repair search patches programs until the explorer accepts one; two
monitors compare recorded traces of generated code with the model.

This directory models the part that decides: what a program may do, and what a
verdict about it means. Paths below are relative to the repository.

## 1. Inventory

| component | state | operations | what makes it correct |
|---|---|---|---|
| resolved program, `src/sem/program.rs` | none after lowering | lowering of each operation; jump targets, slots, domains, clamped capacities | every operation means what the document says; nothing unresolved is left |
| reference interpreter, `src/interp` | threads, frames, scopes, handles, shared store, mutexes, semaphores, condvars, channels, completion facts, identity counters | one step per operation and per resumed thread; errors; analysis limits | queues, scopes, frames and identities stay exact under every interleaving; values respect their domains; messages keep their order |
| values, expressions, `src/sem/value.rs`, `eval.rs` | none | evaluation, domain test, keys | total on well-typed input, errors instead of overflow |
| explorer, `src/explore/mod.rs` | the graph by state key, a queue, boundary events, errors | expand a state, insert a successor, cut at a bound; five property kinds, two preserved behaviours, the overall outcome | a verdict says something true about all executions, or says Unknown |
| system interface, predicates, `src/sem/system.rs` | none | the trait both semantics implement | states with one key are alike |
| contract monitor, `src/sem/monitor.rs` | none | saturation thresholds | a saturated count answers like the exact one |
| Petri engine, `src/petri` | a marking of coloured tokens and the same store | firing of net transitions | the same observable behaviour as the interpreter |
| contract, `src/explore/contract.rs` | none | parse, bind names | names denote what they say |
| repair search, `src/repair` | nodes by program fingerprint, a frontier, budgets | propose, validate, deduplicate, verify, accept | accepted means verified; terminal facts match what was cut |
| external provider, `src/repair/external.rs` | a child process | one request, one answer | - |
| validator, `src/validate` | none | eleven passes; `locks.rs` is a fixpoint over lock sets | a valid program cannot make the faults the passes look for |
| trace monitor, `src/monitor.rs` | holders, channel counts, completion facts along a trace | replay an event; evaluate predicates | three-valued answers never overstate |
| trace conformance, `src/conform.rs` | a set of machine states and tag maps | silent closure, one event | a violation is one, a bound is Unknown |
| generated program, `src/codegen.rs` | threads, std mutexes and condvars, counts, buffers, the event buffer | lock, wait, notify, acquire, send, receive, scope, each with one record | what it records is a trace of the model; it stops only where the model may |
| instrumentation, export, command-line tools | none | text in, text out | - |

The components interact by calls only. The interpreter is a pure function from a
state to its successor steps, boundary events, or an error; the explorer calls
it for one state at a time and owns all the state of the search; the repair
search calls the explorer once per new program. So the concurrency that matters
is inside the modelled program, where every runnable or resumable thread may take
the next step, and the failure that matters is a search cut short: by a limit on
states, depth, events, threads or frames, or by a run-time error of one thread,
which makes `successors` an error and hides the steps of all the others. Generated
programs are the other concurrent part: there an operation and its record are two
steps, and `conform` and `monitor` see the records only. Nothing is persisted or
sent over a network, so there is no crash recovery or lost message to model.

## 2. Modules

| module | models | depends on |
|---|---|---|
| `ConcIR` | the resolved program: operations, domains, declarations, as constants with assumptions | |
| `Interp` | the reference interpreter: machine state, one action per operation, per resumption and per kind of return | `ConcIR` |
| `InterpProps` | its properties, and the inductive invariant `Sound` behind them (`IInv`, `Named`, `InDomains`) | `Interp` |
| `Petri` | the Petri engine: the net of a program, its marking and store, one action per `NetOp` | `ConcIR` |
| `PetriProps` | the marking and the store tell one story; the net implements `Interp` under a refinement mapping | `Petri`, `InterpProps` |
| `Petri_proofs` | the theorem that marking and store agree | `PetriProps`, TLAPS |
| `Refine_proofs` | every transition of the net is a step of the interpreter, in states where both invariants hold | `Petri_proofs` |
| `Implements_proofs` | the theorem that the net implements the interpreter, and what it inherits from it | `Refine_proofs`, `Interp_proofs` |
| `InterpNet` | `Interp` with two history variables implements `Petri` | `Interp`, `Petri` |
| `Locks` | the lock passes of the validator: lock sets per statement, and the errors | `ConcIR` |
| `LockProps` | what a program they accept cannot do | `Interp`, `Locks` |
| `MCPrograms` | families of programs for TLC | `ConcIR` |
| `MCInterp`, `MCPetri`, `MCInterpNet` | the families put under each of the three | `MCPrograms` |
| `Interp_proofs` | theorems about `Interp`: queues, scopes, frames, locks, resources; waiting threads, handles, messages; domains of values; limits | `InterpProps`, TLAPS |
| `Locks_proofs` | theorems that the validator's lock passes are sound for it | `LockProps`, `Interp_proofs` |
| `Explore` | the explorer's loop and the verdicts, over an arbitrary transition system | |
| `ExploreProps` | what the verdicts mean, and the inductive invariant `IInv` of the loop | `Explore` |
| `MCExplore` | small transition systems for TLC | `ExploreProps` |
| `Explore_proofs` | theorems about `Explore`: verdicts, shortest counterexamples | `ExploreProps`, TLAPS |
| `RepairSearch` | the budgeted search over patches, its candidates, patch application and terminal triple | |
| `RepairReplay` | the exported artifact, and `replay_artifact` as a predicate of it | `RepairSearch` |
| `RepairLoop` | the single-edit loop over the candidates of a file | `RepairReplay` |
| `RepairProps`, `MCRepair` | what a repair and a stop reason promise; oracles, budgets and files for TLC | `RepairLoop` |
| `Repair_proofs` | theorems about the loop over a candidate file, and the replay, the stop reason and the repair of a search | `RepairProps`, TLAPS |
| `Generated` | the generated program and its runtime, one helper in two steps | `ConcIR` |
| `Conform` | the replay of a trace against interpreter states | `Generated` |
| `TraceMonitor` | the monitor: name alignment, holders, channel counts, predicates, results | |
| `Monitored` | a program feeding the monitor, what was really so in the program, and what the one says of the other | `Generated`, `TraceMonitor` |
| `Monitor_proofs` | the theorems that the monitor's counts and verdicts are true of the program | `Monitored`, TLAPS |
| `TraceCheck` | a program, or a forger, feeding `conform` and the monitor | `Conform`, `Monitored` |
| `TraceProps`, `MCTrace` | what they promise one another; programs, names and clauses for TLC | `TraceCheck`, `MCPrograms` |

### Interp and the code

The `prog` variable holds the program; it is chosen in `Init` from the constant
`Programs` and never changes, so one run explores a family of programs. The maps
of the code from identities to records (`threads`, `frames`, `scopes`,
`handle_children`) are functions over `Ids` with a value for a missing key, and
`next` is `Alloc`. `status` and `on` are the thread status and what its
`BlockReason` names.

* `step_thread` is one action per operation, all guarded by `Executes(t, kind)`:
  the thread is runnable and stands at a statement of that kind. `Reach` is the
  insertion into `reached` that precedes the match.
* `resume_thread` is `ResumeLock`, `ResumeSemaphore`, `ResumeSend`, `ResumeRecv`.
  Its rendezvous branches, which a comment calls defensive, need a sender and a
  receiver that both wait; `RendezvousExclusive` says that never happens (proved),
  so they are no actions.
* A `channel_send` or `channel_recv` that meets a waiting partner completes both
  threads in one action, with one successor per eligible partner; `CondvarNotify`
  has one successor per waiter.
* `apply_return` is `PopFrame` or, at the bottom of the stack, `FinishThread`,
  which is all of `finish_thread`: leave the scope, complete it when empty, wake
  and advance its owner, wake joiners, reclaim identities.
* A value outside a destination's domain disables the step: `Accepts`,
  `ReturnAccepted` and the parameter check of `CallBody` are guards.
* A run-time error of any thread (E2xx, E402, E410, E510, E511, E904, E905)
  makes `successors` an error: `Next` is disabled in a state with `Faulted`.
* Thread and frame limits disable the step. That they also leave a boundary event
  is the "boundary" answer of `Explore`.

Abstractions: waiting queues are sets (no rule reads their order: every waiter is
a legal match); `ReadShared`/`AtomicLoad` and `WriteShared`/`AtomicStore` act alike
on the store and are merged; expressions are values of the constant `Eval`; a type
is the set of values it admits; unmodelled parameters are left out; indices are
1-based. `HasRoom`, the guards marked "model bound" and `MaxId` bound the identity
counters, which the code does not bound; `MaxPermits` stands for `i64::MAX`.

### Petri and the code

`build` makes, for each statement, one transition per way it can go on, and
`fire` runs a transition at a token. The marking of the control and wait places is
the set `marking`; the places that hold exactly one data token are the variables
`data`, `mutex`, `sem` and `buf`; `NetStore` and `NetAlloc` are the rest. Each action
`A(k)` is the `NetOp` of that name at the input token `k`.

* Every control-bound transition takes `k` from its place and records the pc of its
  frame in `reached` (`Reach`), before it looks at the operation.
* `place_control` puts a control token and moves its frame's pc to it: `Placed`.
  Nothing else writes a pc. `wake_control_next` and `put_control_next` are `Wakes`,
  past the statement at which the woken frame stands, with `Unblocked`.
* Waiters carry what their statement captured: the value sent, the permits asked,
  the lock to take again.
* `ReturnFinal` is all of `finish_thread`: the owner's token leaves its `ScopeWait`
  place, every joiner's token leaves its `JoinWait` place, and identities go.
* `successors` fires every transition at every token and is an error if one firing
  is: `Faulted` disables `Next`, as in `Interp`.

`PetriProps` maps a net state to an interpreter state: a thread's status is the kind
of place its token lies in, what it waits for is that place's resource, scope or
handle, and the queues are the tokens of the wait places. `ImplementsInterp` says
every firing is then a step of `Interp`. `InterpNet` goes the other way: `entry` (the
function a thread was created for, which the net keeps for its bounds) and `ends`
(the fall-through places, which the net records in `reached`) are all that the
interpreter's state lacks, and `NetImplements` says every interpreter step is a
firing. The two together make the engines bisimilar on the programs compared.

Those programs leave out three things that the engines do differently by design or
by accident: calls of transparent functions (the run `nobody`), statements the net
gives no transition (`Unsupported`, which the explorer refuses before it starts),
and a `switch` on a value that is neither Int nor Enum, which takes the default in
the net and is an error in the interpreter.

### Explore and the code

One iteration of the `while let` loop of `verify` is `StateLimit`, or `DepthLimit`,
or `Expand` followed by one `InsertKnown` or `InsertNew` per successor and
`EndIteration`; `Exhaust` is the empty queue. `pc` says where in the loop it is.
An index is 1-based; `pred` is 0 for the initial state; edges have no labels. The
transition system is any record of `Systems`: for each state a sequence of
successors, an answer (ok, with boundary events, invalid, unsupported), a key, and
whether it is finished. An expansion with boundary events counts as one event,
however many the code collects. The verdicts `Safety` (also Unreachable and
Preserved::Always), `Reachability` (also Preserved::Reachable), `DeadlockFree`,
`AlwaysReachable` and `Overall` are operators on the final graph; a predicate is a
set of states.

What the explorer needs from a system is `KeyIsCongruence`: states with one key
give the same answer, are finished together and step to the same keys. It is an
assumption of `Explore` (`SystemsAssumption`).

### Locks and the code

All passes of `validate/locks.rs` run the same worklist of pairs of a statement and
the locks held before it; `Visited` is its fixpoint, which starts with `requires_held`,
and each error is a predicate of a visited pair: E501 `NotReleased`, E502 `NotLocked`,
E503 `LockedTwice`, E512 `WaitsWithout`, E803 `CallsWithout`, E309 `Unprotected`. A set
held after a `condvar_wait` is the one before it, as in the code. `Exhausted` says that
the worklist ran until nothing was left; TLC evaluates it for every program, and the
proofs, which cannot compute a fixpoint, take it from there. E602, which makes
every path end with a `return`, belongs to `validate/control.rs`; without it a function
could fall off its end with a lock, which E501 looks for at returns only.

`LockProps` puts accepted programs into `Interp`. The passes look at one function at a
time, so `Assumed` states what they take for granted: functions that require locks are
only called, never spawned or put into a scope, and return with those locks. Neither is
checked: `check_requires_held` looks at calls, and a comment (`locks.rs:225`) lets a callee
give its caller's locks away, although the caller's set goes on listing them. A double lock across a call is not seen either
(the callee's set does not list its caller's locks unless it requires them); it blocks
the thread and is for the explorer to find.

### RepairSearch, RepairReplay, RepairLoop and the code

A program is the order of the statements of its functions, which is all a patch
changes; what validator, verifier and diagnostics say of it is an oracle in the input
`in`, so a run covers every oracle over its programs. A complete PASS is the only PASS
there is, which `OverallPassComplete` shows of the explorer. One action is one turn of
`run_search`: `VerifyRoot`, `Pop` (with the depth and edit bounds), `CandidateBudget`, `NoMoreCandidates`, and
`Propose`, whose disjuncts are the outcomes of `attempt_outcome`: `Reject`, `Reuse`,
`BudgetBlocked`, `Verify`. `Candidates` is the enumerator of each strategy. `Classify` is
the priority of `TerminalFacts::classify`.

`Artifact` is what a finished search exports, and `Replays` is `replay_artifact` with its
parts in order: structure, rebuilt nodes, explained attempts, derived terminal facts,
accepted chain. Replay does not ask whether the recorded candidates are all the
enumerator had. `RepairLoop` is `repair::repair` with the file provider; it shares
the variables and is entered by the strategy "file".

The stop reason "max-depth+max-total-edits" cannot arise with the enumerators of the
code: every patch makes one change, so edits equal depth and the smaller bound stops all
(`StopReasonTrue` says so).

### Generated, Conform, TraceMonitor and the code

A thread of `Generated` stands at a match arm and at a stage of the runtime helper it
calls there. `record()` precedes the operation for `event_at_attempt` statements
(`Announce`) and follows it for the rest (`Report`). Channels are the runtime's, with their
two condvars: `Push`, `AwaitEmpty`, `Pop`. Statements on data are left out, since they record
nothing.

`Conform` keeps, per mode, a set of entries (interpreter state, map from tags to threads).
The interpreter is there the function `successors` on the same statements, without
values; `Interp` is the module that models it in full. `silent_expand` closes the
frontier under steps that record nothing, merging states of one `state_key`, which here
renames identities in order; `Advance` takes an event. `TraceMonitor` follows
`replay` and `predicate_status`; `Align` is `align_resources`.

`Monitored` runs a program under the monitor and keeps, beside the monitor's `observed`, what
each clause's predicate really was (`witnessed`). `TraceCheck` gives each event to `conform` as
well; a second source, the forger, records any events in any order, which shows what
acceptance by `conform` proves.

What the instances leave out, because the property would not hold and the documents
promise less: channels with several senders or receivers, and a notification without the
mutex, both of which may record in an order the interpreter does not have. For the
first the documents expect the records after the operation (`doc/backend-usage.md:371-373`,
`:416-417`) where the code has them before it. In `--op-resource` mode an event nothing matches is accepted while at most one
thread exists, which is meant for the time after the last join (`conform.rs:42-44`) and
also holds before the first spawn.

`VerdictsReal` says where the monitor can be believed, and each of its conditions is needed.
`Waitless`: a wait records no release, so a waiter goes on counting as a holder.
`GuardsReturned`: neither does a guard that is dropped where its function ends.
`PermitsCovered`: a second acquire of a semaphore adds nothing and one release takes the holder
off, so a thread counts as a holder from an acquire to the next release, and must have permits
left all that time. `Monotone`: a thread is taken for a holder from its record to its next,
which is later than it acquires; at a moment when one thread's acquisition is unrecorded, a
clause that asks for one thing held and another free may see a state that never was.
`NamesAssumption` asks that each resource is aligned with its own name in the contract.

## 3. Runs

A run explores a family of programs (systems, oracles, traces) at once: each covers all
orders of its operations and not one chosen program. Deadlock is not checked: modelled
programs may deadlock, finish or fault, and searches end.

| run | instance | shows |
|---|---|---|
| `interp` | see the next table | type correctness; exact queues, scopes, frames, identities; messages; hand-over; domains; limits; what accepted programs cannot do |
| `net` | the net of the families of locks and channels, and of selected operations of the others; one function of bound 1 | `TokensExact`, `ImplementsInterp` |
| `agree` | the interpreter on the same programs | `NetImplements` |
| `explore` | all systems of 3 states with out-degree at most 2 and at most one odd answer; 4 states of which two share a key; 5 states with paths of different lengths; 6 bounds | soundness of each verdict, `OverallPassComplete`, counterexamples, `Terminates` |
| `repair` | all oracles over 4 programs (two functions that lock two mutexes) with 20 budgets and 6 (one function of three locks) with 6; all files of 3 patches out of 7 | `ReplayAccepts`, `RepairIsShortest`, `StopReasonTrue`, `FileLoopFindsFirst`, `Terminates` |
| `trace` | pairs of 7 lock and semaphore sections, two waiters and a notifier, a sender and a receiver, nested scopes; the three modes; forged traces of all of them | `Accepted`, `RestMatches`, `KeysAreExact`, `TraceLegal`, `VerdictsReal`, `ChannelCountExact` |
| `bound` | violation | `FunctionBoundRespected` |
| `reclaim` | violation | `ScopeReclaimsMembers` |
| `nobody` | violation | `TransparentCallIsNoOp` |
| `agef` | violation | `AlwaysReachableFailSound` |
| `rendezvous` | violation | `RestMatches`, with two senders |
| `unreachable` | violation | `UnreachableFailReal` |

The families of `interp`, which `MCPrograms` and `MCInterp` define:

| family | instance |
|---|---|
| locks | 3 threads, a mutex, a condvar, a semaphore; 3 of 7 operations in every order against 4 bodies |
| channels | 3 threads, channels of capacity 0 and 1, a slot that refuses a value; 3 of 6 operations against 5 bodies |
| threads | 3 of 7 spawn, join and scope operations over 5 worker bodies |
| loops | loops that rebind handle names, up to 5 identities of each kind |
| data | 2 of 19 data and control operations against a concurrent writer |
| sections | two workers with 2 of 11 operations inside a critical section, of which the lock checks accept some; a protected variable, and a function that requires its lock and gives it back for a while |

Three live threads suffice for the hazards of locks and channels: a holder or partner,
one that waits, and one that arrives in between; two nested levels suffice for frames and
scopes. Capacities 0 and 1 reach every branch of send and receive. The limits of 5
threads and 3 frames are both reached. The bounds of `explore` cut the search at two
states, at three, at depth one and two, at the first event, and nowhere. In `repair` a
square of programs has two shortest ways to its far corner and a hexagon three steps to
its, so that a program is reached again on another path, and budgets lie just below, at
and above what the search needs. In `trace` two threads and two mutexes let each record
slip behind one operation of the other thread; a third thread is the second waiter.

The six violations are statements that the code does not keep:

* `doc/syntax/function.md:66` limits a function's body to `bound` tokens; a scope
  checks the bound for each member before it creates any (`interp/exec.rs:828`),
  so a scope that names the function twice exceeds it.
* `doc/backend-design.md:276-277` says that a completed scope reclaims its members
  and no stale identity remains; a scope of transparent functions only completes
  on the spot and reclaims nothing (`interp/exec.rs:846`).
* `doc/backend-usage.md:66` lists a transparent function as a no-op for both engines;
  the net calls it, with a frame, its arguments and a return (`petri/exec.rs:1141`).
* `doc/backend-design.md:532-534` keeps `Fail` for a concrete counterexample and
  asks for `Unknown` when the search was incomplete; AG EF answers `Fail` from the
  explored fragment without asking whether the search was complete
  (`explore/mod.rs:702`).
* `doc/backend-design.md:220-221` says that the two sides of a rendezvous never wait
  at once, and the interpreter releases both of two senders after two receives; in the
  generated channel a sender is woken when it cannot go on, and sleeps on
  when it could (`codegen.rs:174`).
* `monitor.rs:484` reports "a bad state was observed" for an `unreachable` clause that
  FAILs; the clause is evaluated as if `bad` had to hold in every state
  (`monitor.rs:481`), so it FAILs when a state is not bad.

Each property of a passing run has a mutant in the model: an operator marked
`mutant`, the plausible bug that the property catches.

## 4. Fairness

`Interp`, `Petri` and `TraceCheck` state none: `doc/backend-usage.md:97` promises no
fairness, and AG EF is about reachability. All their properties are safety properties;
that a generated program loses no wake-up is the state property `RestMatches`. The
explorer and the repair search are sequential code that runs as long as it can: `FairSpec`
and `RepairSpec` are weak fairness of the next step, and both `Terminates` use it.

## 5. Proofs

The modules named `*_proofs` are checked by TLAPS for every value of the
constants that satisfies the assumptions of the modules (`ConcIR`, `Interp`, `Petri`, `PetriProps`, `Explore`,
`RepairSearch`, `Generated`, `Monitored`): any program, any number of threads and resources, any
limits; any transition system whose key is a congruence, any bounds; any oracle; any
contract. TLC evaluates those assumptions on every
run.

Interpreter. None of the properties is inductive alone: a resumed sender's queue
entry is unique only if queues are exact; an advance touches the right statement
only if no two threads share a frame; a scope can be completed only if its owner
still waits at the frame the record names; a fresh identity is unused only if all
identities in use are below the counter. `IInv` is their conjunction: `TypeOK`,
`WaitQueuesExact`, `ScopesExact`, `FramesOwned`, `Fresh` (nothing at or above the
counters) and `CallsReturn` (a called frame has a return address). The proof has a
lemma per action and conjunct; `Invariant` puts them together, and
`MutexHandover`, `WaiterRegainsLock` and `IdentitiesFresh` follow from `IInv` step
by step. `RendezvousExclusive` and `ResourcesBounded` are invariants over it.

Who waits, and for whom. `BlockedAtItsStatement`,
`JoinersWaitForLiveChild` and `HandlesResolve` need one another: a join blocks on the
child its handle names, the finish of that child unbinds exactly the joiner's handle,
and only because the joiner still stands at its `join`. The invariant is `Named`:
`WaitersStand` (every waiting thread stands at its statement), `ChildrenExact` (a child
entry names a spawned thread that is not reclaimed, outside every scope, and only once),
`HandlesExact` (a handle bound in a frame has a child, and only one binding) and
`JoinersFit` (a joiner's child is live). A step is shown to leave every other waiting
thread as it was (`Kept`), or to make its own thread wait (`Begins`), kind of step by
kind of step; `StepKinds` reduces the twenty-eight actions to six kinds.
`MessagesInOrder` follows from `IInv` step by step.

Values. The invariant is `InDomains`: allocated frames, shared variables
and messages hold values of their declared types, and so do the values of blocked senders,
which no rule checks again when they are delivered. It is preserved over `IInv`, under the
assumption `InitialValuesTyped`: the code takes initial values from the declarations
without a test.

Limits. `WithinLimits` is inductive over `IInv` and `Named`. The limit is
tested before each thread of a scope is created, so the last of those that are born
running saw all the others; the pigeonhole principle finds it. A call tests the frame limit
before it pushes, and no other step adds a frame to a stack or a thread to the live
ones. The theorem asks for positive limits, since `MachineState::initial` tests none.

Locks (`Locks_proofs`). The passes see one function at a time, a thread is a stack of
them; the invariant `LocksFit` joins the two. Each frame of a thread has a set of locks
that the passes found at its statement (`OnPath`), each frame above the first is called
from the statement below it with the locks it requires (`CallOf`), and a callee answers
for those locks in its caller's place (`Own`). What the frames answer for is disjoint, and
together it is what the thread holds, or will get back when it sleeps in a `condvar_wait`
(`Due`). Steps inside a function follow an edge of the passes (`MoveCarries`), a call
splits a set (`CallCarries`), a return merges two (`ReturnCarries`), and a thread begins
and ends with none. Each action is shown to leave a thread where it is (`Stays`) or to
take it along an edge (`Advances`); threads that others wake move too, which needs
`WaitersStand` of `Named`. `ValidatedNeverFaults` reads the set at an `unlock` or `wait`;
`ProtectedByLock` also asks who writes (`Writer`): a thread at its statement, a receiver
a sender serves, or a return into the caller, under the lock the call needed.

Petri engine (`Petri_proofs`). A transition changes the marking and the store separately,
and some move several tokens: a notification, a rendezvous, the end of a thread with the
joiners and the owner it wakes, a scope with its members. `NetInv` is what makes the two
agree again after each: `NetTypes`; `StacksOwn` (an allocated frame is in one stack, once,
and a called frame has a statement to return to), so that moving one token's frame moves no
other's; `Unborn` (nothing at or above the counters), so that a new thread's token and
frame are new; `MembersAwaited` (a live member is in its scope's `remaining`), so that
reclaiming a scope leaves no token without a thread; and `OneToken`, which is `TokensExact`
in the form the induction needs. Transitions that leave the stacks alone exchange tokens one
for one (`Exchanged`, `ExchangeKeeps`); a call, a return, a creation or an end retell part
of the marking (`Retold`, `OneTokenKept`). `NetInvariant` joins them, `TokensAreExact`
follows. `NetAssumption` says that limits are numbers and that what stands for a missing
frame, thread or scope is none.

The engines agree (`Refine_proofs`, `Implements_proofs`). `Refinement` proves
`ImplementsInterp` under two conditions. `Comparable` holds of every program: no statement
is unsupported, no transparent function is called, and a `switch` reads a value that both
engines switch on (the three differences of section 2; without it the theorem is false, as
the run `nobody` shows). `InitialValuesTyped`: the declarations give initial values of the
declared types. `MCInterpNet` asserts both of the programs that `net` and `agree` compare.
The argument is an induction on four invariants at once (`Told`): `NetInv`; `Sound`, the
invariant of the interpreter, of the machine state that the mapping reads off the net, which
gives the net what it does not record itself (who waits in which queue, that the scope of an
owner names its frame, that values fit); `Entered` (the function a thread was created for is
that of its first frame, so both engines count the same threads against a bound); and
`ScopeSids` (the statement in a scope's record is where its owner's token waits, so both
engines record the same completion). From these, `FireTold` maps each transition to the
operation it stands for. `TokensSay` reads a thread off its token; then a transition is
known by the tokens it takes and puts (`Exchanged`, `Retold`), and each
group of lemmas says what that makes of statuses, queues, stacks and scopes. The hard ones
are the end of a thread, whose owner, joiners and reclaimed members the net finds by their
tokens and the interpreter by their statuses (`FinishTold`), and a scope that starts several
members (`ScopeTold`). `Faults` shows that a net without a failing transition stands for a
machine state without a failing thread. `Sound` is kept because the step just mapped is a step of the
interpreter (`SoundNext`), so nothing about it has to be proved of the net again.
`ImplementsInterp` and `Interp_proofs` each have their own instance of the interpreter;
the `Same...` lemmas say that the two are one. `Inherited` draws the conclusion: what is
proved of the interpreter holds of the net, the order of messages and the hand-over of
mutexes included.

Explorer. `IInv` is `TypeOK` with `KnownInv` (everything indexed is reachable, and
what is pending are steps of the current state), `EdgesInv` (a processed state that
no bound cut has the keys of all its steps as edges, the pending ones apart),
`AnswersInv` (whatever could not be expanded has been counted) and `QueueInv` (no
indexed state is forgotten unless a bound ends the search). At the end a complete
search is therefore closed under steps up to keys, and the congruence carries each
verdict from keys to states: `SafetyPass`, `Witness`, `ReachabilityFail`,
`DeadlockVerdict`, `AlwaysReachablePass`, `OverallPass`.

Shortest counterexamples. The invariant is `Layered`: the queue is in
order of depth, nothing indexed is more than one layer below a state that is queued or was
dropped at a bound, the state in progress is no deeper than anything still due, and every
step of a processed state is indexed at most one layer below it unless the depth limit cut
it. So the depths, capped at the depth of the state in question, rise by at most one along
any execution: they are the lower bound that `CounterexampleShortest` asks for, however
incomplete the search is.

Candidate file (`Repair_proofs`). `FileLoop` proves `FileLoopFindsFirst` for every file,
oracle, permission and budget. The invariant is `Looping`: the attempts are the first
candidates of the file in their order, and none of them is one the loop may accept
(`Good`). A candidate repeats an attempt exactly if it repeats an earlier candidate
(`TriedOrFresh`), so every rejection is of a candidate that is not good, and a PASS is of
the first good one. `InputsAssumption` says that budgets are numbers, files sequences of
patches, patches swaps and deletions, and function bodies sequences of distinct statements
(the validator's E106, without which a deletion by name would be ambiguous), and that the
oracle knows finitely many programs. It does not say what the oracle answers.

Replay (`Repair_proofs`). `Replay` proves `ReplayAccepts`. The search decides as it goes and
the replay from the record, in one pass at the end; the invariant `SearchInv` is what makes
them agree. `Recorded`: at every moment the record is one the replay would accept as far as
it goes (`Sound`), every node the n-th verified attempt, no program twice. `Flagged`: a flag
is set exactly when an open node was popped at its bound, and an open node at a bound whose
flag is not set is still queued. `Expanding`: whoever left the queue without a flag was
expanded, with budget left at the end. So an empty queue leaves the flags that the replay
derives (`ExhaustedKeeps`); where a budget ends the search the depth and edit flags may
differ, and the priority of the classification hides it (`CandidateBudgetKeeps`,
`BlockedKeeps`). A line of the record stays explained when more is added (`AttemptKept`),
but for `budget-blocked`, which says that no node has its program: the search must end
there, and does. The chain is rebuilt from the ancestors of the accepted node, one per depth
(`ChainOfNode`). Induction over numbers goes through `NatInductionOn`, proved for a set by
the pigeonhole principle. `PatchAssumption` says that a patch is not `None`.

Stop reason (`Repair_proofs`). `StopReason` proves `StopReasonTrue`: what the search says
when it gives up is true of the programs, measured against `Within[d]`, the programs at most
`d` candidates away. None of its clauses is inductive, because a program is verified once,
at the depth of the first path to it, and is not looked at again when a shorter path would
have got under the bound. `LayerInv` shows that there is no shorter path. `Ordered`: the
queue is sorted by depth, and nothing is recorded more than one layer below a node that is
still to expand, so what is verified next is never less deep than what was. `Expansions`: an open node within the bounds is due or has
every successor recorded at most one layer below it, and `Handled` says the same of the
candidates of the node in hand, one by one. `Descends`: edits equal depth, and every node is a
step from a failing one. When the queue is empty, `Within[d]` is therefore what the record
holds up to depth `d`, as far as the bound allows (by induction on `d`), and the flags tell
which of the two it is. `Ended` has a case for each way to end; a budget that ends the search
ends it with something left to do. That every proposal is permitted and applies
(`CandidateApplies`) is what excludes a rejected candidate from the walk.

Repair (`Repair_proofs`). `ShortestRepair` proves `RepairIsShortest` for searches and for the
file loop. From `LayerInv`: when a program passes, every open node more than one layer above
it was expanded, so nothing within fewer steps passes (`EndedShortest`). What a repair leaves
alone is `Kept`, a relation between a body and what remains of it: no statement that is
control or its target is lost, and none that is no lock or that is jumped to changes sides
with any other. It holds of a legal swap and of a legal deletion (`PatchKeeps`), and
it is transitive (`KeptTwice`), so it holds along the chain and between the input and the
accepted program. `FoundPermitted` says the same of the one patch that a file offers.

Channel counts (`Monitor_proofs`). `CountsExact` proves `ChannelCountExact` for `MonitoredSpec`,
whose steps are the program steps of `TraceCheck`. `TypeInv` says at which stages of which
helpers a thread can be, and `Started` that every thread but the first was started by a scope
its parent has begun: a scope makes its threads once, and `TagsAssumption` (a function
that opens scopes is member of one scope, once) makes their tags new. Two equal tags would be one
thread to the monitor, and a count could not be right. Each step then either leaves what is in
flight on a channel alone, or moves one operation in or out of it together with the queue or
with the count.

Verdicts (`Monitor_proofs`). `VerdictsAreReal` proves `VerdictsReal`. `BelievedOpen`: whoever
the monitor believes to hold a resource has recorded an acquisition of it since its last
release, so the acquisition stands in its body before the statement it is at, and nothing in
between gives it back (`StillOpen`). `OwnersHold`: a mutex such a thread has open is owned
by it; a semaphore's balance is read off the body (`PermitsCovered`). Together the believed
holders are real ones (`Covers`), and an atom that rises with what is held can be wrong in
one direction only, one that falls in the other (`Judged`). The other verdicts need no
argument: at the start nothing is held, so every rising clause has been false and every
falling one true (`WitnessInv`). The theorem says nothing of clauses on channels or of
clauses that mix the two directions.

Only model-checked: the other direction, that the interpreter implements the net
(`NetImplements`), which would take the same argument once more with the history
variables of `InterpNet`, and what `conform` makes of traces: `Accepted`, `RestMatches`, `KeysAreExact`,
`TraceLegal`. `Conform` computes its closure with a RECURSIVE operator, out of reach for the
prover. Liveness (`Terminates`, twice) is beyond the proof
system, and so is what the closures of `Conform` compute, and that `Locks`' rounds suffice
for the worklist (`Exhausted`), which would need induction over data.

## 6. Not modelled

Left out for good, because they are sequential transformations of text or trees without
state of their own: the validator passes other than the lock checks and E602, contract
parsing, the text of generated code, instrumentation and source mutation, export and the
command-line tools; the external repair provider, a child process; and diagnostics, hints
and renderings of the explorer. `render_state`, the text that is the state key, is
represented by the assumption that the key is a congruence; `KeysAreExact` checks it on
the states `conform` merges.

Of the modelled components: E504 and E505 of the lock passes; `function_completed` in the
monitor, which no event of a scope decides; the cut of `conform`'s closure at `MAX_VISITED` states,
which needs thousands of silent states; `spawn` and `join` in generated code, whose join
handle is declared in a block where no `join` finds it; calls and stores there, which
record nothing (a store `y := y + 1` to a Var is two accesses in Rust). Traces are
written only when `main` returns, so a stuck program leaves none: the runs feed events as
they are recorded and are stronger in that.

The documents and comments contradict the code, or one another, where no run shows it:
`doc/backend-design.md:141` calls falling off the end of a body a run-time error, `:152` an
implicit return, which is what the code does and `ImplicitReturn` models; the comment on
E114 (`validate/control.rs:85-88`) keeps models that rely on it valid, which E602 refuses
in the same case; the header of `monitor.rs` (18-22) counts children complete at their
`join`, the replay at their `spawn`.

## 7. Plan

1. The other direction, `NetImplements`, for all constants: the net's `Told` read
   backwards, with `entry` and `ends` for what the interpreter's state lacks.
2. Proofs of the other properties listed as only model-checked.
3. `ForkJoin` and `Monitor`: abstract specifications of scopes/joins and of Mesa
   monitors, implemented by `Interp` under a mapping.
4. `StateKey`: two interpreters in lock-step under a renaming of identities, to
   check what `Explore` assumes for the whole interpreter.
5. Calls and data in `Generated`, and the monitor's completion predicates.
