---------------------------- MODULE RepairSearch ----------------------------
(***************************************************************************)
(* The budgeted patch search of src/repair/search.rs over the edit space    *)
(* of src/repair/candidates.rs and src/repair/patch.rs.                     *)
(*                                                                         *)
(* A program is what a patch can change of it: the order of the statements  *)
(* of each function. What the verifier, the static validator and the       *)
(* diagnostics say of a program is an oracle, part of the input; a complete *)
(* PASS is the one PASS there is (Explore's OverallPassComplete). Content   *)
(* hashes are the contents: collisions of a 64-bit FNV are not modelled.   *)
(* The search is sequential and deterministic: Next has one successor.      *)
(***************************************************************************)
EXTENDS Naturals, Sequences, FiniteSets

LOCAL INSTANCE SequencesExt

CONSTANTS
  FunctionOrder,  \* the names of the functions, in program order
  Sids,           \* statement ids
  LockOf,         \* the mutex a statement locks, or NoLock
  NoLock,
  Control,        \* control-transfer statements
  ControlTargets, \* the statements some goto, branch, switch or select names
  Inputs,         \* programs with their oracles, permissions and budgets
  None            \* no node, no patch, no program

Functions == {FunctionOrder[k] : k \in DOMAIN FunctionOrder}

(* Budgets are numbers, a file is a sequence of patches and a patch one of swaps
   and deletions; a function body is a sequence of distinct statements (E106);
   the oracle knows finitely many programs, the input and all that the validator
   accepts among them, and None is nothing else. *)
ASSUME InputsAssumption ==
  /\ FunctionOrder \in Seq(Functions)
  /\ None \notin Nat
  /\ None \notin {"solved", "already-satisfied", "root-invalid", "root-unsupported",
                  "verification-budget-zero"}
  /\ \A i \in Inputs :
       /\ i.candidates \in Nat /\ i.verifications \in Nat
       /\ i.maxDepth \in Nat /\ i.maxEdits \in Nat
       /\ Len(i.file) \in Nat /\ DOMAIN i.file = 1..Len(i.file)
       /\ \A k \in DOMAIN i.file :
            /\ DOMAIN i.file[k] = {"f", "hash", "changes"} /\ Len(i.file[k].changes) \in Nat
            /\ \A j \in 1..Len(i.file[k].changes) : i.file[k].changes[j].kind \in {"swap", "delete"}
       /\ IsFiniteSet(DOMAIN i.verdict)
       /\ i.program \in DOMAIN i.verdict /\ i.valid \subseteq DOMAIN i.verdict
       /\ \A p \in DOMAIN i.verdict :
            /\ i.verdict[p] \in {"PASS", "FAIL", "UNKNOWN", "INVALID", "UNSUPPORTED"}
            /\ p # None /\ Functions \subseteq DOMAIN p
            /\ \A f \in DOMAIN p :
                 /\ p[f] \in Seq(Sids)
                 /\ \A j, k \in DOMAIN p[f] : p[f][j] = p[f][k] => j = k

VARIABLES
  in,          \* the input: never changes
  pc,          \* "start", "pop", "propose" or "done"; "round" in RepairLoop
  nodes,       \* verified programs, in the order of their verification
  attempts,    \* every proposal and what became of it
  queue,       \* FAIL nodes still to expand
  cur,         \* the node being expanded
  cursor,      \* how many candidates its provider has handed out
  flags,       \* what stopped or cut the search: TerminalFacts
  verifications,
  result       \* the terminal outcome, stop reason and accepted node

vars == <<in, pc, nodes, attempts, queue, cur, cursor, flags, verifications, result>>

-----------------------------------------------------------------------------
(* Patches (src/repair/patch.rs): changes to the statements of one function,
   guarded by the content of the function they were made for. *)

Swap(a, b) == [kind |-> "swap", a |-> a, b |-> b]
Delete(a)  == [kind |-> "delete", a |-> a, b |-> a]

CheckAllowed(i, patch) ==
  /\ patch.f \in i.allowed
  /\ \A k \in DOMAIN patch.changes :
       IF patch.changes[k].kind = "swap" THEN i.reorder ELSE i.delete

Has(body, sid) == \E k \in DOMAIN body : body[k] = sid
Position(body, sid) == CHOOSE k \in DOMAIN body : body[k] = sid

SwapLegal(body, a, b) ==
  /\ Has(body, a) /\ Has(body, b) /\ a # b
  /\ LockOf[a] # NoLock /\ LockOf[b] # NoLock
  /\ \/ Position(body, a) = Position(body, b) + 1
     \/ Position(body, b) = Position(body, a) + 1
  /\ a \notin ControlTargets /\ b \notin ControlTargets

DeleteLegal(body, a) == Has(body, a) /\ a \notin Control /\ a \notin ControlTargets

Change(body, c) ==
  IF c.kind = "delete" THEN RemoveAt(body, Position(body, c.a))
  ELSE [k \in DOMAIN body |-> CASE body[k] = c.a -> c.b
                                [] body[k] = c.b -> c.a
                                [] OTHER -> body[k]]

(* The body after the first k changes. *)
After(body, changes) ==
  LET f[k \in 0..Len(changes)] == IF k = 0 THEN body ELSE Change(f[k - 1], changes[k])
  IN  f

(* No statement is touched by two changes, and each change is legal where it
   is applied. *)
Applies(p, patch) ==
  LET Touched(c) == IF c.kind = "swap" THEN {c.a, c.b} ELSE {c.a}
      n == Len(patch.changes)
  IN  /\ patch.f \in DOMAIN p /\ p[patch.f] = patch.hash
      /\ \A j, k \in 1..n :
           j # k => Touched(patch.changes[j]) \cap Touched(patch.changes[k]) = {}
      /\ \A k \in 1..n :
           LET body == After(p[patch.f], patch.changes)[k - 1]
               c == patch.changes[k]
           IN  IF c.kind = "swap" THEN SwapLegal(body, c.a, c.b) ELSE DeleteLegal(body, c.a)

Apply(p, patch) ==
  [p EXCEPT ![patch.f] = After(@, patch.changes)[Len(patch.changes)]]

(* The enumerators. Both list the same swaps in program order; the composite
   one under diagnostics keeps those that touch a resource some thread of the
   node's report is blocked on, if the report names any. *)
IsTarget(i, f, a, b) ==
  /\ f \in i.allowed
  /\ LockOf[a] # NoLock /\ LockOf[b] # NoLock /\ LockOf[a] # LockOf[b]
  /\ a \notin ControlTargets /\ b \notin ControlTargets

Relevant(i, p) == IF i.strategy = "diagnostic" THEN i.blocked[p] ELSE {}

Touches(i, p, a, b) ==
  Relevant(i, p) = {} \/ {LockOf[a], LockOf[b]} \cap Relevant(i, p) # {}

SwapOf(p, f, k) ==
  [f |-> f, hash |-> p[f], changes |-> <<Swap(p[f][k], p[f][k + 1])>>]

Swaps(i, p, f) ==
  LET Offers(a, b) == IsTarget(i, f, a, b) /\ Touches(i, p, a, b)
  IN  FlattenSeq([k \in 1..(Len(p[f]) - 1) |->
                    IF Offers(p[f][k], p[f][k + 1]) THEN <<SwapOf(p, f, k)>> ELSE <<>>])

Candidates(i, p) ==
  IF i.reorder
  THEN FlattenSeq([k \in DOMAIN FunctionOrder |-> Swaps(i, p, FunctionOrder[k])])
  ELSE <<>>

ASSUME PatchAssumption ==
  \A i \in Inputs : \A p \in DOMAIN i.verdict : \A f \in Functions :
    \A k \in 1..(Len(p[f]) - 1) : SwapOf(p, f, k) # None

-----------------------------------------------------------------------------
(* The terminal triple (TerminalFacts::classify): one priority for the live
   search and for the replay of its artifact. *)

NoFlags == [root |-> FALSE, candidates |-> FALSE, verifications |-> FALSE,
            depth |-> FALSE, edits |-> FALSE, unknown |-> FALSE]

Triple(outcome, stop, truncation) ==
  [outcome |-> outcome, stop |-> stop, truncation |-> truncation]

Classify(f) ==
  IF f.root THEN Triple("AnalysisUnknown", "root-unknown", None)
  ELSE IF f.candidates THEN Triple("BudgetExhausted", "candidate-budget", None)
  ELSE IF f.verifications THEN Triple("BudgetExhausted", "verification-budget", None)
  ELSE IF f.depth /\ f.edits
       THEN Triple("BudgetExhausted", "max-depth+max-total-edits", "max-depth+max-total-edits")
  ELSE IF f.depth THEN Triple("BudgetExhausted", "max-depth", "max-depth")
  ELSE IF f.edits THEN Triple("BudgetExhausted", "max-total-edits", "max-total-edits")
  ELSE IF f.unknown THEN Triple("AnalysisUnknown", "analysis-unknown", None)
  ELSE Triple("NoAcceptableCandidate", "no-acceptable-candidate", None)

NoResult == [outcome |-> None, stop |-> None, truncation |-> None,
             accepted |-> None, chain |-> <<>>]
Finished(triple) == [outcome |-> triple.outcome, stop |-> triple.stop,
                     truncation |-> triple.truncation, accepted |-> None, chain |-> <<>>]

-----------------------------------------------------------------------------
(* Nodes. The report of a node is what the oracle says of its program. *)

Root == [program |-> in.program, parent |-> None, depth |-> 0, edits |-> 0,
         patch |-> None, outcome |-> in.verdict[in.program]]

NodeOf(p) == CHOOSE k \in DOMAIN nodes : nodes[k].program = p
IsKnown(p) == \E k \in DOMAIN nodes : nodes[k].program = p

(* Nodes are numbered as they are verified. *)
NewIndex == Len(nodes) + 1

DepthOfParent(parent) == nodes[parent].depth                         \* mutant
DepthBelow(parent) == nodes[parent].depth + 1

Child(patch, p, parent) ==
  [program |-> p, parent |-> parent, depth |-> DepthBelow(parent),
   edits |-> nodes[parent].edits + Len(patch.changes), patch |-> patch, outcome |-> in.verdict[p]]

Attempt(patch, what, reused, p, outcome) ==
  [parent |-> cur, patch |-> patch, result |-> what, reused |-> reused,
   program |-> p, outcome |-> outcome]

(* The edits from the root to a node. *)
EditOf(ns, n) ==
  [patch |-> ns[n].patch, before |-> ns[ns[n].parent].program, after |-> ns[n].program]
BuildChain(ns, n) ==
  LET ancestor[d \in 0..ns[n].depth] ==
        IF d = ns[n].depth THEN n ELSE ns[ancestor[d + 1]].parent
  IN  [d \in 1..ns[n].depth |-> EditOf(ns, ancestor[d])]

-----------------------------------------------------------------------------
Init ==
  /\ in \in Inputs
  /\ pc = IF in.strategy = "file" THEN "round" ELSE "start"
  /\ nodes = <<>> /\ attempts = <<>> /\ queue = <<>>
  /\ cur = None /\ cursor = 0 /\ flags = NoFlags /\ verifications = 0
  /\ result = NoResult

Stop(r) == pc' = "done" /\ result' = r /\ UNCHANGED <<in, queue, cur, cursor>>

(* A zero verification budget is refused before anything runs. *)
RefuseConfig ==
  /\ pc = "start" /\ in.verifications = 0
  /\ Stop(Finished(Triple("InvalidConfig", "verification-budget-zero", None)))
  /\ UNCHANGED <<nodes, attempts, flags, verifications>>

(* The root's verification counts. Only a FAIL root is searched from. *)
RootTriple(outcome) ==
  CASE outcome = "PASS" -> Triple("AlreadySatisfied", "already-satisfied", None)
    [] outcome = "INVALID" -> Triple("Invalid", "root-invalid", None)
    [] outcome = "UNSUPPORTED" -> Triple("Unsupported", "root-unsupported", None)
    [] outcome = "UNKNOWN" -> Triple("AnalysisUnknown", "root-unknown", None)

VerifyRoot ==
  /\ pc = "start" /\ in.verifications # 0
  /\ nodes' = <<Root>> /\ verifications' = 1
  /\ flags' = [flags EXCEPT !.unknown = Root.outcome = "UNKNOWN"]
  /\ \/ /\ Root.outcome = "FAIL"
        /\ pc' = "pop" /\ queue' = <<1>>
        /\ UNCHANGED <<in, attempts, cur, cursor, result>>
     \/ /\ Root.outcome # "FAIL"
        /\ Stop(Finished(RootTriple(Root.outcome)))
        /\ UNCHANGED attempts

(* A popped node is expanded unless it stands at a bound. *)
TooDeep(n) == nodes[n].depth >= in.maxDepth
TooManyEdits(n) == nodes[n].edits >= in.maxEdits

PeeksAtBound(n) == IF TooDeep(n) THEN queue ELSE Tail(queue)         \* mutant
WithoutHead(n) == Tail(queue)

Pop ==
  /\ pc = "pop" /\ queue # <<>>
  /\ queue' = WithoutHead(Head(queue))
  /\ LET n == Head(queue) IN
     \/ /\ TooDeep(n)
        /\ flags' = [flags EXCEPT !.depth = TRUE]
        /\ UNCHANGED <<pc, cur, cursor>>
     \/ /\ ~TooDeep(n) /\ TooManyEdits(n)
        /\ flags' = [flags EXCEPT !.edits = TRUE]
        /\ UNCHANGED <<pc, cur, cursor>>
     \/ /\ ~TooDeep(n) /\ ~TooManyEdits(n)
        /\ pc' = "propose" /\ cur' = n /\ cursor' = 0
        /\ UNCHANGED flags
  /\ UNCHANGED <<in, nodes, attempts, verifications, result>>

(* The loop is over: every FAIL node was expanded or stopped by a bound. *)
Exhausted ==
  /\ pc = "pop" /\ queue = <<>>
  /\ Stop(Finished(Classify(flags)))
  /\ UNCHANGED <<nodes, attempts, flags, verifications>>

(* The budget of proposals is tested before the provider is asked. *)
CandidateBudget ==
  /\ pc = "propose" /\ Len(attempts) >= in.candidates
  /\ flags' = [flags EXCEPT !.candidates = TRUE]
  /\ Stop(Finished(Classify(flags')))
  /\ UNCHANGED <<nodes, attempts, verifications>>

NoMoreCandidates ==
  /\ pc = "propose" /\ Len(attempts) < in.candidates
  /\ cursor = Len(Candidates(in, nodes[cur].program))
  /\ pc' = "pop"
  /\ UNCHANGED <<in, nodes, attempts, queue, cur, cursor, flags, verifications, result>>

-----------------------------------------------------------------------------
(* A proposal: what attempt_outcome makes of it. *)

WouldBe(patch) == Apply(nodes[cur].program, patch)

Rejection(patch) ==
  IF ~CheckAllowed(in, patch) THEN "denied"
  ELSE IF ~Applies(nodes[cur].program, patch) THEN "apply-error"
  ELSE IF WouldBe(patch) \notin in.valid THEN "static-invalid"
  ELSE "none"

Proposes(patch) ==
  /\ Len(attempts) < in.candidates
  /\ cursor' = cursor + 1
  /\ UNCHANGED <<in, cur>>

Record(attempt) == attempts' = Append(attempts, attempt)

Reject(patch) ==
  /\ Proposes(patch) /\ Rejection(patch) # "none"
  /\ Record(Attempt(patch, Rejection(patch), None, None, None))
  /\ UNCHANGED <<pc, nodes, queue, flags, verifications, result>>

(* A program that was verified before costs nothing and is not queued again. *)
Reuse(patch) ==
  /\ Proposes(patch) /\ Rejection(patch) = "none" /\ IsKnown(WouldBe(patch))
  /\ LET n == NodeOf(WouldBe(patch))
     IN  Record(Attempt(patch, "reused", n, WouldBe(patch), nodes[n].outcome))
  /\ UNCHANGED <<pc, nodes, queue, flags, verifications, result>>

BudgetBlocked(patch) ==
  /\ Proposes(patch) /\ Rejection(patch) = "none" /\ ~IsKnown(WouldBe(patch))
  /\ verifications >= in.verifications
  /\ flags' = [flags EXCEPT !.verifications = TRUE]
  /\ Record(Attempt(patch, "budget-blocked", None, WouldBe(patch), None))
  /\ pc' = "done" /\ result' = Finished(Classify(flags'))
  /\ UNCHANGED <<nodes, queue, verifications>>

RequeuedUnknown(outcome) ==                                          \* mutant
  outcome \in {"FAIL", "UNKNOWN"} /\ in.strategy # "single"
Requeued(outcome) == outcome = "FAIL" /\ in.strategy # "single"

Verify(patch) ==
  /\ Proposes(patch) /\ Rejection(patch) = "none" /\ ~IsKnown(WouldBe(patch))
  /\ verifications < in.verifications
  /\ \E child \in {Child(patch, WouldBe(patch), cur)}, n \in {Len(nodes) + 1} :
       /\ nodes' = Append(nodes, child) /\ verifications' = verifications + 1
       /\ Record(Attempt(patch, "verified", None, child.program, child.outcome))
       /\ \/ /\ child.outcome = "PASS"
             /\ pc' = "done"
             /\ result' = [outcome |-> "Repaired", stop |-> "solved", truncation |-> None,
                           accepted |-> n, chain |-> BuildChain(nodes', n)]
             /\ UNCHANGED <<queue, flags>>
          \/ /\ child.outcome # "PASS"
             /\ queue' = IF Requeued(child.outcome) THEN Append(queue, NewIndex) ELSE queue
             /\ flags' = [flags EXCEPT !.unknown = @ \/ child.outcome = "UNKNOWN"]
             /\ UNCHANGED <<pc, result>>

Propose ==
  /\ pc = "propose" /\ cursor < Len(Candidates(in, nodes[cur].program))
  /\ \E patch \in {Candidates(in, nodes[cur].program)[cursor + 1]} :
        Reject(patch) \/ Reuse(patch) \/ BudgetBlocked(patch) \/ Verify(patch)

Next ==
  \/ RefuseConfig
  \/ VerifyRoot
  \/ Pop
  \/ Exhausted
  \/ CandidateBudget
  \/ NoMoreCandidates
  \/ Propose

(* The search runs until it returns: its loop is the only thread. *)
Spec == Init /\ [][Next]_vars /\ WF_vars(Next)
=============================================================================
