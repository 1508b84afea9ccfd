---------------------------- MODULE RepairReplay ----------------------------
(***************************************************************************)
(* The artifact of a search and its replay (replay_artifact): a record is   *)
(* believed only if its structure, its nodes, its attempts, its terminal    *)
(* triple and its accepted chain each follow from what the record and the   *)
(* verifier say. An artifact is a record; replaying it is a predicate.      *)
(***************************************************************************)
EXTENDS RepairSearch

Count(S, P(_)) == Cardinality({k \in DOMAIN S : P(S[k])})

(* What a finished search exports. *)
Artifact ==
  [input |-> in, nodes |-> nodes, attempts |-> attempts,
   chain |-> result.chain, accepted |-> result.accepted,
   acceptedProgram |-> IF result.accepted = None THEN None ELSE nodes[result.accepted].program,
   outcome |-> result.outcome, stop |-> result.stop, truncation |-> result.truncation,
   unknown |-> flags.unknown,
   counts |-> [proposals |-> Len(attempts), verifications |-> verifications,
               hits |-> Count(attempts, LAMBDA x : x.result = "reused")]]

-----------------------------------------------------------------------------
(* validate_structure *)

NodeWellPlaced(a, k) ==
  LET n == a.nodes[k] IN
  IF k = 1 THEN n.parent = None /\ n.depth = 0 /\ n.edits = 0 /\ n.patch = None
  ELSE /\ n.parent \in 1..(k - 1) /\ n.patch # None
       /\ n.depth = a.nodes[n.parent].depth + 1
       /\ n.edits = a.nodes[n.parent].edits + Len(n.patch.changes)

AttemptWellFormed(a, x) ==
  /\ x.parent \in DOMAIN a.nodes /\ x.patch # None
  /\ CASE x.result = "verified" ->
            /\ x.program # None /\ x.reused = None
            /\ \E k \in DOMAIN a.nodes :
                  /\ a.nodes[k].program = x.program
                  /\ \A j \in 1..(k - 1) : a.nodes[j].program # x.program
                  /\ a.nodes[k].parent = x.parent /\ a.nodes[k].outcome = x.outcome
       [] x.result = "reused" ->
            /\ x.reused \in DOMAIN a.nodes
            /\ a.nodes[x.reused].program = x.program
            /\ a.nodes[x.reused].outcome = x.outcome
       [] x.result = "budget-blocked" ->
            x.program # None /\ x.reused = None /\ x.outcome = None
       [] x.result \in {"denied", "apply-error", "static-invalid"} ->
            x.program = None /\ x.reused = None /\ x.outcome = None
       [] OTHER -> FALSE

CountsDerivable(a) ==
  /\ a.counts.proposals = Len(a.attempts)
  /\ a.counts.verifications = Len(a.nodes)
  /\ a.counts.hits = Count(a.attempts, LAMBDA x : x.result = "reused")

BudgetsCoherent(a) ==
  /\ a.input.candidates >= a.counts.proposals
  /\ a.input.verifications >= a.counts.verifications
  /\ \A k \in DOMAIN a.nodes : /\ a.nodes[k].depth <= a.input.maxDepth
                               /\ a.nodes[k].edits <= a.input.maxEdits
  /\ a.input.strategy = "single" =>
       /\ \A k \in DOMAIN a.nodes : a.nodes[k].depth <= 1
       /\ \A k \in DOMAIN a.nodes : k # 1 => a.nodes[k].parent = 1
       /\ \A k \in DOMAIN a.attempts : a.attempts[k].parent = 1
  /\ a.input.verifications = 0 => a.nodes = <<>>

OutcomeCompatible(a) ==
  LET Bare == a.acceptedProgram = None /\ a.chain = <<>>
      OnlyRoot(o) == Len(a.nodes) = 1 /\ a.nodes[1].outcome = o
  IN  CASE a.outcome = "Repaired" ->
             a.acceptedProgram # None /\ a.accepted # None /\ a.chain # <<>>
        [] a.outcome = "AlreadySatisfied" -> Bare /\ OnlyRoot("PASS")
        [] a.outcome = "Invalid" -> Bare /\ OnlyRoot("INVALID")
        [] a.outcome = "Unsupported" -> Bare /\ OnlyRoot("UNSUPPORTED")
        [] a.outcome = "InvalidConfig" -> a.nodes = <<>> /\ a.counts.verifications = 0
        [] OTHER -> Bare /\ a.nodes # <<>>

ValidStructure(a) ==
  /\ \A k \in DOMAIN a.nodes : NodeWellPlaced(a, k)
  /\ \A k \in DOMAIN a.attempts : AttemptWellFormed(a, a.attempts[k])
  /\ CountsDerivable(a) /\ BudgetsCoherent(a) /\ OutcomeCompatible(a)

-----------------------------------------------------------------------------
(* The rebuilding of the nodes: patch by patch, with the permissions of the
   frozen contract, and a fresh report for each. *)

ReportsMatch(a, p, outcome) == a.input.verdict[p] = outcome

Rebuilds(a) ==
  /\ a.nodes[1].program = a.input.program
  /\ \A k \in DOMAIN a.nodes :
       LET n == a.nodes[k] IN
       /\ ReportsMatch(a, n.program, n.outcome)
       /\ k # 1 => LET base == a.nodes[n.parent].program IN
                   /\ CheckAllowed(a.input, n.patch)
                   /\ Applies(base, n.patch)
                   /\ Apply(base, n.patch) = n.program

(* validate_attempts: each patch explains the result recorded for it. *)
VerifiedBefore(a, k) ==
  1 + Cardinality({j \in 1..(k - 1) : a.attempts[j].result = "verified"})

AttemptExplained(a, k) ==
  LET x == a.attempts[k]
      base == a.nodes[x.parent].program
      allowed == CheckAllowed(a.input, x.patch)
      made == VerifiedBefore(a, k)
      Makes == allowed /\ Applies(base, x.patch) /\ Apply(base, x.patch) = x.program
  IN  CASE x.result = "denied" -> ~allowed
        [] x.result = "apply-error" -> allowed /\ ~Applies(base, x.patch)
        [] x.result = "static-invalid" ->
             /\ allowed /\ Applies(base, x.patch)
             /\ Apply(base, x.patch) \notin a.input.valid
        [] x.result = "verified" ->
             /\ Makes /\ made + 1 \in DOMAIN a.nodes
             /\ a.nodes[made + 1].program = x.program
             /\ a.nodes[made + 1].parent = x.parent
             /\ a.nodes[made + 1].patch = x.patch
        [] x.result = "reused" ->
             Makes /\ x.reused <= made /\ a.nodes[x.reused].program = x.program
        [] x.result = "budget-blocked" ->
             /\ Makes /\ x.program \in a.input.valid
             /\ \A j \in DOMAIN a.nodes : a.nodes[j].program # x.program
             /\ made >= a.input.verifications

AttemptsExplained(a) ==
  /\ \A k \in DOMAIN a.attempts : AttemptExplained(a, k)
  /\ VerifiedBefore(a, Len(a.attempts) + 1) = Len(a.nodes)

-----------------------------------------------------------------------------
(* derive_terminal_facts: the flags of the search, from the recorded graph. *)

AnyStrategyExpands(a, k) == a.nodes[k].outcome = "FAIL"              \* mutant
Expandable(a, k) ==
  a.nodes[k].outcome = "FAIL" /\ (k = 1 \/ a.input.strategy # "single")

DerivedFlags(a) ==
  LET AtDepth(k) == a.nodes[k].depth >= a.input.maxDepth
      AtEdits(k) == a.nodes[k].edits >= a.input.maxEdits
      Open == {k \in DOMAIN a.nodes : Expandable(a, k)}
      blocked == \E k \in DOMAIN a.attempts : a.attempts[k].result = "budget-blocked"
  IN  [root |-> Len(a.nodes) = 1 /\ a.nodes[1].outcome = "UNKNOWN",
       verifications |-> blocked,
       candidates |-> /\ ~blocked /\ a.counts.proposals >= a.input.candidates
                      /\ \E k \in Open : ~AtDepth(k) /\ ~AtEdits(k),
       depth |-> \E k \in Open : AtDepth(k),
       edits |-> \E k \in Open : ~AtDepth(k) /\ AtEdits(k),
       unknown |-> \E k \in DOMAIN a.nodes : a.nodes[k].outcome = "UNKNOWN"]

(* validate_outcome_evidence *)
Simple(outcome) ==
  CASE outcome = "Repaired" -> "solved"
    [] outcome = "AlreadySatisfied" -> "already-satisfied"
    [] outcome = "Invalid" -> "root-invalid"
    [] outcome = "Unsupported" -> "root-unsupported"
    [] outcome = "InvalidConfig" -> "verification-budget-zero"
    [] OTHER -> None

Evident(a) ==
  /\ a.unknown = DerivedFlags(a).unknown
  /\ IF Simple(a.outcome) # None
     THEN a.stop = Simple(a.outcome) /\ a.truncation = None
     ELSE Triple(a.outcome, a.stop, a.truncation) = Classify(DerivedFlags(a))

-----------------------------------------------------------------------------
(* The accepted chain, replayed from the input. *)

ChainReplays(a) ==
  IF a.outcome # "Repaired" THEN a.acceptedProgram = None
  ELSE LET node == a.nodes[a.accepted]
           before[k \in 1..(Len(a.chain) + 1)] ==
             IF k = 1 THEN a.input.program ELSE Apply(before[k - 1], a.chain[k - 1].patch)
           edits[k \in 1..(Len(a.chain) + 1)] ==
             IF k = 1 THEN 0 ELSE edits[k - 1] + Len(a.chain[k - 1].patch.changes)
       IN  /\ a.accepted \in DOMAIN a.nodes
           /\ node.depth = Len(a.chain)
           /\ node.edits = edits[Len(a.chain) + 1]
           /\ \A k \in DOMAIN a.chain :
                /\ CheckAllowed(a.input, a.chain[k].patch)
                /\ a.chain[k].before = before[k]
                /\ Applies(before[k], a.chain[k].patch)
                /\ a.chain[k].after = before[k + 1]
           /\ before[Len(a.chain) + 1] = node.program
           /\ a.acceptedProgram = node.program
           /\ ReportsMatch(a, a.acceptedProgram, node.outcome)
           /\ a.input.verdict[a.acceptedProgram] = "PASS"

(* replay_artifact. An artifact without nodes stops after its structure. *)
Replays(a) ==
  /\ ValidStructure(a)
  /\ IF a.nodes = <<>> THEN a.outcome = "InvalidConfig"
     ELSE Rebuilds(a) /\ AttemptsExplained(a) /\ Evident(a) /\ ChainReplays(a)
=============================================================================
