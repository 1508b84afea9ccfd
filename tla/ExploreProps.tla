----------------------------- MODULE ExploreProps -----------------------------
(***************************************************************************)
(* What a verdict of verify means for the executions of the system it      *)
(* explored, bounded or not, and however many states share a key.          *)
(***************************************************************************)
EXTENDS Explore

(* The states executions reach from n: the least set closed under Steps. *)
ClosedUnderSteps(S) == \A n \in S : Steps(sys, n) \subseteq S
ReachableFrom(n) ==
  {m \in Node : \A S \in SUBSET Node : n \in S /\ ClosedUnderSteps(S) => m \in S}
Reachable == ReachableFrom(sys.init)

(* The sets of states a property can speak of: state_key records everything
   a predicate reads. *)
Predicates == {P \in SUBSET Node : \A a, b \in Node :
                 sys.key[a] = sys.key[b] => (a \in P <=> b \in P)}

DeadlockStates == {n \in Node : /\ sys.answer[n] = "ok" /\ Steps(sys, n) = {}
                                /\ n \notin sys.finished}

(* A Pass of a safety property is about every execution, although the search
   stops at bounds, at errors and at states whose key it has seen. *)
SafetyPassSound ==
  pc = "done" => \A P \in Predicates : Safety(P) = "Pass" => Reachable \subseteq P

(* A Fail of a safety property, or a Pass of a reachability property, is about
   a state some execution reaches, even when the search was cut short. *)
WitnessReal ==
  pc = "done" => \A P \in Predicates :
    /\ Safety(P) = "Fail" => ~(Reachable \subseteq P)
    /\ Reachability(P) = "Pass" => Reachable \cap P # {}

(* A Fail of a reachability property says that no execution reaches the goal. *)
ReachabilityFailSound ==
  pc = "done" => \A P \in Predicates : Reachability(P) = "Fail" => Reachable \cap P = {}

(* A deadlock is reported when one is there, and a state that only looks stuck
   because a bound or an error cut its steps is not one. *)
DeadlockVerdictSound ==
  pc = "done" =>
    /\ DeadlockFree = "Fail" => Reachable \cap DeadlockStates # {}
    /\ DeadlockFree = "Pass" => Reachable \cap DeadlockStates = {}

(* AG EF passes only if every state an execution reaches can still reach the
   goal: the backward search runs on the merged graph of keys. *)
AlwaysReachablePassSound ==
  pc = "done" => \A P \in Predicates :
    AlwaysReachable(P) = "Pass" => \A n \in Reachable : ReachableFrom(n) \cap P # {}

(* The chain of predecessors of a state is an execution to that state, as long
   as its depth says: the counterexample that is reported can be replayed. *)
CounterexampleReplays ==
  /\ states[1] = sys.init /\ pred[1] = 0 /\ depth[1] = 0
  /\ \A i \in Indices \ {1} :
       /\ pred[i] \in 1..(i - 1)
       /\ states[i] \in Steps(sys, states[pred[i]])
       /\ depth[i] = depth[pred[i]] + 1

(* ... and no execution reaches that key in fewer steps. A lower bound on the
   number of steps is 0 at the start and rises by one at most with each step;
   one of them is the depth at every node of the key. *)
LowerBounds(k) ==
  {b \in [Node -> 0..k] :
     b[sys.init] = 0 /\ \A n \in Node : \A m \in Steps(sys, n) : b[m] <= b[n] + 1}
CounterexampleShortest ==
  \A i \in Indices : \E b \in LowerBounds(depth[i]) :
    \A n \in Node : sys.key[n] = sys.key[states[i]] => b[n] = depth[i]

(* The verdict never claims more than was explored: an overall Pass needs the
   whole state space, free of errors, even for properties a part of it settles. *)
OverallPassComplete ==
  pc = "done" => \A P \in Predicates :
    Overall({Reachability(P)}) = "Pass" =>
      /\ KeysOf(sys, Reachable) = {sys.key[states[i]] : i \in Indices}
      /\ \A n \in Reachable : sys.answer[n] = "ok"

(* The loop ends: every state is queued once, and bounds only end it sooner. *)
Terminates == <>(pc = "done")

-----------------------------------------------------------------------------
(* The inductive invariant. Known says that what was indexed is reachable;
   the other conjuncts say what the edges of a processed state leave out. *)

EdgeKeys(i) == {sys.key[states[j]] : j \in edges[i]}
StepKeys(i) == KeysOf(sys, Steps(sys, states[i]))
PendingKeys == {sys.key[pending[k]] : k \in DOMAIN pending}
Unfinished(i) == pc = "expand" /\ i = cur

KnownInv ==
  /\ states[1] = sys.init
  /\ \A i \in Indices : states[i] \in Reachable
  /\ pc = "expand" =>
       /\ cur \in processed
       /\ \A k \in DOMAIN pending : pending[k] \in Steps(sys, states[cur])

(* A processed state that no bound cut has its steps' keys as edges, once its
   iteration is over. *)
EdgesInv ==
  /\ \A i \in Indices : edges[i] \subseteq Indices
  /\ \A i \in Indices \ processed : edges[i] = {}
  /\ \A i \in processed : i \notin hadBoundary \/ ~truncated =>
       StepKeys(i) = EdgeKeys(i) \union (IF Unfinished(i) THEN PendingKeys ELSE {})

(* What the search could not expand, it has counted. *)
AnswersInv ==
  /\ hadBoundary \subseteq processed
  /\ \A i \in processed :
       LET answer == sys.answer[states[i]] IN
       /\ i \notin hadBoundary => answer = "ok"
       /\ i \in hadBoundary => answer # "ok" \/ truncated
       /\ \/ answer = "ok" \/ truncated
          \/ answer = "boundary" /\ events > 0
          \/ answer \in errors

(* No indexed state is forgotten, unless a bound ends the search. *)
QueueInv ==
  ~truncated =>
    /\ \A i \in Indices : i \in processed \/ \E k \in DOMAIN queue : queue[k] = i
    /\ pc = "done" => queue = <<>>

IInv == TypeOK /\ KnownInv /\ EdgesInv /\ AnswersInv /\ QueueInv

-----------------------------------------------------------------------------
(* "Unknown when the analysis is incomplete and no counterexample was found":
   a Fail of AG EF would be a reachable state from which the goal is out of
   reach. The code does not ask whether the search was complete. *)
AlwaysReachableFailSound ==
  pc = "done" => \A P \in Predicates :
    AlwaysReachable(P) = "Fail" => \E n \in Reachable : ReachableFrom(n) \cap P = {}
=============================================================================
