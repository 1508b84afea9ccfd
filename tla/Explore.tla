------------------------------- MODULE Explore -------------------------------
(***************************************************************************)
(* verify (src/explore/mod.rs): breadth-first exploration of a transition  *)
(* system under analysis bounds, and the verdict on each property of the   *)
(* contract.  The transition system is arbitrary: whatever implements      *)
(* TransitionSystem (the interpreter, the Petri net).  States with the     *)
(* same state_key are explored once.                                       *)
(*                                                                         *)
(* The exploration is one sequential loop; Insert is one iteration of its  *)
(* inner loop over the successors of the current state.                    *)
(***************************************************************************)
EXTENDS Integers, Sequences, FiniteSets

CONSTANTS
  Node,     \* machine states
  Systems,  \* transition systems over Node to explore (type System)
  Bounds    \* analysis bounds to explore them under

(* What successors() answers for a state: Ok, Ok with boundary events, or an
   error of either class. *)
Answers == {"ok", "boundary", "invalid", "unsupported"}

System == [init : Node, succ : [Node -> Seq(Node)], answer : [Node -> Answers],
           key : [Node -> Node], finished : SUBSET Node]
AnalysisBounds == [max_states : Nat, max_depth : Nat, max_boundary_events : Nat]

(* The steps an execution can take: an error stops it. *)
Steps(s, n) == IF s.answer[n] \in {"ok", "boundary"}
               THEN {s.succ[n][i] : i \in DOMAIN s.succ[n]} ELSE {}

(* What makes exploring one state per key enough: states with one key answer
   alike and step to the same keys. *)
KeysOf(s, S) == {s.key[n] : n \in S}
KeyIsCongruence(s) ==
  \A a, b \in Node : s.key[a] = s.key[b] =>
    /\ s.answer[a] = s.answer[b]
    /\ a \in s.finished <=> b \in s.finished
    /\ KeysOf(s, Steps(s, a)) = KeysOf(s, Steps(s, b))

ASSUME SystemsAssumption ==
  /\ \A s \in Systems :
       /\ s.init \in Node
       /\ \A n \in Node : /\ s.succ[n] \in Seq(Node)
                          /\ s.answer[n] \in Answers
                          /\ s.key[n] \in Node
       /\ s.finished \subseteq Node
       /\ KeyIsCongruence(s)
  /\ Bounds \subseteq AnalysisBounds

VARIABLES
  sys,          \* the system explored; it never changes
  bounds,       \* the bounds of the contract; they never change
  states,       \* Graph.states
  edges,        \* Graph.edges, without labels
  pred,         \* Graph.pred: the index a state was found from, 0 for none
  depth,        \* Graph.depth
  processed,    \* the indices whose Graph.processed is set
  hadBoundary,  \* the indices whose Graph.had_boundary is set
  queue,        \* indices still to process
  cur,          \* the index being processed
  pending,      \* its successors still to insert
  events,       \* boundary_events.len()
  errors,       \* which of "invalid" and "unsupported" were recorded
  truncated,
  pc            \* "pop": at the loop head; "expand": in the loop; "done"

graphVars == <<states, edges, pred, depth>>
vars == <<sys, bounds, graphVars, processed, hadBoundary, queue, cur, pending,
          events, errors, truncated, pc>>

Indices == 1..Len(states)

TypeOK ==
  /\ sys \in Systems /\ bounds \in Bounds
  /\ states \in Seq(Node) /\ states # <<>>
  /\ edges \in Seq(SUBSET Nat) /\ Len(edges) = Len(states)
  /\ pred \in Seq(Nat) /\ Len(pred) = Len(states)
  /\ depth \in Seq(Nat) /\ Len(depth) = Len(states)
  /\ processed \subseteq Indices /\ hadBoundary \subseteq Indices
  /\ queue \in Seq(Indices)
  /\ cur \in Indices
  /\ pending \in Seq(Node)
  /\ events \in Nat
  /\ errors \subseteq {"invalid", "unsupported"}
  /\ truncated \in BOOLEAN
  /\ pc \in {"pop", "expand", "done"}

Init ==
  /\ sys \in Systems /\ bounds \in Bounds
  /\ states = <<sys.init>> /\ edges = <<{}>> /\ pred = <<0>> /\ depth = <<0>>
  /\ processed = {} /\ hadBoundary = {}
  /\ queue = <<1>> /\ cur = 1 /\ pending = <<>>
  /\ events = 0 /\ errors = {} /\ truncated = FALSE
  /\ pc = "pop"

-----------------------------------------------------------------------------
(* The loop *)

AtDepthLimit == depth[Head(queue)] >= bounds.max_depth
AtStateLimit == Len(states) >= bounds.max_states

(* queue.pop_front() = None *)
Exhaust ==
  /\ pc = "pop" /\ queue = <<>>
  /\ pc' = "done"
  /\ UNCHANGED <<sys, bounds, graphVars, processed, hadBoundary, queue, cur,
                 pending, events, errors, truncated>>

(* The limit is tested after the pop: the popped state is never processed. *)
StateLimit ==
  /\ pc = "pop" /\ queue # <<>> /\ AtStateLimit
  /\ queue' = Tail(queue)
  /\ truncated' = TRUE
  /\ events' = events + 1
  /\ pc' = "done"
  /\ UNCHANGED <<sys, bounds, graphVars, processed, hadBoundary, cur, pending, errors>>

DepthLimit ==
  /\ pc = "pop" /\ queue # <<>> /\ ~AtStateLimit /\ AtDepthLimit
  /\ queue' = Tail(queue)
  /\ processed' = processed \union {Head(queue)}
  /\ hadBoundary' = hadBoundary \union {Head(queue)}
  /\ truncated' = TRUE
  /\ events' = events + 1
  /\ UNCHANGED <<sys, bounds, graphVars, cur, pending, errors, pc>>

(* successors(), and the record of its boundary events or of its error *)
Expand ==
  /\ pc = "pop" /\ queue # <<>> /\ ~AtStateLimit /\ ~AtDepthLimit
  /\ LET idx    == Head(queue)
         answer == sys.answer[states[idx]]
     IN  /\ cur' = idx
         /\ processed' = processed \union {idx}
         /\ hadBoundary' = IF answer = "ok" THEN hadBoundary ELSE hadBoundary \union {idx}
         /\ events' = IF answer = "boundary" THEN events + 1 ELSE events
         /\ errors' = IF answer \in {"ok", "boundary"} THEN errors
                      ELSE errors \union {answer}
         /\ pending' = IF answer \in {"ok", "boundary"} THEN sys.succ[states[idx]]
                       ELSE <<>>
  /\ queue' = Tail(queue)
  /\ pc' = "expand"
  /\ UNCHANGED <<sys, bounds, graphVars, truncated>>

(* One successor: an edge to the state its key is indexed at, or a new state. *)
Target(n) == {i \in Indices : sys.key[states[i]] = sys.key[n]}

EdgesWithKnown(i) == [edges EXCEPT ![cur] = @ \union {i}]

RequeueKnown(i) == Append(queue, i)                                 \* mutant
QueueAfterKnown(i) == queue

EdgesWithNew(i) == Append([edges EXCEPT ![cur] = @ \union {i}], {})

PushFront(i) == <<i>> \o queue                                      \* mutant
QueueAfterNew(i) == Append(queue, i)

FoundFromNewest == Len(states)                                      \* mutant
FoundFrom == cur

InsertKnown ==
  /\ pc = "expand" /\ pending # <<>>
  /\ \E i \in Target(Head(pending)) :
        /\ edges' = EdgesWithKnown(i)
        /\ queue' = QueueAfterKnown(i)
  /\ pending' = Tail(pending)
  /\ UNCHANGED <<sys, bounds, states, pred, depth, processed, hadBoundary, cur,
                 events, errors, truncated, pc>>

InsertNew ==
  /\ pc = "expand" /\ pending # <<>> /\ Target(Head(pending)) = {}
  /\ LET new == Len(states) + 1 IN
     /\ states' = Append(states, Head(pending))
     /\ edges' = EdgesWithNew(new)
     /\ pred' = Append(pred, FoundFrom)
     /\ depth' = Append(depth, depth[cur] + 1)
     /\ queue' = QueueAfterNew(new)
  /\ pending' = Tail(pending)
  /\ UNCHANGED <<sys, bounds, processed, hadBoundary, cur, events, errors,
                 truncated, pc>>

(* The end of an iteration: give up when too many boundary events piled up. *)
EndIteration ==
  /\ pc = "expand" /\ pending = <<>>
  /\ IF events > bounds.max_boundary_events
     THEN pc' = "done" /\ truncated' = TRUE
     ELSE pc' = "pop" /\ UNCHANGED truncated
  /\ UNCHANGED <<sys, bounds, graphVars, processed, hadBoundary, queue, cur,
                 pending, events, errors>>

Next == \/ Exhaust \/ StateLimit \/ DepthLimit \/ Expand
        \/ InsertKnown \/ InsertNew \/ EndIteration

Spec == Init /\ [][Next]_vars

(* The loop is sequential code: it runs as long as it can. *)
FairSpec == Spec /\ WF_vars(Next)

-----------------------------------------------------------------------------
(* The report. Predicates are sets of nodes. *)

CompleteButForErrors == errors = {}                                 \* mutant
complete == ~truncated /\ events = 0 /\ errors = {}

Found(P) == \E i \in Indices : states[i] \in P

(* Property::Safety, Property::Unreachable and Preserved::Always *)
PessimisticSafety(invariant) ==                                     \* mutant
  IF Found(Node \ invariant) \/ ~complete THEN "Fail" ELSE "Pass"
Safety(invariant) ==
  IF Found(Node \ invariant) THEN "Fail" ELSE IF complete THEN "Pass" ELSE "Unknown"

(* Property::Reachability and Preserved::Reachable *)
HastyReachability(goal) == IF Found(goal) THEN "Pass" ELSE "Fail"   \* mutant
Reachability(goal) ==
  IF Found(goal) THEN "Pass" ELSE IF complete THEN "Fail" ELSE "Unknown"

StuckAtBound == {i \in processed : edges[i] = {} /\ states[i] \notin sys.finished} \* mutant
Deadlocks == {i \in processed \ hadBoundary :
                edges[i] = {} /\ states[i] \notin sys.finished}
DeadlockFree ==
  IF Deadlocks # {} THEN "Fail" ELSE IF complete THEN "Pass" ELSE "Unknown"

(* reverse_reachable: the least set that holds the roots and the sources of
   the edges into it. *)
ReverseReachable(roots) ==
  {i \in Indices : \A S \in SUBSET Indices :
      (roots \subseteq S /\ \A j \in Indices : edges[j] \cap S # {} => j \in S) => i \in S}

ReachableFromInit(goal) ==                                          \* mutant
  IF 1 \notin ReverseReachable({i \in Indices : states[i] \in goal}) THEN "Fail"
  ELSE IF complete THEN "Pass" ELSE "Unknown"
AlwaysReachable(goal) ==
  IF ~Found(goal) THEN "Fail"
  ELSE IF ReverseReachable({i \in Indices : states[i] \in goal}) # Indices THEN "Fail"
  ELSE IF complete THEN "Pass" ELSE "Unknown"

(* The overall outcome, from the outcomes of the contract's properties. *)
AllPassed(results) ==                                               \* mutant
  IF "Fail" \in results THEN "Fail"
  ELSE IF "Unknown" \in results THEN "Unknown" ELSE "Pass"
Overall(results) ==
  IF "Fail" \in results THEN "Fail"
  ELSE IF "invalid" \in errors THEN "Invalid"
  ELSE IF "unsupported" \in errors THEN "Unsupported"
  ELSE IF "Unknown" \in results \/ ~complete THEN "Unknown"
  ELSE "Pass"
=============================================================================
