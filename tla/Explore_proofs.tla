---------------------------- MODULE Explore_proofs ----------------------------
(***************************************************************************)
(* Proofs about verify, for every set of states, every transition system   *)
(* whose keys are a congruence, and all analysis bounds.                   *)
(***************************************************************************)
EXTENDS ExploreProps, TLAPS

-----------------------------------------------------------------------------
(* Reachability *)

(* A state reaches itself. *)
LEMMA ReachableSelf ==
  \A n \in Node : n \in ReachableFrom(n)
BY DEF ReachableFrom

(* Reachability is closed under the steps of the system explored. *)
LEMMA ReachableStep ==
  ASSUME NEW n \in Node, NEW a \in ReachableFrom(n), NEW b \in Steps(sys, a), b \in Node
  PROVE  b \in ReachableFrom(n)
BY DEF ReachableFrom, ClosedUnderSteps

(* What a step reaches, the state before it reaches. *)
LEMMA ReachableThrough ==
  ASSUME NEW n \in Node, NEW a \in Steps(sys, n), a \in Node
  PROVE  ReachableFrom(a) \subseteq ReachableFrom(n)
<1>1. SUFFICES ASSUME NEW b \in ReachableFrom(a),
                      NEW S \in SUBSET Node, n \in S, ClosedUnderSteps(S)
               PROVE  b \in S
  BY DEF ReachableFrom
<1>2. a \in S
  BY <1>1 DEF ClosedUnderSteps
<1> QED
  BY <1>1, <1>2 DEF ReachableFrom

(* The steps of a system of Systems stay in Node. *)
LEMMA StepsInNode ==
  ASSUME NEW s \in Systems, NEW n \in Node
  PROVE  Steps(s, n) \subseteq Node
<1>1. s.succ[n] \in Seq(Node)
  BY SystemsAssumption
<1> QED
  BY <1>1 DEF Steps

-----------------------------------------------------------------------------
(* Type correctness *)

(* Every variable of verify stays in its type; in particular the vectors of
   Graph keep one length. *)
THEOREM TypeCorrect == Spec => []TypeOK
<1>1. Init => TypeOK
  <2> SUFFICES ASSUME Init PROVE TypeOK
    OBVIOUS
  <2>1. sys.init \in Node
    BY SystemsAssumption DEF Init
  <2>2. <<sys.init>> \in Seq(Node) /\ Len(<<sys.init>>) = 1 /\ <<sys.init>> # <<>>
    BY <2>1
  <2>3. <<{}>> \in Seq(SUBSET Nat) /\ Len(<<{}>>) = 1
    OBVIOUS
  <2>4. <<0>> \in Seq(Nat) /\ Len(<<0>>) = 1
    OBVIOUS
  <2>5. <<1>> \in Seq(1..1)
    OBVIOUS
  <2>6. <<>> \in Seq(Node)
    OBVIOUS
  <2>7. Len(states) = 1 /\ Indices = 1..1
    BY <2>2 DEF Init, Indices
  <2>8. states \in Seq(Node) /\ states # <<>> /\ edges \in Seq(SUBSET Nat)
    BY <2>2, <2>3 DEF Init
  <2>9. Len(edges) = 1 /\ pred \in Seq(Nat) /\ Len(pred) = 1
        /\ depth \in Seq(Nat) /\ Len(depth) = 1
    BY <2>3, <2>4 DEF Init
  <2>10. /\ queue \in Seq(Indices) /\ pending \in Seq(Node) /\ cur \in Indices
         /\ processed \subseteq Indices /\ hadBoundary \subseteq Indices
    BY <2>5, <2>6, <2>7 DEF Init
  <2>11. /\ events \in Nat /\ errors \subseteq {"invalid", "unsupported"}
         /\ truncated \in BOOLEAN /\ pc \in {"pop", "expand", "done"}
         /\ sys \in Systems /\ bounds \in Bounds
    BY DEF Init
  <2> QED
    BY <2>7, <2>8, <2>9, <2>10, <2>11 DEF TypeOK
<1>2. TypeOK /\ [Next]_vars => TypeOK'
  <2> SUFFICES ASSUME TypeOK, [Next]_vars PROVE TypeOK'
    OBVIOUS
  <2> USE DEF TypeOK, Indices
  <2>1. CASE Exhaust
    BY <2>1 DEF Exhaust, graphVars
  <2>2. CASE StateLimit
    BY <2>2 DEF StateLimit, graphVars
  <2>3. CASE DepthLimit
    <3>1. Head(queue) \in Indices /\ queue' \in Seq(Indices)
      BY <2>3 DEF DepthLimit
    <3>2. processed' \subseteq Indices /\ hadBoundary' \subseteq Indices
      BY <2>3, <3>1 DEF DepthLimit
    <3> QED
      BY <2>3, <3>1, <3>2 DEF DepthLimit, graphVars
  <2>4. CASE Expand
    <3>1. states[Head(queue)] \in Node /\ Head(queue) \in Indices
      BY SMTT(60), <2>4 DEF Expand
    <3>2. /\ sys.succ[states[Head(queue)]] \in Seq(Node)
          /\ sys.answer[states[Head(queue)]] \in Answers
      BY <3>1, SystemsAssumption
    <3>3. pending' \in Seq(Node)
      BY <2>4, <3>2 DEF Expand
    <3>4. errors' \subseteq {"invalid", "unsupported"}
      BY <2>4, <3>2 DEF Expand, Answers
    <3>5. queue' \in Seq(Indices)
      BY <2>4 DEF Expand
    <3>6. events' \in Nat
      BY <2>4 DEF Expand
    <3> QED
      BY <2>4, <3>1, <3>3, <3>4, <3>5, <3>6 DEF Expand, graphVars
  <2>5. CASE InsertKnown
    <3>1. PICK i \in Target(Head(pending)) :
             edges' = [edges EXCEPT ![cur] = @ \union {i}] /\ queue' = queue
      BY <2>5 DEF InsertKnown, QueueAfterKnown, EdgesWithKnown
    <3>2. edges' \in Seq(SUBSET Nat) /\ Len(edges') = Len(states)
      <4>1. edges[cur] \union {i} \in SUBSET Nat
        BY <3>1 DEF Target
      <4> QED
        BY <3>1, <4>1
    <3>3. pending' \in Seq(Node)
      BY <2>5 DEF InsertKnown
    <3> QED
      BY <2>5, <3>1, <3>2, <3>3 DEF InsertKnown
  <2>6. CASE InsertNew
    <3>1. Head(pending) \in Node /\ pending' \in Seq(Node)
      BY <2>6 DEF InsertNew
    <3>2. states' \in Seq(Node) /\ Len(states') = Len(states) + 1
      BY <2>6, <3>1 DEF InsertNew
    <3>3. edges' \in Seq(SUBSET Nat) /\ Len(edges') = Len(edges) + 1
      <4> DEFINE row == [edges EXCEPT ![cur] = @ \union {Len(states) + 1}]
      <4>1. edges[cur] \union {Len(states) + 1} \in SUBSET Nat
        OBVIOUS
      <4>2. row \in Seq(SUBSET Nat) /\ Len(row) = Len(edges)
        BY <4>1
      <4>3. edges' = Append(row, {})
        BY ONLY <2>6 DEF InsertNew, EdgesWithNew
      <4> HIDE DEF row
      <4> QED
        BY <4>2, <4>3
    <3>4. pred' \in Seq(Nat) /\ Len(pred') = Len(pred) + 1
      <4>1. cur \in Nat /\ pred' = Append(pred, cur)
        BY <2>6 DEF InsertNew, FoundFrom
      <4> QED
        BY <4>1
    <3>5. depth' \in Seq(Nat) /\ Len(depth') = Len(depth) + 1
      <4>1. depth[cur] + 1 \in Nat
        OBVIOUS
      <4>2. depth' = Append(depth, depth[cur] + 1)
        BY ONLY <2>6 DEF InsertNew
      <4> QED
        BY <4>1, <4>2
    <3>6. queue' \in Seq(1..(Len(states) + 1))
      <4>1. queue \in Seq(1..(Len(states) + 1))
        OBVIOUS
      <4> QED
        BY <2>6, <4>1 DEF InsertNew, QueueAfterNew
    <3>7. Indices' = 1..(Len(states) + 1)
      BY <3>2
    <3>8. /\ processed' \subseteq Indices' /\ hadBoundary' \subseteq Indices'
          /\ cur' \in Indices'
      <4>1. Indices \subseteq Indices'
        BY <3>7
      <4> QED
        BY <2>6, <4>1 DEF InsertNew
    <3>9. states' # <<>>
      BY <3>2
    <3> QED
      BY <2>6, <3>1, <3>2, <3>3, <3>4, <3>5, <3>6, <3>7, <3>8, <3>9 DEF InsertNew
  <2>7. CASE EndIteration
    BY <2>7 DEF EndIteration, graphVars
  <2>8. CASE UNCHANGED vars
    BY <2>8 DEF vars, graphVars
  <2> QED
    BY <2>1, <2>2, <2>3, <2>4, <2>5, <2>6, <2>7, <2>8 DEF Next
<1> QED
  BY <1>1, <1>2, PTL DEF Spec


-----------------------------------------------------------------------------
(* What popping and appending do *)

(* The elements of a non-empty queue are its head and those of its tail. *)
LEMMA TailElements ==
  ASSUME NEW S, NEW q \in Seq(S), q # <<>>
  PROVE  /\ \A k \in DOMAIN q : q[k] = Head(q) \/ \E l \in DOMAIN Tail(q) : Tail(q)[l] = q[k]
         /\ \A l \in DOMAIN Tail(q) : \E k \in DOMAIN q : Tail(q)[l] = q[k]
         /\ \E k \in DOMAIN q : q[k] = Head(q)
<1>1. \A k \in DOMAIN q : q[k] = Head(q) \/ \E l \in DOMAIN Tail(q) : Tail(q)[l] = q[k]
  <2> SUFFICES ASSUME NEW k \in DOMAIN q, k # 1
               PROVE  \E l \in DOMAIN Tail(q) : Tail(q)[l] = q[k]
    OBVIOUS
  <2>1. k - 1 \in DOMAIN Tail(q) /\ Tail(q)[k - 1] = q[k]
    OBVIOUS
  <2> QED
    BY <2>1
<1>2. \A l \in DOMAIN Tail(q) : \E k \in DOMAIN q : Tail(q)[l] = q[k]
  <2> SUFFICES ASSUME NEW l \in DOMAIN Tail(q)
               PROVE  \E k \in DOMAIN q : Tail(q)[l] = q[k]
    OBVIOUS
  <2>1. l + 1 \in DOMAIN q /\ Tail(q)[l] = q[l + 1]
    OBVIOUS
  <2> QED
    BY <2>1
<1>3. 1 \in DOMAIN q /\ q[1] = Head(q)
  OBVIOUS
<1> QED
  BY <1>1, <1>2, <1>3

(* The indices of one row more *)
LEMMA NextRange == \A n \in Nat : 1..(n + 1) = (1..n) \union {n + 1} /\ n + 1 \notin 1..n
OBVIOUS

(* Appending keeps the rows and adds one at the end. *)
LEMMA AppendAt ==
  ASSUME NEW S, NEW q \in Seq(S), NEW x \in S
  PROVE  /\ \A i \in 1..Len(q) : Append(q, x)[i] = q[i]
         /\ Append(q, x)[Len(q) + 1] = x
         /\ Len(Append(q, x)) = Len(q) + 1
OBVIOUS

(* Every element of q is still there when one is appended. *)
LEMMA AppendElements ==
  ASSUME NEW S, NEW q \in Seq(S), NEW x \in S
  PROVE  /\ \A k \in DOMAIN q : \E l \in DOMAIN Append(q, x) : Append(q, x)[l] = q[k]
         /\ \E l \in DOMAIN Append(q, x) : Append(q, x)[l] = x
<1>1. \A k \in DOMAIN q : k \in DOMAIN Append(q, x) /\ Append(q, x)[k] = q[k]
  OBVIOUS
<1>2. Len(q) + 1 \in DOMAIN Append(q, x) /\ Append(q, x)[Len(q) + 1] = x
  OBVIOUS
<1> QED
  BY <1>1, <1>2

(* InsertNew leaves the rows of the graph alone, but for an edge of the
   current state, and adds one row. *)
LEMMA InsertNewRow ==
  ASSUME TypeOK, InsertNew
  PROVE  LET new == Len(states) + 1 IN
         /\ new \notin Indices /\ Indices' = Indices \union {new}
         /\ \A i \in Indices : states'[i] = states[i]
         /\ states'[new] = Head(pending)
         /\ \A i \in Indices : edges'[i] = IF i = cur THEN edges[i] \union {new} ELSE edges[i]
         /\ edges'[new] = {}
         /\ \A i \in Indices : pred'[i] = pred[i] /\ depth'[i] = depth[i]
         /\ pred'[new] = cur /\ depth'[new] = depth[cur] + 1
<1> USE DEF TypeOK, Indices
<1> DEFINE new == Len(states) + 1
<1>1. Head(pending) \in Node
  BY DEF InsertNew
<1>2. states' = Append(states, Head(pending)) /\ Len(states') = new
  BY <1>1 DEF InsertNew
<1>3. \A i \in Indices : states'[i] = states[i]
  BY <1>1, <1>2
<1>4. states'[new] = Head(pending)
  BY <1>1, <1>2
<1> DEFINE row == [edges EXCEPT ![cur] = @ \union {new}]
<1>5. row \in Seq(SUBSET Nat) /\ Len(row) = Len(edges)
  <2>1. edges[cur] \union {new} \in SUBSET Nat
    OBVIOUS
  <2> QED
    BY <2>1
<1>6. \A i \in Indices : row[i] = IF i = cur THEN edges[i] \union {new} ELSE edges[i]
  <2>1. DOMAIN edges = Indices
    OBVIOUS
  <2> QED
    BY <2>1
<1>7. edges' = Append(row, {})
  BY DEF InsertNew, EdgesWithNew
<1>8. edges'[new] = {} /\ \A i \in Indices : edges'[i] = row[i]
  <2> HIDE DEF row
  <2>1. {} \in SUBSET Nat /\ Len(edges) = Len(states)
    OBVIOUS
  <2>2. /\ \A i \in 1..Len(row) : Append(row, {})[i] = row[i]
        /\ Append(row, {})[Len(row) + 1] = {}
    BY ONLY <1>5, <2>1, AppendAt
  <2> QED
    BY ONLY <1>5, <1>7, <2>1, <2>2 DEF Indices
<1>9. pred' = Append(pred, cur) /\ depth' = Append(depth, depth[cur] + 1)
  BY DEF InsertNew, FoundFrom
<1>10. cur \in Nat /\ depth[cur] + 1 \in Nat
  OBVIOUS
<1>11. /\ \A i \in Indices : pred'[i] = pred[i]
       /\ pred'[new] = cur
  <2>1. pred \in Seq(Nat) /\ Len(pred) = Len(states)
    OBVIOUS
  <2> QED
    BY ONLY <1>9, <1>10, <2>1, AppendAt DEF Indices
<1>12. /\ \A i \in Indices : depth'[i] = depth[i]
       /\ depth'[new] = depth[cur] + 1
  <2>1. depth \in Seq(Nat) /\ Len(depth) = Len(states)
    OBVIOUS
  <2> QED
    BY ONLY <1>9, <1>10, <2>1, AppendAt DEF Indices
<1>13. Indices' = Indices \union {new} /\ new \notin Indices
  <2>1. Len(states) \in Nat
    OBVIOUS
  <2> QED
    BY ONLY <1>2, <2>1, NextRange DEF Indices
<1> HIDE DEF row
<1> QED
  BY <1>3, <1>4, <1>6, <1>8, <1>11, <1>12, <1>13

-----------------------------------------------------------------------------
(* The inductive invariant *)

(* The system and the bounds stay what they are. *)
LEMMA InputsFixed == [Next]_vars => sys' = sys /\ bounds' = bounds
BY DEF Next, vars, Exhaust, StateLimit, DepthLimit, Expand, InsertKnown,
       InsertNew, EndIteration

(* Every indexed state is reachable: what is inserted is a step of the current
   state, which is indexed. *)
LEMMA KnownStep == TypeOK /\ KnownInv /\ [Next]_vars => KnownInv'
<1> SUFFICES ASSUME TypeOK, KnownInv, [Next]_vars PROVE KnownInv'
  OBVIOUS
<1>1. sys' = sys
  BY InputsFixed
<1>2. Reachable' = Reachable
  BY <1>1 DEF Reachable, ReachableFrom, ClosedUnderSteps
<1> DEFINE Same == /\ states' = states
                   /\ pc' = "expand" => /\ cur' \in processed'
                                        /\ \A k \in DOMAIN pending' :
                                             pending'[k] \in Steps(sys, states[cur'])
<1>3. Same => KnownInv'
  BY <1>1, <1>2 DEF KnownInv, Indices
<1>4. CASE Exhaust
  BY <1>3, <1>4 DEF Exhaust, graphVars
<1>5. CASE StateLimit
  BY <1>3, <1>5 DEF StateLimit, graphVars
<1>6. CASE DepthLimit
  BY <1>3, <1>6 DEF DepthLimit, graphVars
<1>7. CASE Expand
  <2>1. states' = states /\ cur' = Head(queue) /\ cur' \in processed'
    BY <1>7 DEF Expand, graphVars
  <2>2. ASSUME NEW k \in DOMAIN pending'
        PROVE  pending'[k] \in Steps(sys, states[cur'])
    <3>1. CASE sys.answer[states[Head(queue)]] \in {"ok", "boundary"}
      <4>1. pending' = sys.succ[states[Head(queue)]]
        BY <1>7, <3>1 DEF Expand
      <4> QED
        BY <2>1, <3>1, <4>1 DEF Steps
    <3>2. CASE sys.answer[states[Head(queue)]] \notin {"ok", "boundary"}
      <4>1. pending' = <<>>
        BY <1>7, <3>2 DEF Expand
      <4> QED
        BY <4>1
    <3> QED
      BY <3>1, <3>2
  <2> QED
    BY <1>3, <2>1, <2>2
<1>8. CASE InsertKnown
  <2>1. states' = states /\ cur' = cur /\ processed' = processed
    BY <1>8 DEF InsertKnown
  <2>2. pending' = Tail(pending) /\ pc = "expand" /\ pending # <<>>
    BY <1>8 DEF InsertKnown
  <2>3. \A k \in DOMAIN pending' : pending'[k] \in Steps(sys, states[cur])
    BY <2>2, TailElements DEF KnownInv, TypeOK
  <2> QED
    BY <1>3, <2>1, <2>2, <2>3 DEF KnownInv
<1>9. CASE InsertNew
  <2> DEFINE new == Len(states) + 1
  <2>1. /\ cur' = cur /\ processed' = processed /\ pending' = Tail(pending)
        /\ pc = "expand" /\ pending # <<>>
    BY <1>9 DEF InsertNew
  <2>2. /\ Indices' = Indices \union {new} /\ states'[new] = Head(pending)
        /\ \A i \in Indices : states'[i] = states[i]
    BY <1>9, InsertNewRow
  <2>3. Head(pending) \in Steps(sys, states[cur]) /\ Head(pending) \in Node
    BY <2>1, TailElements DEF KnownInv, TypeOK
  <2>4. Head(pending) \in Reachable
    <3>1. states[cur] \in Reachable /\ sys.init \in Node
      BY SystemsAssumption DEF KnownInv, TypeOK
    <3> QED
      BY <2>3, <3>1, ReachableStep DEF Reachable
  <2>5. \A i \in Indices' : states'[i] \in Reachable'
    BY <1>2, <2>2, <2>4 DEF KnownInv
  <2>6. \A k \in DOMAIN pending' : pending'[k] \in Steps(sys, states[cur])
    BY <2>1, TailElements DEF KnownInv, TypeOK
  <2>7. states'[cur'] = states[cur] /\ cur' \in processed'
    BY <2>1, <2>2 DEF KnownInv, TypeOK
  <2>8. states'[1] = sys.init
    BY <2>2 DEF KnownInv, TypeOK, Indices
  <2> QED
    BY <1>1, <2>5, <2>6, <2>7, <2>8 DEF KnownInv
<1>10. CASE EndIteration
  BY <1>3, <1>10 DEF EndIteration, graphVars
<1>11. CASE UNCHANGED vars
  BY <1>3, <1>11 DEF KnownInv, vars, graphVars
<1> QED
  BY <1>4, <1>5, <1>6, <1>7, <1>8, <1>9, <1>10, <1>11 DEF Next

(* Nothing is lost from the queue before a bound ends the search. *)
LEMMA QueueStep == TypeOK /\ QueueInv /\ [Next]_vars => QueueInv'
<1> SUFFICES ASSUME TypeOK, QueueInv, [Next]_vars, ~truncated' PROVE QueueInv'
  BY DEF QueueInv
<1> DEFINE Queued(i) == \E k \in DOMAIN queue : queue[k] = i
<1>1. CASE Exhaust
  BY <1>1 DEF Exhaust, QueueInv, Indices, graphVars
<1>2. CASE StateLimit
  BY <1>2 DEF StateLimit
<1>3. CASE DepthLimit
  BY <1>3 DEF DepthLimit
<1>4. CASE Expand
  <2>1. /\ Indices' = Indices /\ queue' = Tail(queue) /\ queue # <<>> /\ pc' = "expand"
        /\ processed' = processed \union {Head(queue)} /\ truncated' = truncated
    BY <1>4 DEF Expand, Indices, graphVars
  <2>2. \A i \in Indices : Queued(i) => i = Head(queue) \/ Queued(i)'
    BY <2>1, TailElements DEF TypeOK
  <2> QED
    BY <2>1, <2>2 DEF QueueInv
<1>5. CASE InsertKnown
  BY <1>5 DEF InsertKnown, QueueAfterKnown, QueueInv, Indices
<1>6. CASE InsertNew
  <2> DEFINE new == Len(states) + 1
  <2>1. /\ Indices' = Indices \union {new} /\ queue' = Append(queue, new)
        /\ processed' = processed /\ truncated' = truncated /\ pc' = "expand"
    BY <1>6, InsertNewRow DEF InsertNew, QueueAfterNew
  <2>2. queue \in Seq(Nat) /\ new \in Nat
    BY DEF TypeOK, Indices
  <2>3. /\ \E k \in DOMAIN queue' : queue'[k] = new
        /\ \A i \in Indices : Queued(i) => \E k \in DOMAIN queue' : queue'[k] = i
    <3>1. /\ \A k \in DOMAIN queue : \E l \in DOMAIN Append(queue, new) :
                 Append(queue, new)[l] = queue[k]
          /\ \E l \in DOMAIN Append(queue, new) : Append(queue, new)[l] = new
      BY ONLY SMTT(60), <2>2, AppendElements
    <3> QED
      BY ONLY <2>1, <3>1
  <2> QED
    BY <2>1, <2>3 DEF QueueInv
<1>7. CASE EndIteration
  BY <1>7 DEF EndIteration, QueueInv, Indices, graphVars
<1>8. CASE UNCHANGED vars
  BY <1>8 DEF QueueInv, Indices, vars, graphVars
<1> QED
  BY <1>1, <1>2, <1>3, <1>4, <1>5, <1>6, <1>7, <1>8 DEF Next

(* An expanded state is counted as a boundary or recorded as an error, unless
   its successors are all there. *)
LEMMA AnswersStep == TypeOK /\ AnswersInv /\ [Next]_vars => AnswersInv'
<1> SUFFICES ASSUME TypeOK, AnswersInv, [Next]_vars PROVE AnswersInv'
  OBVIOUS
<1>1. sys' = sys
  BY InputsFixed
<1>2. CASE Exhaust
  BY <1>1, <1>2 DEF Exhaust, AnswersInv, graphVars
<1>3. CASE StateLimit
  BY <1>1, <1>3 DEF StateLimit, AnswersInv, graphVars
<1>4. CASE DepthLimit
  BY <1>1, <1>4 DEF DepthLimit, AnswersInv, graphVars
<1>5. CASE Expand
  <2>1. PICK idx \in Indices : idx = Head(queue)
    BY <1>5 DEF Expand, TypeOK
  <2>2. PICK answer : answer = sys.answer[states[idx]]
    OBVIOUS
  <2>3. /\ states' = states /\ truncated' = truncated
        /\ processed' = processed \union {idx}
        /\ hadBoundary' = IF answer = "ok" THEN hadBoundary ELSE hadBoundary \union {idx}
        /\ events' = IF answer = "boundary" THEN events + 1 ELSE events
        /\ errors' = IF answer \in {"ok", "boundary"} THEN errors
                     ELSE errors \union {answer}
    BY <1>5, <2>1, <2>2 DEF Expand, graphVars
  <2>4. events \in Nat
    BY DEF TypeOK
  <2>5. /\ idx \notin hadBoundary' => answer = "ok"
        /\ idx \in hadBoundary' => answer # "ok" \/ truncated'
        /\ \/ answer = "ok" \/ truncated'
           \/ answer = "boundary" /\ events' > 0
           \/ answer \in errors'
    BY <2>2, <2>3, <2>4 DEF AnswersInv
  <2>6. hadBoundary \subseteq hadBoundary' /\ errors \subseteq errors'
    BY <2>3
  <2>7. events > 0 => events' > 0
    BY <2>3, <2>4
  <2>8. ASSUME NEW i \in processed, i # idx
        PROVE  LET a == sys'.answer[states'[i]] IN
               /\ i \notin hadBoundary' => a = "ok"
               /\ i \in hadBoundary' => a # "ok" \/ truncated'
               /\ \/ a = "ok" \/ truncated'
                  \/ a = "boundary" /\ events' > 0
                  \/ a \in errors'
    BY <1>1, <2>3, <2>6, <2>7, <2>8 DEF AnswersInv
  <2>9. hadBoundary' \subseteq processed'
    BY <2>3 DEF AnswersInv
  <2> QED
    BY <1>1, <2>2, <2>3, <2>5, <2>8, <2>9 DEF AnswersInv
<1>6. CASE InsertKnown
  BY <1>1, <1>6 DEF InsertKnown, AnswersInv
<1>7. CASE InsertNew
  <2>1. \A i \in processed : states'[i] = states[i]
    BY <1>7, InsertNewRow DEF TypeOK
  <2> QED
    BY <1>1, <1>7, <2>1 DEF InsertNew, AnswersInv
<1>8. CASE EndIteration
  BY <1>1, <1>8 DEF EndIteration, AnswersInv, graphVars
<1>9. CASE UNCHANGED vars
  BY <1>1, <1>9 DEF AnswersInv, vars, graphVars
<1> QED
  BY <1>2, <1>3, <1>4, <1>5, <1>6, <1>7, <1>8, <1>9 DEF Next

(* Taking the first pending successor takes its key. *)
LEMMA PendingTail ==
  ASSUME pending \in Seq(Node), pending # <<>>, pending' = Tail(pending), sys' = sys
  PROVE  PendingKeys = {sys.key[Head(pending)]} \union PendingKeys'
<1> DEFINE rest == Tail(pending)
           restKeys == {sys.key[rest[k]] : k \in DOMAIN rest}
<1>1. PendingKeys' = restKeys
  BY DEF PendingKeys
<1>2. /\ \A k \in DOMAIN pending : pending[k] = Head(pending)
                                 \/ \E l \in DOMAIN rest : rest[l] = pending[k]
      /\ \A l \in DOMAIN rest : \E k \in DOMAIN pending : rest[l] = pending[k]
      /\ \E k \in DOMAIN pending : pending[k] = Head(pending)
  BY TailElements
<1> HIDE DEF rest
<1>3. PendingKeys \subseteq {sys.key[Head(pending)]} \union restKeys
  BY ONLY <1>2 DEF PendingKeys
<1>4. {sys.key[Head(pending)]} \subseteq PendingKeys
  BY ONLY <1>2 DEF PendingKeys
<1>5. restKeys \subseteq PendingKeys
  BY ONLY <1>2 DEF PendingKeys
<1> QED
  BY <1>1, <1>3, <1>4, <1>5

(* The edges of a state grow from nothing to one for each key it steps to,
   while its pending successors are used up. *)
LEMMA EdgesStep ==
  TypeOK /\ TypeOK' /\ KnownInv /\ EdgesInv /\ [Next]_vars => EdgesInv'
<1> SUFFICES ASSUME TypeOK, TypeOK', KnownInv, EdgesInv, [Next]_vars PROVE EdgesInv'
  OBVIOUS
<1>1. sys' = sys
  BY InputsFixed
<1> DEFINE SameGraph == states' = states /\ edges' = edges
<1>2. SameGraph => /\ Indices' = Indices
                   /\ \A i : EdgeKeys(i)' = EdgeKeys(i) /\ StepKeys(i)' = StepKeys(i)
  BY <1>1 DEF Indices, EdgeKeys, StepKeys
<1>3. CASE Exhaust
  <2>1. /\ SameGraph /\ processed' = processed /\ hadBoundary' = hadBoundary
        /\ truncated' = truncated /\ pc = "pop" /\ pc' = "done"
    BY <1>3 DEF Exhaust, graphVars
  <2> QED
    BY <1>2, <2>1 DEF EdgesInv, Unfinished
<1>4. CASE StateLimit
  <2>1. /\ SameGraph /\ processed' = processed /\ hadBoundary' = hadBoundary
        /\ truncated' /\ pc = "pop" /\ pc' = "done"
    BY <1>4 DEF StateLimit, graphVars
  <2> QED
    BY <1>2, <2>1 DEF EdgesInv, Unfinished
<1>5. CASE DepthLimit
  <2>1. /\ SameGraph /\ processed' = processed \union {Head(queue)}
        /\ hadBoundary' = hadBoundary \union {Head(queue)}
        /\ truncated' /\ pc = "pop" /\ pc' = "pop"
    BY <1>5 DEF DepthLimit, graphVars
  <2> QED
    BY <1>2, <2>1 DEF EdgesInv, Unfinished
<1>6. CASE Expand
  <2>0. PICK idx \in Indices : idx = Head(queue)
    BY <1>6 DEF Expand, TypeOK
  <2>1. /\ SameGraph /\ truncated' = truncated /\ pc = "pop" /\ pc' = "expand"
        /\ cur' = idx /\ processed' = processed \union {idx}
        /\ hadBoundary \subseteq hadBoundary'
    BY <1>6, <2>0 DEF Expand, graphVars
  <2>3. PendingKeys' = StepKeys(idx)
    <3>1. CASE sys.answer[states[idx]] \in {"ok", "boundary"}
      <4>1. pending' = sys.succ[states[idx]]
        BY <1>6, <2>0, <3>1 DEF Expand
      <4> QED
        BY <1>1, <3>1, <4>1 DEF PendingKeys, StepKeys, KeysOf, Steps
    <3>2. CASE sys.answer[states[idx]] \notin {"ok", "boundary"}
      <4>1. pending' = <<>>
        BY <1>6, <2>0, <3>2 DEF Expand
      <4> QED
        BY <1>1, <3>2, <4>1 DEF PendingKeys, StepKeys, KeysOf, Steps
    <3> QED
      BY <3>1, <3>2
  <2>4. idx \notin processed => EdgeKeys(idx) = {}
    BY DEF EdgesInv, EdgeKeys
  <2>5. idx \in processed /\ (idx \notin hadBoundary \/ ~truncated)
          => EdgeKeys(idx) = StepKeys(idx)
    BY <2>1 DEF EdgesInv, Unfinished
  <2>6. idx \notin hadBoundary' \/ ~truncated' =>
           StepKeys(idx)' = EdgeKeys(idx)' \union PendingKeys'
    <3>1. StepKeys(idx)' = StepKeys(idx) /\ EdgeKeys(idx)' = EdgeKeys(idx)
      BY <1>2, <2>1
    <3>2. idx \notin hadBoundary' \/ ~truncated' => idx \notin hadBoundary \/ ~truncated
      BY <2>1
    <3> QED
      BY <2>3, <2>4, <2>5, <3>1, <3>2
  <2>7. \A i \in processed : i # idx /\ (i \notin hadBoundary' \/ ~truncated') =>
           StepKeys(i)' = EdgeKeys(i)'
    BY <1>2, <2>1 DEF EdgesInv, Unfinished
  <2>8. \A i \in Indices' : edges'[i] \subseteq Indices'
    BY <1>2, <2>1 DEF EdgesInv
  <2>9. \A i \in Indices' \ processed' : edges'[i] = {}
    BY <1>2, <2>1 DEF EdgesInv
  <2>10. \A i \in processed' : i \notin hadBoundary' \/ ~truncated' =>
           StepKeys(i)' = EdgeKeys(i)' \union (IF i = cur' THEN PendingKeys' ELSE {})
    BY <2>1, <2>6, <2>7
  <2> QED
    BY <2>1, <2>8, <2>9, <2>10 DEF EdgesInv, Unfinished
<1>7. CASE InsertKnown
  <2>1. PICK j \in Target(Head(pending)) : edges' = [edges EXCEPT ![cur] = @ \union {j}]
    BY <1>7 DEF InsertKnown, EdgesWithKnown
  <2>2. /\ states' = states /\ processed' = processed /\ hadBoundary' = hadBoundary
        /\ truncated' = truncated /\ cur' = cur /\ pc = "expand" /\ pc' = "expand"
        /\ pending' = Tail(pending) /\ pending # <<>>
    BY <1>7 DEF InsertKnown
  <2>3. j \in Indices /\ sys.key[states[j]] = sys.key[Head(pending)]
    BY <2>1 DEF Target
  <2>4. DOMAIN edges = Indices /\ cur \in Indices
    BY DEF TypeOK, Indices
  <2>5. \A i \in Indices : edges'[i] = IF i = cur THEN edges[i] \union {j} ELSE edges[i]
    BY <2>1, <2>4
  <2>6. PendingKeys = {sys.key[Head(pending)]} \union PendingKeys'
    BY <1>1, <2>2, PendingTail DEF TypeOK
  <2>7. EdgeKeys(cur)' = EdgeKeys(cur) \union {sys.key[Head(pending)]}
    <3>1. edges'[cur] = edges[cur] \union {j}
      BY <2>4, <2>5
    <3>2. EdgeKeys(cur)' = {sys.key[states[k]] : k \in edges'[cur]}
      BY <1>1, <2>2 DEF EdgeKeys
    <3> QED
      BY <2>3, <3>1, <3>2 DEF EdgeKeys
  <2>8. \A i \in Indices : i # cur => EdgeKeys(i)' = EdgeKeys(i)
    BY <1>1, <2>2, <2>5 DEF EdgeKeys
  <2>9. \A i : StepKeys(i)' = StepKeys(i)
    BY <1>1, <2>2 DEF StepKeys
  <2>10. Indices' = Indices /\ processed \subseteq Indices /\ cur \in processed
    BY <2>2 DEF Indices, TypeOK, KnownInv
  <2>11. \A i \in Indices : edges'[i] \subseteq Indices
    <3>1. \A i \in Indices : edges[i] \subseteq Indices
      BY DEF EdgesInv
    <3> QED
      BY <2>3, <2>5, <3>1
  <2>12. \A i \in Indices \ processed : edges'[i] = {}
    BY <2>5, <2>10 DEF EdgesInv
  <2>13. \A i \in processed : i \notin hadBoundary \/ ~truncated =>
           StepKeys(i)' = EdgeKeys(i)' \union (IF i = cur THEN PendingKeys' ELSE {})
    BY <2>2, <2>6, <2>7, <2>8, <2>9, <2>10 DEF EdgesInv, Unfinished
  <2> QED
    BY <2>2, <2>10, <2>11, <2>12, <2>13 DEF EdgesInv, Unfinished
<1>8. CASE InsertNew
  <2> DEFINE new == Len(states) + 1
  <2>1. /\ processed' = processed /\ hadBoundary' = hadBoundary
        /\ truncated' = truncated /\ cur' = cur /\ pc = "expand" /\ pc' = "expand"
        /\ pending' = Tail(pending) /\ pending # <<>>
    BY <1>8 DEF InsertNew
  <2>2. /\ new \notin Indices /\ Indices' = Indices \union {new}
        /\ \A i \in Indices : states'[i] = states[i]
        /\ states'[new] = Head(pending)
        /\ \A i \in Indices : edges'[i] = IF i = cur THEN edges[i] \union {new} ELSE edges[i]
        /\ edges'[new] = {}
    BY <1>8, InsertNewRow
  <2>3. processed \subseteq Indices /\ cur \in processed /\ cur \in Indices
    BY <2>1 DEF TypeOK, KnownInv
  <2>4. \A i \in Indices : edges[i] \subseteq Indices
    BY DEF EdgesInv
  <2> HIDE DEF new
  <2>5. PendingKeys = {sys.key[Head(pending)]} \union PendingKeys'
    BY <1>1, <2>1, PendingTail DEF TypeOK
  <2>6. EdgeKeys(cur)' = EdgeKeys(cur) \union {sys.key[Head(pending)]}
    <3>1. edges'[cur] = edges[cur] \union {new} /\ edges[cur] \subseteq Indices
      BY <2>2, <2>3, <2>4
    <3>2. EdgeKeys(cur)' = {sys.key[states'[k]] : k \in edges'[cur]}
      BY <1>1, <2>1 DEF EdgeKeys
    <3>3. \A k \in edges[cur] : states'[k] = states[k]
      BY <2>2, <3>1
    <3>4. EdgeKeys(cur)' = {sys.key[states[k]] : k \in edges[cur]} \union {sys.key[states'[new]]}
      BY ONLY <3>1, <3>2, <3>3
    <3> QED
      BY <2>2, <3>4 DEF EdgeKeys
  <2>7. \A i \in Indices : i # cur => EdgeKeys(i)' = EdgeKeys(i)
    BY ZenonT(120), <1>1, <2>2, <2>4 DEF EdgeKeys
  <2>8. \A i \in Indices : StepKeys(i)' = StepKeys(i)
    BY <1>1, <2>2 DEF StepKeys
  <2>9. \A i \in Indices' : edges'[i] \subseteq Indices'
    BY <2>2, <2>4
  <2>10. \A i \in Indices' \ processed : edges'[i] = {}
    BY <2>2, <2>3 DEF EdgesInv
  <2>11. \A i \in processed : i \notin hadBoundary \/ ~truncated =>
           StepKeys(i)' = EdgeKeys(i)' \union (IF i = cur THEN PendingKeys' ELSE {})
    BY <2>1, <2>3, <2>5, <2>6, <2>7, <2>8 DEF EdgesInv, Unfinished
  <2> QED
    BY <2>1, <2>9, <2>10, <2>11 DEF EdgesInv, Unfinished
<1>9. CASE EndIteration
  <2>1. /\ SameGraph /\ processed' = processed /\ hadBoundary' = hadBoundary
        /\ pc' # "expand" /\ pending = <<>> /\ (truncated => truncated')
    BY <1>9 DEF EndIteration, graphVars
  <2>2. PendingKeys = {}
    BY <2>1 DEF PendingKeys
  <2> QED
    BY <1>2, <2>1, <2>2 DEF EdgesInv, Unfinished
<1>10. CASE UNCHANGED vars
  <2>1. /\ SameGraph /\ processed' = processed /\ hadBoundary' = hadBoundary
        /\ truncated' = truncated /\ cur' = cur /\ pc' = pc /\ pending' = pending
    BY <1>10 DEF vars, graphVars
  <2>2. PendingKeys' = PendingKeys
    BY <1>1, <2>1 DEF PendingKeys
  <2> QED
    BY <1>2, <2>1, <2>2 DEF EdgesInv, Unfinished
<1> QED
  BY <1>3, <1>4, <1>5, <1>6, <1>7, <1>8, <1>9, <1>10 DEF Next

(* The inductive invariant holds. *)
THEOREM Invariant == Spec => []IInv
<1>1. Init => KnownInv /\ EdgesInv /\ AnswersInv /\ QueueInv
  <2> SUFFICES ASSUME Init PROVE KnownInv /\ EdgesInv /\ AnswersInv /\ QueueInv
    OBVIOUS
  <2>1. sys.init \in Node
    BY SystemsAssumption DEF Init
  <2>2. Indices = {1} /\ states[1] = sys.init /\ edges[1] = {} /\ queue[1] = 1 /\ 1 \in DOMAIN queue
    BY DEF Init, Indices
  <2>3. KnownInv
    BY <2>1, <2>2, ReachableSelf DEF KnownInv, Init, Reachable
  <2> QED
    BY <2>2, <2>3 DEF Init, EdgesInv, AnswersInv, QueueInv
<1>2. /\ TypeOK /\ TypeOK' /\ KnownInv /\ EdgesInv /\ AnswersInv /\ QueueInv /\ [Next]_vars
      => KnownInv' /\ EdgesInv' /\ AnswersInv' /\ QueueInv'
  BY KnownStep, EdgesStep, AnswersStep, QueueStep
<1> QED
  BY <1>1, <1>2, TypeCorrect, PTL DEF Spec, IInv

-----------------------------------------------------------------------------
(* Verdicts *)

(* A counterexample is an execution: the chain of predecessors steps from the
   initial state to the state it is for. *)
THEOREM CounterexamplesReplay == Spec => []CounterexampleReplays
<1>1. Init => CounterexampleReplays
  BY DEF Init, CounterexampleReplays, Indices
<1>2. TypeOK /\ KnownInv /\ CounterexampleReplays /\ [Next]_vars => CounterexampleReplays'
  <2> SUFFICES ASSUME TypeOK, KnownInv, CounterexampleReplays, [Next]_vars
               PROVE  CounterexampleReplays'
    OBVIOUS
  <2>1. sys' = sys
    BY InputsFixed
  <2>2. CASE InsertNew
    <3>1. PICK new : new = Len(states) + 1
      OBVIOUS
    <3>2. /\ Indices' = Indices \union {new} /\ new \notin Indices
          /\ \A i \in Indices : /\ states'[i] = states[i]
                              /\ pred'[i] = pred[i] /\ depth'[i] = depth[i]
          /\ states'[new] = Head(pending) /\ pred'[new] = cur /\ depth'[new] = depth[cur] + 1
      BY <2>2, <3>1, InsertNewRow
    <3>3. Head(pending) \in Steps(sys, states[cur]) /\ cur \in 1..(new - 1) /\ cur \in Indices
      <4>1. cur \in Indices /\ cur \in 1..(new - 1)
        BY <3>1 DEF TypeOK, Indices
      <4>2. pending \in Seq(Node) /\ pending # <<>> /\ pc = "expand"
        BY <2>2 DEF InsertNew, TypeOK
      <4>3. \E k \in DOMAIN pending : pending[k] = Head(pending)
        BY ONLY <4>2, TailElements
      <4> QED
        BY <4>1, <4>2, <4>3 DEF KnownInv
    <3>4. 1 \in Indices /\ \A i \in Indices : 1..(i - 1) \subseteq Indices
      BY DEF TypeOK, Indices
    <3> QED
      BY <2>1, <3>2, <3>3, <3>4 DEF CounterexampleReplays
  <2>3. CASE UNCHANGED <<states, pred, depth>>
    BY <2>1, <2>3 DEF CounterexampleReplays, Indices
  <2> QED
    BY <2>2, <2>3 DEF Next, vars, graphVars, Exhaust, StateLimit, DepthLimit, Expand,
                      InsertKnown, EndIteration
<1> QED
  BY <1>1, <1>2, Invariant, PTL DEF Spec, IInv

(* When the search is complete, the edges of a state give the keys that every
   state of its key steps to. *)
LEMMA CompleteRow ==
  ASSUME IInv, pc = "done", complete,
         NEW i \in Indices, NEW n \in Node, sys.key[n] = sys.key[states[i]]
  PROVE  /\ i \in processed \ hadBoundary
         /\ sys.answer[n] = "ok"
         /\ KeysOf(sys, Steps(sys, n)) = EdgeKeys(i)
         /\ edges[i] \subseteq Indices
<1>1. i \in processed
  <2>1. queue = <<>> /\ DOMAIN queue = {}
    BY DEF IInv, QueueInv, complete
  <2> QED
    BY <2>1 DEF IInv, QueueInv, complete
<1>2. sys.answer[states[i]] = "ok" /\ i \notin hadBoundary
  BY <1>1 DEF IInv, AnswersInv, complete
<1>3. StepKeys(i) = EdgeKeys(i) /\ edges[i] \subseteq Indices
  BY <1>1 DEF IInv, EdgesInv, complete, Unfinished
<1>4. states[i] \in Node /\ KeyIsCongruence(sys)
  BY SystemsAssumption DEF IInv, TypeOK, Indices
<1>5. /\ sys.answer[n] = sys.answer[states[i]]
      /\ KeysOf(sys, Steps(sys, n)) = StepKeys(i)
  BY <1>4 DEF KeyIsCongruence, StepKeys
<1> QED
  BY <1>1, <1>2, <1>3, <1>5

(* A complete search has indexed the key of every reachable state. *)
LEMMA CompleteCovers ==
  ASSUME IInv, pc = "done", complete
  PROVE  \A n \in Reachable : \E i \in Indices : sys.key[n] = sys.key[states[i]]
<1> DEFINE S == {n \in Node : \E i \in Indices : sys.key[n] = sys.key[states[i]]}
<1>1. sys.init \in S
  <2>1. sys.init \in Node /\ 1 \in Indices /\ states[1] \in Reachable
    BY SystemsAssumption DEF IInv, TypeOK, KnownInv, Indices
  <2>2. states[1] = sys.init
    BY DEF IInv, KnownInv
  <2> QED
    BY <2>1, <2>2
<1>2. ClosedUnderSteps(S)
  <2> SUFFICES ASSUME NEW n \in S, NEW m \in Steps(sys, n) PROVE m \in S
    BY DEF ClosedUnderSteps
  <2>1. PICK i \in Indices : sys.key[n] = sys.key[states[i]]
    OBVIOUS
  <2>2. m \in Node
    BY StepsInNode DEF IInv, TypeOK
  <2>3. sys.key[m] \in EdgeKeys(i) /\ edges[i] \subseteq Indices
    BY <2>1, CompleteRow DEF KeysOf
  <2> QED
    BY <2>2, <2>3 DEF EdgeKeys
<1> QED
  BY <1>1, <1>2 DEF Reachable, ReachableFrom

(* A predicate holds for an indexed state and a reachable one of its key
   alike. *)
LEMMA SameKeySamePredicate ==
  ASSUME NEW P \in Predicates, NEW a \in Node, NEW b \in Node,
         sys.key[a] = sys.key[b]
  PROVE  a \in P <=> b \in P
BY DEF Predicates

(* Indexed states are states of the system. *)
LEMMA IndexedInNode == TypeOK => \A i \in Indices : states[i] \in Node
BY DEF TypeOK, Indices

(* Executions stay among the states of the system. *)
LEMMA ReachableInNode == Reachable \subseteq Node
BY DEF Reachable, ReachableFrom

(* A safety property that passes holds in every state of every execution. *)
THEOREM SafetyPass == Spec => []SafetyPassSound
<1>1. IInv => SafetyPassSound
  <2> SUFFICES ASSUME IInv, pc = "done", NEW P \in Predicates, Safety(P) = "Pass",
                      NEW n \in Reachable
               PROVE  n \in P
    BY DEF SafetyPassSound
  <2>1. complete /\ ~Found(Node \ P)
    BY DEF Safety
  <2>2. PICK i \in Indices : sys.key[n] = sys.key[states[i]]
    BY <2>1, CompleteCovers
  <2>3. states[i] \in Node /\ states[i] \in P
    BY <2>1, IndexedInNode DEF Found, IInv
  <2> QED
    BY <2>2, <2>3, SameKeySamePredicate, ReachableInNode
<1> QED
  BY <1>1, Invariant, PTL

(* The state a counterexample or a witness names is reachable, even when the
   search was cut short. *)
THEOREM Witness == Spec => []WitnessReal
<1>1. IInv => WitnessReal
  <2> SUFFICES ASSUME IInv, NEW P \in Predicates
               PROVE  /\ Safety(P) = "Fail" => ~(Reachable \subseteq P)
                      /\ Reachability(P) = "Pass" => Reachable \cap P # {}
    BY DEF WitnessReal
  <2>1. \A i \in Indices : states[i] \in Reachable
    BY DEF IInv, KnownInv
  <2>2. Found(Node \ P) => ~(Reachable \subseteq P)
    BY <2>1 DEF Found
  <2>3. Found(P) => Reachable \cap P # {}
    BY <2>1 DEF Found
  <2> QED
    BY <2>2, <2>3 DEF Safety, Reachability
<1> QED
  BY <1>1, Invariant, PTL

(* A reachability property that fails has a goal no execution reaches. *)
THEOREM ReachabilityFail == Spec => []ReachabilityFailSound
<1>1. IInv => ReachabilityFailSound
  <2> SUFFICES ASSUME IInv, pc = "done", NEW P \in Predicates, Reachability(P) = "Fail",
                      NEW n \in Reachable, n \in P
               PROVE  FALSE
    BY DEF ReachabilityFailSound
  <2>1. complete /\ ~Found(P)
    BY DEF Reachability
  <2>2. PICK i \in Indices : sys.key[n] = sys.key[states[i]]
    BY <2>1, CompleteCovers
  <2>3. states[i] \in P
    BY <2>2, SameKeySamePredicate, ReachableInNode, IndexedInNode DEF IInv
  <2> QED
    BY <2>1, <2>3 DEF Found
<1> QED
  BY <1>1, Invariant, PTL

(* Deadlock freedom fails only if a reachable state is stuck, and passes only
   if none is; what a bound or an error stopped is not taken for stuck. *)
THEOREM DeadlockVerdict == Spec => []DeadlockVerdictSound
<1>1. ASSUME IInv, pc = "done", DeadlockFree = "Fail"
      PROVE  Reachable \cap DeadlockStates # {}
  <2>1. PICK i \in Deadlocks : TRUE
    BY <1>1 DEF DeadlockFree
  <2>2. /\ i \in processed \ hadBoundary /\ i \in Indices
        /\ edges[i] = {} /\ states[i] \notin sys.finished
    BY <1>1, <2>1 DEF Deadlocks, IInv, TypeOK
  <2>3. StepKeys(i) = {}
    BY <1>1, <2>2 DEF IInv, EdgesInv, Unfinished, EdgeKeys
  <2>4. Steps(sys, states[i]) = {}
    BY <2>3 DEF StepKeys, KeysOf
  <2>5. states[i] \in Reachable /\ states[i] \in Node /\ sys.answer[states[i]] = "ok"
    BY <1>1, <2>2, IndexedInNode DEF IInv, KnownInv, AnswersInv
  <2> QED
    BY <2>2, <2>4, <2>5 DEF DeadlockStates
<1>2. ASSUME IInv, pc = "done", DeadlockFree = "Pass"
      PROVE  Reachable \cap DeadlockStates = {}
  <2>1. complete /\ Deadlocks = {}
    BY <1>2 DEF DeadlockFree
  <2>2. SUFFICES ASSUME NEW n \in Reachable, n \in DeadlockStates PROVE FALSE
    OBVIOUS
  <2>3. PICK i \in Indices : sys.key[n] = sys.key[states[i]]
    BY <1>2, <2>1, CompleteCovers
  <2>4. /\ n \in Node /\ Steps(sys, n) = {} /\ n \notin sys.finished
    BY <2>2 DEF DeadlockStates
  <2>5. i \in processed \ hadBoundary /\ EdgeKeys(i) = {}
    <3>1. KeysOf(sys, Steps(sys, n)) = {}
      BY <2>4 DEF KeysOf
    <3> QED
      BY <1>2, <2>1, <2>3, <2>4, <3>1, CompleteRow
  <2>6. edges[i] = {}
    BY <2>5 DEF EdgeKeys
  <2>7. states[i] \notin sys.finished
    BY <1>2, <2>3, <2>4, IndexedInNode, SystemsAssumption DEF IInv, TypeOK, KeyIsCongruence
  <2> QED
    BY <2>1, <2>5, <2>6, <2>7 DEF Deadlocks
<1>3. IInv => DeadlockVerdictSound
  BY <1>1, <1>2 DEF DeadlockVerdictSound
<1> QED
  BY <1>3, Invariant, PTL

(* AG EF passes only if the goal stays within reach of every reachable state:
   the backward search over edges between keys follows steps between states. *)
THEOREM AlwaysReachablePass == Spec => []AlwaysReachablePassSound
<1>1. IInv => AlwaysReachablePassSound
  <2> SUFFICES ASSUME IInv, pc = "done", NEW P \in Predicates, AlwaysReachable(P) = "Pass",
                      NEW n \in Reachable
               PROVE  ReachableFrom(n) \cap P # {}
    BY DEF AlwaysReachablePassSound
  <2> DEFINE roots == {i \in Indices : states[i] \in P}
             Hopeful(m) == ReachableFrom(m) \cap P # {}
             G == {i \in Indices : \A m \in Node : sys.key[m] = sys.key[states[i]] => Hopeful(m)}
  <2>1. complete /\ ReverseReachable(roots) = Indices
    BY DEF AlwaysReachable
  <2>2. roots \subseteq G
    <3> SUFFICES ASSUME NEW i \in roots, NEW m \in Node, sys.key[m] = sys.key[states[i]]
                 PROVE  Hopeful(m)
      OBVIOUS
    <3>1. m \in P
      BY SameKeySamePredicate, IndexedInNode DEF IInv
    <3> QED
      BY <3>1, ReachableSelf
  <2>3. ASSUME NEW j \in Indices, edges[j] \cap G # {}
        PROVE  j \in G
    <3> SUFFICES ASSUME NEW m \in Node, sys.key[m] = sys.key[states[j]]
                 PROVE  Hopeful(m)
      BY <2>3
    <3>1. PICK k \in edges[j] : k \in G
      BY <2>3
    <3>2. KeysOf(sys, Steps(sys, m)) = EdgeKeys(j)
      BY <2>1, CompleteRow
    <3>3. sys.key[states[k]] \in KeysOf(sys, Steps(sys, m))
      BY <3>1, <3>2 DEF EdgeKeys
    <3>4. PICK a \in Steps(sys, m) : sys.key[a] = sys.key[states[k]]
      BY <3>3 DEF KeysOf
    <3>5. a \in Node
      BY StepsInNode DEF IInv, TypeOK
    <3>6. Hopeful(a)
      BY <3>1, <3>4, <3>5
    <3> QED
      BY <3>5, <3>6, ReachableThrough
  <2>4. G \in SUBSET Indices
    OBVIOUS
  <2>5. Indices \subseteq G
    <3> HIDE DEF G
    <3> QED
      BY <2>1, <2>2, <2>3, <2>4 DEF ReverseReachable
  <2>6. PICK i \in Indices : sys.key[n] = sys.key[states[i]]
    BY <2>1, CompleteCovers
  <2> QED
    BY <2>5, <2>6, ReachableInNode
<1> QED
  BY <1>1, Invariant, PTL

(* An overall Pass is about the whole state space, and none of it is an error
   or a bound. *)
THEOREM OverallPass == Spec => []OverallPassComplete
<1>1. IInv => OverallPassComplete
  <2> SUFFICES ASSUME IInv, pc = "done", NEW P \in Predicates,
                      Overall({Reachability(P)}) = "Pass"
               PROVE  /\ KeysOf(sys, Reachable) = {sys.key[states[i]] : i \in Indices}
                      /\ \A n \in Reachable : sys.answer[n] = "ok"
    BY DEF OverallPassComplete
  <2>1. complete
    BY DEF Overall
  <2>2. \A n \in Reachable : \E i \in Indices : sys.key[n] = sys.key[states[i]]
    BY <2>1, CompleteCovers
  <2>3. \A i \in Indices : states[i] \in Reachable
    BY DEF IInv, KnownInv
  <2>4. KeysOf(sys, Reachable) = {sys.key[states[i]] : i \in Indices}
    BY <2>2, <2>3 DEF KeysOf
  <2>5. \A n \in Reachable : sys.answer[n] = "ok"
    BY <2>1, <2>2, CompleteRow, ReachableInNode
  <2> QED
    BY <2>4, <2>5
<1> QED
  BY <1>1, Invariant, PTL

-----------------------------------------------------------------------------
(* Shortest counterexamples: the search goes layer by layer, even where it is
   cut. *)

(* An indexed state that is still to be processed, or never will be *)
Due(i) == i \in Indices \ processed \/ \E k \in DOMAIN queue : queue[k] = i

(* The queue is in order of depth, and reaches one layer beyond whatever is
   due. *)
QueueLayered ==
  /\ \A k, l \in DOMAIN queue : k <= l => depth[queue[k]] <= depth[queue[l]]
  /\ \A i, j \in Indices : Due(i) => depth[j] <= depth[i] + 1
  /\ pc # "done" => \A i \in Indices \ processed : \E k \in DOMAIN queue : queue[k] = i

(* The state being processed is in the last layer but one, and nothing due is
   less deep. *)
CurrentLayered ==
  pc = "expand" =>
    /\ cur \in processed /\ depth[cur] < bounds.max_depth
    /\ \A j \in Indices : depth[j] <= depth[cur] + 1
    /\ \A i \in Indices : Due(i) => depth[cur] <= depth[i]

(* Every step of a processed state is indexed at most one layer below it,
   unless the depth limit cut it. *)
StepIndexed(i, n) ==
  \E j \in Indices : sys.key[states[j]] = sys.key[n] /\ depth[j] <= depth[i] + 1
StepPending(i, n) ==
  Unfinished(i) /\ \E k \in DOMAIN pending : sys.key[pending[k]] = sys.key[n]
StepsLayered ==
  /\ \A j \in Indices : depth[j] <= bounds.max_depth
  /\ \A i \in processed : depth[i] < bounds.max_depth =>
       \A n \in Steps(sys, states[i]) : StepIndexed(i, n) \/ StepPending(i, n)

KeysUnique ==
  \A i, j \in Indices : sys.key[states[i]] = sys.key[states[j]] => i = j

Layered == QueueLayered /\ CurrentLayered /\ StepsLayered /\ KeysUnique

-----------------------------------------------------------------------------
(* A queue in order stays in order. *)

(* Popping keeps the order, and the head is a lower bound. *)
LEMMA TailInOrder ==
  ASSUME NEW S, NEW q \in Seq(S), q # <<>>, NEW d, \A x \in S : d[x] \in Nat,
         \A k, l \in DOMAIN q : k <= l => d[q[k]] <= d[q[l]]
  PROVE  /\ \A k, l \in DOMAIN Tail(q) : k <= l => d[Tail(q)[k]] <= d[Tail(q)[l]]
         /\ \A k \in DOMAIN q : d[Head(q)] <= d[q[k]]
<1>1. /\ Len(q) \in Nat /\ Len(q) >= 1 /\ DOMAIN q = 1..Len(q) /\ Head(q) = q[1]
      /\ DOMAIN Tail(q) = 1..(Len(q) - 1)
  OBVIOUS
<1>2. \A l \in DOMAIN Tail(q) : l + 1 \in DOMAIN q /\ Tail(q)[l] = q[l + 1] /\ l \in Nat
  BY <1>1
<1>3. \A k, l \in DOMAIN Tail(q) : k <= l => d[Tail(q)[k]] <= d[Tail(q)[l]]
  <2> SUFFICES ASSUME NEW k \in DOMAIN Tail(q), NEW l \in DOMAIN Tail(q), k <= l
               PROVE  d[q[k + 1]] <= d[q[l + 1]]
    BY <1>2
  <2>1. k + 1 <= l + 1 /\ k + 1 \in DOMAIN q /\ l + 1 \in DOMAIN q
    BY <1>2
  <2> QED
    BY <2>1
<1>4. \A k \in DOMAIN q : d[Head(q)] <= d[q[k]]
  <2>1. 1 \in DOMAIN q /\ \A k \in DOMAIN q : 1 <= k
    BY <1>1
  <2> QED
    BY <1>1, <2>1
<1> QED
  BY <1>3, <1>4

(* Appending something at least as deep keeps the order. *)
LEMMA AppendInOrder ==
  ASSUME NEW S, NEW q \in Seq(S), NEW x \in S, NEW d, \A y \in S : d[y] \in Nat,
         \A k, l \in DOMAIN q : k <= l => d[q[k]] <= d[q[l]],
         \A k \in DOMAIN q : d[q[k]] <= d[x]
  PROVE  \A k, l \in DOMAIN Append(q, x) :
            k <= l => d[Append(q, x)[k]] <= d[Append(q, x)[l]]
<1>1. Len(q) \in Nat /\ DOMAIN q = 1..Len(q) /\ DOMAIN Append(q, x) = 1..(Len(q) + 1)
  OBVIOUS
<1>2. \A k \in 1..(Len(q) + 1) : Append(q, x)[k] = IF k = Len(q) + 1 THEN x ELSE q[k]
  OBVIOUS
<1> SUFFICES ASSUME NEW k \in 1..(Len(q) + 1), NEW l \in 1..(Len(q) + 1), k <= l
             PROVE  d[Append(q, x)[k]] <= d[Append(q, x)[l]]
  BY <1>1
<1>3. CASE l # Len(q) + 1
  <2>1. k \in DOMAIN q /\ l \in DOMAIN q /\ k # Len(q) + 1
    BY <1>1, <1>3
  <2> QED
    BY <1>2, <1>3, <2>1
<1>4. CASE l = Len(q) + 1 /\ k # Len(q) + 1
  <2>1. k \in DOMAIN q
    BY <1>1, <1>4
  <2> QED
    BY <1>2, <1>4, <2>1
<1>5. CASE l = Len(q) + 1 /\ k = Len(q) + 1
  BY <1>2, <1>5
<1> QED
  BY <1>3, <1>4, <1>5

-----------------------------------------------------------------------------
(* The search goes layer by layer. *)

(* What every proof below reads off the types. *)
LEMMA LayerTypes ==
  ASSUME TypeOK
  PROVE  /\ \A i \in Indices : depth[i] \in Nat /\ i \in Nat
         /\ bounds.max_depth \in Nat /\ bounds.max_depth \in Int
         /\ \A k \in DOMAIN queue : queue[k] \in Indices
         /\ queue # <<>> => Head(queue) \in Indices
         /\ \A i \in Indices : Due(i) <=> i \notin processed \/ \E k \in DOMAIN queue : queue[k] = i
<1>1. \A i \in Indices : depth[i] \in Nat /\ i \in Nat
  BY DEF TypeOK, Indices
<1>2. bounds.max_depth \in Nat
  BY SystemsAssumption DEF TypeOK, AnalysisBounds
<1> QED
  BY <1>1, <1>2 DEF TypeOK, Due

(* A pop takes the least deep of what is due. *)
LEMMA PopLayered ==
  ASSUME TypeOK, QueueLayered, pc = "pop", queue # <<>>, states' = states, depth' = depth,
         queue' = Tail(queue), processed' \in {processed, processed \union {Head(queue)}},
         pc' = "done" \/ Head(queue) \in processed'
  PROVE  /\ QueueLayered'
         /\ \A i \in Indices : Due(i)' => Due(i)
         /\ \A i \in Indices : Due(i) => depth[Head(queue)] <= depth[i]
         /\ \A j \in Indices : depth[j] <= depth[Head(queue)] + 1
<1>1. queue \in Seq(Indices) /\ \A i \in Indices : depth[i] \in Nat
  BY LayerTypes DEF TypeOK
<1>2. Indices' = Indices
  BY DEF Indices
<1>3. /\ \A k, l \in DOMAIN Tail(queue) : k <= l => depth[Tail(queue)[k]] <= depth[Tail(queue)[l]]
      /\ \A k \in DOMAIN queue : depth[Head(queue)] <= depth[queue[k]]
  BY <1>1, TailInOrder DEF QueueLayered
<1>4. /\ \A k \in DOMAIN queue : queue[k] = Head(queue) \/ \E l \in DOMAIN Tail(queue) : Tail(queue)[l] = queue[k]
      /\ \A l \in DOMAIN Tail(queue) : \E k \in DOMAIN queue : Tail(queue)[l] = queue[k]
      /\ \E k \in DOMAIN queue : queue[k] = Head(queue)
  BY <1>1, TailElements
<1>5. \A i \in Indices : Due(i)' => Due(i)
  BY <1>2, <1>4 DEF Due
<1>6. \A i \in Indices : Due(i) => depth[Head(queue)] <= depth[i]
  BY <1>3 DEF Due, QueueLayered
<1>7. \A j \in Indices : depth[j] <= depth[Head(queue)] + 1
  BY <1>1, <1>4, LayerTypes DEF Due, QueueLayered
<1>8. pc' # "done" => \A i \in Indices' \ processed' : \E k \in DOMAIN queue' : queue'[k] = i
  BY <1>2, <1>4 DEF QueueLayered
<1>9. QueueLayered'
  BY <1>2, <1>3, <1>5, <1>8 DEF QueueLayered
<1> QED
  BY <1>5, <1>6, <1>7, <1>9

(* A successor that is known already is at most one layer below. *)
LEMMA KnownLayered ==
  ASSUME TypeOK, Layered, InsertKnown
  PROVE  Layered'
<1>1. /\ pc = "expand" /\ pending # <<>> /\ pending' = Tail(pending) /\ sys' = sys
      /\ bounds' = bounds /\ states' = states /\ depth' = depth /\ processed' = processed
      /\ cur' = cur /\ pc' = pc /\ queue' = queue /\ Indices' = Indices
  BY InputsFixed DEF InsertKnown, QueueAfterKnown, Indices, Next
<1>2. PICK j \in Indices : sys.key[states[j]] = sys.key[Head(pending)]
  BY DEF InsertKnown, Target
<1>3. \A i \in Indices : Due(i)' <=> Due(i)
  BY <1>1 DEF Due
<1>4. QueueLayered' /\ CurrentLayered' /\ KeysUnique'
  BY <1>1, <1>3 DEF Layered, QueueLayered, CurrentLayered, KeysUnique
<1>5. ASSUME NEW i \in processed, depth[i] < bounds.max_depth, NEW n \in Steps(sys, states[i])
      PROVE  StepIndexed(i, n)' \/ StepPending(i, n)'
  <2>1. CASE StepIndexed(i, n)
    BY <1>1, <2>1 DEF StepIndexed
  <2>2. CASE StepPending(i, n)
    <3>1. i = cur /\ \E k \in DOMAIN pending : sys.key[pending[k]] = sys.key[n]
      BY <2>2 DEF StepPending, Unfinished
    <3>2. \A k \in DOMAIN pending : pending[k] = Head(pending)
             \/ \E l \in DOMAIN Tail(pending) : Tail(pending)[l] = pending[k]
      BY <1>1, TailElements DEF TypeOK
    <3>3. sys.key[n] = sys.key[Head(pending)] \/ StepPending(i, n)'
      BY <1>1, <3>1, <3>2 DEF StepPending, Unfinished
    <3>4. depth[j] <= depth[cur] + 1
      BY <1>1 DEF Layered, CurrentLayered
    <3> QED
      BY <1>1, <1>2, <3>1, <3>3, <3>4 DEF StepIndexed
  <2> QED
    BY <1>5, <2>1, <2>2 DEF Layered, StepsLayered
<1>6. StepsLayered'
  BY <1>1, <1>5 DEF Layered, StepsLayered
<1> QED
  BY <1>4, <1>6 DEF Layered

(* A new state opens the next layer or extends it. *)
LEMMA NewLayered ==
  ASSUME TypeOK, Layered, InsertNew
  PROVE  Layered'
<1> DEFINE new == Len(states) + 1
<1>1. /\ pc = "expand" /\ pending # <<>> /\ pending' = Tail(pending) /\ sys' = sys
      /\ bounds' = bounds /\ processed' = processed /\ cur' = cur /\ pc' = pc
      /\ queue' = Append(queue, new) /\ Target(Head(pending)) = {}
  BY DEF InsertNew, QueueAfterNew
<1>2. /\ Indices' = Indices \union {new} /\ new \notin Indices
      /\ states'[new] = Head(pending) /\ depth'[new] = depth[cur] + 1
      /\ \A i \in Indices : states'[i] = states[i] /\ depth'[i] = depth[i]
  BY InsertNewRow
<1>3. /\ cur \in Indices /\ processed \subseteq Indices /\ queue \in Seq(Indices)
      /\ \A i \in Indices : depth[i] \in Nat
  BY LayerTypes DEF TypeOK
<1>4. /\ depth[cur] < bounds.max_depth /\ \A j \in Indices : depth[j] <= depth[cur] + 1
      /\ \A i \in Indices : Due(i) => depth[cur] <= depth[i]
  BY <1>1 DEF Layered, CurrentLayered
<1> HIDE DEF new
<1>5. /\ queue' \in Seq(Indices')
      /\ \A k \in DOMAIN queue : \E l \in DOMAIN queue' : queue'[l] = queue[k]
      /\ \E l \in DOMAIN queue' : queue'[l] = new
      /\ \A l \in DOMAIN queue' : queue'[l] = new \/ \E k \in DOMAIN queue : queue[k] = queue'[l]
  <2>1. queue \in Seq(Indices') /\ new \in Indices'
    BY <1>2, <1>3
  <2>2. \A l \in DOMAIN Append(queue, new) :
           \/ Append(queue, new)[l] = new
           \/ \E k \in DOMAIN queue : queue[k] = Append(queue, new)[l]
    BY <2>1
  <2>3. /\ \A k \in DOMAIN queue : \E l \in DOMAIN Append(queue, new) :
               Append(queue, new)[l] = queue[k]
        /\ \E l \in DOMAIN Append(queue, new) : Append(queue, new)[l] = new
    <3>1. PICK S, q, x : S = Indices' /\ q = queue /\ x = new
      OBVIOUS
    <3>2. q \in Seq(S) /\ x \in S
      BY ONLY <2>1, <3>1
    <3>3. /\ \A k \in DOMAIN q : \E l \in DOMAIN Append(q, x) : Append(q, x)[l] = q[k]
          /\ \E l \in DOMAIN Append(q, x) : Append(q, x)[l] = x
      BY ONLY <3>2, AppendElements
    <3> QED
      BY ONLY <3>1, <3>3
  <2>4. Append(queue, new) \in Seq(Indices')
    BY ONLY <2>1
  <2> QED
    BY ONLY <1>1, <2>2, <2>3, <2>4
<1>6. \A i \in Indices : Due(i)' <=> Due(i)
  <2> SUFFICES ASSUME NEW i \in Indices
               PROVE  Due(i)' <=> Due(i)
    OBVIOUS
  <2>1. i \in (Indices \ processed)' <=> i \in Indices \ processed
    BY <1>1, <1>2
  <2>2. (\E k \in DOMAIN queue' : queue'[k] = i) <=> \E k \in DOMAIN queue : queue[k] = i
    BY <1>2, <1>5
  <2> QED
    BY <2>1, <2>2 DEF Due
<1>7. QueueLayered'
  <2>1. \A k, l \in DOMAIN queue' : k <= l => depth'[queue'[k]] <= depth'[queue'[l]]
    <3>1. /\ queue \in Seq(Indices') /\ new \in Indices' /\ \A i \in Indices' : depth'[i] \in Nat
      BY <1>2, <1>3
    <3>2. \A k \in DOMAIN queue : queue[k] \in Indices /\ depth'[queue[k]] = depth[queue[k]]
      BY <1>2, <1>3
    <3>3. \A k, l \in DOMAIN queue : k <= l => depth'[queue[k]] <= depth'[queue[l]]
      BY <3>2 DEF Layered, QueueLayered
    <3>4. \A k \in DOMAIN queue : depth'[queue[k]] <= depth'[new]
      BY <1>2, <1>4, <3>2
    <3> QED
      BY <1>1, <3>1, <3>3, <3>4, AppendInOrder
  <2>2. \A i, j \in Indices' : Due(i)' => depth'[j] <= depth'[i] + 1
    <3> SUFFICES ASSUME NEW i \in Indices', NEW j \in Indices', Due(i)'
                 PROVE  depth'[j] <= depth'[i] + 1
      OBVIOUS
    <3>1. CASE i = new /\ j = new
      BY <1>2, <1>3, <3>1
    <3>2. CASE i = new /\ j \in Indices
      BY <1>2, <1>3, <1>4, <3>2
    <3>3. CASE i \in Indices /\ j = new
      BY <1>2, <1>3, <1>4, <1>6, <3>3
    <3>4. CASE i \in Indices /\ j \in Indices
      BY <1>2, <1>6, <3>4 DEF Layered, QueueLayered
    <3> QED
      BY <1>2, <3>1, <3>2, <3>3, <3>4
  <2>3. \A i \in Indices' \ processed' : \E k \in DOMAIN queue' : queue'[k] = i
    <3>1. \A i \in Indices \ processed : \E k \in DOMAIN queue : queue[k] = i
      BY <1>1 DEF Layered, QueueLayered
    <3> QED
      BY <1>1, <1>2, <1>5, <3>1
  <2> QED
    BY <2>1, <2>2, <2>3 DEF QueueLayered
<1>8. CurrentLayered'
  <2>1. depth'[cur'] = depth[cur] /\ cur' \in processed'
    BY <1>1, <1>2, <1>3 DEF Layered, CurrentLayered
  <2>2. \A j \in Indices' : depth'[j] <= depth'[cur'] + 1
    BY <1>2, <1>3, <1>4, <2>1
  <2>3. \A i \in Indices' : Due(i)' => depth'[cur'] <= depth'[i]
    BY <1>2, <1>3, <1>4, <1>6, <2>1
  <2> QED
    BY <1>1, <1>4, <2>1, <2>2, <2>3 DEF CurrentLayered
<1>9. ASSUME NEW i \in processed, depth[i] < bounds.max_depth, NEW n \in Steps(sys, states[i])
      PROVE  StepIndexed(i, n)' \/ StepPending(i, n)'
  <2>1. CASE StepIndexed(i, n)
    <3>1. PICK j \in Indices : sys.key[states[j]] = sys.key[n] /\ depth[j] <= depth[i] + 1
      BY <2>1 DEF StepIndexed
    <3>2. j \in Indices' /\ states'[j] = states[j] /\ depth'[j] = depth[j] /\ depth'[i] = depth[i]
      BY <1>2, <1>3
    <3> QED
      BY <1>1, <3>1, <3>2 DEF StepIndexed
  <2>2. CASE StepPending(i, n)
    <3>1. i = cur /\ \E k \in DOMAIN pending : sys.key[pending[k]] = sys.key[n]
      BY <2>2 DEF StepPending, Unfinished
    <3>2. \A k \in DOMAIN pending : pending[k] = Head(pending)
             \/ \E l \in DOMAIN Tail(pending) : Tail(pending)[l] = pending[k]
      BY <1>1, TailElements DEF TypeOK
    <3>3. sys.key[n] = sys.key[Head(pending)] \/ StepPending(i, n)'
      BY <1>1, <3>1, <3>2 DEF StepPending, Unfinished
    <3>4. depth'[new] <= depth'[i] + 1 /\ new \in Indices'
      BY <1>2, <1>3, <3>1
    <3> QED
      BY <1>1, <1>2, <3>3, <3>4 DEF StepIndexed
  <2> QED
    BY <1>9, <2>1, <2>2 DEF Layered, StepsLayered
<1>10. StepsLayered'
  <2>1. \A j \in Indices' : depth'[j] <= bounds'.max_depth
    <3>1. depth[cur] + 1 <= bounds.max_depth
      BY <1>3, <1>4, LayerTypes
    <3>2. \A j \in Indices : depth[j] <= bounds.max_depth
      BY DEF Layered, StepsLayered
    <3> QED
      BY <1>1, <1>2, <3>1, <3>2
  <2>2. \A i \in processed : i \in Indices /\ depth'[i] = depth[i] /\ states'[i] = states[i]
    BY <1>2, <1>3
  <2> QED
    BY <1>1, <1>9, <2>1, <2>2 DEF StepsLayered
<1>11. KeysUnique'
  <2>1. \A i \in Indices : sys.key[states[i]] # sys.key[Head(pending)]
    BY <1>1 DEF Target
  <2> QED
    BY <1>1, <1>2, <2>1 DEF Layered, KeysUnique
<1> QED
  BY <1>7, <1>8, <1>10, <1>11 DEF Layered

(* Expanding a state leaves its successors pending, in the next layer. *)
LEMMA ExpandLayered ==
  ASSUME TypeOK, Layered, Expand
  PROVE  Layered'
<1>0. PICK idx \in Indices : idx = Head(queue)
  BY LayerTypes DEF Expand
<1>1. /\ pc = "pop" /\ queue # <<>> /\ states' = states /\ depth' = depth /\ sys' = sys
      /\ bounds' = bounds /\ queue' = Tail(queue) /\ processed' = processed \union {idx}
      /\ cur' = idx /\ pc' = "expand" /\ ~(depth[idx] >= bounds.max_depth)
      /\ pending' = IF sys.answer[states[idx]] \in {"ok", "boundary"}
                    THEN sys.succ[states[idx]] ELSE <<>>
  BY <1>0 DEF Expand, graphVars, AtDepthLimit
<1>2. idx \in Indices /\ Indices' = Indices
  BY <1>1 DEF Indices
<1>3. /\ QueueLayered'
      /\ \A i \in Indices : Due(i)' => Due(i)
      /\ \A i \in Indices : Due(i) => depth[idx] <= depth[i]
      /\ \A j \in Indices : depth[j] <= depth[idx] + 1
  <2>1. QueueLayered /\ idx \in processed' /\ processed' \in {processed, processed \union {idx}}
    BY <1>1 DEF Layered
  <2> QED
    BY <1>0, <1>1, <2>1, PopLayered
<1>4. depth[idx] < bounds.max_depth
  BY <1>1, <1>2, LayerTypes
<1>5. CurrentLayered'
  BY <1>1, <1>2, <1>3, <1>4 DEF CurrentLayered
<1>6. KeysUnique'
  BY <1>1, <1>2 DEF Layered, KeysUnique
<1>7. ASSUME NEW n \in Steps(sys, states[idx])
      PROVE  StepPending(idx, n)'
  <2>1. \E k \in DOMAIN pending' : pending'[k] = n
    BY <1>1, <1>7 DEF Steps
  <2> QED
    BY <1>1, <2>1 DEF StepPending, Unfinished
<1>8. ASSUME NEW i \in processed, depth[i] < bounds.max_depth, NEW n \in Steps(sys, states[i])
      PROVE  StepIndexed(i, n)'
  <2>1. ~StepPending(i, n)
    BY <1>1 DEF StepPending, Unfinished
  <2>2. StepIndexed(i, n)
    BY <1>8, <2>1 DEF Layered, StepsLayered
  <2> QED
    BY <1>1, <1>2, <2>2 DEF StepIndexed
<1>9. StepsLayered'
  BY <1>1, <1>2, <1>7, <1>8 DEF Layered, StepsLayered
<1> QED
  BY <1>3, <1>5, <1>6, <1>9 DEF Layered

(* A state dropped at a bound leaves nothing to index. *)
LEMMA LimitLayered ==
  ASSUME TypeOK, Layered, StateLimit \/ DepthLimit
  PROVE  Layered'
<1>0. PICK idx \in Indices : idx = Head(queue)
  BY LayerTypes DEF StateLimit, DepthLimit
<1>1. /\ pc = "pop" /\ queue # <<>> /\ states' = states /\ depth' = depth /\ sys' = sys
      /\ bounds' = bounds /\ queue' = Tail(queue) /\ pc' # "expand"
      /\ \/ processed' = processed /\ pc' = "done"
         \/ processed' = processed \union {idx} /\ depth[idx] >= bounds.max_depth
  BY <1>0 DEF StateLimit, DepthLimit, graphVars, AtDepthLimit
<1>2. idx \in Indices /\ Indices' = Indices
  BY <1>1 DEF Indices
<1>3. QueueLayered'
  <2>1. /\ QueueLayered /\ processed' \in {processed, processed \union {idx}}
        /\ pc' = "done" \/ idx \in processed'
    BY <1>1 DEF Layered
  <2> QED
    BY <1>0, <1>1, <2>1, PopLayered
<1>4. CurrentLayered' /\ KeysUnique'
  BY <1>1, <1>2 DEF Layered, CurrentLayered, KeysUnique
<1>5. ASSUME NEW i \in processed, depth[i] < bounds.max_depth, NEW n \in Steps(sys, states[i])
      PROVE  StepIndexed(i, n)'
  <2>1. ~StepPending(i, n)
    BY <1>1 DEF StepPending, Unfinished
  <2>2. StepIndexed(i, n)
    BY <1>5, <2>1 DEF Layered, StepsLayered
  <2> QED
    BY <1>1, <1>2, <2>2 DEF StepIndexed
<1>6. \A i \in processed' : depth[i] < bounds.max_depth => i \in processed
  <2>1. depth[idx] >= bounds.max_depth => ~(depth[idx] < bounds.max_depth)
    BY <1>2, LayerTypes
  <2> QED
    BY <1>1, <2>1
<1>7. StepsLayered'
  BY <1>1, <1>2, <1>5, <1>6 DEF Layered, StepsLayered
<1> QED
  BY <1>3, <1>4, <1>7 DEF Layered

(* Between two pops nothing of the graph changes. *)
LEMMA RestLayered ==
  ASSUME TypeOK, Layered, Exhaust \/ EndIteration \/ UNCHANGED vars
  PROVE  Layered'
<1>1. /\ states' = states /\ depth' = depth /\ sys' = sys /\ bounds' = bounds
      /\ queue' = queue /\ processed' = processed /\ cur' = cur /\ pending' = pending
  BY DEF Exhaust, EndIteration, vars, graphVars
<1>2. Indices' = Indices /\ \A i \in Indices : Due(i)' <=> Due(i)
  BY <1>1 DEF Indices, Due
<1>3. /\ pc = "done" => pc' = "done"
      /\ pc' = "expand" => pc = "expand"
      /\ pc = "expand" /\ pc' # "expand" => pending = <<>>
  BY DEF Exhaust, EndIteration, vars
<1>4. QueueLayered' /\ CurrentLayered' /\ KeysUnique'
  BY <1>1, <1>2, <1>3 DEF Layered, QueueLayered, CurrentLayered, KeysUnique
<1>5. ASSUME NEW i \in processed, NEW n, StepPending(i, n)
      PROVE  StepPending(i, n)'
  <2>1. pc = "expand" /\ i = cur /\ \E k \in DOMAIN pending : sys.key[pending[k]] = sys.key[n]
    BY <1>5 DEF StepPending, Unfinished
  <2>2. pending # <<>>
    BY <2>1
  <2> QED
    BY <1>1, <1>3, <2>1, <2>2 DEF StepPending, Unfinished
<1>6. \A i, n : StepIndexed(i, n)' <=> StepIndexed(i, n)
  BY <1>1, <1>2 DEF StepIndexed
<1>7. StepsLayered'
  BY <1>1, <1>2, <1>5, <1>6 DEF Layered, StepsLayered
<1> QED
  BY <1>4, <1>7 DEF Layered

(* The search is layered from the first pop to the last, whatever ends it. *)
LEMMA LayeredInvariant == Spec => []Layered
<1>1. Init => Layered
  <2> SUFFICES ASSUME Init PROVE Layered
    OBVIOUS
  <2>1. /\ Indices = {1} /\ depth[1] = 0 /\ DOMAIN queue = {1} /\ queue[1] = 1
        /\ processed = {} /\ pc = "pop" /\ 0 <= bounds.max_depth
    <3>1. bounds.max_depth \in Nat
      BY SystemsAssumption DEF Init, AnalysisBounds
    <3> QED
      BY <3>1 DEF Init, Indices
  <2> QED
    BY <2>1 DEF Layered, QueueLayered, CurrentLayered, StepsLayered, KeysUnique, Due
<1>2. TypeOK /\ Layered /\ [Next]_vars => Layered'
  BY ExpandLayered, LimitLayered, RestLayered, KnownLayered, NewLayered DEF Next
<1> QED
  BY <1>1, <1>2, TypeCorrect, PTL DEF Spec

-----------------------------------------------------------------------------
(* The depths bound the executions from below. *)

(* A step from a state whose key is indexed goes at most one layer down, or
   the state is as deep as any. *)
LEMMA StepDescends ==
  ASSUME TypeOK, Layered, NEW i \in Indices, NEW j \in Indices, NEW n \in Node,
         sys.key[states[j]] = sys.key[n], NEW m \in Steps(sys, n)
  PROVE  \/ depth[i] <= depth[j] + 1
         \/ \E l \in Indices : sys.key[states[l]] = sys.key[m] /\ depth[l] <= depth[j] + 1
<1>1. \A k \in Indices : depth[k] \in Nat
  BY LayerTypes
<1>2. CASE j \notin processed
  BY <1>2 DEF Layered, QueueLayered, Due
<1>3. CASE j \in processed /\ ~(depth[j] < bounds.max_depth)
  <2>1. depth[i] <= bounds.max_depth
    BY DEF Layered, StepsLayered
  <2> QED
    BY <1>1, <1>3, <2>1, LayerTypes
<1>4. CASE j \in processed /\ depth[j] < bounds.max_depth
  <2>1. PICK a \in Steps(sys, states[j]) : sys.key[a] = sys.key[m]
    <3>1. states[j] \in Node /\ KeyIsCongruence(sys)
      BY SystemsAssumption DEF TypeOK, Indices
    <3>2. KeysOf(sys, Steps(sys, states[j])) = KeysOf(sys, Steps(sys, n))
      BY <3>1 DEF KeyIsCongruence
    <3> QED
      BY <3>2 DEF KeysOf
  <2>2. CASE StepIndexed(j, a)
    BY <2>1, <2>2 DEF StepIndexed
  <2>3. CASE StepPending(j, a)
    BY <2>3 DEF StepPending, Unfinished, Layered, CurrentLayered
  <2> QED
    BY <1>4, <2>1, <2>2, <2>3 DEF Layered, StepsLayered
<1> QED
  BY <1>2, <1>3, <1>4

(* The path counterexample() follows back from an index is as short as any:
   no execution reaches its key in fewer steps, even when a bound, an error or
   a deduplicated successor cut the search. *)
THEOREM Shortest == Spec => []CounterexampleShortest
<1>1. TypeOK /\ Layered /\ CounterexampleReplays => CounterexampleShortest
  <2> SUFFICES ASSUME TypeOK, Layered, CounterexampleReplays, NEW i \in Indices
               PROVE  \E b \in LowerBounds(depth[i]) :
                        \A n \in Node : sys.key[n] = sys.key[states[i]] => b[n] = depth[i]
    BY DEF CounterexampleShortest
  <2> DEFINE Near(n, j) == sys.key[states[j]] = sys.key[n] /\ depth[j] <= depth[i]
             At(n) == CHOOSE j \in Indices : Near(n, j)
             b == [n \in Node |-> IF \E j \in Indices : Near(n, j) THEN depth[At(n)] ELSE depth[i]]
  <2>1. \A j \in Indices : depth[j] \in Nat
    BY LayerTypes
  <2>2. ASSUME NEW n \in Node, NEW j \in Indices, Near(n, j)
        PROVE  b[n] = depth[j]
    <3>1. At(n) \in Indices /\ Near(n, At(n))
      BY <2>2
    <3>2. At(n) = j
      BY <2>2, <3>1 DEF Layered, KeysUnique
    <3> QED
      BY <2>2, <3>2
  <2>3. ASSUME NEW n \in Node, ~\E j \in Indices : Near(n, j)
        PROVE  b[n] = depth[i]
    BY <2>3
  <2>4. \A n \in Node : b[n] \in 0..depth[i]
    <3> SUFFICES ASSUME NEW n \in Node PROVE b[n] \in 0..depth[i]
      OBVIOUS
    <3> HIDE DEF b
    <3>1. CASE \E j \in Indices : Near(n, j)
      BY <2>1, <2>2, <3>1
    <3>2. CASE ~\E j \in Indices : Near(n, j)
      BY <2>1, <2>3, <3>2
    <3> QED
      BY <3>1, <3>2
  <2>5. b \in [Node -> 0..depth[i]]
    <3>1. DOMAIN b = Node /\ b = [n \in Node |-> b[n]]
      OBVIOUS
    <3> HIDE DEF b
    <3> QED
      BY <2>4, <3>1
  <2> HIDE DEF b
  <2>6. b[sys.init] = 0
    <3>1. 1 \in Indices /\ sys.init \in Node /\ states[1] = sys.init /\ depth[1] = 0
      BY SystemsAssumption DEF TypeOK, Indices, CounterexampleReplays
    <3>2. Near(sys.init, 1)
      BY <2>1, <3>1
    <3> QED
      BY <2>2, <3>1, <3>2
  <2>7. ASSUME NEW n \in Node, NEW m \in Steps(sys, n)
        PROVE  b[m] <= b[n] + 1
    <3>0. m \in Node
      BY <2>7, StepsInNode DEF TypeOK
    <3>1. CASE ~\E j \in Indices : Near(n, j)
      BY <2>1, <2>3, <2>4, <3>0, <3>1
    <3>2. CASE \E j \in Indices : Near(n, j)
      <4>1. PICK j \in Indices : Near(n, j)
        BY <3>2
      <4>2. b[n] = depth[j]
        BY <2>2, <4>1
      <4>3. CASE depth[i] <= depth[j] + 1
        BY <2>1, <2>4, <3>0, <4>2, <4>3
      <4>4. ASSUME NEW l \in Indices, sys.key[states[l]] = sys.key[m], depth[l] <= depth[j] + 1
            PROVE  b[m] <= b[n] + 1
        <5>1. CASE depth[l] <= depth[i]
          <6>1. b[m] = depth[l]
            BY <2>2, <3>0, <4>4, <5>1
          <6> QED
            BY <4>2, <4>4, <6>1
        <5>2. CASE ~(depth[l] <= depth[i])
          BY <2>1, <2>4, <3>0, <4>2, <4>4, <5>2
        <5> QED
          BY <5>1, <5>2
      <4> QED
        BY <4>1, <4>3, <4>4, StepDescends
    <3> QED
      BY <3>1, <3>2
  <2>8. \A n \in Node : sys.key[n] = sys.key[states[i]] => b[n] = depth[i]
    <3>1. \A n \in Node : sys.key[n] = sys.key[states[i]] => Near(n, i)
      BY <2>1
    <3> QED
      BY <2>2, <3>1
  <2> QED
    BY <2>5, <2>6, <2>7, <2>8 DEF LowerBounds
<1> QED
  BY <1>1, TypeCorrect, LayeredInvariant, CounterexamplesReplay, PTL
=============================================================================
