---------------------------- MODULE Repair_proofs ----------------------------
(***************************************************************************)
(* Proofs that the loop over a candidate file accepts the first candidate  *)
(* it may, that the replay accepts what a search exports, that the reason  *)
(* a search gives for ending without a repair is true, and that the repair *)
(* it accepts is permitted and no longer than any other, for every         *)
(* program, policy, oracle and budget.                                     *)
(***************************************************************************)
EXTENDS RepairProps, FiniteSetTheorems, SequenceTheorems, TLAPS

LOCAL INSTANCE SequencesExt

(* The candidates up to the first that is missing or stale, and those of them
   that the loop may accept *)
Enumerated == {k \in DOMAIN in.file : \A j \in 1..k : Offers(j)}
Content(k) == <<Offered(k).f, Offered(k).changes>>
Fresh(k)   == \A j \in 1..(k - 1) : Content(j) # Content(k)
Passes(k)  == /\ CheckAllowed(in, Offered(k)) /\ Applies(in.program, Offered(k))
              /\ Apply(in.program, Offered(k)) \in in.valid
              /\ in.verdict[Apply(in.program, Offered(k))] = "PASS"
Good == {k \in Enumerated : Passes(k) /\ Fresh(k) /\ k <= in.candidates}

(* The attempts of the loop so far are the first candidates, and none was good. *)
Rejections == {"duplicate", "denied", "apply-error", "static-invalid", "unsupported", "none"}
Judgements == [parent : {None}, patch : {Offered(k) : k \in DOMAIN in.file},
               result : Rejections \union {"verified"}, reused : {None},
               program : {None} \union {Apply(in.program, Offered(k)) : k \in DOMAIN in.file},
               outcome : {None} \union
                         {in.verdict[Apply(in.program, Offered(k))] : k \in DOMAIN in.file}]
Looping ==
  /\ pc = "round"
  /\ attempts \in Seq(Judgements) /\ cursor = Len(attempts) /\ cursor <= in.candidates
  /\ \A k \in 1..cursor : Offers(k) /\ attempts[k].patch = Offered(k)
  /\ \A k \in 1..cursor : k \notin Good

FirstFound ==
  /\ result.outcome = "Repaired" <=> Good # {}
  /\ result.outcome = "Repaired" =>
       /\ result.accepted \in Good /\ \A k \in Good : result.accepted <= k
       /\ attempts[result.accepted].program = Apply(in.program, Offered(result.accepted))
  /\ result.outcome = "NoAcceptableCandidate" => Cardinality(Enumerated) < in.candidates

LoopInv ==
  /\ in \in Inputs
  /\ in.strategy = "file" => Looping \/ (pc = "done" /\ FirstFound)

(* No step of the search or the loop changes its input. *)
LEMMA InputKept ==
  ASSUME Next \/ LoopNext
  PROVE  in' = in
BY DEF Next, LoopNext, RefuseConfig, VerifyRoot, Pop, Exhausted, CandidateBudget,
       NoMoreCandidates, Propose, Reject, Reuse, BudgetBlocked, Verify, Proposes, Stop,
       Round, NoMoreRounds, NothingOffered, EndLoop

(* The search takes no step of the loop's. *)
LEMMA SearchElsewhere ==
  ASSUME Next
  PROVE  pc \notin {"round", "done"}
BY DEF Next, RefuseConfig, VerifyRoot, Pop, Exhausted, CandidateBudget, NoMoreCandidates, Propose

(* A candidate is tried in its round exactly if it repeats none. *)
LEMMA TriedOrFresh ==
  ASSUME Looping, Offers(cursor + 1)
  PROVE  Tried(Offered(cursor + 1)) <=> ~Fresh(cursor + 1)
<1>1. cursor \in Nat /\ DOMAIN attempts = 1..cursor /\ (cursor + 1) - 1 = cursor
  BY DEF Looping
<1>2. \A j \in 1..cursor : attempts[j].patch = Offered(j)
  BY DEF Looping
<1>3. \A j \in 1..cursor :
        SameContent(attempts[j].patch, Offered(cursor + 1)) <=> Content(j) = Content(cursor + 1)
  BY <1>2 DEF SameContent, Content
<1> QED
  BY <1>1, <1>3 DEF Tried, Fresh

(* A rejected candidate, and one whose verdict is no PASS, is not good. *)
LEMMA RejectedNotGood ==
  ASSUME Looping, Offers(cursor + 1), RoundRejection(Offered(cursor + 1)) # "none"
  PROVE  cursor + 1 \notin Good
BY TriedOrFresh DEF RoundRejection, Good, Passes

(* The rounds so far are the candidates enumerated so far. *)
LEMMA RoundsEnumerate ==
  ASSUME Looping, in \in Inputs
  PROVE  /\ cursor \in Nat /\ in.candidates \in Nat /\ 1..cursor \subseteq Enumerated
         /\ Good \subseteq Enumerated /\ Enumerated \subseteq Nat \ {0}
         /\ Offers(cursor + 1) => cursor + 1 \in Enumerated
         /\ ~Offers(cursor + 1) => Enumerated = 1..cursor
<1>1. cursor \in Nat
  BY DEF Looping
<1>2. Len(in.file) \in Nat /\ DOMAIN in.file = 1..Len(in.file) /\ in.candidates \in Nat
  BY InputsAssumption
<1>3. \A k \in 1..cursor : Offers(k) /\ k \in DOMAIN in.file
  BY DEF Looping, Offers
<1>4. 1..cursor \subseteq Enumerated
  <2> SUFFICES ASSUME NEW k \in 1..cursor
               PROVE  k \in Enumerated
    OBVIOUS
  <2>1. \A j \in 1..k : j \in 1..cursor
    BY <1>1
  <2> QED
    BY <1>3, <2>1 DEF Enumerated
<1>5. Enumerated \subseteq Nat \ {0}
  BY <1>2 DEF Enumerated
<1>6. ASSUME Offers(cursor + 1)
      PROVE  cursor + 1 \in Enumerated
  <2>1. \A j \in 1..(cursor + 1) : j \in 1..cursor \/ j = cursor + 1
    BY <1>1
  <2>2. cursor + 1 \in DOMAIN in.file
    BY <1>6 DEF Offers
  <2> QED
    BY <1>3, <1>6, <2>1, <2>2 DEF Enumerated
<1>7. ASSUME ~Offers(cursor + 1)
      PROVE  Enumerated = 1..cursor
  <2> SUFFICES ASSUME NEW k \in Enumerated
               PROVE  k \in 1..cursor
    BY <1>4
  <2>1. k \in Nat /\ k >= 1 /\ \A j \in 1..k : Offers(j)
    BY <1>5 DEF Enumerated
  <2>2. cursor + 1 \notin 1..k
    BY <1>7, <2>1
  <2> QED
    BY <1>1, <2>1, <2>2
<1> QED
  BY <1>1, <1>2, <1>4, <1>5, <1>6, <1>7 DEF Good

(* A round rejects a candidate that is not good, or ends the loop at the first
   good one. *)
LEMMA RoundKeeps ==
  ASSUME Looping, in \in Inputs, in.strategy = "file", Round
  PROVE  (Looping \/ (pc = "done" /\ FirstFound))'
<1> DEFINE n == cursor + 1
           c == Offered(n)
<1>1. /\ Offers(n) /\ cursor' = n /\ cursor \in Nat /\ n \in Nat \ {0} /\ n <= in.candidates
      /\ in' = in /\ n - 1 = cursor
  BY RoundsEnumerate DEF Round, Looping
<1>2. /\ \A k : Offered(k)' = Offered(k) /\ (Offers(k))' = Offers(k)
      /\ Good' = Good /\ Enumerated' = Enumerated
  BY <1>1 DEF Offered, Offers, Good, Enumerated, Passes, Fresh, Content, CheckAllowed
<1>3. n \in DOMAIN in.file /\ n \in Enumerated /\ 1..n = 1..cursor \union {n}
  BY <1>1, RoundsEnumerate DEF Offers
<1>4. ASSUME NEW x, x \in Judgements, x.patch = c, attempts' = Append(attempts, x),
             n \notin Good, pc' = pc
      PROVE  Looping'
  <2>1. attempts' \in Seq(Judgements) /\ Len(attempts') = n
    BY <1>1, <1>4 DEF Looping
  <2>2. \A k \in 1..cursor : attempts'[k] = attempts[k]
    BY <1>1, <1>4 DEF Looping
  <2>3. attempts'[n] = x
    BY <1>1, <1>4 DEF Looping
  <2>4. \A k \in 1..n : Offers(k) /\ attempts'[k].patch = Offered(k)
    BY <1>1, <1>3, <1>4, <2>2, <2>3 DEF Looping
  <2>5. Judgements' = Judgements
    <3> HIDE DEF n, c
    <3>1. in' = in /\ \A k : Offered(k)' = Offered(k)
      BY <1>1, <1>2
    <3>2. {Offered(k) : k \in DOMAIN in.file}' = {Offered(k) : k \in DOMAIN in.file}
      BY <3>1
    <3>3. {Apply(in.program, Offered(k)) : k \in DOMAIN in.file}'
          = {Apply(in.program, Offered(k)) : k \in DOMAIN in.file}
      BY <3>1
    <3>4. {in.verdict[Apply(in.program, Offered(k))] : k \in DOMAIN in.file}'
          = {in.verdict[Apply(in.program, Offered(k))] : k \in DOMAIN in.file}
      BY <3>1
    <3> QED
      BY <3>2, <3>3, <3>4 DEF Judgements
  <2> QED
    BY <1>1, <1>2, <1>3, <1>4, <2>1, <2>4, <2>5 DEF Looping
<1>5. CASE RejectInRound(c)
  <2>1. n \notin Good
    BY <1>1, <1>5, RejectedNotGood DEF RejectInRound
  <2>2. RoundRejection(c) \in Rejections
    BY DEF RoundRejection, Rejections
  <2>3. Judged(c, RoundRejection(c), None, None) \in Judgements
    BY <1>3, <2>2 DEF Judged, Judgements
  <2>4. Judged(c, RoundRejection(c), None, None).patch = c
    BY DEF Judged
  <2> QED
    BY <1>4, <1>5, <2>1, <2>3, <2>4 DEF RejectInRound
<1>6. CASE VerifyInRound(c)
  <2> DEFINE p == Apply(in.program, c)
             x == Judged(c, "verified", p, in.verdict[p])
  <2>1. x \in Judgements /\ x.patch = c
    BY <1>3 DEF Judged, Judgements
  <2>2. CASE in.verdict[p] # "PASS"
    <3>1. n \notin Good
      BY <2>2 DEF Good, Passes
    <3>2. attempts' = Append(attempts, x) /\ pc' = pc
      BY <1>6, <2>2 DEF VerifyInRound
    <3> HIDE DEF x
    <3> QED
      BY <1>4, <2>1, <3>1, <3>2
  <2>3. CASE in.verdict[p] = "PASS"
    <3>1. /\ pc' = "done" /\ result'.outcome = "Repaired"
          /\ result'.accepted = Len(attempts) + 1
      BY <1>6, <2>3 DEF VerifyInRound
    <3>2. result'.accepted = n
      BY <3>1 DEF Looping
    <3>3. Passes(n)
      BY <1>6, <2>3 DEF VerifyInRound, RoundRejection, Passes
    <3>4. Fresh(n)
      BY <1>1, <1>6, TriedOrFresh DEF VerifyInRound, RoundRejection
    <3>5. n \in Good
      BY <1>1, <1>3, <3>3, <3>4 DEF Good
    <3>6. \A k \in Good : n <= k
      <4> SUFFICES ASSUME NEW k \in Good, ~(n <= k)
                   PROVE  FALSE
        OBVIOUS
      <4>1. k \in Nat \ {0}
        BY RoundsEnumerate
      <4>2. k \in 1..cursor
        BY <1>1, <4>1
      <4> QED
        BY <4>2 DEF Looping
    <3>7. attempts'[n].program = Apply(in.program, Offered(n))
      <4>1. attempts' = Append(attempts, x)
        BY <1>6 DEF VerifyInRound
      <4>2. x.program = p
        BY DEF Judged
      <4> HIDE DEF x, p
      <4>3. attempts'[n] = x
        BY <1>1, <2>1, <4>1 DEF Looping
      <4> QED
        BY <4>2, <4>3 DEF p
    <3>8. /\ result'.outcome = "Repaired" <=> Good' # {}
          /\ result'.outcome = "Repaired" =>
               result'.accepted \in Good' /\ \A k \in Good' : result'.accepted <= k
          /\ result'.outcome = "NoAcceptableCandidate" => Cardinality(Enumerated') < in'.candidates
      BY <1>2, <3>1, <3>2, <3>5, <3>6
    <3>9. attempts'[result'.accepted].program = Apply(in'.program, Offered(result.accepted)')
      BY <1>1, <3>2, <3>7 DEF Offered
    <3> QED
      BY <3>1, <3>8, <3>9 DEF FirstFound
  <2> QED
    BY <2>2, <2>3
<1> QED
  BY <1>5, <1>6 DEF Round

(* The loop ends without a repair where no candidate is left, or no budget. *)
LEMMA EndKeeps ==
  ASSUME Looping, in \in Inputs, in.strategy = "file", NoMoreRounds \/ NothingOffered
  PROVE  (pc = "done" /\ FirstFound)'
<1>1. /\ pc' = "done" /\ in' = in /\ result'.outcome # "Repaired"
      /\ NoMoreRounds => result'.outcome # "NoAcceptableCandidate"
  BY DEF NoMoreRounds, NothingOffered, EndLoop, Stop, Finished, Triple
<1>2. Good' = Good /\ Enumerated' = Enumerated
  BY <1>1 DEF Offered, Offers, Good, Enumerated, Passes, Fresh, Content, CheckAllowed
<1>3. Good = {}
  <2> SUFFICES ASSUME NEW k \in Good
               PROVE  k \in 1..cursor
    BY DEF Looping
  <2>1. k \in Enumerated /\ k <= in.candidates
    BY DEF Good
  <2>2. CASE NoMoreRounds
    <3>1. in.candidates <= cursor
      BY <2>2 DEF NoMoreRounds, Looping
    <3> QED
      BY <2>1, <3>1, RoundsEnumerate
  <2>3. CASE NothingOffered
    BY <2>1, <2>3, RoundsEnumerate DEF NothingOffered
  <2> QED
    BY <2>2, <2>3
<1>4. NothingOffered => Cardinality(Enumerated) < in.candidates
  <2> SUFFICES ASSUME NothingOffered
               PROVE  Cardinality(Enumerated) < in.candidates
    OBVIOUS
  <2>1. Enumerated = 1..cursor /\ cursor \in Nat /\ cursor < in.candidates
    BY RoundsEnumerate DEF NothingOffered, Looping
  <2>2. Cardinality(1..cursor) = cursor
    BY <2>1, FS_Interval
  <2> QED
    BY <2>1, <2>2
<1>5. /\ result'.outcome # "Repaired" /\ Good' = {}
      /\ result'.outcome = "NoAcceptableCandidate" => Cardinality(Enumerated') < in'.candidates
  BY <1>1, <1>2, <1>3, <1>4
<1> QED
  BY <1>1, <1>5 DEF FirstFound

(* Every step keeps the rounds of the loop. *)
LEMMA LoopInvariant ==
  ASSUME LoopInv, [Next \/ LoopNext]_vars
  PROVE  LoopInv'
<1>1. CASE in.strategy # "file" /\ (Next \/ LoopNext)
  BY <1>1, InputKept DEF LoopInv
<1>2. CASE in.strategy = "file" /\ (Next \/ LoopNext)
  <2>1. in' = in /\ in \in Inputs
    BY <1>2, InputKept DEF LoopInv
  <2>2. Looping /\ LoopNext
    BY <1>2, SearchElsewhere
       DEF LoopInv, Looping, LoopNext, Round, NoMoreRounds, NothingOffered
  <2> QED
    BY <1>2, <2>1, <2>2, RoundKeeps, EndKeeps DEF LoopNext, LoopInv
<1>3. CASE UNCHANGED vars
  <2>1. in' = in
    BY <1>3 DEF vars
  <2>2. /\ \A k : Offered(k)' = Offered(k) /\ (Offers(k))' = Offers(k)
        /\ Good' = Good /\ Enumerated' = Enumerated /\ Judgements' = Judgements
    BY <2>1 DEF Judgements, Offered, Offers, Good, Enumerated, Passes, Fresh, Content, CheckAllowed
  <2>3. FirstFound => FirstFound'
    BY <1>3, <2>1, <2>2 DEF vars, FirstFound, Offered
  <2>4. Looping => Looping'
    BY <1>3, <2>1, <2>2 DEF vars, Looping
  <2> QED
    BY <1>3, <2>1, <2>3, <2>4 DEF vars, LoopInv
<1> QED
  BY <1>1, <1>2, <1>3

(* The loop over a file of candidates accepts the first that is permitted,
   applies, is valid and passes, each content counting once, and gives up only
   where there is none within the budget. *)
THEOREM FileLoop == RepairSpec => []FileLoopFindsFirst
<1>1. Init => LoopInv
  BY InputsAssumption DEF Init, LoopInv, Looping
<1>2. LoopInv /\ [Next \/ LoopNext]_vars => LoopInv'
  BY LoopInvariant
<1>3. LoopInv => FileLoopFindsFirst
  BY DEF LoopInv, Looping, FirstFound, FileLoopFindsFirst, Searching,
         Good, Enumerated, Passes, Fresh, Content
<1> QED
  BY <1>1, <1>2, <1>3, PTL DEF RepairSpec

-----------------------------------------------------------------------------
(* The replay. First what it asks of a record (Sound), and that each kind of
   line can be added; then that the search adds no other (SearchInv). *)

(* Induction over the natural numbers, for a set rather than a predicate: what
   is missing from S would be closed under predecessors, and the predecessors
   of finitely many numbers would fit into fewer. *)
LEMMA NatInductionOn ==
  ASSUME NEW S, 0 \in S, \A n \in Nat : n \in S => n + 1 \in S
  PROVE  Nat \subseteq S
<1> SUFFICES ASSUME NEW n \in Nat, n \notin S
             PROVE  FALSE
  OBVIOUS
<1> DEFINE B == {m \in 0..n : m \notin S}
           f == [m \in B |-> m - 1]
<1>1. IsFiniteSet(B) /\ n \in B
  <2>1. IsFiniteSet(0..n)
    BY FS_Interval
  <2>2. B \in SUBSET (0..n)
    OBVIOUS
  <2> HIDE DEF B
  <2>3. IsFiniteSet(B)
    BY <2>1, <2>2, FS_Subset
  <2> QED
    BY <2>3 DEF B
<1>2. IsFiniteSet(B \ {n}) /\ Cardinality(B \ {n}) = Cardinality(B) - 1 /\ Cardinality(B) \in Nat
  <2> HIDE DEF B
  <2> QED
    BY <1>1, FS_RemoveElement, FS_CardinalityType
<1>3. f \in [B -> B \ {n}]
  <2> SUFFICES ASSUME NEW m \in B
               PROVE  m - 1 \in B \ {n}
    OBVIOUS
  <2>1. m \in Nat \ {0} /\ m <= n /\ m \notin S
    OBVIOUS
  <2>2. m - 1 \in Nat /\ (m - 1) + 1 = m
    BY <2>1
  <2>3. m - 1 \notin S
    BY <2>1, <2>2
  <2> QED
    BY <2>1, <2>2, <2>3
<1>4. \A x, y \in B : f[x] = f[y] => x = y
  OBVIOUS
<1> DEFINE C == B \ {n}
<1> HIDE DEF B, C, f
<1>5. \E x, y \in B : x # y /\ f[x] = f[y]
  <2>1. /\ IsFiniteSet(B) /\ IsFiniteSet(C) /\ Cardinality(C) < Cardinality(B)
        /\ f \in [B -> C]
    BY <1>1, <1>2, <1>3 DEF C
  <2> QED
    BY <2>1, FS_PigeonHole
<1> QED
  BY <1>4, <1>5

(* Prefixes of a sequence of sequences can be joined one after the other. *)
Joined(f, ss, n, T) ==
  /\ f \in [1..n -> Seq(T)]
  /\ \A i \in 1..n : f[i] = IF i = 1 THEN ss[i] ELSE f[i - 1] \o ss[i]

(* The joins of the prefixes exist, one longer than the other. *)
LEMMA JoinExists ==
  ASSUME NEW T, NEW ss \in Seq(Seq(T))
  PROVE  \A n \in Nat : n <= Len(ss) => \E f : Joined(f, ss, n, T)
<1> DEFINE S == {n \in Nat : n <= Len(ss) => \E f : Joined(f, ss, n, T)}
<1>1. 0 \in S
  <2>1. Joined([i \in 1..0 |-> ss], ss, 0, T)
    BY DEF Joined
  <2> QED
    BY <2>1
<1>2. ASSUME NEW n \in Nat, n \in S
      PROVE  n + 1 \in S
  <2> SUFFICES ASSUME n + 1 <= Len(ss)
               PROVE  \E g : Joined(g, ss, n + 1, T)
    OBVIOUS
  <2>0. Len(ss) \in Nat /\ \A i \in 1..Len(ss) : ss[i] \in Seq(T)
    OBVIOUS
  <2>1. PICK f : Joined(f, ss, n, T)
    BY <1>2, <2>0
  <2> DEFINE last == IF n = 0 THEN ss[1] ELSE f[n] \o ss[n + 1]
             g == [i \in 1..(n + 1) |-> IF i = n + 1 THEN last ELSE f[i]]
  <2>2. last \in Seq(T)
    <3>1. ss[n + 1] \in Seq(T)
      BY <2>0
    <3>2. CASE n = 0
      BY <3>1, <3>2
    <3>3. CASE n # 0
      <4>1. f[n] \in Seq(T)
        BY <2>1, <3>3 DEF Joined
      <4> QED
        BY <3>1, <3>3, <4>1
    <3> QED
      BY <3>2, <3>3
  <2>3. \A i \in 1..n : f[i] \in Seq(T) /\ f[i] = IF i = 1 THEN ss[i] ELSE f[i - 1] \o ss[i]
    BY <2>1 DEF Joined
  <2>4. ASSUME NEW i \in 1..(n + 1)
        PROVE  g[i] = IF i = 1 THEN ss[i] ELSE g[i - 1] \o ss[i]
    <3>1. CASE i = n + 1
      BY <3>1
    <3>2. CASE i # n + 1
      <4>1. i \in 1..n /\ (i # 1 => i - 1 \in 1..n /\ i - 1 # n + 1 /\ i - 1 \in 1..(n + 1))
        BY <3>2
      <4>2. g[i] = f[i] /\ (i # 1 => g[i - 1] = f[i - 1])
        BY <3>2, <4>1
      <4> HIDE DEF g
      <4> QED
        BY <2>3, <4>1, <4>2
    <3> QED
      BY <3>1, <3>2
  <2>5. g \in [1..(n + 1) -> Seq(T)]
    BY <2>2, <2>3
  <2> HIDE DEF g
  <2> QED
    BY <2>4, <2>5 DEF Joined
<1> HIDE DEF S
<1>3. Nat \subseteq S
  BY <1>1, <1>2, NatInductionOn
<1> QED
  BY <1>3 DEF S

(* Joining sequences over a set gives one. *)
LEMMA FlattenInSeq ==
  ASSUME NEW T, NEW ss \in Seq(Seq(T))
  PROVE  FlattenSeq(ss) \in Seq(T)
<1> DEFINE Is(f) == f = [i \in 1..Len(ss) |-> IF i = 1 THEN ss[i] ELSE f[i - 1] \o ss[i]]
           flatten == CHOOSE f : Is(f)
<1>1. CASE Len(ss) = 0
  <2>1. ss = <<>>
    BY <1>1, EmptySeq
  <2> QED
    BY <1>1, <2>1 DEF FlattenSeq
<1>2. CASE Len(ss) # 0
  <2>1. FlattenSeq(ss) = flatten[Len(ss)]
    BY <1>2 DEF FlattenSeq
  <2>2. Is(flatten)
    <3>1. PICK f : Joined(f, ss, Len(ss), T)
      BY JoinExists
    <3>2. Is(f)
      BY <3>1 DEF Joined
    <3> HIDE DEF Is
    <3> QED
      BY <3>2
  <2> HIDE DEF flatten
  <2>3. Len(ss) \in Nat \ {0} /\ \A i \in 1..Len(ss) : ss[i] \in Seq(T)
    BY <1>2
  <2>4. \A i \in 1..Len(ss) : flatten[i] = IF i = 1 THEN ss[i] ELSE flatten[i - 1] \o ss[i]
    BY <2>2
  <2> DEFINE S == {n \in Nat : n \in 1..Len(ss) => flatten[n] \in Seq(T)}
  <2>5. 0 \in S /\ \A n \in Nat : n \in S => n + 1 \in S
    <3>1. 0 \in S
      OBVIOUS
    <3>2. ASSUME NEW n \in Nat, n \in S, n + 1 \in 1..Len(ss)
          PROVE  flatten[n + 1] \in Seq(T)
      <4>1. CASE n = 0
        BY <2>3, <2>4, <3>2, <4>1
      <4>2. CASE n # 0
        <5>1. n \in 1..Len(ss) /\ flatten[n] \in Seq(T) /\ ss[n + 1] \in Seq(T)
          BY <2>3, <3>2, <4>2
        <5>2. n + 1 # 1 /\ (n + 1) - 1 = n
          BY <4>2
        <5>3. flatten[n + 1] = flatten[n] \o ss[n + 1]
          BY <2>4, <3>2, <5>2
        <5> QED
          BY <5>1, <5>3
      <4> QED
        BY <4>1, <4>2
    <3> QED
      BY <3>1, <3>2
  <2> HIDE DEF S
  <2>6. Nat \subseteq S
    BY <2>5, NatInductionOn
  <2>7. flatten[Len(ss)] \in Seq(T)
    BY <2>3, <2>6 DEF S
  <2> QED
    BY <2>1, <2>7
<1> QED
  BY <1>1, <1>2

(* The swaps of neighbours in a program *)
Swappable(i, p, f) == {k \in 1..(Len(p[f]) - 1) : IsTarget(i, f, p[f][k], p[f][k + 1])}
SwapPatches(i, p) == UNION {{SwapOf(p, f, k) : k \in Swappable(i, p, f)} : f \in Functions}

(* Every candidate changes one pair of statements. *)
LEMMA CandidateIsSwap ==
  ASSUME NEW i, NEW p, FunctionOrder \in Seq(Functions),
         \A f \in Functions : Len(p[f]) \in Nat
  PROVE  Candidates(i, p) \in Seq(SwapPatches(i, p))
<1> DEFINE T == SwapPatches(i, p)
<1>1. ASSUME NEW f \in Functions
      PROVE  Swaps(i, p, f) \in Seq(T)
  <2> DEFINE Listed(a, b) == IsTarget(i, f, a, b) /\ Touches(i, p, a, b)
             ss == [k \in 1..(Len(p[f]) - 1) |->
                      IF Listed(p[f][k], p[f][k + 1]) THEN <<SwapOf(p, f, k)>> ELSE <<>>]
  <2>1. Swaps(i, p, f) = FlattenSeq(ss)
    BY DEF Swaps
  <2>2. \A k \in 1..(Len(p[f]) - 1) : ss[k] \in Seq(T)
    <3> SUFFICES ASSUME NEW k \in 1..(Len(p[f]) - 1)
                 PROVE  ss[k] \in Seq(T)
      OBVIOUS
    <3>1. Listed(p[f][k], p[f][k + 1]) => SwapOf(p, f, k) \in T
      BY DEF SwapPatches, Swappable
    <3> HIDE DEF T
    <3>2. <<>> \in Seq(T) /\ (SwapOf(p, f, k) \in T => <<SwapOf(p, f, k)>> \in Seq(T))
      OBVIOUS
    <3> QED
      BY <3>1, <3>2
  <2>3. ss \in Seq(Seq(T))
    <3>1. PICK n \in Nat : 1..(Len(p[f]) - 1) = 1..n
      <4>1. CASE Len(p[f]) = 0
        <5>1. 1..(Len(p[f]) - 1) = 1..0
          BY <4>1
        <5> QED
          BY <5>1
      <4>2. CASE Len(p[f]) # 0
        <5>1. Len(p[f]) - 1 \in Nat
          BY <4>2
        <5> QED
          BY <5>1
      <4> QED
        BY <4>1, <4>2
    <3>2. DOMAIN ss = 1..n
      BY <3>1
    <3>3. \A k \in 1..n : ss[k] \in Seq(T)
      BY <2>2, <3>1
    <3>4. ss = [k \in 1..n |-> ss[k]]
      BY <3>2
    <3> HIDE DEF ss, T
    <3> QED
      BY <3>3, <3>4
  <2> HIDE DEF ss, T
  <2> QED
    BY <2>1, <2>3, FlattenInSeq
<1>2. CASE i.reorder
  <2> DEFINE ss == [k \in DOMAIN FunctionOrder |-> Swaps(i, p, FunctionOrder[k])]
  <2>1. Candidates(i, p) = FlattenSeq(ss)
    BY <1>2 DEF Candidates
  <2>2. \A k \in DOMAIN FunctionOrder : FunctionOrder[k] \in Functions
    BY DEF Functions
  <2>3. ss \in Seq(Seq(T))
    <3> HIDE DEF T
    <3>1. DOMAIN FunctionOrder = 1..Len(FunctionOrder) /\ Len(FunctionOrder) \in Nat
      OBVIOUS
    <3>2. \A k \in 1..Len(FunctionOrder) : Swaps(i, p, FunctionOrder[k]) \in Seq(T)
      BY <1>1, <2>2, <3>1
    <3>3. ss = [k \in 1..Len(FunctionOrder) |-> Swaps(i, p, FunctionOrder[k])]
      BY <3>1
    <3> HIDE DEF ss
    <3> QED
      BY <3>1, <3>2, <3>3
  <2> HIDE DEF ss, T
  <2> QED
    BY <2>1, <2>3, FlattenInSeq DEF T
<1>3. CASE ~i.reorder
  BY <1>3 DEF Candidates
<1> QED
  BY <1>2, <1>3

(* Artifacts that replay: the record of a search so far. a stands for the
   artifact of some state. *)

PatchesOf(i) == UNION {SwapPatches(i, p) : p \in DOMAIN i.verdict}
Verdicts == {"PASS", "FAIL", "UNKNOWN", "INVALID", "UNSUPPORTED"}
Results == {"denied", "apply-error", "static-invalid", "reused", "budget-blocked", "verified"}

NodeRecords(i) ==
  [program : DOMAIN i.verdict, parent : Nat \union {None}, depth : Nat, edits : Nat,
   patch : PatchesOf(i) \union {None}, outcome : Verdicts]
AttemptRecords(i) ==
  [parent : Nat, patch : PatchesOf(i), result : Results, reused : Nat \union {None},
   program : DOMAIN i.verdict \union {None}, outcome : Verdicts \union {None}]

NodeSound(a, k) ==
  LET n == a.nodes[k] IN
  /\ NodeWellPlaced(a, k)
  /\ ReportsMatch(a, n.program, n.outcome)
  /\ n.depth <= a.input.maxDepth /\ n.edits <= a.input.maxEdits
  /\ k = 1 => n.program = a.input.program
  /\ k # 1 => LET base == a.nodes[n.parent].program IN
              /\ CheckAllowed(a.input, n.patch)
              /\ Applies(base, n.patch)
              /\ Apply(base, n.patch) = n.program
              /\ n.patch \in PatchesOf(a.input)
              /\ a.input.strategy = "single" => n.parent = 1 /\ n.depth = 1

AttemptSound(a, k) ==
  /\ AttemptWellFormed(a, a.attempts[k]) /\ AttemptExplained(a, k)
  /\ a.input.strategy = "single" => a.attempts[k].parent = 1

Typed(a) ==
  /\ a.input \in Inputs
  /\ a.nodes \in Seq(NodeRecords(a.input)) /\ Len(a.nodes) >= 1
  /\ a.attempts \in Seq(AttemptRecords(a.input))

Sound(a) ==
  /\ Typed(a)
  /\ \A k \in DOMAIN a.nodes : NodeSound(a, k)
  /\ \A j, k \in DOMAIN a.nodes : a.nodes[j].program = a.nodes[k].program => j = k
  /\ \A k \in DOMAIN a.attempts : AttemptSound(a, k)
  /\ VerifiedBefore(a, Len(a.attempts) + 1) = Len(a.nodes)
  /\ Len(a.attempts) <= a.input.candidates /\ Len(a.nodes) <= a.input.verifications

(* b records what a does, and possibly more. *)
Extends(a, b) ==
  /\ Typed(a) /\ Typed(b) /\ b.input = a.input
  /\ \A k \in DOMAIN a.nodes : k \in DOMAIN b.nodes /\ b.nodes[k] = a.nodes[k]
  /\ \A k \in DOMAIN a.attempts : k \in DOMAIN b.attempts /\ b.attempts[k] = a.attempts[k]

(* A patch of the search makes one change, and is a patch. *)
LEMMA PatchShape ==
  ASSUME NEW i \in Inputs, NEW c \in PatchesOf(i)
  PROVE  c # None /\ Len(c.changes) = 1
<1>1. PICK p \in DOMAIN i.verdict : c \in SwapPatches(i, p)
  BY DEF PatchesOf
<1>2. PICK f \in Functions : \E k \in 1..(Len(p[f]) - 1) : c = SwapOf(p, f, k)
  BY <1>1 DEF SwapPatches, Swappable
<1>3. PICK k \in 1..(Len(p[f]) - 1) : c = SwapOf(p, f, k)
  BY <1>2
<1>4. c # None
  BY <1>3, PatchAssumption
<1>5. Len(c.changes) = 1
  BY <1>3 DEF SwapOf
<1> QED
  BY <1>4, <1>5

(* The number of verified attempts before the k-th *)
LEMMA VerifiedFinite ==
  ASSUME NEW a, NEW k \in Nat \ {0}
  PROVE  /\ IsFiniteSet({j \in 1..(k - 1) : a.attempts[j].result = "verified"})
         /\ VerifiedBefore(a, k) \in Nat \ {0}
<1> DEFINE V == {j \in 1..(k - 1) : a.attempts[j].result = "verified"}
<1>1. IsFiniteSet(1..(k - 1))
  BY FS_Interval
<1>2. V \in SUBSET (1..(k - 1))
  OBVIOUS
<1>3. VerifiedBefore(a, k) = 1 + Cardinality(V)
  BY DEF VerifiedBefore
<1> HIDE DEF V
<1>4. IsFiniteSet(V)
  BY <1>1, <1>2, FS_Subset
<1>5. Cardinality(V) \in Nat
  BY <1>4, FS_CardinalityType
<1> QED
  BY <1>3, <1>4, <1>5 DEF V

(* The count depends on the attempts before the k-th only. *)
LEMMA VerifiedKept ==
  ASSUME NEW a, NEW b, Extends(a, b), NEW k \in 1..(Len(a.attempts) + 1)
  PROVE  VerifiedBefore(b, k) = VerifiedBefore(a, k)
<1>1. \A j \in 1..(k - 1) : b.attempts[j] = a.attempts[j]
  BY DEF Extends, Typed
<1>2. {j \in 1..(k - 1) : b.attempts[j].result = "verified"}
        = {j \in 1..(k - 1) : a.attempts[j].result = "verified"}
  BY <1>1
<1> QED
  BY <1>2 DEF VerifiedBefore

(* and grows by one with a verified attempt. *)
LEMMA VerifiedNext ==
  ASSUME NEW a, NEW k \in Nat \ {0}
  PROVE  VerifiedBefore(a, k + 1)
           = VerifiedBefore(a, k) + (IF a.attempts[k].result = "verified" THEN 1 ELSE 0)
<1> DEFINE V == {j \in 1..(k - 1) : a.attempts[j].result = "verified"}
           W == {j \in 1..((k + 1) - 1) : a.attempts[j].result = "verified"}
<1>1. VerifiedBefore(a, k) = 1 + Cardinality(V) /\ VerifiedBefore(a, k + 1) = 1 + Cardinality(W)
  BY DEF VerifiedBefore
<1>2. IsFiniteSet(V) /\ k \notin V
  <2>1. IsFiniteSet(V)
    BY VerifiedFinite
  <2>2. k \notin V
    OBVIOUS
  <2> QED
    BY <2>1, <2>2
<1>3. W = IF a.attempts[k].result = "verified" THEN V \union {k} ELSE V
  <2>1. 1..((k + 1) - 1) = 1..(k - 1) \union {k}
    OBVIOUS
  <2> QED
    BY <2>1
<1>4. Cardinality(V) \in Nat /\ Cardinality(V \union {k}) = Cardinality(V) + 1
  <2> HIDE DEF V
  <2> QED
    BY <1>2, FS_AddElement, FS_CardinalityType
<1> HIDE DEF V, W
<1> QED
  BY <1>1, <1>3, <1>4

(* What has been recorded stays sound, unless it was the last attempt of all. *)
LEMMA NodeKept ==
  ASSUME NEW a, NEW b, Extends(a, b), NEW k \in DOMAIN a.nodes, NodeSound(a, k)
  PROVE  NodeSound(b, k)
<1>1. /\ b.nodes[k] = a.nodes[k] /\ b.input = a.input
      /\ k # 1 => a.nodes[k].parent \in DOMAIN a.nodes
                  /\ b.nodes[a.nodes[k].parent] = a.nodes[a.nodes[k].parent]
  BY DEF Extends, Typed, NodeSound, NodeWellPlaced
<1> QED
  BY <1>1 DEF NodeSound, NodeWellPlaced, ReportsMatch

(* An attempt stays explained when more is recorded. One that the budget blocked
   would not: it says that no node has its program, which the next may have. *)
LEMMA AttemptKept ==
  ASSUME NEW a, NEW b, Extends(a, b), NEW k \in DOMAIN a.attempts, AttemptSound(a, k),
         a.attempts[k].result # "budget-blocked"
  PROVE  AttemptSound(b, k)
<1> DEFINE x == a.attempts[k]
<1>1. /\ b.attempts[k] = x /\ b.input = a.input
      /\ x.parent \in DOMAIN a.nodes
      /\ \A j \in DOMAIN a.nodes : j \in DOMAIN b.nodes /\ b.nodes[j] = a.nodes[j]
  BY DEF Extends, Typed, AttemptSound, AttemptWellFormed
<1>2. VerifiedBefore(b, k) = VerifiedBefore(a, k)
  <2>1. k \in 1..(Len(a.attempts) + 1)
    BY DEF Extends, Typed
  <2> QED
    BY <2>1, VerifiedKept
<1>3. b.nodes[x.parent] = a.nodes[x.parent]
  BY <1>1
<1>4. CASE x.result \in {"denied", "apply-error", "static-invalid"}
  BY <1>1, <1>3, <1>4 DEF AttemptSound, AttemptWellFormed, AttemptExplained
<1>5. CASE x.result = "reused"
  BY <1>1, <1>2, <1>3, <1>5 DEF AttemptSound, AttemptWellFormed, AttemptExplained
<1>6. CASE x.result = "verified"
  <2>1. /\ x.program # None /\ x.reused = None /\ x.patch # None
        /\ a.input.strategy = "single" => x.parent = 1
    BY <1>6 DEF AttemptSound, AttemptWellFormed
  <2>2. PICK m \in DOMAIN a.nodes :
          /\ a.nodes[m].program = x.program
          /\ \A j \in 1..(m - 1) : a.nodes[j].program # x.program
          /\ a.nodes[m].parent = x.parent /\ a.nodes[m].outcome = x.outcome
    BY <1>6 DEF AttemptSound, AttemptWellFormed
  <2>3. \A j \in 1..(m - 1) : j \in DOMAIN a.nodes
    BY DEF Extends, Typed
  <2>4. /\ m \in DOMAIN b.nodes /\ b.nodes[m].program = x.program
        /\ \A j \in 1..(m - 1) : b.nodes[j].program # x.program
        /\ b.nodes[m].parent = x.parent /\ b.nodes[m].outcome = x.outcome
    BY <1>1, <2>2, <2>3
  <2>5. AttemptWellFormed(b, x)
    BY <1>1, <1>6, <2>1, <2>4 DEF AttemptWellFormed
  <2>6. AttemptExplained(b, k)
    BY <1>1, <1>2, <1>3, <1>6 DEF AttemptSound, AttemptExplained
  <2> QED
    BY <1>1, <2>1, <2>5, <2>6 DEF AttemptSound
<1>7. x.result \in Results
  <2>1. a.attempts \in Seq(AttemptRecords(a.input))
    BY DEF Extends, Typed
  <2>2. x \in AttemptRecords(a.input)
    BY <2>1
  <2> HIDE DEF x
  <2> QED
    BY <2>2 DEF AttemptRecords
<1> QED
  BY <1>4, <1>5, <1>6, <1>7 DEF Results

(* What is sound is the input, the nodes and the attempts. *)
LEMMA SoundSame ==
  ASSUME NEW a, NEW b, Sound(a), b.input = a.input, b.nodes = a.nodes, b.attempts = a.attempts
  PROVE  Sound(b)
<1>1. Typed(b)
  BY DEF Sound, Typed
<1>2. \A k \in DOMAIN a.nodes : NodeSound(b, k)
  BY DEF Sound, NodeSound, NodeWellPlaced, ReportsMatch
<1>3. \A k : VerifiedBefore(b, k) = VerifiedBefore(a, k)
  BY DEF VerifiedBefore
<1>4. ASSUME NEW k \in DOMAIN a.attempts
      PROVE  AttemptSound(b, k)
  <2>1. AttemptSound(a, k)
    BY DEF Sound
  <2>2. AttemptWellFormed(b, a.attempts[k])
    BY <2>1 DEF AttemptSound, AttemptWellFormed
  <2>3. AttemptExplained(b, k)
    <3>1. AttemptExplained(a, k)
      BY <2>1 DEF AttemptSound
    <3>2. /\ b.nodes = a.nodes /\ b.attempts = a.attempts /\ b.input = a.input
          /\ VerifiedBefore(b, k) = VerifiedBefore(a, k)
      BY <1>3
    <3>3. a.attempts[k].result \in Results
      BY <2>1 DEF AttemptSound, AttemptWellFormed, Results
    <3>4. CASE a.attempts[k].result \in {"denied", "apply-error", "static-invalid"}
      BY <3>1, <3>2, <3>4 DEF AttemptExplained
    <3>5. CASE a.attempts[k].result = "reused"
      BY <3>1, <3>2, <3>5 DEF AttemptExplained
    <3>6. CASE a.attempts[k].result = "budget-blocked"
      BY <3>1, <3>2, <3>6 DEF AttemptExplained
    <3>7. CASE a.attempts[k].result = "verified"
      BY <3>1, <3>2, <3>7 DEF AttemptExplained
    <3> QED
      BY <3>3, <3>4, <3>5, <3>6, <3>7 DEF Results
  <2> QED
    BY <2>1, <2>2, <2>3 DEF AttemptSound
<1>5. VerifiedBefore(b, Len(b.attempts) + 1) = Len(b.nodes)
  BY <1>3 DEF Sound
<1> QED
  BY <1>1, <1>2, <1>4, <1>5 DEF Sound

(* One more attempt, and the node it verified *)
Added(a, b, x, n) ==
  /\ x \in AttemptRecords(a.input) /\ n \in NodeRecords(a.input)
  /\ b.input = a.input /\ b.attempts = Append(a.attempts, x)
  /\ b.nodes = IF x.result = "verified" THEN Append(a.nodes, n) ELSE a.nodes
  /\ Len(a.attempts) < a.input.candidates

(* What is recorded so far is left as it is. *)
LEMMA AddedExtends ==
  ASSUME NEW a, NEW b, NEW x, NEW n, Typed(a), Added(a, b, x, n)
  PROVE  /\ Extends(a, b)
         /\ Len(b.attempts) = Len(a.attempts) + 1 /\ DOMAIN b.attempts = 1..(Len(a.attempts) + 1)
         /\ DOMAIN a.attempts = 1..Len(a.attempts) /\ Len(a.attempts) \in Nat
         /\ b.attempts[Len(a.attempts) + 1] = x
         /\ DOMAIN a.nodes = 1..Len(a.nodes) /\ Len(a.nodes) \in Nat
         /\ IF x.result = "verified"
            THEN /\ Len(b.nodes) = Len(a.nodes) + 1 /\ DOMAIN b.nodes = 1..(Len(a.nodes) + 1)
                 /\ b.nodes[Len(a.nodes) + 1] = n
            ELSE b.nodes = a.nodes
<1>1. /\ a.nodes \in Seq(NodeRecords(a.input)) /\ Len(a.nodes) \in Nat /\ Len(a.nodes) >= 1
      /\ a.attempts \in Seq(AttemptRecords(a.input)) /\ Len(a.attempts) \in Nat
      /\ a.input \in Inputs
  BY DEF Typed
<1>2. /\ b.attempts \in Seq(AttemptRecords(a.input))
      /\ Len(b.attempts) = Len(a.attempts) + 1 /\ DOMAIN b.attempts = 1..(Len(a.attempts) + 1)
      /\ b.attempts[Len(a.attempts) + 1] = x
      /\ \A k \in 1..Len(a.attempts) : b.attempts[k] = a.attempts[k]
  BY <1>1 DEF Added
<1>3. CASE x.result = "verified"
  <2>1. b.nodes = Append(a.nodes, n) /\ n \in NodeRecords(a.input)
    BY <1>3 DEF Added
  <2>2. /\ b.nodes \in Seq(NodeRecords(a.input))
        /\ Len(b.nodes) = Len(a.nodes) + 1 /\ DOMAIN b.nodes = 1..(Len(a.nodes) + 1)
        /\ b.nodes[Len(a.nodes) + 1] = n
        /\ \A k \in 1..Len(a.nodes) : b.nodes[k] = a.nodes[k]
    BY <1>1, <2>1
  <2>3. Typed(b)
    BY <1>1, <1>2, <2>2 DEF Typed, Added
  <2> QED
    BY <1>1, <1>2, <1>3, <2>2, <2>3 DEF Extends, Added
<1>4. CASE x.result # "verified"
  <2>1. b.nodes = a.nodes
    BY <1>4 DEF Added
  <2>2. Typed(b)
    BY <1>1, <1>2, <2>1 DEF Typed, Added
  <2> QED
    BY <1>1, <1>2, <1>4, <2>1, <2>2 DEF Extends, Added
<1> QED
  BY <1>3, <1>4

(* A sound record stays sound if what is added to it is. *)
LEMMA SoundAdded ==
  ASSUME NEW a, NEW b, NEW x, NEW n, Sound(a), Added(a, b, x, n),
         \A k \in DOMAIN a.attempts : a.attempts[k].result # "budget-blocked",
         AttemptSound(b, Len(a.attempts) + 1),
         x.result = "verified" =>
           /\ Len(a.nodes) < a.input.verifications
           /\ NodeSound(b, Len(a.nodes) + 1)
           /\ \A k \in DOMAIN a.nodes : a.nodes[k].program # n.program
  PROVE  Sound(b)
<1> DEFINE m == Len(a.attempts) + 1
           l == Len(a.nodes) + 1
<1>1. /\ Extends(a, b)
      /\ Len(b.attempts) = m /\ DOMAIN b.attempts = 1..m
      /\ DOMAIN a.attempts = 1..Len(a.attempts) /\ Len(a.attempts) \in Nat
      /\ b.attempts[m] = x
      /\ DOMAIN a.nodes = 1..Len(a.nodes) /\ Len(a.nodes) \in Nat
      /\ IF x.result = "verified"
         THEN Len(b.nodes) = l /\ DOMAIN b.nodes = 1..l /\ b.nodes[l] = n
         ELSE b.nodes = a.nodes
  BY AddedExtends DEF Sound
<1>2. Typed(b)
  BY <1>1 DEF Extends
<1>3. \A k \in DOMAIN b.attempts : AttemptSound(b, k)
  <2> SUFFICES ASSUME NEW k \in DOMAIN b.attempts
               PROVE  AttemptSound(b, k)
    OBVIOUS
  <2>1. CASE k = m
    BY <2>1
  <2>2. CASE k # m
    <3>1. k \in DOMAIN a.attempts
      BY <1>1, <2>2
    <3>2. AttemptSound(a, k) /\ a.attempts[k].result # "budget-blocked"
      BY <3>1 DEF Sound
    <3> QED
      BY <1>1, <3>1, <3>2, AttemptKept
  <2> QED
    BY <2>1, <2>2
<1>4. \A k \in DOMAIN a.nodes : NodeSound(b, k)
  BY <1>1, NodeKept DEF Sound
<1>5. \A k \in DOMAIN a.nodes : b.nodes[k] = a.nodes[k]
  BY <1>1 DEF Extends
<1>6. VerifiedBefore(b, m) = VerifiedBefore(a, m)
  BY <1>1, VerifiedKept
<1>7. VerifiedBefore(a, m) = Len(a.nodes)
  BY DEF Sound
<1>8. VerifiedBefore(b, m + 1) = Len(b.nodes)
  <2>1. m \in Nat \ {0}
    BY <1>1
  <2>2. VerifiedBefore(b, m + 1) = VerifiedBefore(b, m) + (IF x.result = "verified" THEN 1 ELSE 0)
    BY <1>1, <2>1, VerifiedNext
  <2> QED
    BY <1>1, <1>6, <1>7, <2>2
<1>9. /\ Len(b.attempts) <= b.input.candidates /\ Len(b.nodes) <= b.input.verifications
      /\ \A k \in DOMAIN b.nodes : NodeSound(b, k)
      /\ \A j, k \in DOMAIN b.nodes : b.nodes[j].program = b.nodes[k].program => j = k
  <2>1. /\ b.input = a.input /\ Len(a.attempts) < a.input.candidates
        /\ Len(a.nodes) <= a.input.verifications
        /\ a.input.candidates \in Nat /\ a.input.verifications \in Nat
        /\ \A j, k \in DOMAIN a.nodes : a.nodes[j].program = a.nodes[k].program => j = k
    BY InputsAssumption DEF Added, Sound, Typed
  <2>2. CASE x.result = "verified"
    <3>1. DOMAIN b.nodes = DOMAIN a.nodes \union {l} /\ l \notin DOMAIN a.nodes
      BY <1>1, <2>2
    <3>2. \A k \in DOMAIN b.nodes : NodeSound(b, k)
      BY <1>4, <2>2, <3>1
    <3>3. \A j, k \in DOMAIN b.nodes : b.nodes[j].program = b.nodes[k].program => j = k
      BY <1>1, <1>5, <2>1, <2>2, <3>1
    <3> QED
      BY <1>1, <2>1, <2>2, <3>2, <3>3
  <2>3. CASE x.result # "verified"
    <3>1. b.nodes = a.nodes
      BY <1>1, <2>3
    <3>2. Len(b.attempts) <= b.input.candidates
      BY <1>1, <2>1
    <3> QED
      BY <1>4, <2>1, <3>1, <3>2
  <2> QED
    BY <2>2, <2>3
<1> QED
  BY <1>1, <1>2, <1>3, <1>8, <1>9 DEF Sound

(* The ancestors of a node, and the chain of edits built from them *)
Ancestry(a, n, f) ==
  LET D == a.nodes[n].depth IN
  f = [d \in 0..D |-> IF d = D THEN n ELSE a.nodes[f[d + 1]].parent]

(* Going up from a node leaves its depth behind, one at a time. *)
Climb(a, n, g, e) ==
  /\ g \in [0..e -> DOMAIN a.nodes] /\ g[0] = n
  /\ \A i \in 1..e : g[i] = a.nodes[g[i - 1]].parent
  /\ \A i \in 0..e : a.nodes[g[i]].depth = a.nodes[n].depth - i

(* What the structure says of a node *)
LEMMA NodeFacts ==
  ASSUME NEW a, Sound(a), NEW k \in DOMAIN a.nodes
  PROVE  /\ a.nodes[k].depth \in Nat /\ a.nodes[k].edits \in Nat /\ k \in Nat
         /\ a.nodes[k].depth = 0 => k = 1
         /\ k = 1 => a.nodes[k].depth = 0 /\ a.nodes[k].edits = 0
                     /\ a.nodes[k].program = a.input.program
         /\ k # 1 => LET p == a.nodes[k].parent IN
              /\ p \in DOMAIN a.nodes
              /\ a.nodes[k].depth = a.nodes[p].depth + 1
              /\ a.nodes[k].edits = a.nodes[p].edits + Len(a.nodes[k].patch.changes)
              /\ CheckAllowed(a.input, a.nodes[k].patch)
              /\ Applies(a.nodes[p].program, a.nodes[k].patch)
              /\ Apply(a.nodes[p].program, a.nodes[k].patch) = a.nodes[k].program
<1>1. /\ a.nodes \in Seq(NodeRecords(a.input)) /\ Len(a.nodes) \in Nat
      /\ DOMAIN a.nodes = 1..Len(a.nodes)
  BY DEF Sound, Typed
<1>2. \A j \in DOMAIN a.nodes : a.nodes[j].depth \in Nat /\ a.nodes[j].edits \in Nat
  <2> SUFFICES ASSUME NEW j \in DOMAIN a.nodes
               PROVE  a.nodes[j].depth \in Nat /\ a.nodes[j].edits \in Nat
    OBVIOUS
  <2>1. a.nodes[j] \in NodeRecords(a.input)
    BY <1>1
  <2> QED
    BY <2>1 DEF NodeRecords
<1>3. NodeSound(a, k)
  BY DEF Sound
<1>4. CASE k = 1
  BY <1>1, <1>2, <1>3, <1>4 DEF NodeSound, NodeWellPlaced
<1>5. CASE k # 1
  <2> DEFINE p == a.nodes[k].parent
  <2>1. p \in 1..(k - 1)
    BY <1>3, <1>5 DEF NodeSound, NodeWellPlaced
  <2>2. p \in DOMAIN a.nodes
    BY <1>1, <2>1
  <2>3. a.nodes[k].depth = a.nodes[p].depth + 1 /\ a.nodes[p].depth \in Nat
    BY <1>2, <1>3, <1>5, <2>2 DEF NodeSound, NodeWellPlaced
  <2>4. a.nodes[k].depth \in Nat /\ a.nodes[k].edits \in Nat /\ k \in Nat
    BY <1>1, <1>2
  <2>5. a.nodes[k].edits = a.nodes[p].edits + Len(a.nodes[k].patch.changes)
    BY <1>3, <1>5 DEF NodeSound, NodeWellPlaced
  <2>6. /\ CheckAllowed(a.input, a.nodes[k].patch)
        /\ Applies(a.nodes[p].program, a.nodes[k].patch)
        /\ Apply(a.nodes[p].program, a.nodes[k].patch) = a.nodes[k].program
    BY <1>3, <1>5 DEF NodeSound
  <2>7. a.nodes[k].depth # 0
    BY <2>3
  <2> HIDE DEF p
  <2> QED
    BY <1>5, <2>2, <2>3, <2>4, <2>5, <2>6, <2>7 DEF p
<1> QED
  BY <1>4, <1>5

(* The ancestors of a node can be followed to any distance up to the root. *)
LEMMA ClimbExists ==
  ASSUME NEW a, Sound(a), NEW n \in DOMAIN a.nodes
  PROVE  \A e \in Nat : e <= a.nodes[n].depth => \E g : Climb(a, n, g, e)
<1> DEFINE D == a.nodes[n].depth
           S == {e \in Nat : e <= D => \E g : Climb(a, n, g, e)}
<1>0. D \in Nat
  BY NodeFacts
<1>1. 0 \in S
  <2>1. Climb(a, n, [i \in 0..0 |-> n], 0)
    BY <1>0 DEF Climb
  <2> QED
    BY <2>1
<1>2. ASSUME NEW e \in Nat, e \in S
      PROVE  e + 1 \in S
  <2> SUFFICES ASSUME e + 1 <= D
               PROVE  \E g : Climb(a, n, g, e + 1)
    OBVIOUS
  <2>1. PICK g : Climb(a, n, g, e)
    BY <1>0, <1>2
  <2> DEFINE k == g[e]
             p == a.nodes[k].parent
             h == [i \in 0..(e + 1) |-> IF i = e + 1 THEN p ELSE g[i]]
  <2>2. k \in DOMAIN a.nodes /\ a.nodes[k].depth = D - e
    BY <2>1 DEF Climb
  <2>3. a.nodes[k].depth # 0
    BY <1>0, <2>2
  <2>4. p \in DOMAIN a.nodes /\ a.nodes[k].depth = a.nodes[p].depth + 1 /\ a.nodes[p].depth \in Nat
    BY <2>2, <2>3, NodeFacts
  <2>5. a.nodes[p].depth = D - (e + 1)
    BY <1>0, <2>2, <2>4
  <2>6. \A i \in 0..e : g[i] \in DOMAIN a.nodes /\ a.nodes[g[i]].depth = D - i
    BY <2>1 DEF Climb
  <2>7. h \in [0..(e + 1) -> DOMAIN a.nodes] /\ h[0] = n
    BY <2>1, <2>4, <2>6 DEF Climb
  <2>8. ASSUME NEW i \in 1..(e + 1)
        PROVE  h[i] = a.nodes[h[i - 1]].parent
    <3>1. h[i - 1] = g[i - 1]
      OBVIOUS
    <3>2. CASE i = e + 1
      BY <3>1, <3>2
    <3>3. CASE i # e + 1
      <4>1. i \in 1..e /\ h[i] = g[i]
        BY <3>3
      <4> QED
        BY <2>1, <3>1, <4>1 DEF Climb
    <3> QED
      BY <3>2, <3>3
  <2>9. \A i \in 0..(e + 1) : a.nodes[h[i]].depth = D - i
    BY <2>5, <2>6
  <2> HIDE DEF h
  <2> QED
    BY <2>7, <2>8, <2>9 DEF Climb
<1> HIDE DEF S
<1>3. Nat \subseteq S
  BY <1>1, <1>2, NatInductionOn
<1> QED
  BY <1>3 DEF S

(* The recursive definition of the chain of a node has a solution. *)
LEMMA AncestryExists ==
  ASSUME NEW a, Sound(a), NEW n \in DOMAIN a.nodes
  PROVE  \E f : Ancestry(a, n, f)
<1> DEFINE D == a.nodes[n].depth
<1>0. D \in Nat
  BY NodeFacts
<1>1. PICK g : Climb(a, n, g, D)
  BY <1>0, ClimbExists
<1> DEFINE f == [d \in 0..D |-> g[D - d]]
<1>2. \A d \in 0..D : f[d] = IF d = D THEN n ELSE a.nodes[f[d + 1]].parent
  <2> SUFFICES ASSUME NEW d \in 0..D
               PROVE  f[d] = IF d = D THEN n ELSE a.nodes[f[d + 1]].parent
    OBVIOUS
  <2>1. CASE d = D
    <3>1. D - d = 0
      BY <1>0, <2>1
    <3> QED
      BY <1>1, <2>1, <3>1 DEF Climb
  <2>2. CASE d # D
    <3>1. /\ d + 1 \in 0..D /\ D - d \in 1..D /\ (D - d) - 1 = D - (d + 1)
      BY <1>0, <2>2
    <3>2. f[d] = g[D - d] /\ f[d + 1] = g[D - (d + 1)]
      BY <3>1
    <3>3. g[D - d] = a.nodes[g[(D - d) - 1]].parent
      BY <1>1, <3>1 DEF Climb
    <3> QED
      BY <2>2, <3>1, <3>2, <3>3
  <2> QED
    BY <2>1, <2>2
<1>3. f = [d \in 0..D |-> f[d]]
  OBVIOUS
<1> HIDE DEF f
<1>4. f = [d \in 0..D |-> IF d = D THEN n ELSE a.nodes[f[d + 1]].parent]
  BY <1>2, <1>3
<1>5. Ancestry(a, n, f)
  BY <1>4 DEF Ancestry
<1> QED
  BY <1>5

(* The ancestor at depth d has depth d. *)
LEMMA AncestorDepth ==
  ASSUME NEW a, Sound(a), NEW n \in DOMAIN a.nodes, NEW f, Ancestry(a, n, f)
  PROVE  \A d \in 0..a.nodes[n].depth : f[d] \in DOMAIN a.nodes /\ a.nodes[f[d]].depth = d
<1> DEFINE D == a.nodes[n].depth
           S == {e \in Nat : e <= D => f[D - e] \in DOMAIN a.nodes /\ a.nodes[f[D - e]].depth = D - e}
<1>0. D \in Nat
  BY NodeFacts
<1>1. \A d \in 0..D : f[d] = IF d = D THEN n ELSE a.nodes[f[d + 1]].parent
  BY DEF Ancestry
<1>2. 0 \in S
  BY <1>0, <1>1
<1>3. ASSUME NEW e \in Nat, e \in S
      PROVE  e + 1 \in S
  <2> SUFFICES ASSUME e + 1 <= D
               PROVE  f[D - (e + 1)] \in DOMAIN a.nodes /\ a.nodes[f[D - (e + 1)]].depth = D - (e + 1)
    OBVIOUS
  <2>1. /\ D - (e + 1) \in 0..D /\ D - (e + 1) # D /\ (D - (e + 1)) + 1 = D - e
        /\ D - e \in Nat \ {0} /\ e <= D
    BY <1>0
  <2>2. f[D - e] \in DOMAIN a.nodes /\ a.nodes[f[D - e]].depth = D - e
    BY <1>3, <2>1
  <2>3. f[D - (e + 1)] = a.nodes[f[D - e]].parent
    BY <1>1, <2>1
  <2> DEFINE k == f[D - e]
  <2> HIDE DEF k
  <2>4. k \in DOMAIN a.nodes /\ a.nodes[k].depth = D - e /\ k # 1
    BY <2>1, <2>2, NodeFacts DEF k
  <2>5. /\ a.nodes[k].parent \in DOMAIN a.nodes
        /\ a.nodes[k].depth = a.nodes[a.nodes[k].parent].depth + 1
        /\ a.nodes[a.nodes[k].parent].depth \in Nat
    BY <2>4, NodeFacts
  <2>6. a.nodes[a.nodes[k].parent].depth = D - (e + 1)
    BY <1>0, <2>4, <2>5
  <2> QED
    BY <2>3, <2>5, <2>6 DEF k
<1> HIDE DEF S
<1>4. Nat \subseteq S
  BY <1>2, <1>3, NatInductionOn
<1>5. ASSUME NEW d \in 0..D
      PROVE  f[d] \in DOMAIN a.nodes /\ a.nodes[f[d]].depth = d
  <2>1. D - d \in Nat /\ D - d <= D /\ D - (D - d) = d
    BY <1>0
  <2>2. D - d \in S
    BY <1>4, <2>1
  <2> QED
    BY <2>1, <2>2 DEF S
<1> QED
  BY <1>5

(* The chain of a node leads from the input to its program. *)
Accepts(a, n) ==
  /\ a.outcome = "Repaired" /\ a.accepted = n /\ a.acceptedProgram = a.nodes[n].program
  /\ a.chain = BuildChain(a.nodes, n) /\ a.nodes[n].outcome = "PASS"

(* The chain of a passing node replays, patch by patch, from the input. *)
LEMMA ChainOfNode ==
  ASSUME NEW a, Sound(a), NEW n \in DOMAIN a.nodes, Accepts(a, n)
  PROVE  ChainReplays(a) /\ (n # 1 => a.chain # <<>>)
<1> DEFINE D == a.nodes[n].depth
           anc == CHOOSE f : f = [d \in 0..D |-> IF d = D THEN n ELSE a.nodes[f[d + 1]].parent]
<1>0. D \in Nat
  BY NodeFacts
<1>1. Ancestry(a, n, anc)
  <2>1. \E f : Ancestry(a, n, f)
    BY AncestryExists
  <2> QED
    BY <2>1 DEF Ancestry
<1>2. a.chain = [d \in 1..D |-> EditOf(a.nodes, anc[d])]
  BY DEF Accepts, BuildChain
<1> HIDE DEF anc
<1>3. \A d \in 0..D : /\ anc[d] \in DOMAIN a.nodes /\ a.nodes[anc[d]].depth = d
                      /\ anc[d] = IF d = D THEN n ELSE a.nodes[anc[d + 1]].parent
  <2>1. \A d \in 0..D : anc[d] \in DOMAIN a.nodes /\ a.nodes[anc[d]].depth = d
    BY <1>1, AncestorDepth
  <2>2. \A d \in 0..D : anc[d] = IF d = D THEN n ELSE a.nodes[anc[d + 1]].parent
    BY <1>1 DEF Ancestry
  <2> QED
    BY <2>1, <2>2
<1>4. anc[D] = n /\ anc[0] = 1
  <2>1. D \in 0..D /\ 0 \in 0..D
    BY <1>0
  <2>2. anc[0] \in DOMAIN a.nodes /\ a.nodes[anc[0]].depth = 0
    BY <1>3, <2>1
  <2>3. anc[0] = 1
    BY <2>2, NodeFacts
  <2> QED
    BY <1>3, <2>1, <2>3
<1>5. Len(a.chain) = D /\ DOMAIN a.chain = 1..D
  BY <1>0, <1>2
<1> DEFINE node(d) == a.nodes[anc[d]]
<1>6. ASSUME NEW d \in 1..D
      PROVE  /\ a.chain[d].patch = node(d).patch
             /\ a.chain[d].before = node(d - 1).program
             /\ a.chain[d].after = node(d).program
             /\ CheckAllowed(a.input, node(d).patch)
             /\ Applies(node(d - 1).program, node(d).patch)
             /\ Apply(node(d - 1).program, node(d).patch) = node(d).program
             /\ node(d).edits = node(d - 1).edits + Len(node(d).patch.changes)
  <2>1. d - 1 \in 0..D /\ d - 1 # D /\ (d - 1) + 1 = d /\ d \in 0..D /\ d # 0
    BY <1>0
  <2>2. anc[d - 1] = a.nodes[anc[d]].parent
    BY <1>3, <2>1
  <2>3. anc[d] \in DOMAIN a.nodes /\ anc[d] # 1
    BY <1>3, <2>1, NodeFacts
  <2> DEFINE k == anc[d]
  <2>4. a.chain[d] = [patch |-> a.nodes[k].patch, before |-> a.nodes[a.nodes[k].parent].program,
                      after |-> a.nodes[k].program]
    BY <1>2 DEF EditOf
  <2> HIDE DEF k
  <2>5. k \in DOMAIN a.nodes /\ k # 1 /\ anc[d - 1] = a.nodes[k].parent /\ anc[d] = k
    BY <2>2, <2>3 DEF k
  <2> QED
    BY <2>4, <2>5, NodeFacts
<1> DEFINE before == CHOOSE f : f = [k \in 1..(Len(a.chain) + 1) |->
                       IF k = 1 THEN a.input.program ELSE Apply(f[k - 1], a.chain[k - 1].patch)]
           edits == CHOOSE f : f = [k \in 1..(Len(a.chain) + 1) |->
                       IF k = 1 THEN 0 ELSE f[k - 1] + Len(a.chain[k - 1].patch.changes)]
<1>7. ChainReplays(a) <=>
        /\ a.accepted \in DOMAIN a.nodes
        /\ a.nodes[a.accepted].depth = Len(a.chain)
        /\ a.nodes[a.accepted].edits = edits[Len(a.chain) + 1]
        /\ \A k \in DOMAIN a.chain :
             /\ CheckAllowed(a.input, a.chain[k].patch)
             /\ a.chain[k].before = before[k]
             /\ Applies(before[k], a.chain[k].patch)
             /\ a.chain[k].after = before[k + 1]
        /\ before[Len(a.chain) + 1] = a.nodes[a.accepted].program
        /\ a.acceptedProgram = a.nodes[a.accepted].program
        /\ ReportsMatch(a, a.acceptedProgram, a.nodes[a.accepted].outcome)
        /\ a.input.verdict[a.acceptedProgram] = "PASS"
  BY DEF ChainReplays, Accepts
<1>8. \A k \in 1..(D + 1) :
        before[k] = IF k = 1 THEN a.input.program ELSE Apply(before[k - 1], a.chain[k - 1].patch)
  <2> DEFINE Is(f) == f = [k \in 1..(Len(a.chain) + 1) |->
                        IF k = 1 THEN a.input.program ELSE Apply(f[k - 1], a.chain[k - 1].patch)]
             w == [k \in 1..(D + 1) |-> node(k - 1).program]
  <2>1. ASSUME NEW k \in 1..(D + 1)
        PROVE  w[k] = IF k = 1 THEN a.input.program ELSE Apply(w[k - 1], a.chain[k - 1].patch)
    <3>1. CASE k = 1
      <4>1. w[k] = a.nodes[1].program
        BY <1>4, <3>1
      <4>2. 1 \in DOMAIN a.nodes
        BY <1>0, <1>3, <1>4
      <4> QED
        BY <3>1, <4>1, <4>2, NodeFacts
    <3>2. CASE k # 1
      <4>1. k - 1 \in 1..D /\ k - 1 \in 1..(D + 1)
        BY <1>0, <3>2
      <4>2. w[k] = node(k - 1).program /\ w[k - 1] = node((k - 1) - 1).program
        BY <4>1
      <4> HIDE DEF w, node
      <4> QED
        BY <1>6, <3>2, <4>1, <4>2
    <3> QED
      BY <3>1, <3>2
  <2>2. w = [k \in 1..(Len(a.chain) + 1) |-> w[k]]
    BY <1>5
  <2> HIDE DEF w
  <2>3. Is(w)
    BY <1>5, <2>1, <2>2
  <2>4. Is(before)
    <3> HIDE DEF Is
    <3>1. before = CHOOSE f : Is(f)
      BY DEF Is
    <3> QED
      BY <2>3, <3>1
  <2> HIDE DEF before
  <2> QED
    BY <1>5, <2>4
<1>9. \A k \in 1..(D + 1) :
        edits[k] = IF k = 1 THEN 0 ELSE edits[k - 1] + Len(a.chain[k - 1].patch.changes)
  <2> DEFINE Is(f) == f = [k \in 1..(Len(a.chain) + 1) |->
                        IF k = 1 THEN 0 ELSE f[k - 1] + Len(a.chain[k - 1].patch.changes)]
             w == [k \in 1..(D + 1) |-> node(k - 1).edits]
  <2>1. ASSUME NEW k \in 1..(D + 1)
        PROVE  w[k] = IF k = 1 THEN 0 ELSE w[k - 1] + Len(a.chain[k - 1].patch.changes)
    <3>1. CASE k = 1
      <4>1. w[k] = a.nodes[1].edits
        BY <1>4, <3>1
      <4>2. 1 \in DOMAIN a.nodes
        BY <1>0, <1>3, <1>4
      <4> QED
        BY <3>1, <4>1, <4>2, NodeFacts
    <3>2. CASE k # 1
      <4>1. k - 1 \in 1..D /\ k - 1 \in 1..(D + 1)
        BY <1>0, <3>2
      <4>2. w[k] = node(k - 1).edits /\ w[k - 1] = node((k - 1) - 1).edits
        BY <4>1
      <4> HIDE DEF w, node
      <4> QED
        BY <1>6, <3>2, <4>1, <4>2
    <3> QED
      BY <3>1, <3>2
  <2>2. w = [k \in 1..(Len(a.chain) + 1) |-> w[k]]
    BY <1>5
  <2> HIDE DEF w
  <2>3. Is(w)
    BY <1>5, <2>1, <2>2
  <2>4. Is(edits)
    <3> HIDE DEF Is
    <3>1. edits = CHOOSE f : Is(f)
      BY DEF Is
    <3> QED
      BY <2>3, <3>1
  <2> HIDE DEF edits
  <2> QED
    BY <1>5, <2>4
<1> HIDE DEF before, edits, node
<1>10. \A k \in 1..(D + 1) : before[k] = node(k - 1).program /\ edits[k] = node(k - 1).edits
  <2> DEFINE S == {e \in Nat : e <= D => before[e + 1] = node(e).program /\ edits[e + 1] = node(e).edits}
  <2>1. 0 \in S
    <3>1. 1 \in DOMAIN a.nodes /\ node(0) = a.nodes[1]
      BY <1>0, <1>3, <1>4 DEF node
    <3>2. a.nodes[1].program = a.input.program /\ a.nodes[1].edits = 0
      BY <3>1, NodeFacts
    <3>3. 1 \in 1..(D + 1)
      BY <1>0
    <3> QED
      BY <1>8, <1>9, <3>1, <3>2, <3>3
  <2>2. ASSUME NEW e \in Nat, e \in S
        PROVE  e + 1 \in S
    <3> SUFFICES ASSUME e + 1 <= D
                 PROVE  /\ before[(e + 1) + 1] = node(e + 1).program
                        /\ edits[(e + 1) + 1] = node(e + 1).edits
      OBVIOUS
    <3>1. /\ e + 1 \in 1..D /\ (e + 1) + 1 \in 1..(D + 1) /\ ((e + 1) + 1) - 1 = e + 1
          /\ (e + 1) + 1 # 1 /\ (e + 1) - 1 = e /\ e <= D
      BY <1>0
    <3>2. before[e + 1] = node(e).program /\ edits[e + 1] = node(e).edits
      BY <2>2, <3>1
    <3>3. /\ before[(e + 1) + 1] = Apply(before[e + 1], a.chain[e + 1].patch)
          /\ edits[(e + 1) + 1] = edits[e + 1] + Len(a.chain[e + 1].patch.changes)
      BY <1>8, <1>9, <3>1
    <3> QED
      BY <1>6, <3>1, <3>2, <3>3
  <2> HIDE DEF S
  <2>3. Nat \subseteq S
    BY <2>1, <2>2, NatInductionOn
  <2>4. ASSUME NEW k \in 1..(D + 1)
        PROVE  before[k] = node(k - 1).program /\ edits[k] = node(k - 1).edits
    <3>1. k - 1 \in Nat /\ k - 1 <= D /\ (k - 1) + 1 = k
      BY <1>0
    <3> QED
      BY <2>3, <3>1 DEF S
  <2> QED
    BY <2>4
<1>11. /\ before[D + 1] = a.nodes[n].program /\ edits[D + 1] = a.nodes[n].edits
  <2>1. D + 1 \in 1..(D + 1) /\ (D + 1) - 1 = D
    BY <1>0
  <2>2. node(D) = a.nodes[n]
    BY <1>4 DEF node
  <2> QED
    BY <1>10, <2>1, <2>2
<1>12. ReportsMatch(a, a.nodes[n].program, a.nodes[n].outcome)
  BY DEF Sound, NodeSound
<1>13. ASSUME NEW k \in 1..D
       PROVE  /\ CheckAllowed(a.input, a.chain[k].patch)
              /\ a.chain[k].before = before[k]
              /\ Applies(before[k], a.chain[k].patch)
              /\ a.chain[k].after = before[k + 1]
  <2>1. k \in 1..(D + 1) /\ k + 1 \in 1..(D + 1) /\ (k + 1) - 1 = k
    BY <1>0
  <2>2. before[k] = node(k - 1).program /\ before[k + 1] = node(k).program
    BY <1>10, <2>1
  <2> QED
    BY <1>6, <2>2
<1>14. ChainReplays(a)
  BY <1>5, <1>7, <1>11, <1>12, <1>13 DEF Accepts, ReportsMatch
<1>15. n # 1 => a.chain # <<>>
  <2>1. n # 1 => D # 0
    BY NodeFacts
  <2> QED
    BY <1>0, <1>5, <2>1
<1> QED
  BY <1>14, <1>15

(* A sound artifact replays if its end does. *)
LEMMA EndReplays ==
  ASSUME NEW a, Sound(a), CountsDerivable(a), OutcomeCompatible(a), Evident(a), ChainReplays(a)
  PROVE  Replays(a)
<1>1. /\ a.input \in Inputs /\ Len(a.nodes) \in Nat /\ Len(a.nodes) >= 1
      /\ DOMAIN a.nodes = 1..Len(a.nodes) /\ a.nodes # <<>>
      /\ Len(a.attempts) \in Nat /\ DOMAIN a.attempts = 1..Len(a.attempts)
  BY DEF Sound, Typed
<1>2. \A k \in DOMAIN a.nodes : NodeSound(a, k)
  BY DEF Sound
<1>3. \A k \in DOMAIN a.attempts : AttemptSound(a, k)
  BY DEF Sound
<1>4. a.input.candidates \in Nat /\ a.input.verifications \in Nat
      /\ Len(a.attempts) <= a.input.candidates /\ Len(a.nodes) <= a.input.verifications
  BY <1>1, InputsAssumption DEF Sound
<1>5. BudgetsCoherent(a)
  <2>1. a.input.candidates >= a.counts.proposals /\ a.input.verifications >= a.counts.verifications
    BY <1>1, <1>4 DEF CountsDerivable
  <2>2. \A k \in DOMAIN a.nodes : /\ a.nodes[k].depth <= a.input.maxDepth
                                  /\ a.nodes[k].edits <= a.input.maxEdits
    BY <1>2 DEF NodeSound
  <2>3. ASSUME a.input.strategy = "single"
        PROVE  /\ \A k \in DOMAIN a.nodes : a.nodes[k].depth <= 1
               /\ \A k \in DOMAIN a.nodes : k # 1 => a.nodes[k].parent = 1
               /\ \A k \in DOMAIN a.attempts : a.attempts[k].parent = 1
    <3>1. \A k \in DOMAIN a.nodes : IF k = 1 THEN a.nodes[k].depth = 0
                                    ELSE a.nodes[k].depth = 1 /\ a.nodes[k].parent = 1
      BY <1>2, <2>3 DEF NodeSound, NodeWellPlaced
    <3> QED
      BY <1>3, <2>3, <3>1 DEF AttemptSound
  <2>4. a.input.verifications # 0
    BY <1>1, <1>4
  <2> QED
    BY <2>1, <2>2, <2>3, <2>4 DEF BudgetsCoherent
<1>6. ValidStructure(a)
  BY <1>2, <1>3, <1>5 DEF ValidStructure, NodeSound, AttemptSound
<1>7. Rebuilds(a)
  <2>1. a.nodes[1].program = a.input.program
    BY <1>1, <1>2 DEF NodeSound
  <2>2. ASSUME NEW k \in DOMAIN a.nodes
        PROVE  /\ ReportsMatch(a, a.nodes[k].program, a.nodes[k].outcome)
               /\ k # 1 => /\ CheckAllowed(a.input, a.nodes[k].patch)
                           /\ Applies(a.nodes[a.nodes[k].parent].program, a.nodes[k].patch)
                           /\ Apply(a.nodes[a.nodes[k].parent].program, a.nodes[k].patch)
                                = a.nodes[k].program
    BY <1>2 DEF NodeSound
  <2> QED
    BY <2>1, <2>2 DEF Rebuilds
<1>8. AttemptsExplained(a)
  BY <1>3 DEF AttemptsExplained, AttemptSound, Sound
<1> QED
  BY <1>1, <1>6, <1>7, <1>8 DEF Replays

FlagSet == [root : BOOLEAN, candidates : BOOLEAN, verifications : BOOLEAN,
            depth : BOOLEAN, edits : BOOLEAN, unknown : BOOLEAN]

(* What a search that found nothing exports *)
Bare(a) == a.acceptedProgram = None /\ a.accepted = None /\ a.chain = <<>>
EndsWith(a, triple) ==
  a.outcome = triple.outcome /\ a.stop = triple.stop /\ a.truncation = triple.truncation

(* The flags derived from a record are flags. *)
LEMMA DerivedTyped ==
  ASSUME NEW a
  PROVE  DerivedFlags(a) \in FlagSet
BY DEF DerivedFlags, FlagSet

(* A search that stopped without a repair replays if it gives the reason that
   its record gives. *)
LEMMA StoppedReplays ==
  ASSUME NEW a, NEW f \in FlagSet, Sound(a), CountsDerivable(a), Bare(a), ~f.root,
         EndsWith(a, Classify(f)), Classify(f) = Classify(DerivedFlags(a)),
         a.unknown = DerivedFlags(a).unknown
  PROVE  Replays(a)
<1>1. Classify(f) = Triple(a.outcome, a.stop, a.truncation)
  BY DEF EndsWith, Classify, Triple
<1>2. a.outcome \in {"AnalysisUnknown", "BudgetExhausted", "NoAcceptableCandidate"}
  BY DEF EndsWith, Classify, Triple
<1>3. Evident(a)
  BY <1>1, <1>2 DEF Evident, Simple
<1>4. a.nodes # <<>>
  BY DEF Sound, Typed
<1>5. OutcomeCompatible(a)
  BY <1>2, <1>4 DEF OutcomeCompatible, Bare
<1>6. ChainReplays(a)
  BY <1>2 DEF ChainReplays, Bare
<1> QED
  BY <1>3, <1>5, <1>6, EndReplays

(* So does one that ended with a node that passes. *)
LEMMA RepairedReplays ==
  ASSUME NEW a, NEW n \in DOMAIN a.nodes, Sound(a), CountsDerivable(a), Accepts(a, n), n # 1,
         a.stop = "solved", a.truncation = None, a.unknown = DerivedFlags(a).unknown
  PROVE  Replays(a)
<1>1. ChainReplays(a) /\ a.chain # <<>>
  BY ChainOfNode
<1>2. "solved" # None /\ None \notin Nat
  BY InputsAssumption
<1>3. Evident(a)
  BY <1>2 DEF Evident, Simple, Accepts
<1>4. a.accepted # None /\ a.acceptedProgram # None
  <2>1. n \in Nat
    BY DEF Sound, Typed
  <2>2. a.nodes[n] \in NodeRecords(a.input) /\ a.input \in Inputs
    BY DEF Sound, Typed
  <2>3. a.nodes[n].program \in DOMAIN a.input.verdict
    BY <2>2 DEF NodeRecords
  <2> QED
    BY <1>2, <2>1, <2>2, <2>3, InputsAssumption DEF Accepts
<1>5. OutcomeCompatible(a)
  BY <1>1, <1>4 DEF OutcomeCompatible, Accepts
<1> QED
  BY <1>1, <1>3, <1>5, EndReplays

(* A root that is not searched from *)
LEMMA RootReplays ==
  ASSUME NEW a, Sound(a), CountsDerivable(a), Bare(a), Len(a.nodes) = 1, a.attempts = <<>>,
         NEW o, o = a.nodes[1].outcome, o \in Verdicts \ {"FAIL"},
         EndsWith(a, RootTriple(o)), a.unknown = (o = "UNKNOWN")
  PROVE  Replays(a)
<1>1. DOMAIN a.nodes = {1} /\ a.nodes # <<>>
  BY DEF Sound, Typed
<1>2. None \notin {"already-satisfied", "root-invalid", "root-unsupported"}
  BY InputsAssumption
<1>3. ChainReplays(a)
  BY DEF EndsWith, RootTriple, Triple, ChainReplays, Bare, Verdicts
<1>4. OutcomeCompatible(a)
  BY <1>1 DEF EndsWith, RootTriple, Triple, OutcomeCompatible, Bare, Verdicts
<1>5. DerivedFlags(a).unknown = (o = "UNKNOWN") /\ DerivedFlags(a).root = (o = "UNKNOWN")
  BY <1>1 DEF DerivedFlags
<1>6. Evident(a)
  <2>1. CASE o = "UNKNOWN"
    <3>1. Classify(DerivedFlags(a)) = Triple("AnalysisUnknown", "root-unknown", None)
      BY <1>5, <2>1 DEF Classify
    <3>2. a.outcome = "AnalysisUnknown" /\ a.stop = "root-unknown" /\ a.truncation = None
      BY <2>1 DEF EndsWith, RootTriple, Triple
    <3> QED
      BY <1>5, <3>1, <3>2 DEF Evident, Simple
  <2>2. CASE o # "UNKNOWN"
    <3>1. /\ a.truncation = None
          /\ \/ o = "PASS" /\ a.outcome = "AlreadySatisfied" /\ a.stop = "already-satisfied"
             \/ o = "INVALID" /\ a.outcome = "Invalid" /\ a.stop = "root-invalid"
             \/ o = "UNSUPPORTED" /\ a.outcome = "Unsupported" /\ a.stop = "root-unsupported"
      BY <2>2 DEF EndsWith, RootTriple, Triple, Verdicts
    <3> QED
      BY <1>2, <1>5, <2>2, <3>1 DEF Evident, Simple
  <2> QED
    BY <2>1, <2>2
<1> QED
  BY <1>3, <1>4, <1>6, EndReplays

(* The record of the root alone *)
LEMMA RootSound ==
  ASSUME NEW a, a.input \in Inputs, a.input.verifications # 0, a.attempts = <<>>,
         a.nodes = <<[program |-> a.input.program, parent |-> None, depth |-> 0, edits |-> 0,
                      patch |-> None, outcome |-> a.input.verdict[a.input.program]]>>
  PROVE  Sound(a) /\ Len(a.nodes) = 1 /\ a.nodes[1].outcome = a.input.verdict[a.input.program]
         /\ DOMAIN a.nodes = {1}
<1> DEFINE r == [program |-> a.input.program, parent |-> None, depth |-> 0, edits |-> 0,
                 patch |-> None, outcome |-> a.input.verdict[a.input.program]]
<1>1. r \in NodeRecords(a.input)
  BY InputsAssumption DEF NodeRecords, Verdicts
<1>2. /\ r.program = a.input.program /\ r.parent = None /\ r.depth = 0 /\ r.edits = 0
      /\ r.patch = None /\ r.outcome = a.input.verdict[a.input.program]
  OBVIOUS
<1> HIDE DEF r
<1>3. a.nodes = <<r>>
  BY DEF r
<1>4. /\ a.nodes \in Seq(NodeRecords(a.input)) /\ Len(a.nodes) = 1 /\ DOMAIN a.nodes = {1}
      /\ a.nodes[1] = r
  BY <1>1, <1>3
<1>5. Typed(a) /\ Len(a.attempts) = 0 /\ DOMAIN a.attempts = {}
  BY <1>4 DEF Typed
<1>6. NodeSound(a, 1)
  BY <1>2, <1>4, InputsAssumption DEF NodeSound, NodeWellPlaced, ReportsMatch
<1>7. VerifiedBefore(a, 1) = 1
  <2>1. {j \in 1..(1 - 1) : a.attempts[j].result = "verified"} = {}
    OBVIOUS
  <2>2. VerifiedBefore(a, 1) = 1 + Cardinality({})
    BY <2>1 DEF VerifiedBefore
  <2> QED
    BY <2>2, FS_EmptySet
<1>8. a.input.candidates \in Nat /\ a.input.verifications \in Nat
  BY InputsAssumption
<1>9. VerifiedBefore(a, Len(a.attempts) + 1) = Len(a.nodes)
  <2>1. Len(a.attempts) + 1 = 1
    BY <1>5
  <2> QED
    BY <1>4, <1>7, <2>1
<1> QED
  BY <1>2, <1>4, <1>5, <1>6, <1>8, <1>9 DEF Sound

(* A proposal made at a node that is expanded *)
Proposal(a, x) ==
  /\ x.parent \in DOMAIN a.nodes /\ x.patch \in PatchesOf(a.input)
  /\ a.input.strategy = "single" => x.parent = 1
Base(a, x) == a.nodes[x.parent].program
Makes(a, x) ==
  /\ CheckAllowed(a.input, x.patch) /\ Applies(Base(a, x), x.patch)
  /\ Apply(Base(a, x), x.patch) = x.program /\ x.program \in a.input.valid

(* What a proposal finds in the record it is added to *)
LEMMA LastAttempt ==
  ASSUME NEW a, NEW b, NEW x, NEW n, Sound(a), Added(a, b, x, n), Proposal(a, x)
  PROVE  /\ b.attempts[Len(a.attempts) + 1] = x /\ b.input = a.input
         /\ VerifiedBefore(b, Len(a.attempts) + 1) = Len(a.nodes)
         /\ DOMAIN a.nodes = 1..Len(a.nodes) /\ Len(a.nodes) \in Nat
         /\ x.parent \in DOMAIN b.nodes /\ b.nodes[x.parent] = a.nodes[x.parent]
         /\ x.patch # None /\ Len(x.patch.changes) = 1
         /\ \A k \in DOMAIN a.nodes : k \in DOMAIN b.nodes /\ b.nodes[k] = a.nodes[k]
<1>1. /\ Extends(a, b) /\ b.attempts[Len(a.attempts) + 1] = x /\ Len(a.attempts) \in Nat
      /\ DOMAIN a.nodes = 1..Len(a.nodes) /\ Len(a.nodes) \in Nat
  BY AddedExtends DEF Sound
<1>2. VerifiedBefore(b, Len(a.attempts) + 1) = VerifiedBefore(a, Len(a.attempts) + 1)
  BY <1>1, VerifiedKept
<1>3. x.patch # None /\ Len(x.patch.changes) = 1
  BY PatchShape DEF Sound, Typed, Proposal
<1> QED
  BY <1>1, <1>2, <1>3 DEF Extends, Sound, Proposal

(* Each outcome of a proposal explains the attempt recorded for it: rejected, *)
LEMMA RejectedSound ==
  ASSUME NEW a, NEW b, NEW x, NEW n, Sound(a), Added(a, b, x, n), Proposal(a, x),
         x.program = None, x.reused = None, x.outcome = None,
         \/ x.result = "denied" /\ ~CheckAllowed(a.input, x.patch)
         \/ /\ x.result = "apply-error" /\ CheckAllowed(a.input, x.patch)
            /\ ~Applies(Base(a, x), x.patch)
         \/ /\ x.result = "static-invalid" /\ CheckAllowed(a.input, x.patch)
            /\ Applies(Base(a, x), x.patch) /\ Apply(Base(a, x), x.patch) \notin a.input.valid
  PROVE  AttemptSound(b, Len(a.attempts) + 1)
<1> DEFINE m == Len(a.attempts) + 1
<1>1. b.attempts[m] = x /\ b.input = a.input /\ x.patch # None
      /\ x.parent \in DOMAIN b.nodes /\ b.nodes[x.parent] = a.nodes[x.parent]
  BY LastAttempt
<1> HIDE DEF m
<1>2. AttemptWellFormed(b, x)
  BY <1>1 DEF AttemptWellFormed
<1>3. AttemptExplained(b, m)
  BY <1>1 DEF AttemptExplained, Base
<1> QED
  BY <1>1, <1>2, <1>3 DEF AttemptSound, m, Proposal

(* a program verified before, *)
LEMMA ReusedSound ==
  ASSUME NEW a, NEW b, NEW x, NEW n, Sound(a), Added(a, b, x, n), Proposal(a, x), Makes(a, x),
         x.result = "reused", x.reused \in DOMAIN a.nodes,
         a.nodes[x.reused].program = x.program, a.nodes[x.reused].outcome = x.outcome
  PROVE  AttemptSound(b, Len(a.attempts) + 1)
<1> DEFINE m == Len(a.attempts) + 1
<1>1. b.attempts[m] = x /\ b.input = a.input /\ x.patch # None
      /\ x.parent \in DOMAIN b.nodes /\ b.nodes[x.parent] = a.nodes[x.parent]
      /\ VerifiedBefore(b, m) = Len(a.nodes) /\ x.reused <= Len(a.nodes)
      /\ x.reused \in DOMAIN b.nodes /\ b.nodes[x.reused] = a.nodes[x.reused]
  BY LastAttempt
<1> HIDE DEF m
<1>2. AttemptWellFormed(b, x)
  BY <1>1 DEF AttemptWellFormed
<1>3. AttemptExplained(b, m)
  BY <1>1 DEF AttemptExplained, Base, Makes
<1> QED
  BY <1>1, <1>2, <1>3 DEF AttemptSound, m, Proposal

(* and a program that there is no budget left to verify. *)
LEMMA BlockedSound ==
  ASSUME NEW a, NEW b, NEW x, NEW n, Sound(a), Added(a, b, x, n), Proposal(a, x), Makes(a, x),
         x.result = "budget-blocked", x.reused = None, x.outcome = None,
         \A k \in DOMAIN a.nodes : a.nodes[k].program # x.program,
         Len(a.nodes) >= a.input.verifications
  PROVE  AttemptSound(b, Len(a.attempts) + 1)
<1> DEFINE m == Len(a.attempts) + 1
<1>1. b.attempts[m] = x /\ b.input = a.input /\ x.patch # None
      /\ x.parent \in DOMAIN b.nodes /\ b.nodes[x.parent] = a.nodes[x.parent]
      /\ VerifiedBefore(b, m) = Len(a.nodes) /\ b.nodes = a.nodes
  <2>1. b.nodes = a.nodes
    BY DEF Added
  <2> QED
    BY <2>1, LastAttempt
<1>2. x.program # None
  <2>1. a.input \in Inputs /\ x.program \in a.input.valid
    BY DEF Sound, Typed, Makes
  <2>2. a.input.valid \subseteq DOMAIN a.input.verdict
    BY <2>1, InputsAssumption
  <2>3. \A p \in DOMAIN a.input.verdict : p # None
    BY <2>1, InputsAssumption
  <2> QED
    BY <2>1, <2>2, <2>3
<1> HIDE DEF m
<1>3. AttemptWellFormed(b, x)
  BY <1>1, <1>2 DEF AttemptWellFormed
<1>4. AttemptExplained(b, m)
  BY <1>1 DEF AttemptExplained, Base, Makes
<1> QED
  BY <1>1, <1>3, <1>4 DEF AttemptSound, m, Proposal

(* The node of a verified proposal lies within the bounds of its parent's
   expansion. *)
LEMMA VerifiedSound ==
  ASSUME NEW a, NEW b, NEW x, NEW n, Sound(a), Added(a, b, x, n), Proposal(a, x), Makes(a, x),
         x.result = "verified", x.reused = None,
         \A k \in DOMAIN a.nodes : a.nodes[k].program # x.program,
         n.program = x.program, n.parent = x.parent, n.patch = x.patch, n.outcome = x.outcome,
         n.outcome = a.input.verdict[n.program],
         n.depth = a.nodes[x.parent].depth + 1,
         n.edits = a.nodes[x.parent].edits + Len(x.patch.changes),
         a.nodes[x.parent].depth < a.input.maxDepth,
         a.nodes[x.parent].edits < a.input.maxEdits
  PROVE  /\ AttemptSound(b, Len(a.attempts) + 1)
         /\ NodeSound(b, Len(a.nodes) + 1)
<1> DEFINE m == Len(a.attempts) + 1
           l == Len(a.nodes) + 1
<1>1. b.attempts[m] = x /\ b.input = a.input /\ x.patch # None /\ Len(x.patch.changes) = 1
      /\ x.parent \in DOMAIN b.nodes /\ b.nodes[x.parent] = a.nodes[x.parent]
      /\ VerifiedBefore(b, m) = Len(a.nodes)
      /\ DOMAIN a.nodes = 1..Len(a.nodes) /\ Len(a.nodes) \in Nat
      /\ \A k \in DOMAIN a.nodes : k \in DOMAIN b.nodes /\ b.nodes[k] = a.nodes[k]
  BY LastAttempt
<1>2. l \in DOMAIN b.nodes /\ b.nodes[l] = n /\ DOMAIN b.nodes = 1..l
  BY AddedExtends DEF Sound
<1>3. x.program # None /\ a.input \in Inputs
  BY InputsAssumption DEF Sound, Typed, Makes
<1>4. /\ a.nodes[x.parent].depth \in Nat /\ a.nodes[x.parent].edits \in Nat
      /\ a.input.maxDepth \in Nat /\ a.input.maxEdits \in Nat
      /\ x.parent = 1 => a.nodes[x.parent].depth = 0
  BY <1>3, NodeFacts, InputsAssumption DEF Proposal
<1>5. \A j \in 1..(l - 1) : b.nodes[j].program # x.program
  BY <1>1
<1>6. NodeSound(b, l)
  <2>1. l # 1 /\ x.parent \in 1..(l - 1)
    BY <1>1 DEF Proposal, Sound, Typed
  <2>2. NodeWellPlaced(b, l)
    BY <1>1, <1>2, <2>1 DEF NodeWellPlaced
  <2>3. n.depth <= a.input.maxDepth /\ n.edits <= a.input.maxEdits
    BY <1>1, <1>4
  <2>4. a.input.strategy = "single" => n.parent = 1 /\ n.depth = 1
    BY <1>4 DEF Proposal
  <2>5. n.patch \in PatchesOf(a.input)
    BY DEF Proposal
  <2> HIDE DEF l
  <2>6. ReportsMatch(b, n.program, n.outcome)
    BY <1>1 DEF ReportsMatch
  <2> QED
    BY <1>1, <1>2, <2>1, <2>2, <2>3, <2>4, <2>5, <2>6 DEF NodeSound, Makes, Base
<1>7. AttemptWellFormed(b, x)
  <2> HIDE DEF l
  <2> QED
    BY <1>1, <1>2, <1>3, <1>5 DEF AttemptWellFormed
<1>8. AttemptExplained(b, m)
  <2>1. VerifiedBefore(b, m) + 1 = l
    BY <1>1
  <2> HIDE DEF l, m
  <2> QED
    BY <1>1, <1>2, <2>1 DEF AttemptExplained, Base, Makes
<1> QED
  BY <1>1, <1>6, <1>7, <1>8 DEF AttemptSound, Proposal

-----------------------------------------------------------------------------
(* The invariant of the search *)

IsOpen(k) == k \in DOMAIN nodes /\ nodes[k].outcome = "FAIL" /\ (k = 1 \/ in.strategy # "single")
Queued(k) == \E j \in DOMAIN queue : queue[j] = k
AtBound(k) == TooDeep(k) \/ TooManyEdits(k)

(* What is recorded so far is sound, and nothing ended the search. *)
Recorded ==
  /\ Sound(Artifact)
  /\ verifications = Len(nodes) /\ nodes[1].outcome = "FAIL"
  /\ \A k \in DOMAIN attempts : attempts[k].result # "budget-blocked"

(* The flags say which open nodes were popped at a bound, and what was unknown. *)
Flagged ==
  /\ flags \in [root : {FALSE}, candidates : {FALSE}, verifications : {FALSE},
                depth : BOOLEAN, edits : BOOLEAN, unknown : BOOLEAN]
  /\ flags.unknown <=> \E k \in DOMAIN nodes : nodes[k].outcome = "UNKNOWN"
  /\ flags.depth => \E k \in DOMAIN nodes : IsOpen(k) /\ TooDeep(k)
  /\ flags.edits => \E k \in DOMAIN nodes : IsOpen(k) /\ ~TooDeep(k) /\ TooManyEdits(k)
  /\ \A k \in DOMAIN nodes : IsOpen(k) /\ TooDeep(k) => flags.depth \/ Queued(k)
  /\ \A k \in DOMAIN nodes :
       IsOpen(k) /\ ~TooDeep(k) /\ TooManyEdits(k) => flags.edits \/ Queued(k)

(* Whoever was expanded left room in the budget, and only open nodes within the
   bounds are expanded. *)
Expanding ==
  /\ queue \in Seq(Nat) /\ \A j \in DOMAIN queue : IsOpen(queue[j])
  /\ cursor \in Nat
  /\ pc = "propose" => IsOpen(cur) /\ ~AtBound(cur)
  /\ pc = "pop" =>
       Len(attempts) < in.candidates \/ \A k \in DOMAIN nodes : IsOpen(k) => AtBound(k) \/ Queued(k)

Started ==
  /\ pc = "start" /\ nodes = <<>> /\ attempts = <<>> /\ queue = <<>>
  /\ flags = NoFlags /\ verifications = 0 /\ cursor = 0
SearchInv ==
  /\ in \in Inputs
  /\ Searching => /\ pc # "done" => result = NoResult
                  /\ \/ Started
                     \/ pc \in {"pop", "propose"} /\ Recorded /\ Flagged /\ Expanding
                     \/ pc = "done" /\ Replays(Artifact)
  /\ ~Searching => pc \in {"round", "done"}

(* The artifact of a state *)
LEMMA ArtifactFields ==
  /\ Artifact.input = in /\ Artifact.nodes = nodes /\ Artifact.attempts = attempts
  /\ Artifact.chain = result.chain /\ Artifact.accepted = result.accepted
  /\ Artifact.acceptedProgram = IF result.accepted = None THEN None ELSE nodes[result.accepted].program
  /\ EndsWith(Artifact, result) /\ Artifact.unknown = flags.unknown
BY DEF Artifact, EndsWith

(* A step that records nothing leaves the record sound. *)
LEMMA SameRecord ==
  ASSUME Sound(Artifact), UNCHANGED <<in, nodes, attempts>>
  PROVE  Sound(Artifact')
<1>1. /\ Artifact'.input = Artifact.input /\ Artifact'.nodes = Artifact.nodes
      /\ Artifact'.attempts = Artifact.attempts
  BY DEF Artifact
<1> QED
  BY <1>1, SoundSame

(* A search refused for its configuration leaves an empty record. *)
LEMMA ConfigReplays ==
  ASSUME NEW a, a.nodes = <<>>, a.attempts = <<>>, a.input \in Inputs, a.input.verifications = 0,
         CountsDerivable(a), a.outcome = "InvalidConfig"
  PROVE  Replays(a)
<1>1. DOMAIN a.nodes = {} /\ DOMAIN a.attempts = {} /\ Len(a.nodes) = 0 /\ Len(a.attempts) = 0
  OBVIOUS
<1>2. a.input.candidates \in Nat
  BY InputsAssumption
<1>3. a.counts.proposals = 0 /\ a.counts.verifications = 0
  BY <1>1 DEF CountsDerivable
<1>4. BudgetsCoherent(a)
  BY <1>1, <1>2, <1>3 DEF BudgetsCoherent
<1>5. OutcomeCompatible(a)
  BY <1>3 DEF OutcomeCompatible
<1> QED
  BY <1>1, <1>4, <1>5 DEF Replays, ValidStructure

(* The root is recorded soundly, whatever its report says. *)
LEMMA StartKeeps ==
  ASSUME SearchInv, Searching, Started, RefuseConfig \/ VerifyRoot
  PROVE  SearchInv'
<1>1. in' = in /\ in \in Inputs /\ Searching'
  BY DEF SearchInv, RefuseConfig, VerifyRoot, Stop, Searching
<1>2. CASE RefuseConfig
  <2>1. /\ pc' = "done" /\ nodes' = <<>> /\ attempts' = <<>> /\ verifications' = 0
        /\ in.verifications = 0 /\ result'.outcome = "InvalidConfig"
    BY <1>2 DEF RefuseConfig, Stop, Started, Finished, Triple
  <2>2. /\ Artifact'.nodes = <<>> /\ Artifact'.attempts = <<>> /\ Artifact'.input = in
        /\ Artifact'.outcome = "InvalidConfig"
    BY <1>1, <2>1 DEF Artifact
  <2>3. CountsDerivable(Artifact')
    BY <2>1 DEF CountsDerivable, Artifact, Count
  <2>4. Replays(Artifact')
    BY <1>1, <2>1, <2>2, <2>3, ConfigReplays
  <2> QED
    BY <1>1, <2>1, <2>4 DEF SearchInv
<1>3. CASE VerifyRoot
  <2>1. /\ nodes' = <<Root>> /\ verifications' = 1 /\ attempts' = <<>> /\ in.verifications # 0
        /\ cursor' = 0
    BY <1>3 DEF VerifyRoot, Stop, Started
  <2>2. /\ Artifact'.nodes = <<Root>> /\ Artifact'.attempts = <<>> /\ Artifact'.input = in
    BY <1>1, <2>1 DEF Artifact
  <2>3. Sound(Artifact') /\ Len(nodes') = 1 /\ nodes'[1].outcome = Root.outcome /\ DOMAIN nodes' = {1}
    <3>1. Artifact'.input \in Inputs /\ Artifact'.input.verifications # 0
      BY <1>1, <2>1, <2>2
    <3>2. Root = [program |-> in.program, parent |-> None, depth |-> 0, edits |-> 0,
                  patch |-> None, outcome |-> in.verdict[in.program]]
      BY DEF Root
    <3>3. Root.outcome = in.verdict[in.program]
      BY <3>2
    <3>4. Artifact'.nodes =
            <<[program |-> Artifact'.input.program, parent |-> None, depth |-> 0, edits |-> 0,
                  patch |-> None, outcome |-> Artifact'.input.verdict[Artifact'.input.program]]>>
      BY <2>2, <3>2
    <3>5. Sound(Artifact') /\ Len(Artifact'.nodes) = 1 /\ DOMAIN Artifact'.nodes = {1}
          /\ Artifact'.nodes[1].outcome = Artifact'.input.verdict[Artifact'.input.program]
      BY <2>2, <3>1, <3>4, RootSound
    <3> QED
      BY <2>1, <2>2, <3>3, <3>5
  <2>4. CountsDerivable(Artifact')
    BY <2>1, <2>3 DEF CountsDerivable, Artifact, Count
  <2>5. flags' = [NoFlags EXCEPT !.unknown = Root.outcome = "UNKNOWN"]
    BY <1>3 DEF VerifyRoot, Started
  <2>6. CASE Root.outcome = "FAIL"
    <3>1. pc' = "pop" /\ queue' = <<1>> /\ result' = result /\ result = NoResult
      BY <1>3, <2>6 DEF VerifyRoot, SearchInv, Started
    <3>2. verifications' = Len(nodes') /\ nodes'[1].outcome = "FAIL" /\ DOMAIN attempts' = {}
      BY <2>1, <2>3, <2>6
    <3>3. Recorded'
      BY <2>3, <3>2 DEF Recorded
    <3>4. flags' = NoFlags
      BY <2>5, <2>6 DEF NoFlags
    <3>5. queue'[1] = 1 /\ DOMAIN queue' = {1} /\ queue' \in Seq(Nat)
      BY <3>1
    <3>6. /\ \A k \in DOMAIN nodes' : k = 1 /\ nodes'[k].outcome = "FAIL"
          /\ \A k \in DOMAIN nodes' : \E j \in DOMAIN queue' : queue'[j] = k
      BY <2>3, <3>2, <3>5
    <3>7. Flagged'
      BY <3>4, <3>6 DEF Flagged, NoFlags, Queued
    <3>8. Expanding'
      BY <2>1, <2>3, <3>1, <3>5, <3>6 DEF Expanding, Queued, IsOpen
    <3> QED
      BY <1>1, <3>1, <3>3, <3>7, <3>8 DEF SearchInv
  <2>7. CASE Root.outcome # "FAIL"
    <3>1. pc' = "done" /\ result' = Finished(RootTriple(Root.outcome))
      BY <1>3, <2>7 DEF VerifyRoot, Stop
    <3>2. /\ Artifact'.chain = <<>> /\ Artifact'.accepted = None /\ Artifact'.acceptedProgram = None
          /\ Artifact'.unknown = flags'.unknown
          /\ Artifact'.outcome = RootTriple(Root.outcome).outcome
          /\ Artifact'.stop = RootTriple(Root.outcome).stop
          /\ Artifact'.truncation = RootTriple(Root.outcome).truncation
      BY <3>1 DEF Artifact, Finished
    <3>3. flags'.unknown = (Root.outcome = "UNKNOWN")
      BY <2>5 DEF NoFlags
    <3>4. Root.outcome \in Verdicts \ {"FAIL"}
      BY <1>1, <2>7, InputsAssumption DEF Root, Verdicts
    <3>5. Bare(Artifact') /\ EndsWith(Artifact', RootTriple(Root.outcome))
      BY <3>2 DEF Bare, EndsWith
    <3>6. Replays(Artifact')
      <4>1. PICK b : b = Artifact'
        OBVIOUS
      <4>2. PICK o : o = Root.outcome
        OBVIOUS
      <4>3. /\ Sound(b) /\ CountsDerivable(b) /\ Bare(b) /\ Len(b.nodes) = 1 /\ b.attempts = <<>>
            /\ o = b.nodes[1].outcome /\ o \in Verdicts \ {"FAIL"} /\ EndsWith(b, RootTriple(o))
            /\ b.unknown = (o = "UNKNOWN")
        BY <2>1, <2>2, <2>3, <2>4, <3>2, <3>3, <3>4, <3>5, <4>1, <4>2
      <4>4. Replays(b)
        BY <4>3, RootReplays
      <4> QED
        BY <4>1, <4>4
    <3> QED
      BY <1>1, <3>1, <3>6 DEF SearchInv
  <2> QED
    BY <2>6, <2>7
<1> QED
  BY <1>2, <1>3

(* The head of a queue and its tail are what it holds. *)
LEMMA Dequeued ==
  ASSUME NEW q \in Seq(Nat), q # <<>>
  PROVE  /\ Tail(q) \in Seq(Nat) /\ 1 \in DOMAIN q /\ Head(q) = q[1]
         /\ \A j \in DOMAIN Tail(q) : \E i \in DOMAIN q : q[i] = Tail(q)[j]
         /\ \A j \in DOMAIN q : q[j] = Head(q) \/ \E i \in DOMAIN Tail(q) : Tail(q)[i] = q[j]
<1>1. /\ Len(q) \in Nat \ {0} /\ DOMAIN q = 1..Len(q) /\ Head(q) = q[1] /\ Tail(q) \in Seq(Nat)
      /\ Len(Tail(q)) = Len(q) - 1 /\ DOMAIN Tail(q) = 1..(Len(q) - 1)
      /\ \A i \in 1..(Len(q) - 1) : Tail(q)[i] = q[i + 1]
  OBVIOUS
<1>2. ASSUME NEW j \in DOMAIN Tail(q)
      PROVE  \E i \in DOMAIN q : q[i] = Tail(q)[j]
  <2>1. j + 1 \in DOMAIN q /\ Tail(q)[j] = q[j + 1]
    BY <1>1
  <2> QED
    BY <2>1
<1>3. ASSUME NEW j \in DOMAIN q, j # 1
      PROVE  \E i \in DOMAIN Tail(q) : Tail(q)[i] = q[j]
  <2>1. j - 1 \in DOMAIN Tail(q) /\ (j - 1) + 1 = j
    BY <1>1, <1>3
  <2>2. Tail(q)[j - 1] = q[j]
    BY <1>1, <2>1
  <2> QED
    BY <2>1, <2>2
<1> QED
  BY <1>1, <1>2, <1>3

Searches == pc \in {"pop", "propose"} /\ Recorded /\ Flagged /\ Expanding

(* What a step that records nothing leaves alone *)
LEMMA SameNodes ==
  ASSUME UNCHANGED <<in, nodes>>
  PROVE  \A k : /\ IsOpen(k)' = IsOpen(k) /\ TooDeep(k)' = TooDeep(k)
                /\ TooManyEdits(k)' = TooManyEdits(k) /\ AtBound(k)' = AtBound(k)
BY DEF IsOpen, TooDeep, TooManyEdits, AtBound

(* A step that records nothing *)
LEMMA RecordKept ==
  ASSUME Recorded, UNCHANGED <<in, nodes, attempts, verifications>>
  PROVE  Recorded'
<1>1. Sound(Artifact')
  BY SameRecord DEF Recorded
<1> QED
  BY <1>1 DEF Recorded

(* A popped node is flagged if it stands at a bound, and expanded if not. *)
LEMMA PopKeeps ==
  ASSUME Searches, Pop
  PROVE  Searches'
<1> DEFINE n == Head(queue)
<1>1. /\ in' = in /\ nodes' = nodes /\ attempts' = attempts /\ verifications' = verifications
      /\ queue # <<>> /\ queue' = Tail(queue) /\ queue \in Seq(Nat) /\ pc = "pop"
      /\ \A j \in DOMAIN queue : IsOpen(queue[j])
      /\ cursor \in Nat
  BY DEF Pop, WithoutHead, Searches, Expanding
<1>2. Recorded'
  BY <1>1, RecordKept DEF Searches
<1>3. /\ queue' \in Seq(Nat) /\ \A j \in DOMAIN queue' : IsOpen(queue'[j])
      /\ IsOpen(n)
      /\ \A k : Queued(k) => k = n \/ (Queued(k))'
  BY <1>1, Dequeued DEF Queued
<1>4. n \in DOMAIN nodes
  BY <1>3 DEF IsOpen
<1>5. \A k : /\ IsOpen(k)' = IsOpen(k) /\ TooDeep(k)' = TooDeep(k)
             /\ TooManyEdits(k)' = TooManyEdits(k) /\ AtBound(k)' = AtBound(k)
  BY <1>1, SameNodes
<1> HIDE DEF n
<1>6. CASE TooDeep(n) /\ flags' = [flags EXCEPT !.depth = TRUE] /\ UNCHANGED <<pc, cur, cursor>>
  <2>1. Flagged'
    BY <1>1, <1>3, <1>4, <1>5, <1>6 DEF Searches, Flagged
  <2>2. Expanding'
    BY <1>1, <1>3, <1>5, <1>6 DEF Searches, Expanding, AtBound
  <2> QED
    BY <1>1, <1>2, <1>6, <2>1, <2>2 DEF Searches
<1>7. CASE /\ ~TooDeep(n) /\ TooManyEdits(n) /\ flags' = [flags EXCEPT !.edits = TRUE]
           /\ UNCHANGED <<pc, cur, cursor>>
  <2>1. Flagged'
    BY <1>1, <1>3, <1>4, <1>5, <1>7 DEF Searches, Flagged
  <2>2. Expanding'
    BY <1>1, <1>3, <1>5, <1>7 DEF Searches, Expanding, AtBound
  <2> QED
    BY <1>1, <1>2, <1>7, <2>1, <2>2 DEF Searches
<1>8. CASE /\ ~TooDeep(n) /\ ~TooManyEdits(n) /\ pc' = "propose" /\ cur' = n /\ cursor' = 0
           /\ UNCHANGED flags
  <2>1. Flagged'
    BY <1>1, <1>3, <1>4, <1>5, <1>8 DEF Searches, Flagged
  <2>2. Expanding'
    BY <1>1, <1>3, <1>5, <1>8 DEF Searches, Expanding, AtBound
  <2> QED
    BY <1>2, <1>8, <2>1, <2>2 DEF Searches
<1> QED
  BY <1>6, <1>7, <1>8 DEF Pop, n

(* A node whose candidates are used up leaves room in the budget of proposals. *)
LEMMA NoMoreKeeps ==
  ASSUME Searches, NoMoreCandidates
  PROVE  Searches'
<1>1. /\ in' = in /\ nodes' = nodes /\ attempts' = attempts /\ verifications' = verifications
      /\ queue' = queue /\ flags' = flags /\ cursor' = cursor /\ cur' = cur /\ pc' = "pop"
      /\ Len(attempts) < in.candidates
  BY DEF NoMoreCandidates
<1>2. Recorded'
  BY <1>1, RecordKept DEF Searches
<1>3. \A k : /\ IsOpen(k)' = IsOpen(k) /\ TooDeep(k)' = TooDeep(k) /\ Queued(k)' = Queued(k)
             /\ TooManyEdits(k)' = TooManyEdits(k)
  BY <1>1, SameNodes DEF Queued
<1>4. Flagged'
  BY <1>1, <1>3 DEF Searches, Flagged
<1>5. Expanding'
  BY <1>1, <1>3 DEF Searches, Expanding
<1> QED
  BY <1>1, <1>2, <1>4, <1>5 DEF Searches

(* The flags derived from the record *)
LEMMA OpenExpandable ==
  ASSUME NEW k \in DOMAIN nodes
  PROVE  /\ IsOpen(k) <=> Expandable(Artifact, k)
         /\ TooDeep(k) <=> Artifact.nodes[k].depth >= Artifact.input.maxDepth
         /\ TooManyEdits(k) <=> Artifact.nodes[k].edits >= Artifact.input.maxEdits
BY ArtifactFields DEF IsOpen, Expandable, TooDeep, TooManyEdits

(* The flags the replay derives while the search goes on *)
LEMMA DerivedNow ==
  ASSUME Recorded
  PROVE  LET d == DerivedFlags(Artifact) IN
         /\ ~d.root /\ d \in FlagSet /\ ~d.verifications
         /\ d.candidates <=> /\ Len(attempts) >= in.candidates
                             /\ \E k \in DOMAIN nodes : IsOpen(k) /\ ~AtBound(k)
         /\ d.depth <=> \E k \in DOMAIN nodes : IsOpen(k) /\ TooDeep(k)
         /\ d.edits <=> \E k \in DOMAIN nodes : IsOpen(k) /\ ~TooDeep(k) /\ TooManyEdits(k)
         /\ d.unknown <=> \E k \in DOMAIN nodes : nodes[k].outcome = "UNKNOWN"
<1> DEFINE d == DerivedFlags(Artifact)
<1>1. Artifact.input = in /\ Artifact.nodes = nodes /\ Artifact.attempts = attempts
  BY ArtifactFields
<1>2. Artifact.counts.proposals = Len(attempts)
  BY DEF Artifact
<1>3. /\ nodes[1].outcome # "UNKNOWN"
      /\ \A k \in DOMAIN attempts : attempts[k].result # "budget-blocked"
  BY DEF Recorded
<1>4. d \in FlagSet
  BY DerivedTyped
<1>5. ~d.root /\ ~d.verifications
  BY <1>1, <1>3 DEF DerivedFlags
<1>6. d.candidates <=> /\ Len(attempts) >= in.candidates
                       /\ \E k \in DOMAIN nodes : IsOpen(k) /\ ~AtBound(k)
  BY <1>1, <1>2, <1>3, OpenExpandable DEF DerivedFlags, AtBound
<1>7. d.depth <=> \E k \in DOMAIN nodes : IsOpen(k) /\ TooDeep(k)
  BY <1>1, OpenExpandable DEF DerivedFlags
<1>8. d.edits <=> \E k \in DOMAIN nodes : IsOpen(k) /\ ~TooDeep(k) /\ TooManyEdits(k)
  BY <1>1, OpenExpandable DEF DerivedFlags
<1>9. d.unknown <=> \E k \in DOMAIN nodes : nodes[k].outcome = "UNKNOWN"
  BY <1>1 DEF DerivedFlags
<1> QED
  BY <1>4, <1>5, <1>6, <1>7, <1>8, <1>9

(* The end of a search that found nothing, in the terms of its artifact *)
LEMMA FinishedFields ==
  ASSUME NEW t, result' = Finished(t), verifications' = Len(nodes')
  PROVE  /\ Bare(Artifact') /\ EndsWith(Artifact', [outcome |-> t.outcome, stop |-> t.stop,
                                                    truncation |-> t.truncation])
         /\ Artifact'.unknown = flags'.unknown /\ CountsDerivable(Artifact')
         /\ Artifact'.input = in' /\ Artifact'.nodes = nodes' /\ Artifact'.attempts = attempts'
         /\ Artifact'.counts.proposals = Len(attempts')
<1>1. CountsDerivable(Artifact')
  BY DEF CountsDerivable, Artifact, Count
<1>2. Bare(Artifact') /\ EndsWith(Artifact', [outcome |-> t.outcome, stop |-> t.stop,
                                              truncation |-> t.truncation])
  BY DEF Artifact, Bare, EndsWith, Finished
<1>3. /\ Artifact'.unknown = flags'.unknown
      /\ Artifact'.input = in' /\ Artifact'.nodes = nodes' /\ Artifact'.attempts = attempts'
      /\ Artifact'.counts.proposals = Len(attempts')
  BY DEF Artifact
<1> QED
  BY <1>1, <1>2, <1>3

(* The flags derived depend on the record and its count of proposals only. *)
LEMMA DerivedSame ==
  ASSUME NEW a, NEW b, b.input = a.input, b.nodes = a.nodes, b.attempts = a.attempts,
         b.counts.proposals = a.counts.proposals
  PROVE  DerivedFlags(b) = DerivedFlags(a)
BY DEF DerivedFlags, Expandable

(* A search that stops without a repair replays when the flags it classifies
   and those derived from its record have the same class. *)
LEMMA StopsReplay ==
  ASSUME NEW f \in FlagSet, result' = Finished(Classify(f)), verifications' = Len(nodes'),
         Sound(Artifact'), ~f.root, flags' = f,
         Classify(f) = Classify(DerivedFlags(Artifact')),
         f.unknown = DerivedFlags(Artifact').unknown
  PROVE  Replays(Artifact')
<1>1. PICK b : b = Artifact'
  OBVIOUS
<1>2. EndsWith(b, [outcome |-> Classify(f).outcome, stop |-> Classify(f).stop,
                   truncation |-> Classify(f).truncation])
      /\ Bare(b) /\ b.unknown = flags'.unknown /\ CountsDerivable(b)
  BY <1>1, FinishedFields
<1>3. EndsWith(b, Classify(f))
  BY <1>2 DEF EndsWith
<1>4. /\ Sound(b) /\ Classify(f) = Classify(DerivedFlags(b)) /\ b.unknown = DerivedFlags(b).unknown
  BY <1>1, <1>2
<1>5. Replays(b)
  BY <1>2, <1>3, <1>4, StoppedReplays
<1> QED
  BY <1>1, <1>5

(* The queue ran empty: the flags are those the record gives. *)
LEMMA ExhaustedKeeps ==
  ASSUME Searches, Exhausted
  PROVE  Replays(Artifact')
<1> DEFINE d == DerivedFlags(Artifact)
<1>1. /\ pc = "pop" /\ queue = <<>> /\ in' = in /\ result' = Finished(Classify(flags))
      /\ nodes' = nodes /\ attempts' = attempts /\ flags' = flags
      /\ verifications' = verifications
  BY DEF Exhausted, Stop
<1>2. Recorded /\ Flagged /\ Expanding
  BY DEF Searches
<1>3. Sound(Artifact') /\ verifications' = Len(nodes')
  BY <1>1, <1>2, SameRecord DEF Recorded
<1>4. \A k : ~Queued(k)
  BY <1>1 DEF Queued
<1>5. ~d.candidates
  <2>1. Len(attempts) < in.candidates \/ \A k \in DOMAIN nodes : IsOpen(k) => AtBound(k)
    BY <1>1, <1>2, <1>4 DEF Expanding
  <2>2. Len(attempts) \in Nat /\ in.candidates \in Nat
    BY <1>2, InputsAssumption, ArtifactFields DEF Recorded, Sound, Typed
  <2> QED
    BY <1>2, <2>1, <2>2, DerivedNow
<1>6. /\ d \in FlagSet /\ ~d.root /\ ~d.verifications
      /\ d.depth = flags.depth /\ d.edits = flags.edits /\ d.unknown = flags.unknown
  <2>1. /\ d \in FlagSet /\ ~d.root /\ ~d.verifications
        /\ d.depth <=> \E k \in DOMAIN nodes : IsOpen(k) /\ TooDeep(k)
        /\ d.edits <=> \E k \in DOMAIN nodes : IsOpen(k) /\ ~TooDeep(k) /\ TooManyEdits(k)
        /\ d.unknown <=> \E k \in DOMAIN nodes : nodes[k].outcome = "UNKNOWN"
    BY <1>2, DerivedNow
  <2>2. /\ flags.depth \in BOOLEAN /\ flags.edits \in BOOLEAN /\ flags.unknown \in BOOLEAN
    BY <1>2 DEF Flagged
  <2>3. /\ flags.depth <=> \E k \in DOMAIN nodes : IsOpen(k) /\ TooDeep(k)
        /\ flags.edits <=> \E k \in DOMAIN nodes : IsOpen(k) /\ ~TooDeep(k) /\ TooManyEdits(k)
        /\ flags.unknown <=> \E k \in DOMAIN nodes : nodes[k].outcome = "UNKNOWN"
    BY <1>2, <1>4 DEF Flagged
  <2>4. d.depth \in BOOLEAN /\ d.edits \in BOOLEAN /\ d.unknown \in BOOLEAN
    BY <2>1 DEF FlagSet
  <2> HIDE DEF d
  <2> QED
    BY <2>1, <2>2, <2>3, <2>4
<1>7. /\ flags \in FlagSet /\ ~flags.root /\ ~flags.candidates /\ ~flags.verifications
  BY <1>2 DEF Flagged, FlagSet
<1> HIDE DEF d
<1>8. Classify(flags) = Classify(d)
  BY <1>5, <1>6, <1>7 DEF Classify
<1>9. DerivedFlags(Artifact') = d
  <2>1. PICK b : b = Artifact'
    OBVIOUS
  <2>2. /\ b.input = Artifact.input /\ b.nodes = Artifact.nodes /\ b.attempts = Artifact.attempts
        /\ b.counts.proposals = Artifact.counts.proposals
    BY <1>1, <2>1 DEF Artifact
  <2>3. DerivedFlags(b) = DerivedFlags(Artifact)
    BY <2>2, DerivedSame
  <2> QED
    BY <2>1, <2>3 DEF d
<1> QED
  BY <1>1, <1>3, <1>6, <1>7, <1>8, <1>9, StopsReplay

(* The budget of proposals is used up while a node within the bounds is open. *)
LEMMA CandidateBudgetKeeps ==
  ASSUME Searches, CandidateBudget
  PROVE  Replays(Artifact')
<1> DEFINE d == DerivedFlags(Artifact)
<1>1. /\ pc = "propose" /\ in' = in /\ result' = Finished(Classify(flags'))
      /\ nodes' = nodes /\ attempts' = attempts /\ flags' = [flags EXCEPT !.candidates = TRUE]
      /\ verifications' = verifications /\ Len(attempts) >= in.candidates
  BY DEF CandidateBudget, Stop
<1>2. Recorded /\ Flagged /\ Expanding
  BY DEF Searches
<1>3. Sound(Artifact') /\ verifications' = Len(nodes')
  BY <1>1, <1>2, SameRecord DEF Recorded
<1>4. IsOpen(cur) /\ ~AtBound(cur) /\ cur \in DOMAIN nodes
  BY <1>1, <1>2 DEF Expanding, IsOpen
<1>5. /\ d \in FlagSet /\ ~d.root /\ d.candidates /\ d.unknown = flags.unknown
  <2>1. /\ d \in FlagSet /\ ~d.root
        /\ d.candidates <=> /\ Len(attempts) >= in.candidates
                            /\ \E k \in DOMAIN nodes : IsOpen(k) /\ ~AtBound(k)
        /\ d.unknown <=> \E k \in DOMAIN nodes : nodes[k].outcome = "UNKNOWN"
    BY <1>2, DerivedNow
  <2>2. /\ flags.unknown \in BOOLEAN
        /\ flags.unknown <=> \E k \in DOMAIN nodes : nodes[k].outcome = "UNKNOWN"
    BY <1>2 DEF Flagged
  <2>3. d.unknown \in BOOLEAN
    BY <2>1 DEF FlagSet
  <2> HIDE DEF d
  <2> QED
    BY <1>1, <1>4, <2>1, <2>2, <2>3
<1>6. /\ flags' \in FlagSet /\ ~flags'.root /\ flags'.candidates /\ flags'.unknown = flags.unknown
  BY <1>1, <1>2 DEF Flagged, FlagSet
<1> HIDE DEF d
<1>7. Classify(flags') = Classify(d)
  BY <1>5, <1>6 DEF Classify
<1>8. DerivedFlags(Artifact') = d
  <2>1. PICK b : b = Artifact'
    OBVIOUS
  <2>2. /\ b.input = Artifact.input /\ b.nodes = Artifact.nodes /\ b.attempts = Artifact.attempts
        /\ b.counts.proposals = Artifact.counts.proposals
    BY <1>1, <2>1 DEF Artifact
  <2>3. DerivedFlags(b) = DerivedFlags(Artifact)
    BY <2>2, DerivedSame
  <2> QED
    BY <2>1, <2>3 DEF d
<1> QED
  BY <1>1, <1>3, <1>5, <1>6, <1>7, <1>8, StopsReplay

(* Where a proposal is made, and of what kind it is *)
Proposing(patch) ==
  /\ Searches /\ pc = "propose" /\ cursor < Len(Candidates(in, nodes[cur].program))
  /\ patch = Candidates(in, nodes[cur].program)[cursor + 1]

(* What the invariant says of a proposal *)
LEMMA ProposalFacts ==
  ASSUME NEW patch, Proposing(patch)
  PROVE  /\ patch \in PatchesOf(in) /\ in \in Inputs
         /\ cur \in DOMAIN nodes /\ DOMAIN nodes = 1..Len(nodes) /\ Len(nodes) \in Nat
         /\ nodes[cur].program \in DOMAIN in.verdict
         /\ in.strategy = "single" => cur = 1
         /\ nodes[cur].depth < in.maxDepth /\ nodes[cur].edits < in.maxEdits
<1>1. Recorded /\ Expanding /\ pc = "propose"
  BY DEF Proposing, Searches
<1>2. in \in Inputs /\ nodes \in Seq(NodeRecords(in))
  BY <1>1, ArtifactFields DEF Recorded, Sound, Typed
<1>3. IsOpen(cur) /\ ~AtBound(cur) /\ cursor \in Nat
  BY <1>1 DEF Expanding
<1>4. cur \in DOMAIN nodes /\ (in.strategy = "single" => cur = 1)
  BY <1>3 DEF IsOpen
<1>5. nodes[cur] \in NodeRecords(in)
  BY <1>2, <1>4
<1>6. /\ nodes[cur].program \in DOMAIN in.verdict
      /\ nodes[cur].depth \in Nat /\ nodes[cur].edits \in Nat
  BY <1>5 DEF NodeRecords
<1>7. nodes[cur].depth < in.maxDepth /\ nodes[cur].edits < in.maxEdits
  BY <1>2, <1>3, <1>6, InputsAssumption DEF AtBound, TooDeep, TooManyEdits
<1>8. Candidates(in, nodes[cur].program) \in Seq(SwapPatches(in, nodes[cur].program))
  <2>1. PICK p \in DOMAIN in.verdict : p = nodes[cur].program
    BY <1>6
  <2>2. FunctionOrder \in Seq(Functions) /\ \A f \in Functions : Len(p[f]) \in Nat
    BY <1>2, InputsAssumption
  <2> QED
    BY <2>1, <2>2, CandidateIsSwap
<1>9. patch \in PatchesOf(in)
  <2>1. cursor + 1 \in DOMAIN Candidates(in, nodes[cur].program)
    BY <1>3, <1>8 DEF Proposing
  <2>2. patch \in SwapPatches(in, nodes[cur].program)
    BY <1>8, <2>1 DEF Proposing
  <2> QED
    BY <1>6, <2>2 DEF PatchesOf
<1> QED
  BY <1>2, <1>4, <1>6, <1>7, <1>9

(* What every outcome of a proposal adds to the record *)
LEMMA ProposalAdds ==
  ASSUME NEW patch, Proposing(patch), Proposes(patch),
         NEW x, x = Attempt(patch, x.result, x.reused, x.program, x.outcome),
         x.result \in Results, x.reused \in Nat \union {None},
         x.program \in DOMAIN in.verdict \union {None}, x.outcome \in Verdicts \union {None},
         Record(x),
         NEW n \in NodeRecords(in),
         nodes' = IF x.result = "verified" THEN Append(nodes, n) ELSE nodes
  PROVE  /\ Added(Artifact, Artifact', x, n) /\ Proposal(Artifact, x)
         /\ Base(Artifact, x) = nodes[cur].program /\ x.patch = patch /\ x.parent = cur
<1>1. /\ patch \in PatchesOf(in) /\ cur \in DOMAIN nodes /\ DOMAIN nodes = 1..Len(nodes)
      /\ in.strategy = "single" => cur = 1
      /\ Len(nodes) \in Nat
  BY ProposalFacts
<1>2. x.patch = patch /\ x.parent = cur
  BY DEF Attempt
<1>3. x \in AttemptRecords(in)
  <2>1. x = [parent |-> cur, patch |-> patch, result |-> x.result, reused |-> x.reused,
             program |-> x.program, outcome |-> x.outcome]
    BY DEF Attempt
  <2>2. cur \in Nat
    BY <1>1
  <2> QED
    BY <1>1, <2>1, <2>2 DEF AttemptRecords
<1>4. /\ in' = in /\ attempts' = Append(attempts, x) /\ Len(attempts) < in.candidates
  BY DEF Proposes, Record
<1>5. /\ Artifact'.input = in' /\ Artifact'.nodes = nodes' /\ Artifact'.attempts = attempts'
  BY DEF Artifact
<1>6. Added(Artifact, Artifact', x, n)
  <2>1. PICK b : b = Artifact'
    OBVIOUS
  <2>2. /\ b.input = in /\ b.attempts = Append(attempts, x)
        /\ b.nodes = IF x.result = "verified" THEN Append(nodes, n) ELSE nodes
    BY <1>4, <1>5, <2>1
  <2>3. Added(Artifact, b, x, n)
    BY <1>3, <1>4, <2>2, ArtifactFields DEF Added
  <2> QED
    BY <2>1, <2>3
<1>7. Proposal(Artifact, x) /\ Base(Artifact, x) = nodes[cur].program
  BY <1>1, <1>2, ArtifactFields DEF Proposal, Base
<1> QED
  BY <1>2, <1>6, <1>7

(* What an accepted proposal makes *)
LEMMA ProposalMakes ==
  ASSUME NEW patch, Proposing(patch), Rejection(patch) = "none"
  PROVE  /\ WouldBe(patch) \in DOMAIN in.verdict
         /\ in.verdict[WouldBe(patch)] \in Verdicts
         /\ CheckAllowed(in, patch) /\ Applies(nodes[cur].program, patch)
         /\ Apply(nodes[cur].program, patch) = WouldBe(patch) /\ WouldBe(patch) \in in.valid
<1>1. CheckAllowed(in, patch) /\ Applies(nodes[cur].program, patch) /\ WouldBe(patch) \in in.valid
  BY DEF Rejection
<1>2. in \in Inputs
  BY ProposalFacts
<1>3. WouldBe(patch) \in DOMAIN in.verdict
  BY <1>1, <1>2, InputsAssumption
<1>4. in.verdict[WouldBe(patch)] \in Verdicts
  BY <1>2, <1>3, InputsAssumption DEF Verdicts
<1> QED
  BY <1>1, <1>3, <1>4 DEF WouldBe

(* An attempt that verifies nothing changes only the record of attempts. *)
LEMMA QuietKeeps ==
  ASSUME NEW patch, Proposing(patch), Sound(Artifact'), NEW x, attempts' = Append(attempts, x),
         x.result # "budget-blocked", cursor' = cursor + 1,
         UNCHANGED <<in, pc, nodes, queue, cur, flags, verifications>>
  PROVE  Searches'
<1>1. Recorded /\ Flagged /\ Expanding /\ pc = "propose"
  BY DEF Proposing, Searches
<1>2. attempts \in Seq(AttemptRecords(in))
  BY <1>1, ArtifactFields DEF Recorded, Sound, Typed
<1>3. \A k \in DOMAIN attempts' : attempts'[k].result # "budget-blocked"
  <2>1. ASSUME NEW k \in DOMAIN attempts'
        PROVE  attempts'[k] = x \/ (k \in DOMAIN attempts /\ attempts'[k] = attempts[k])
    BY <1>2
  <2> QED
    BY <1>1, <2>1 DEF Recorded
<1>4. Recorded'
  BY <1>1, <1>3 DEF Recorded
<1>5. \A k : /\ IsOpen(k)' = IsOpen(k) /\ TooDeep(k)' = TooDeep(k) /\ Queued(k)' = Queued(k)
             /\ TooManyEdits(k)' = TooManyEdits(k) /\ AtBound(k)' = AtBound(k)
  BY SameNodes DEF Queued
<1>6. Flagged'
  BY <1>1, <1>5 DEF Flagged
<1>7. Expanding'
  BY <1>1, <1>5 DEF Expanding
<1> QED
  BY <1>1, <1>4, <1>6, <1>7 DEF Searches

(* The four outcomes of a proposal: the record stays sound, or the search ends
   with an artifact that replays. A rejected proposal is recorded, *)
LEMMA RejectKeeps ==
  ASSUME NEW patch, Proposing(patch), Reject(patch)
  PROVE  Searches'
<1> DEFINE x == Attempt(patch, Rejection(patch), None, None, None)
           n == nodes[cur]
<1>1. /\ Proposes(patch) /\ Record(x)
      /\ UNCHANGED <<pc, nodes, queue, flags, verifications>>
      /\ in' = in /\ cur' = cur /\ cursor' = cursor + 1
  BY DEF Reject, Proposes
<1>2. /\ Rejection(patch) \in {"denied", "apply-error", "static-invalid"}
  BY DEF Reject, Rejection
<1>3. /\ x.result = Rejection(patch) /\ x.reused = None /\ x.program = None /\ x.outcome = None
      /\ x = Attempt(patch, x.result, x.reused, x.program, x.outcome)
      /\ x.patch = patch
  BY DEF Attempt
<1> HIDE DEF x
<1>4. Sound(Artifact) /\ nodes \in Seq(NodeRecords(in)) /\ n \in NodeRecords(in)
  <2>1. Sound(Artifact)
    BY DEF Proposing, Searches, Recorded
  <2>2. nodes \in Seq(NodeRecords(in))
    BY <2>1, ArtifactFields DEF Sound, Typed
  <2>3. cur \in DOMAIN nodes
    BY ProposalFacts
  <2> QED
    BY <2>1, <2>2, <2>3
<1> HIDE DEF n
<1>5. /\ Added(Artifact, Artifact', x, n) /\ Proposal(Artifact, x)
      /\ Base(Artifact, x) = nodes[cur].program
  <2>1. x.result \in Results /\ x.result # "verified"
    BY <1>2, <1>3 DEF Results
  <2> QED
    BY <1>1, <1>3, <1>4, <2>1, ProposalAdds
<1>6. \/ x.result = "denied" /\ ~CheckAllowed(in, x.patch)
      \/ /\ x.result = "apply-error" /\ CheckAllowed(in, x.patch)
         /\ ~Applies(Base(Artifact, x), x.patch)
      \/ /\ x.result = "static-invalid" /\ CheckAllowed(in, x.patch)
         /\ Applies(Base(Artifact, x), x.patch)
         /\ Apply(Base(Artifact, x), x.patch) \notin in.valid
  BY <1>2, <1>3, <1>5 DEF Rejection, WouldBe
<1>7. Sound(Artifact')
  <2>1. PICK b : b = Artifact'
    OBVIOUS
  <2>2. Added(Artifact, b, x, n)
    BY <1>5, <2>1
  <2>3. AttemptSound(b, Len(Artifact.attempts) + 1)
    BY <1>3, <1>4, <1>5, <1>6, <2>2, RejectedSound, ArtifactFields
  <2>4. \A k \in DOMAIN Artifact.attempts : Artifact.attempts[k].result # "budget-blocked"
    BY ArtifactFields DEF Proposing, Searches, Recorded
  <2>5. x.result # "verified"
    BY <1>2, <1>3
  <2>6. Sound(b)
    BY <1>4, <2>2, <2>3, <2>4, <2>5, SoundAdded
  <2> QED
    BY <2>1, <2>6
<1>8. attempts' = Append(attempts, x) /\ x.result # "budget-blocked"
  BY <1>1, <1>2, <1>3 DEF Record
<1> QED
  BY <1>1, <1>7, <1>8, QuietKeeps

(* and so is a program that was verified before. *)
LEMMA ReuseKeeps ==
  ASSUME NEW patch, Proposing(patch), Reuse(patch)
  PROVE  Searches'
<1> DEFINE m == NodeOf(WouldBe(patch))
           x == Attempt(patch, "reused", m, WouldBe(patch), nodes[m].outcome)
           n == nodes[cur]
<1>1. /\ Proposes(patch) /\ Record(x) /\ Rejection(patch) = "none" /\ IsKnown(WouldBe(patch))
      /\ UNCHANGED <<pc, nodes, queue, flags, verifications>>
      /\ in' = in /\ cur' = cur /\ cursor' = cursor + 1
  BY DEF Reuse, Proposes
<1>2. m \in DOMAIN nodes /\ nodes[m].program = WouldBe(patch)
  BY <1>1 DEF IsKnown, NodeOf
<1> HIDE DEF m
<1>3. /\ x.result = "reused" /\ x.reused = m /\ x.program = WouldBe(patch)
      /\ x.outcome = nodes[m].outcome /\ x.patch = patch
      /\ x = Attempt(patch, x.result, x.reused, x.program, x.outcome)
  BY DEF Attempt
<1> HIDE DEF x
<1>4. Sound(Artifact) /\ n \in NodeRecords(in) /\ nodes[m].outcome \in Verdicts /\ m \in Nat
  <2>1. Sound(Artifact)
    BY DEF Proposing, Searches, Recorded
  <2>2. nodes \in Seq(NodeRecords(in))
    BY <2>1, ArtifactFields DEF Sound, Typed
  <2>3. cur \in DOMAIN nodes
    BY ProposalFacts
  <2>4. nodes[m] \in NodeRecords(in) /\ n \in NodeRecords(in) /\ m \in Nat
    BY <1>2, <2>2, <2>3
  <2>5. nodes[m].outcome \in Verdicts
    BY <2>4 DEF NodeRecords
  <2> QED
    BY <2>1, <2>4, <2>5
<1> HIDE DEF n
<1>5. /\ WouldBe(patch) \in DOMAIN in.verdict /\ WouldBe(patch) \in in.valid
      /\ CheckAllowed(in, patch) /\ Applies(nodes[cur].program, patch)
      /\ Apply(nodes[cur].program, patch) = WouldBe(patch)
  BY <1>1, ProposalMakes
<1>6. /\ Added(Artifact, Artifact', x, n) /\ Proposal(Artifact, x)
      /\ Base(Artifact, x) = nodes[cur].program
  <2>1. /\ x.result \in Results /\ x.result # "verified" /\ x.reused \in Nat \union {None}
        /\ x.program \in DOMAIN in.verdict \union {None} /\ x.outcome \in Verdicts \union {None}
    BY <1>3, <1>4, <1>5 DEF Results
  <2> QED
    BY <1>1, <1>3, <1>4, <2>1, ProposalAdds
<1>7. Makes(Artifact, x)
  BY <1>3, <1>5, <1>6, ArtifactFields DEF Makes
<1>8. Sound(Artifact')
  <2>1. PICK b : b = Artifact'
    OBVIOUS
  <2>2. Added(Artifact, b, x, n)
    BY <1>6, <2>1
  <2>3. AttemptSound(b, Len(Artifact.attempts) + 1)
    BY <1>2, <1>3, <1>4, <1>6, <1>7, <2>2, ReusedSound, ArtifactFields
  <2>4. \A k \in DOMAIN Artifact.attempts : Artifact.attempts[k].result # "budget-blocked"
    BY ArtifactFields DEF Proposing, Searches, Recorded
  <2>5. x.result # "verified"
    BY <1>3
  <2>6. Sound(b)
    BY <1>4, <2>2, <2>3, <2>4, <2>5, SoundAdded
  <2> QED
    BY <2>1, <2>6
<1>9. attempts' = Append(attempts, x) /\ x.result # "budget-blocked"
  BY <1>1, <1>3 DEF Record
<1> QED
  BY <1>1, <1>8, <1>9, QuietKeeps

(* A new program that the budget leaves no verification for ends the search. *)
LEMMA BlockedKeeps ==
  ASSUME NEW patch, Proposing(patch), BudgetBlocked(patch)
  PROVE  Replays(Artifact')
<1> DEFINE x == Attempt(patch, "budget-blocked", None, WouldBe(patch), None)
           n == nodes[cur]
<1>1. /\ Proposes(patch) /\ Record(x) /\ Rejection(patch) = "none" /\ ~IsKnown(WouldBe(patch))
      /\ verifications >= in.verifications
      /\ flags' = [flags EXCEPT !.verifications = TRUE]
      /\ result' = Finished(Classify(flags'))
      /\ nodes' = nodes /\ verifications' = verifications /\ in' = in
  BY DEF BudgetBlocked, Proposes
<1>2. /\ x.result = "budget-blocked" /\ x.reused = None /\ x.program = WouldBe(patch)
      /\ x.outcome = None /\ x.patch = patch
      /\ x = Attempt(patch, x.result, x.reused, x.program, x.outcome)
  BY DEF Attempt
<1> HIDE DEF x
<1>3. Recorded /\ Flagged /\ Sound(Artifact)
  BY DEF Proposing, Searches, Recorded
<1>4. n \in NodeRecords(in) /\ attempts \in Seq(AttemptRecords(in))
  <2>1. nodes \in Seq(NodeRecords(in)) /\ attempts \in Seq(AttemptRecords(in))
    BY <1>3, ArtifactFields DEF Sound, Typed
  <2>2. cur \in DOMAIN nodes
    BY ProposalFacts
  <2> QED
    BY <2>1, <2>2
<1> HIDE DEF n
<1>5. /\ WouldBe(patch) \in DOMAIN in.verdict /\ WouldBe(patch) \in in.valid
      /\ CheckAllowed(in, patch) /\ Applies(nodes[cur].program, patch)
      /\ Apply(nodes[cur].program, patch) = WouldBe(patch)
  BY <1>1, ProposalMakes
<1>6. /\ Added(Artifact, Artifact', x, n) /\ Proposal(Artifact, x)
      /\ Base(Artifact, x) = nodes[cur].program
  <2>1. /\ x.result \in Results /\ x.result # "verified" /\ x.reused \in Nat \union {None}
        /\ x.program \in DOMAIN in.verdict \union {None} /\ x.outcome \in Verdicts \union {None}
    BY <1>2, <1>5 DEF Results
  <2> QED
    BY <1>1, <1>2, <1>4, <2>1, ProposalAdds
<1>7. Makes(Artifact, x)
  BY <1>2, <1>5, <1>6, ArtifactFields DEF Makes
<1>8. Sound(Artifact')
  <2>1. PICK b : b = Artifact'
    OBVIOUS
  <2>2. Added(Artifact, b, x, n)
    BY <1>6, <2>1
  <2>3. /\ \A k \in DOMAIN Artifact.nodes : Artifact.nodes[k].program # x.program
        /\ Len(Artifact.nodes) >= Artifact.input.verifications
    BY <1>1, <1>2, <1>3, ArtifactFields DEF IsKnown, Recorded
  <2>4. AttemptSound(b, Len(Artifact.attempts) + 1)
    BY <1>2, <1>3, <1>6, <1>7, <2>2, <2>3, BlockedSound
  <2>5. \A k \in DOMAIN Artifact.attempts : Artifact.attempts[k].result # "budget-blocked"
    BY <1>3, ArtifactFields DEF Recorded
  <2>6. x.result # "verified"
    BY <1>2
  <2>7. Sound(b)
    BY <1>3, <2>2, <2>4, <2>5, <2>6, SoundAdded
  <2> QED
    BY <2>1, <2>7
<1>9. /\ flags' \in FlagSet /\ ~flags'.root /\ ~flags'.candidates /\ flags'.verifications
      /\ flags'.unknown = flags.unknown
  BY <1>1, <1>3 DEF Flagged, FlagSet
<1>10. \E d \in FlagSet : /\ d = DerivedFlags(Artifact') /\ ~d.root /\ ~d.candidates
                          /\ d.verifications /\ d.unknown = flags.unknown
  <2>1. PICK b : b = Artifact'
    OBVIOUS
  <2>2. b.nodes = nodes /\ b.attempts = Append(attempts, x) /\ b.input = in
    BY <1>1, <2>1 DEF Artifact, Record
  <2>3. PICK d \in FlagSet : d = DerivedFlags(b)
    BY DerivedTyped
  <2>4. /\ Len(attempts) + 1 \in DOMAIN b.attempts
        /\ b.attempts[Len(attempts) + 1].result = "budget-blocked"
    BY <1>2, <1>4, <2>2
  <2>5. nodes[1].outcome # "UNKNOWN"
    BY <1>3 DEF Recorded
  <2>6. ~d.root /\ d.verifications /\ ~d.candidates
    BY <2>2, <2>3, <2>4, <2>5 DEF DerivedFlags
  <2>7. d.unknown <=> \E k \in DOMAIN nodes : nodes[k].outcome = "UNKNOWN"
    BY <2>2, <2>3 DEF DerivedFlags
  <2>8. d.unknown \in BOOLEAN /\ flags.unknown \in BOOLEAN
    BY <1>3 DEF FlagSet, Flagged
  <2>9. d.unknown = flags.unknown
    BY <1>3, <2>7, <2>8 DEF Flagged
  <2> QED
    BY <2>1, <2>3, <2>6, <2>9
<1>11. Classify(flags') = Classify(DerivedFlags(Artifact'))
       /\ flags'.unknown = DerivedFlags(Artifact').unknown
  <2>1. PICK d \in FlagSet : /\ d = DerivedFlags(Artifact') /\ ~d.root /\ ~d.candidates
                             /\ d.verifications /\ d.unknown = flags.unknown
    BY <1>10
  <2>2. Classify(flags') = Classify(d)
    BY <1>9, <2>1 DEF Classify
  <2> QED
    BY <1>9, <2>1, <2>2
<1>12. verifications' = Len(nodes')
  BY <1>1, <1>3 DEF Recorded
<1> QED
  BY <1>1, <1>8, <1>9, <1>11, <1>12, StopsReplay

(* A verification records the new node, whatever its report says. *)
Verifying(patch, x, n) ==
  /\ x = Attempt(patch, "verified", None, WouldBe(patch), n.outcome)
  /\ n = Child(patch, WouldBe(patch), cur)

(* The node and the attempt of a verification are sound. *)
LEMMA VerifyRecords ==
  ASSUME NEW patch, Proposing(patch), Verify(patch), NEW x, NEW n, Verifying(patch, x, n)
  PROVE  /\ Sound(Artifact') /\ n \in NodeRecords(in) /\ x.result = "verified"
         /\ attempts' = Append(attempts, x) /\ nodes' = Append(nodes, n)
         /\ in' = in /\ cur' = cur /\ cursor' = cursor + 1 /\ verifications' = verifications + 1
<1>1. /\ Proposes(patch) /\ Record(x) /\ Rejection(patch) = "none" /\ ~IsKnown(WouldBe(patch))
      /\ verifications < in.verifications /\ verifications' = verifications + 1
      /\ nodes' = Append(nodes, n) /\ in' = in /\ cur' = cur /\ cursor' = cursor + 1
  <2>1. n.program = WouldBe(patch)
    BY DEF Verifying, Child
  <2> QED
    BY <2>1 DEF Verify, Proposes, Verifying
<1>2. /\ x.result = "verified" /\ x.reused = None /\ x.program = WouldBe(patch)
      /\ x.outcome = n.outcome /\ x.patch = patch /\ x.parent = cur
      /\ x = Attempt(patch, x.result, x.reused, x.program, x.outcome)
  BY DEF Attempt, Verifying
<1>3. Recorded /\ Sound(Artifact)
  BY DEF Proposing, Searches, Recorded
<1>4. /\ nodes \in Seq(NodeRecords(in)) /\ attempts \in Seq(AttemptRecords(in))
  BY <1>3, ArtifactFields DEF Sound, Typed
<1>5. /\ WouldBe(patch) \in DOMAIN in.verdict /\ WouldBe(patch) \in in.valid
      /\ CheckAllowed(in, patch) /\ Applies(nodes[cur].program, patch)
      /\ Apply(nodes[cur].program, patch) = WouldBe(patch)
      /\ in.verdict[WouldBe(patch)] \in Verdicts
  BY <1>1, ProposalMakes
<1>6. /\ patch \in PatchesOf(in) /\ in \in Inputs
      /\ cur \in DOMAIN nodes /\ DOMAIN nodes = 1..Len(nodes) /\ Len(nodes) \in Nat
      /\ nodes[cur].depth < in.maxDepth /\ nodes[cur].edits < in.maxEdits
  BY ProposalFacts
<1>7. Len(patch.changes) = 1
  BY <1>6, PatchShape
<1>8. n = [program |-> WouldBe(patch), parent |-> cur, depth |-> nodes[cur].depth + 1,
           edits |-> nodes[cur].edits + Len(patch.changes), patch |-> patch,
           outcome |-> in.verdict[WouldBe(patch)]]
  BY DEF Verifying, Child, DepthBelow
<1>9. n \in NodeRecords(in)
  <2>1. nodes[cur] \in NodeRecords(in) /\ cur \in Nat
    BY <1>4, <1>6
  <2>2. nodes[cur].depth \in Nat /\ nodes[cur].edits \in Nat
    BY <2>1 DEF NodeRecords
  <2> QED
    BY <1>5, <1>6, <1>7, <1>8, <2>1, <2>2 DEF NodeRecords
<1>10. /\ n.program = x.program /\ n.parent = x.parent /\ n.patch = x.patch
       /\ n.outcome = x.outcome /\ n.outcome = in.verdict[n.program]
       /\ n.depth = nodes[x.parent].depth + 1
       /\ n.edits = nodes[x.parent].edits + Len(x.patch.changes)
  BY <1>2, <1>8
<1>11. /\ Added(Artifact, Artifact', x, n) /\ Proposal(Artifact, x)
       /\ Base(Artifact, x) = nodes[cur].program
  <2>1. /\ x.result \in Results /\ x.reused \in Nat \union {None}
        /\ x.program \in DOMAIN in.verdict \union {None} /\ x.outcome \in Verdicts \union {None}
    BY <1>2, <1>5, <1>8 DEF Results
  <2> QED
    BY <1>1, <1>2, <1>9, <2>1, ProposalAdds
<1>12. Makes(Artifact, x)
  BY <1>2, <1>5, <1>11, ArtifactFields DEF Makes
<1>13. Sound(Artifact')
  <2>1. PICK b : b = Artifact'
    OBVIOUS
  <2>2. Added(Artifact, b, x, n)
    BY <1>11, <2>1
  <2>3. /\ \A k \in DOMAIN Artifact.nodes : Artifact.nodes[k].program # x.program
        /\ Len(Artifact.nodes) < Artifact.input.verifications
    BY <1>1, <1>2, <1>3, ArtifactFields DEF IsKnown, Recorded
  <2>4. /\ n.outcome = Artifact.input.verdict[n.program]
        /\ n.depth = Artifact.nodes[x.parent].depth + 1
        /\ n.edits = Artifact.nodes[x.parent].edits + Len(x.patch.changes)
        /\ Artifact.nodes[x.parent].depth < Artifact.input.maxDepth
        /\ Artifact.nodes[x.parent].edits < Artifact.input.maxEdits
    BY <1>2, <1>6, <1>10, ArtifactFields
  <2>5. AttemptSound(b, Len(Artifact.attempts) + 1) /\ NodeSound(b, Len(Artifact.nodes) + 1)
    BY <1>2, <1>3, <1>10, <1>11, <1>12, <2>2, <2>3, <2>4, VerifiedSound
  <2>6. \A k \in DOMAIN Artifact.attempts : Artifact.attempts[k].result # "budget-blocked"
    BY <1>3, ArtifactFields DEF Recorded
  <2>7. \A k \in DOMAIN Artifact.nodes : Artifact.nodes[k].program # n.program
    BY <1>10, <2>3
  <2>8. Sound(b)
    BY <1>3, <2>2, <2>3, <2>5, <2>6, <2>7, SoundAdded
  <2> QED
    BY <2>1, <2>8
<1> QED
  BY <1>1, <1>2, <1>9, <1>13 DEF Record

(* What the new node changes: itself only *)
LEMMA NewNode ==
  ASSUME nodes \in Seq(NodeRecords(in)), NEW n \in NodeRecords(in), nodes' = Append(nodes, n),
         in' = in, NEW l, l = Len(nodes) + 1, l # 1
  PROVE  /\ Len(nodes') = l /\ Len(nodes) \in Nat
         /\ DOMAIN nodes = 1..Len(nodes) /\ DOMAIN nodes' = 1..l
         /\ nodes'[l] = n /\ \A k \in DOMAIN nodes : nodes'[k] = nodes[k]
         /\ \A k \in DOMAIN nodes' : k \in DOMAIN nodes \/ k = l
         /\ \A k \in DOMAIN nodes : /\ IsOpen(k)' = IsOpen(k) /\ TooDeep(k)' = TooDeep(k)
                                    /\ TooManyEdits(k)' = TooManyEdits(k)
                                    /\ AtBound(k)' = AtBound(k)
         /\ IsOpen(l)' = (n.outcome = "FAIL" /\ in.strategy # "single")
<1>1. /\ Len(nodes') = l /\ Len(nodes) \in Nat
      /\ DOMAIN nodes = 1..Len(nodes) /\ DOMAIN nodes' = 1..l
      /\ nodes'[l] = n /\ \A k \in DOMAIN nodes : nodes'[k] = nodes[k]
  OBVIOUS
<1>2. \A k \in DOMAIN nodes' : k \in DOMAIN nodes \/ k = l
  BY <1>1
<1>3. ASSUME NEW k \in DOMAIN nodes
      PROVE  /\ IsOpen(k)' = IsOpen(k) /\ TooDeep(k)' = TooDeep(k)
             /\ TooManyEdits(k)' = TooManyEdits(k) /\ AtBound(k)' = AtBound(k)
  <2>1. nodes'[k] = nodes[k] /\ k \in DOMAIN nodes'
    BY <1>1
  <2> QED
    BY <2>1 DEF IsOpen, TooDeep, TooManyEdits, AtBound
<1>4. IsOpen(l)' = (n.outcome = "FAIL" /\ in.strategy # "single")
  <2>1. l \in DOMAIN nodes' /\ nodes'[l] = n
    BY <1>1
  <2> QED
    BY <2>1 DEF IsOpen
<1> QED
  BY <1>1, <1>2, <1>3, <1>4

(* The search goes on from a program that does not pass. *)
LEMMA VerifyContinues ==
  ASSUME NEW patch, Proposing(patch), Verify(patch), NEW x, NEW n, Verifying(patch, x, n),
         n.outcome # "PASS"
  PROVE  Searches'
<1>1. /\ Sound(Artifact') /\ n \in NodeRecords(in) /\ x.result = "verified"
      /\ attempts' = Append(attempts, x) /\ nodes' = Append(nodes, n)
      /\ in' = in /\ cur' = cur /\ cursor' = cursor + 1 /\ verifications' = verifications + 1
  BY VerifyRecords
<1>2. /\ queue' = IF n.outcome = "FAIL" /\ in.strategy # "single" THEN Append(queue, Len(nodes) + 1)
                  ELSE queue
      /\ flags' = [flags EXCEPT !.unknown = flags.unknown \/ n.outcome = "UNKNOWN"]
      /\ pc' = pc
  <2>1. n = Child(patch, WouldBe(patch), cur)
    BY DEF Verifying
  <2> QED
    BY <2>1 DEF Verify, Requeued, NewIndex
<1>3. Recorded /\ Flagged /\ Expanding /\ Sound(Artifact) /\ pc = "propose"
  BY DEF Proposing, Searches, Recorded
<1>4. /\ nodes \in Seq(NodeRecords(in)) /\ attempts \in Seq(AttemptRecords(in)) /\ Len(nodes) >= 1
  BY <1>3, ArtifactFields DEF Sound, Typed
<1>5. PICK l \in Nat : l = Len(nodes) + 1 /\ l # 1
  BY <1>4
<1>6. /\ Len(nodes') = l /\ DOMAIN nodes = 1..Len(nodes) /\ DOMAIN nodes' = 1..l
      /\ nodes'[l] = n /\ \A k \in DOMAIN nodes : k \in DOMAIN nodes' /\ nodes'[k] = nodes[k]
      /\ \A k \in DOMAIN nodes' : k \in DOMAIN nodes \/ k = l
      /\ \A k \in DOMAIN nodes : /\ IsOpen(k)' = IsOpen(k) /\ TooDeep(k)' = TooDeep(k)
                                 /\ TooManyEdits(k)' = TooManyEdits(k)
                                 /\ AtBound(k)' = AtBound(k)
      /\ IsOpen(l)' = (n.outcome = "FAIL" /\ in.strategy # "single")
      /\ l \in DOMAIN nodes'
  <2>1. DOMAIN nodes \subseteq DOMAIN nodes' /\ l \in 1..l
    BY <1>1, <1>4, <1>5
  <2> QED
    BY <1>1, <1>4, <1>5, <2>1, NewNode
<1>7. \A k \in DOMAIN attempts' : attempts'[k].result # "budget-blocked"
  <2>1. ASSUME NEW k \in DOMAIN attempts'
        PROVE  attempts'[k] = x \/ (k \in DOMAIN attempts /\ attempts'[k] = attempts[k])
    BY <1>1, <1>4
  <2> QED
    BY <1>1, <1>3, <2>1 DEF Recorded
<1>8. Recorded'
  <2>1. verifications' = Len(nodes')
    BY <1>1, <1>3, <1>5, <1>6 DEF Recorded
  <2>2. nodes'[1].outcome = "FAIL"
    BY <1>3, <1>4, <1>6 DEF Recorded
  <2> QED
    BY <1>1, <1>7, <2>1, <2>2 DEF Recorded
<1>9. /\ queue' \in Seq(Nat)
      /\ \A k : Queued(k) => Queued(k)'
      /\ (n.outcome = "FAIL" /\ in.strategy # "single") => Queued(l)'
      /\ (\A j \in DOMAIN queue : IsOpen(queue[j]))'
  <2>1. queue \in Seq(Nat) /\ \A j \in DOMAIN queue : IsOpen(queue[j])
    BY <1>3 DEF Expanding
  <2>2. CASE n.outcome = "FAIL" /\ in.strategy # "single"
    <3>1. queue' = Append(queue, l)
      BY <1>2, <1>5, <2>2
    <3>2. /\ queue' \in Seq(Nat) /\ DOMAIN queue' = 1..(Len(queue) + 1)
          /\ DOMAIN queue = 1..Len(queue) /\ Len(queue) \in Nat
          /\ queue'[Len(queue) + 1] = l
          /\ \A j \in DOMAIN queue : queue'[j] = queue[j] /\ j \in DOMAIN queue'
          /\ \A j \in DOMAIN queue' : j \in DOMAIN queue \/ j = Len(queue) + 1
      BY <1>5, <2>1, <3>1
    <3>3. \A k : Queued(k) => Queued(k)'
      BY <3>2 DEF Queued
    <3>4. Queued(l)'
      <4>1. Len(queue) + 1 \in DOMAIN queue'
        BY <3>2
      <4> QED
        BY <3>2, <4>1 DEF Queued
    <3>5. ASSUME NEW j \in DOMAIN queue'
          PROVE  IsOpen(queue[j])'
      <4>1. PICK k : k = queue'[j]
        OBVIOUS
      <4>2. CASE j \in DOMAIN queue
        <5>1. k = queue[j] /\ IsOpen(k)
          BY <2>1, <3>2, <4>1, <4>2
        <5>2. k \in DOMAIN nodes
          BY <5>1 DEF IsOpen
        <5>3. IsOpen(k)'
          BY <1>6, <5>1, <5>2
        <5> QED
          BY <4>1, <5>3
      <4>3. CASE j = Len(queue) + 1
        <5>1. k = l
          BY <3>2, <4>1, <4>3
        <5>2. IsOpen(k)'
          BY <1>6, <2>2, <5>1
        <5> QED
          BY <4>1, <5>2
      <4> QED
        BY <3>2, <4>2, <4>3
    <3> QED
      BY <3>2, <3>3, <3>4, <3>5
  <2>3. CASE ~(n.outcome = "FAIL" /\ in.strategy # "single")
    <3>1. queue' = queue
      BY <1>2, <2>3
    <3>2. \A k : Queued(k)' = Queued(k)
      BY <3>1 DEF Queued
    <3>3. ASSUME NEW j \in DOMAIN queue'
          PROVE  IsOpen(queue[j])'
      <4>1. PICK k : k = queue'[j]
        OBVIOUS
      <4>2. IsOpen(k)
        BY <2>1, <3>1, <4>1
      <4>3. k \in DOMAIN nodes
        BY <4>2 DEF IsOpen
      <4>4. IsOpen(k)'
        BY <1>6, <4>2, <4>3
      <4> QED
        BY <4>1, <4>4
    <3> QED
      BY <2>1, <2>3, <3>1, <3>2, <3>3
  <2> QED
    BY <2>2, <2>3
<1>10. Flagged'
  <2>1. /\ flags' \in [root : {FALSE}, candidates : {FALSE}, verifications : {FALSE},
                       depth : BOOLEAN, edits : BOOLEAN, unknown : BOOLEAN]
        /\ flags'.depth = flags.depth /\ flags'.edits = flags.edits
        /\ flags'.unknown <=> flags.unknown \/ n.outcome = "UNKNOWN"
    BY <1>2, <1>3 DEF Flagged
  <2>2. flags'.unknown <=> \E k \in DOMAIN nodes' : nodes'[k].outcome = "UNKNOWN"
    BY <1>3, <1>6, <2>1 DEF Flagged
  <2>3. flags'.depth => \E k \in DOMAIN nodes' : IsOpen(k)' /\ TooDeep(k)'
    BY <1>3, <1>6, <2>1 DEF Flagged
  <2>4. flags'.edits => \E k \in DOMAIN nodes' : IsOpen(k)' /\ ~TooDeep(k)' /\ TooManyEdits(k)'
    BY <1>3, <1>6, <2>1 DEF Flagged
  <2>5. \A k \in DOMAIN nodes' : IsOpen(k)' /\ TooDeep(k)' => flags'.depth \/ Queued(k)'
    BY <1>3, <1>6, <1>9, <2>1 DEF Flagged
  <2>6. \A k \in DOMAIN nodes' :
          IsOpen(k)' /\ ~TooDeep(k)' /\ TooManyEdits(k)' => flags'.edits \/ Queued(k)'
    BY <1>3, <1>6, <1>9, <2>1 DEF Flagged
  <2> QED
    BY <2>1, <2>2, <2>3, <2>4, <2>5, <2>6 DEF Flagged
<1>11. Expanding'
  <2>1. IsOpen(cur) /\ ~AtBound(cur) /\ cursor \in Nat
    BY <1>3 DEF Expanding
  <2>2. cur \in DOMAIN nodes
    BY <2>1 DEF IsOpen
  <2>3. PICK c : c = cur
    OBVIOUS
  <2>4. IsOpen(c)' /\ ~AtBound(c)'
    BY <1>6, <2>1, <2>2, <2>3
  <2>5. IsOpen(cur)' /\ ~AtBound(cur)'
    <3>1. cur' = c
      BY <1>1, <2>3
    <3> QED
      BY <2>4, <3>1
  <2>6. cursor' \in Nat /\ pc' # "pop"
    BY <1>1, <1>2, <1>3, <2>1
  <2> QED
    BY <1>9, <2>5, <2>6 DEF Expanding
<1> QED
  BY <1>2, <1>3, <1>8, <1>10, <1>11 DEF Searches

(* The search ends with a program that passes. *)
LEMMA VerifyPasses ==
  ASSUME NEW patch, Proposing(patch), Verify(patch), NEW x, NEW n, Verifying(patch, x, n),
         n.outcome = "PASS"
  PROVE  pc' = "done" /\ Replays(Artifact')
<1>1. /\ Sound(Artifact') /\ n \in NodeRecords(in) /\ x.result = "verified"
      /\ attempts' = Append(attempts, x) /\ nodes' = Append(nodes, n)
      /\ in' = in /\ cur' = cur /\ cursor' = cursor + 1 /\ verifications' = verifications + 1
  BY VerifyRecords
<1>2. Recorded /\ Flagged /\ Sound(Artifact)
  BY DEF Proposing, Searches, Recorded
<1>3. /\ nodes \in Seq(NodeRecords(in)) /\ Len(nodes) >= 1
  BY <1>2, ArtifactFields DEF Sound, Typed
<1>4. PICK l \in Nat : l = Len(nodes) + 1 /\ l # 1
  BY <1>3
<1>5. /\ pc' = "done" /\ flags' = flags
      /\ result' = [outcome |-> "Repaired", stop |-> "solved", truncation |-> None,
                    accepted |-> l, chain |-> BuildChain(nodes', l)]
  <2>1. n = Child(patch, WouldBe(patch), cur)
    BY DEF Verifying
  <2> QED
    BY <1>4, <2>1 DEF Verify
<1>6. /\ Len(nodes') = l /\ DOMAIN nodes = 1..Len(nodes) /\ DOMAIN nodes' = 1..l
      /\ nodes'[l] = n /\ \A k \in DOMAIN nodes : k \in DOMAIN nodes' /\ nodes'[k] = nodes[k]
      /\ \A k \in DOMAIN nodes' : k \in DOMAIN nodes \/ k = l
      /\ l \in DOMAIN nodes'
  BY <1>1, <1>3, <1>4
<1>7. PICK b : b = Artifact'
  OBVIOUS
<1>8. l # None
  BY InputsAssumption
<1>9. /\ b.nodes = nodes' /\ b.outcome = "Repaired" /\ b.stop = "solved" /\ b.truncation = None
      /\ b.accepted = l /\ b.chain = BuildChain(nodes', l)
      /\ b.acceptedProgram = nodes'[l].program /\ b.unknown = flags'.unknown
  BY <1>5, <1>7, <1>8 DEF Artifact
<1>10. Accepts(b, l) /\ l \in DOMAIN b.nodes
  BY <1>6, <1>9 DEF Accepts
<1>11. CountsDerivable(b)
  <2>1. verifications' = Len(nodes')
    BY <1>1, <1>2, <1>4, <1>6 DEF Recorded
  <2>2. CountsDerivable(Artifact')
    BY <2>1 DEF CountsDerivable, Artifact, Count
  <2> QED
    BY <1>7, <2>2
<1>12. b.unknown = DerivedFlags(b).unknown
  <2>1. DerivedFlags(b).unknown <=> \E k \in DOMAIN nodes' : nodes'[k].outcome = "UNKNOWN"
    BY <1>9 DEF DerivedFlags
  <2>2. flags.unknown <=> \E k \in DOMAIN nodes : nodes[k].outcome = "UNKNOWN"
    BY <1>2 DEF Flagged
  <2>3. flags.unknown <=> \E k \in DOMAIN nodes' : nodes'[k].outcome = "UNKNOWN"
    BY <1>6, <2>2
  <2>4. flags.unknown \in BOOLEAN /\ DerivedFlags(b).unknown \in BOOLEAN
    BY <1>2, DerivedTyped DEF Flagged, FlagSet
  <2> QED
    BY <1>5, <1>9, <2>1, <2>3, <2>4
<1>13. Replays(b)
  BY <1>1, <1>4, <1>7, <1>9, <1>10, <1>11, <1>12, RepairedReplays
<1> QED
  BY <1>5, <1>7, <1>13

(* A verification goes on or ends the search. *)
LEMMA VerifyKeeps ==
  ASSUME NEW patch, Proposing(patch), Verify(patch)
  PROVE  Searches' \/ (pc' = "done" /\ Replays(Artifact'))
<1>1. PICK n : n = Child(patch, WouldBe(patch), cur)
  OBVIOUS
<1>2. PICK x : x = Attempt(patch, "verified", None, WouldBe(patch), n.outcome)
  OBVIOUS
<1>3. Verifying(patch, x, n)
  BY <1>1, <1>2 DEF Verifying
<1>4. CASE n.outcome = "PASS"
  BY <1>3, <1>4, VerifyPasses
<1>5. CASE n.outcome # "PASS"
  BY <1>3, <1>5, VerifyContinues
<1> QED
  BY <1>4, <1>5

(* A proposal goes on or ends the search. *)
LEMMA ProposeKeeps ==
  ASSUME Searches, result = NoResult, Propose
  PROVE  \/ Searches' /\ result' = NoResult
         \/ pc' = "done" /\ Replays(Artifact')
<1>1. PICK patch : /\ patch = Candidates(in, nodes[cur].program)[cursor + 1]
                   /\ pc = "propose" /\ cursor < Len(Candidates(in, nodes[cur].program))
                   /\ Reject(patch) \/ Reuse(patch) \/ BudgetBlocked(patch) \/ Verify(patch)
  BY DEF Propose
<1>2. Proposing(patch)
  BY <1>1 DEF Proposing
<1>3. CASE Reject(patch)
  <2>1. result' = result
    BY <1>3 DEF Reject
  <2> QED
    BY <1>2, <1>3, <2>1, RejectKeeps
<1>4. CASE Reuse(patch)
  <2>1. result' = result
    BY <1>4 DEF Reuse
  <2> QED
    BY <1>2, <1>4, <2>1, ReuseKeeps
<1>5. CASE BudgetBlocked(patch)
  <2>1. pc' = "done"
    BY <1>5 DEF BudgetBlocked
  <2> QED
    BY <1>2, <1>5, <2>1, BlockedKeeps
<1>6. CASE Verify(patch)
  <2>1. pc' = "done" \/ result' = result
    BY <1>6 DEF Verify
  <2>2. Searches' => pc' # "done"
    BY DEF Searches
  <2> QED
    BY <1>2, <1>6, <2>1, <2>2, VerifyKeeps
<1> QED
  BY <1>1, <1>3, <1>4, <1>5, <1>6

(* Every step of the search keeps its record fit for the replay. *)
LEMMA SearchKeeps ==
  ASSUME SearchInv, Searching, Next
  PROVE  SearchInv'
<1>1. /\ in' = in /\ in \in Inputs /\ Searching'
  BY InputKept DEF SearchInv, Searching
<1>2. pc # "done"
  BY SearchElsewhere
<1>3. result = NoResult /\ (Started \/ Searches)
  BY <1>2 DEF SearchInv, Searches
<1>4. ASSUME \/ Searches' /\ result' = NoResult
             \/ pc' = "done" /\ Replays(Artifact')
      PROVE  SearchInv'
  BY <1>1, <1>4 DEF SearchInv, Searches
<1>5. CASE RefuseConfig \/ VerifyRoot
  <2>1. Started
    BY <1>3, <1>5 DEF RefuseConfig, VerifyRoot, Searches
  <2> QED
    BY <1>5, <2>1, StartKeeps
<1>6. CASE ~(RefuseConfig \/ VerifyRoot)
  <2>1. Searches
    BY <1>3, <1>6 DEF Started, Next, Pop, Exhausted, CandidateBudget, NoMoreCandidates, Propose
  <2>2. CASE Pop
    <3>1. result' = result
      BY <2>2 DEF Pop
    <3> QED
      BY <1>3, <1>4, <2>1, <2>2, <3>1, PopKeeps
  <2>3. CASE Exhausted
    <3>1. pc' = "done"
      BY <2>3 DEF Exhausted, Stop
    <3> QED
      BY <1>4, <2>1, <2>3, <3>1, ExhaustedKeeps
  <2>4. CASE CandidateBudget
    <3>1. pc' = "done"
      BY <2>4 DEF CandidateBudget, Stop
    <3> QED
      BY <1>4, <2>1, <2>4, <3>1, CandidateBudgetKeeps
  <2>5. CASE NoMoreCandidates
    <3>1. result' = result
      BY <2>5 DEF NoMoreCandidates
    <3> QED
      BY <1>3, <1>4, <2>1, <2>5, <3>1, NoMoreKeeps
  <2>6. CASE Propose
    BY <1>3, <1>4, <2>1, <2>6, ProposeKeeps
  <2> QED
    BY <1>6, <2>2, <2>3, <2>4, <2>5, <2>6 DEF Next
<1> QED
  BY <1>5, <1>6

(* A step that changes nothing *)
LEMMA StutterKeeps ==
  ASSUME SearchInv, UNCHANGED vars
  PROVE  SearchInv'
<1>1. /\ in' = in /\ pc' = pc /\ nodes' = nodes /\ attempts' = attempts /\ queue' = queue
      /\ cur' = cur /\ cursor' = cursor /\ flags' = flags /\ verifications' = verifications
      /\ result' = result
  BY DEF vars
<1>2. Searching' <=> Searching
  BY <1>1 DEF Searching
<1>3. Started => Started'
  BY <1>1 DEF Started
<1>4. Recorded => Recorded'
  BY <1>1, RecordKept
<1>5. \A k : /\ IsOpen(k)' = IsOpen(k) /\ TooDeep(k)' = TooDeep(k) /\ Queued(k)' = Queued(k)
             /\ TooManyEdits(k)' = TooManyEdits(k) /\ AtBound(k)' = AtBound(k)
  BY <1>1, SameNodes DEF Queued
<1>6. Flagged => Flagged'
  BY <1>1, <1>5 DEF Flagged
<1>7. Expanding => Expanding'
  BY <1>1, <1>5 DEF Expanding
<1>8. Replays(Artifact) => Replays(Artifact')
  <2>1. PICK b : b = Artifact
    OBVIOUS
  <2>2. Artifact' = b
    BY <1>1, <2>1 DEF Artifact, Count
  <2> QED
    BY <2>1, <2>2
<1> QED
  BY <1>1, <1>2, <1>3, <1>4, <1>6, <1>7, <1>8 DEF SearchInv

(* Every step, of the search or of the loop, keeps the record fit. *)
LEMMA SearchInvariant ==
  ASSUME SearchInv, [Next \/ LoopNext]_vars
  PROVE  SearchInv'
<1>1. CASE Next /\ Searching
  BY <1>1, SearchKeeps
<1>2. CASE Next /\ ~Searching
  BY <1>2, SearchElsewhere DEF SearchInv, Next, RefuseConfig, VerifyRoot, Pop, Exhausted,
     CandidateBudget, NoMoreCandidates, Propose
<1>3. CASE LoopNext
  <2>1. pc = "round" /\ in' = in
    BY <1>3, InputKept DEF LoopNext, Round, NoMoreRounds, NothingOffered
  <2>2. ~Searching /\ ~Searching'
    BY <2>1 DEF SearchInv, Started, Searching
  <2>3. pc' \in {"round", "done"}
    BY <1>3, <2>1 DEF LoopNext, Round, NoMoreRounds, NothingOffered, EndLoop, Stop,
                      RejectInRound, VerifyInRound
  <2> QED
    BY <2>1, <2>2, <2>3 DEF SearchInv
<1>4. CASE UNCHANGED vars
  BY <1>4, StutterKeeps
<1> QED
  BY <1>1, <1>2, <1>3, <1>4

(* Whatever the programs, the permissions, the oracle and the budgets, what a
   finished search exports is accepted by the replay: its record is explained
   line by line, its stop reason is the one the record gives, and its chain
   leads from the input to the accepted program. *)
THEOREM Replay == RepairSpec => []ReplayAccepts
<1>1. Init => SearchInv
  BY DEF Init, SearchInv, Searching, Started
<1>2. SearchInv /\ [Next \/ LoopNext]_vars => SearchInv'
  BY SearchInvariant
<1>3. SearchInv => ReplayAccepts
  BY DEF SearchInv, Started, ReplayAccepts
<1> QED
  BY <1>1, <1>2, <1>3, PTL DEF RepairSpec

-----------------------------------------------------------------------------
(* The layers of the search. Nodes are verified in the order of their depth, so
   a program stands at the depth of the shortest way to it, and where the search
   ends says what is known of the programs around the input (LayerInv). *)

(* The search goes layer by layer. Due is what is still to expand. *)
Due(k) == Queued(k) \/ (pc = "propose" /\ k = cur)

Ordered ==
  /\ \A i, j \in DOMAIN queue : i <= j => nodes[queue[i]].depth <= nodes[queue[j]].depth
  /\ \A q \in DOMAIN nodes : Due(q) =>
       \A k \in DOMAIN nodes : nodes[k].depth <= nodes[q].depth + 1
  /\ pc = "propose" => \A q \in DOMAIN nodes : Queued(q) => nodes[cur].depth <= nodes[q].depth

(* What one step makes of a node that was expanded is recorded one layer below
   it at most. *)
Reached(s, d) == \E m \in DOMAIN nodes : nodes[m].program = s /\ nodes[m].depth <= d
Expanded(k) == \A s \in Successors(nodes[k].program) : Reached(s, nodes[k].depth + 1)
Expansions ==
  \A k \in DOMAIN nodes : IsOpen(k) /\ ~AtBound(k) => Due(k) \/ Expanded(k)

Made(j) == Apply(nodes[cur].program, Candidates(in, nodes[cur].program)[j])
Handled ==
  pc = "propose" =>
    /\ cursor <= Len(Candidates(in, nodes[cur].program))
    /\ \A j \in 1..cursor : Made(j) \in in.valid => Reached(Made(j), nodes[cur].depth + 1)

(* Every node is a step from a failing one. *)
Descends(k) ==
  LET n == nodes[k] IN
  /\ n.edits = n.depth
  /\ k # 1 => /\ nodes[n.parent].outcome = "FAIL"
              /\ n.program \in Successors(nodes[n.parent].program)

Layers ==
  /\ \A k \in DOMAIN nodes : Descends(k) /\ nodes[k].outcome # "PASS"
  /\ Ordered /\ Expansions /\ Handled

(* The ends of a search *)
EndedAtRoot ==
  result.stop \in {"verification-budget-zero", "already-satisfied", "root-invalid",
                   "root-unsupported", "root-unknown"} /\ result.outcome # "Repaired"
EndedExhausted ==
  /\ Recorded /\ Flagged /\ queue = <<>> /\ result = Finished(Classify(flags))
  /\ \A k \in DOMAIN nodes : Descends(k) /\ nodes[k].outcome # "PASS"
  /\ \A k \in DOMAIN nodes : IsOpen(k) /\ ~AtBound(k) => Expanded(k)
EndedByCandidates ==
  /\ result.stop = "candidate-budget" /\ result.outcome = "BudgetExhausted"
  /\ Sound(Artifact) /\ Len(attempts) >= in.candidates
  /\ \A k \in DOMAIN nodes : nodes[k].outcome # "PASS"
EndedByVerifications ==
  /\ result.stop = "verification-budget" /\ result.outcome = "BudgetExhausted"
  /\ Len(nodes) = in.verifications
  /\ \E k \in DOMAIN nodes : /\ in.verdict[nodes[k].program] = "FAIL"
                             /\ \E s \in Successors(nodes[k].program) : s \notin Verified
EndedRepaired ==
  /\ result.stop = "solved" /\ result.outcome = "Repaired" /\ Sound(Artifact)
  /\ result.accepted \in DOMAIN nodes
  /\ LET n == nodes[result.accepted] IN
     /\ n.outcome = "PASS" /\ n.depth >= 1 /\ Len(result.chain) = n.depth
     /\ \A k \in DOMAIN nodes : Descends(k) /\ (k # result.accepted => nodes[k].outcome # "PASS")
     /\ \A k \in DOMAIN nodes :
          IsOpen(k) /\ nodes[k].depth + 1 < n.depth => Expanded(k)
Ended ==
  EndedAtRoot \/ EndedExhausted \/ EndedByCandidates \/ EndedByVerifications \/ EndedRepaired

LayerInv ==
  Searching => /\ pc \in {"pop", "propose"} => Layers
               /\ pc = "done" => Ended

-----------------------------------------------------------------------------
(* Candidates are always permitted and apply: nothing is rejected but what the
   static validator refuses. *)

(* A walk through the first n changes of a body *)
Changed(g, body, cs, n) ==
  g = [k \in 0..n |-> IF k = 0 THEN body ELSE Change(g[k - 1], cs[k])]

(* Every number of changes has its walk. *)
LEMMA ChangedExists ==
  ASSUME NEW body, NEW cs
  PROVE  \A n \in Nat : \E g : Changed(g, body, cs, n)
<1> DEFINE S == {n \in Nat : \E g : Changed(g, body, cs, n)}
<1>1. 0 \in S
  <2>1. Changed([k \in 0..0 |-> body], body, cs, 0)
    BY DEF Changed
  <2> QED
    BY <2>1
<1>2. ASSUME NEW n \in Nat, n \in S
      PROVE  n + 1 \in S
  <2>1. PICK g : Changed(g, body, cs, n)
    BY <1>2
  <2> DEFINE last == Change(g[n], cs[n + 1])
             h == [k \in 0..(n + 1) |-> IF k = n + 1 THEN last ELSE g[k]]
  <2>2. g[0] = body /\ \A k \in 1..n : g[k] = Change(g[k - 1], cs[k])
    BY <2>1 DEF Changed
  <2>3. /\ h[0] = body /\ h[n + 1] = last /\ \A k \in 0..n : h[k] = g[k]
        /\ h = [k \in 0..(n + 1) |-> h[k]]
    BY <2>2
  <2> HIDE DEF h
  <2>4. ASSUME NEW k \in 0..(n + 1)
        PROVE  h[k] = IF k = 0 THEN body ELSE Change(h[k - 1], cs[k])
    <3>1. CASE k = 0
      BY <2>3, <3>1
    <3>2. CASE k = n + 1
      <4>0. k - 1 = n /\ n \in 0..n
        BY <3>2
      <4>1. h[k - 1] = g[n]
        BY <2>3, <4>0
      <4> QED
        BY <2>3, <3>2, <4>1
    <3>3. CASE k \in 1..n
      <4>0. k - 1 \in 0..n /\ k \in 0..n
        BY <3>3
      <4>1. h[k - 1] = g[k - 1] /\ h[k] = g[k]
        BY <2>3, <4>0
      <4>2. g[k] = Change(g[k - 1], cs[k])
        BY <2>2, <3>3
      <4> QED
        BY <3>3, <4>1, <4>2
    <3> QED
      BY <3>1, <3>2, <3>3
  <2>5. Changed(h, body, cs, n + 1)
    BY <2>3, <2>4 DEF Changed
  <2> QED
    BY <2>5
<1> HIDE DEF S
<1>3. Nat \subseteq S
  BY <1>1, <1>2, NatInductionOn
<1> QED
  BY <1>3 DEF S

(* The bodies a patch goes through *)
LEMMA AfterSteps ==
  ASSUME NEW body, NEW cs, Len(cs) \in Nat
  PROVE  /\ After(body, cs)[0] = body
         /\ \A k \in 1..Len(cs) : After(body, cs)[k] = Change(After(body, cs)[k - 1], cs[k])
<1> DEFINE Is(f) == f = [k \in 0..Len(cs) |-> IF k = 0 THEN body ELSE Change(f[k - 1], cs[k])]
           w == CHOOSE f : Is(f)
<1>1. \E f : Is(f)
  <2>1. PICK g : Changed(g, body, cs, Len(cs))
    BY ChangedExists
  <2>2. Is(g)
    BY <2>1 DEF Changed
  <2> QED
    BY <2>2
<1>2. After(body, cs) = w
  BY DEF After
<1> HIDE DEF w
<1>3. Is(w)
  <2> HIDE DEF Is
  <2> QED
    BY <1>1 DEF w
<1> QED
  BY <1>2, <1>3

(* Bodies whose statements are distinct *)
Distinct(body) ==
  /\ body \in Seq(Sids) /\ \A j, k \in DOMAIN body : body[j] = body[k] => j = k
Ids(body) == {body[k] : k \in DOMAIN body}

(* A statement has one position there. *)
LEMMA PositionIs ==
  ASSUME NEW body, Distinct(body), NEW k \in DOMAIN body
  PROVE  Position(body, body[k]) = k /\ Has(body, body[k])
<1>1. \A j \in DOMAIN body : body[j] = body[k] => j = k
  BY DEF Distinct
<1> QED
  BY <1>1 DEF Position, Has

(* The statements of the oracle's programs are distinct. *)
LEMMA BodyDistinct ==
  ASSUME NEW i \in Inputs, NEW p \in DOMAIN i.verdict, NEW f \in DOMAIN p
  PROVE  Distinct(p[f])
BY InputsAssumption DEF Distinct

(* The candidates are permitted and apply to the program they are made for. *)
LEMMA CandidateApplies ==
  ASSUME NEW i \in Inputs, NEW p \in DOMAIN i.verdict, i.reorder, NEW c \in SwapPatches(i, p)
  PROVE  CheckAllowed(i, c) /\ Applies(p, c)
<1>1. PICK f \in Functions : \E k \in Swappable(i, p, f) : c = SwapOf(p, f, k)
  BY DEF SwapPatches
<1>2. PICK k \in Swappable(i, p, f) : c = SwapOf(p, f, k)
  BY <1>1
<1> DEFINE a == p[f][k]
           b == p[f][k + 1]
<1>3. /\ c.f = f /\ c.hash = p[f] /\ Len(c.changes) = 1 /\ DOMAIN c.changes = {1}
      /\ c.changes[1].kind = "swap" /\ c.changes[1].a = a /\ c.changes[1].b = b
  BY <1>2 DEF SwapOf, Swap
<1>4. f \in DOMAIN p /\ Distinct(p[f])
  <2>1. f \in DOMAIN p
    BY InputsAssumption
  <2> QED
    BY <2>1, BodyDistinct
<1>5. k \in DOMAIN p[f] /\ k + 1 \in DOMAIN p[f] /\ k \in Nat
  BY <1>4 DEF Swappable, Distinct
<1>6. IsTarget(i, f, a, b)
  BY DEF Swappable
<1> HIDE DEF a, b
<1>7. CheckAllowed(i, c)
  BY <1>3, <1>6 DEF CheckAllowed, IsTarget
<1>8. After(p[f], c.changes)[0] = p[f]
  BY <1>3, AfterSteps
<1>9. /\ Position(p[f], a) = k /\ Has(p[f], a)
      /\ Position(p[f], b) = k + 1 /\ Has(p[f], b)
  BY <1>4, <1>5, PositionIs DEF a, b
<1>10. SwapLegal(p[f], a, b)
  BY <1>5, <1>6, <1>9 DEF SwapLegal, IsTarget
<1>11. \A j \in 1..1 : j = 1 /\ j - 1 = 0
  OBVIOUS
<1>12. Applies(p, c)
  BY <1>3, <1>4, <1>8, <1>10, <1>11 DEF Applies
<1> QED
  BY <1>7, <1>12

-----------------------------------------------------------------------------
(* The nodes of a record, and the programs around the input *)

(* The nodes of a sound record *)
LEMMA NodeNow ==
  ASSUME Sound(Artifact)
  PROVE  /\ in \in Inputs /\ DOMAIN nodes = 1..Len(nodes) /\ Len(nodes) \in Nat /\ 1 \in DOMAIN nodes
         /\ Len(nodes) <= in.verifications /\ Len(attempts) <= in.candidates
         /\ Len(attempts) \in Nat
         /\ \A j, k \in DOMAIN nodes : nodes[j].program = nodes[k].program => j = k
         /\ \A k \in DOMAIN nodes :
              /\ nodes[k].depth \in Nat /\ nodes[k].edits \in Nat /\ k \in Nat
              /\ nodes[k].program \in DOMAIN in.verdict
              /\ nodes[k].outcome = in.verdict[nodes[k].program]
              /\ nodes[k].depth <= in.maxDepth /\ nodes[k].edits <= in.maxEdits
              /\ k = 1 => nodes[k].depth = 0 /\ nodes[k].program = in.program
              /\ k # 1 => /\ nodes[k].parent \in DOMAIN nodes /\ nodes[k].parent < k
                          /\ nodes[k].depth = nodes[nodes[k].parent].depth + 1
                          /\ in.strategy = "single" => nodes[k].depth = 1
<1>1. PICK a : a = Artifact
  OBVIOUS
<1>2. Sound(a) /\ a.nodes = nodes /\ a.input = in /\ a.attempts = attempts
  BY <1>1, ArtifactFields
<1>3. /\ a.input \in Inputs /\ DOMAIN a.nodes = 1..Len(a.nodes) /\ Len(a.nodes) \in Nat
      /\ 1 \in DOMAIN a.nodes
      /\ Len(a.nodes) <= a.input.verifications /\ Len(a.attempts) <= a.input.candidates
      /\ Len(a.attempts) \in Nat
      /\ \A j, k \in DOMAIN a.nodes : a.nodes[j].program = a.nodes[k].program => j = k
  BY <1>2 DEF Sound, Typed
<1>4. ASSUME NEW k \in DOMAIN a.nodes
      PROVE  /\ a.nodes[k].depth \in Nat /\ a.nodes[k].edits \in Nat /\ k \in Nat
             /\ a.nodes[k].program \in DOMAIN a.input.verdict
             /\ a.nodes[k].outcome = a.input.verdict[a.nodes[k].program]
             /\ a.nodes[k].depth <= a.input.maxDepth /\ a.nodes[k].edits <= a.input.maxEdits
             /\ k = 1 => a.nodes[k].depth = 0 /\ a.nodes[k].program = a.input.program
             /\ k # 1 => /\ a.nodes[k].parent \in DOMAIN a.nodes /\ a.nodes[k].parent < k
                         /\ a.nodes[k].depth = a.nodes[a.nodes[k].parent].depth + 1
                         /\ a.input.strategy = "single" => a.nodes[k].depth = 1
  <2>1. NodeSound(a, k)
    BY <1>2 DEF Sound
  <2>2. a.nodes \in Seq(NodeRecords(a.input))
    BY <1>2 DEF Sound, Typed
  <2>3. a.nodes[k] \in NodeRecords(a.input)
    BY <1>3, <2>2
  <2>4. /\ a.nodes[k].depth \in Nat /\ a.nodes[k].edits \in Nat /\ k \in Nat
        /\ a.nodes[k].program \in DOMAIN a.input.verdict
    BY <1>3, <2>3 DEF NodeRecords
  <2>5. k # 1 => a.nodes[k].parent \in DOMAIN a.nodes /\ a.nodes[k].parent < k
    BY <1>3, <2>1 DEF NodeSound, NodeWellPlaced
  <2>6. /\ a.nodes[k].outcome = a.input.verdict[a.nodes[k].program]
        /\ a.nodes[k].depth <= a.input.maxDepth /\ a.nodes[k].edits <= a.input.maxEdits
    BY <2>1 DEF NodeSound, ReportsMatch
  <2>7. /\ k = 1 => a.nodes[k].depth = 0 /\ a.nodes[k].program = a.input.program
        /\ k # 1 => /\ a.nodes[k].depth = a.nodes[a.nodes[k].parent].depth + 1
                    /\ a.input.strategy = "single" => a.nodes[k].depth = 1
    BY <2>1 DEF NodeSound, NodeWellPlaced
  <2> QED
    BY <2>4, <2>5, <2>6, <2>7
<1> QED
  BY <1>2, <1>3, <1>4

(* Numbers by the number below, for two or more *)
LEMMA DepthBelowIndex ==
  ASSUME Sound(Artifact)
  PROVE  \A k \in DOMAIN nodes : nodes[k].depth < k
<1> DEFINE S == {n \in Nat : \A k \in DOMAIN nodes : k <= n => nodes[k].depth < k}
<1>1. 0 \in S
  BY NodeNow
<1>2. ASSUME NEW n \in Nat, n \in S
      PROVE  n + 1 \in S
  <2>1. ASSUME NEW k \in DOMAIN nodes, k <= n + 1
        PROVE  nodes[k].depth < k
    <3>1. k \in Nat /\ nodes[k].depth \in Nat
      BY NodeNow
    <3>2. CASE k <= n
      BY <1>2, <3>2
    <3>3. CASE k = 1
      BY <3>3, NodeNow
    <3>4. CASE k = n + 1 /\ k # 1
      <4>1. /\ nodes[k].parent \in DOMAIN nodes /\ nodes[k].parent < k
            /\ nodes[k].depth = nodes[nodes[k].parent].depth + 1
        BY <3>4, NodeNow
      <4>2. nodes[k].parent \in Nat /\ nodes[nodes[k].parent].depth \in Nat
        BY <4>1, NodeNow
      <4>3. nodes[nodes[k].parent].depth < nodes[k].parent
        BY <1>2, <3>1, <3>4, <4>1, <4>2
      <4> QED
        BY <3>1, <4>1, <4>2, <4>3
    <3> QED
      BY <2>1, <3>1, <3>2, <3>3, <3>4
  <2> QED
    BY <2>1
<1> HIDE DEF S
<1>3. Nat \subseteq S
  BY <1>1, <1>2, NatInductionOn
<1>4. ASSUME NEW k \in DOMAIN nodes
      PROVE  nodes[k].depth < k
  <2>1. k \in Nat /\ k \in S
    BY <1>3, NodeNow
  <2> QED
    BY <2>1 DEF S
<1> QED
  BY <1>4

(* No node is deeper than there are programs. *)
LEMMA DepthWithin ==
  ASSUME Sound(Artifact)
  PROVE  MaxSteps \in Nat /\ \A k \in DOMAIN nodes : nodes[k].depth <= MaxSteps
<1>1. in \in Inputs /\ DOMAIN nodes = 1..Len(nodes) /\ Len(nodes) \in Nat
  BY NodeNow
<1>2. IsFiniteSet(Programs) /\ Cardinality(Programs) \in Nat
  <2>1. IsFiniteSet(Programs)
    BY <1>1, InputsAssumption DEF Programs
  <2> QED
    BY <2>1, FS_CardinalityType
<1>3. CASE in.strategy = "single"
  <2>1. MaxSteps = 1
    BY <1>3 DEF MaxSteps
  <2>2. \A k \in DOMAIN nodes : nodes[k].depth <= 1
    BY <1>3, NodeNow
  <2> QED
    BY <2>1, <2>2
<1>4. CASE in.strategy # "single"
  <2>1. MaxSteps = Cardinality(Programs)
    BY <1>4 DEF MaxSteps
  <2> DEFINE D == 1..Len(nodes)
             f == [k \in D |-> nodes[k].program]
  <2>2. IsFiniteSet(D) /\ Cardinality(D) = Len(nodes)
    <3>1. 1 \in Int /\ Len(nodes) \in Int
      BY <1>1
    <3>2. /\ IsFiniteSet(1..Len(nodes))
          /\ Cardinality(1..Len(nodes)) = IF 1 > Len(nodes) THEN 0 ELSE Len(nodes) - 1 + 1
      BY <3>1, FS_Interval
    <3> QED
      BY <1>1, <3>2
  <2>3. f \in [D -> Programs]
    BY <1>1, NodeNow DEF Programs
  <2>4. \A j, k \in D : f[j] = f[k] => j = k
    BY <1>1, NodeNow
  <2>5. Len(nodes) <= Cardinality(Programs)
    <3> HIDE DEF D, f
    <3>1. Cardinality(D) > Cardinality(Programs) => \E j, k \in D : j # k /\ f[j] = f[k]
      BY <1>2, <2>2, <2>3, FS_PigeonHole
    <3> QED
      BY <1>1, <1>2, <2>2, <2>4, <3>1
  <2>6. ASSUME NEW k \in DOMAIN nodes
        PROVE  nodes[k].depth <= MaxSteps
    <3>1. nodes[k].depth < k /\ nodes[k].depth \in Nat /\ k \in 1..Len(nodes)
      BY <1>1, DepthBelowIndex, NodeNow
    <3> QED
      BY <1>1, <1>2, <2>1, <2>5, <3>1
  <2> QED
    BY <1>2, <2>1, <2>6
<1> QED
  BY <1>3, <1>4

(* One more step from a set of programs *)
Grown(near) == near \union UNION {Successors(p) : p \in {q \in near : in.verdict[q] = "FAIL"}}
Grows(w, n) == w = [d \in 0..n |-> IF d = 0 THEN {in.program} ELSE Grown(w[d - 1])]

(* Every number of steps has its sets. *)
LEMMA GrowsExists == \A n \in Nat : \E w : Grows(w, n)
<1> DEFINE S == {n \in Nat : \E w : Grows(w, n)}
<1>1. 0 \in S
  <2>1. Grows([d \in 0..0 |-> {in.program}], 0)
    BY DEF Grows
  <2> QED
    BY <2>1
<1>2. ASSUME NEW n \in Nat, n \in S
      PROVE  n + 1 \in S
  <2>1. PICK g : Grows(g, n)
    BY <1>2
  <2> DEFINE last == Grown(g[n])
             h == [d \in 0..(n + 1) |-> IF d = n + 1 THEN last ELSE g[d]]
  <2>2. g[0] = {in.program} /\ \A d \in 1..n : g[d] = Grown(g[d - 1])
    <3>1. g = [d \in 0..n |-> IF d = 0 THEN {in.program} ELSE Grown(g[d - 1])]
      BY <2>1 DEF Grows
    <3>2. \A d \in 0..n : g[d] = IF d = 0 THEN {in.program} ELSE Grown(g[d - 1])
      BY <3>1, Zenon
    <3>3. 0 \in 0..n /\ \A d \in 1..n : d \in 0..n /\ d # 0
      OBVIOUS
    <3>4. g[0] = {in.program}
      BY <3>2, <3>3
    <3>5. ASSUME NEW d \in 1..n
          PROVE  g[d] = Grown(g[d - 1])
      <4>1. d \in 0..n /\ d # 0
        BY <3>3
      <4> QED
        BY <3>2, <4>1, Zenon
    <3> QED
      BY <3>4, <3>5
  <2>3. /\ h[0] = {in.program} /\ h[n + 1] = last /\ \A d \in 0..n : h[d] = g[d]
        /\ h = [d \in 0..(n + 1) |-> h[d]]
    BY <2>2
  <2> HIDE DEF h
  <2>4. ASSUME NEW d \in 0..(n + 1)
        PROVE  h[d] = IF d = 0 THEN {in.program} ELSE Grown(h[d - 1])
    <3>1. CASE d = 0
      BY <2>3, <3>1
    <3>2. CASE d = n + 1
      <4>1. d - 1 = n /\ n \in 0..n
        BY <3>2
      <4>2. h[d - 1] = g[n]
        BY <2>3, <4>1
      <4> QED
        BY <2>3, <3>2, <4>2
    <3>3. CASE d \in 1..n
      <4>1. d - 1 \in 0..n /\ d \in 0..n
        BY <3>3
      <4>2. h[d - 1] = g[d - 1] /\ h[d] = g[d]
        BY <2>3, <4>1
      <4>3. g[d] = Grown(g[d - 1])
        BY <2>2, <3>3
      <4> QED
        BY <3>3, <4>2, <4>3
    <3> QED
      BY <3>1, <3>2, <3>3
  <2>5. Grows(h, n + 1)
    BY <2>3, <2>4 DEF Grows
  <2> QED
    BY <2>5
<1> HIDE DEF S
<1>3. Nat \subseteq S
  BY <1>1, <1>2, NatInductionOn
<1> QED
  BY <1>3 DEF S

(* The recursion of Within *)
LEMMA WithinSteps ==
  ASSUME MaxSteps \in Nat
  PROVE  /\ Within[0] = {in.program}
         /\ \A d \in 1..MaxSteps : Within[d] = Grown(Within[d - 1])
<1> DEFINE Is(w) == w = [d \in 0..MaxSteps |-> IF d = 0 THEN {in.program} ELSE Grown(w[d - 1])]
           v == CHOOSE w : Is(w)
<1>1. \E w : Is(w)
  <2>1. PICK w : Grows(w, MaxSteps)
    BY GrowsExists
  <2>2. Is(w)
    BY <2>1 DEF Grows
  <2> QED
    BY <2>2
<1>2. Within = v
  BY DEF Within, Grown
<1> HIDE DEF v
<1>3. Is(v)
  <2> HIDE DEF Is
  <2> QED
    BY <1>1 DEF v
<1>4. \A d \in 0..MaxSteps : v[d] = IF d = 0 THEN {in.program} ELSE Grown(v[d - 1])
  BY <1>3, Zenon
<1>5. 0 \in 0..MaxSteps /\ \A d \in 1..MaxSteps : d \in 0..MaxSteps /\ d # 0
  OBVIOUS
<1>6. v[0] = {in.program}
  BY <1>4, <1>5
<1>7. ASSUME NEW d \in 1..MaxSteps
      PROVE  v[d] = Grown(v[d - 1])
  <2>1. d \in 0..MaxSteps /\ d # 0
    BY <1>5
  <2> QED
    BY <1>4, <2>1, Zenon
<1> QED
  BY <1>2, <1>6, <1>7

(* More steps lead further. *)
LEMMA WithinGrows ==
  ASSUME MaxSteps \in Nat
  PROVE  \A d, e \in 0..MaxSteps : d <= e => Within[d] \subseteq Within[e]
<1> SUFFICES ASSUME NEW d \in 0..MaxSteps
             PROVE  \A e \in 0..MaxSteps : d <= e => Within[d] \subseteq Within[e]
  OBVIOUS
<1> DEFINE S == {e \in Nat : d <= e /\ e <= MaxSteps => Within[d] \subseteq Within[e]}
<1>1. 0 \in S
  OBVIOUS
<1>2. ASSUME NEW e \in Nat, e \in S
      PROVE  e + 1 \in S
  <2>1. ASSUME d <= e + 1, e + 1 <= MaxSteps
        PROVE  Within[d] \subseteq Within[e + 1]
    <3>1. CASE d = e + 1
      BY <3>1
    <3>2. CASE d # e + 1
      <4>1. d <= e /\ e <= MaxSteps /\ e + 1 \in 1..MaxSteps /\ (e + 1) - 1 = e
        BY <2>1, <3>2
      <4>2. Within[d] \subseteq Within[e]
        BY <1>2, <4>1
      <4>3. Within[e + 1] = Grown(Within[e])
        BY <4>1, WithinSteps
      <4> QED
        BY <4>2, <4>3 DEF Grown
    <3> QED
      BY <3>1, <3>2
  <2> QED
    BY <2>1
<1> HIDE DEF S
<1>3. Nat \subseteq S
  BY <1>1, <1>2, NatInductionOn
<1> QED
  BY <1>3 DEF S

(* Every node is within its depth of the input. *)
LEMMA NodesWithin ==
  ASSUME Sound(Artifact), \A k \in DOMAIN nodes : Descends(k)
  PROVE  \A k \in DOMAIN nodes : nodes[k].program \in Within[nodes[k].depth]
<1>0. MaxSteps \in Nat /\ \A k \in DOMAIN nodes : nodes[k].depth <= MaxSteps
  BY DepthWithin
<1> DEFINE S == {n \in Nat : \A k \in DOMAIN nodes :
                   nodes[k].depth = n => nodes[k].program \in Within[n]}
<1>1. 0 \in S
  <2>1. ASSUME NEW k \in DOMAIN nodes, nodes[k].depth = 0
        PROVE  nodes[k].program \in Within[0]
    <3>1. k = 1
      <4>1. k # 1 => nodes[k].parent \in DOMAIN nodes
                     /\ nodes[k].depth = nodes[nodes[k].parent].depth + 1
        BY NodeNow
      <4>2. k # 1 => nodes[nodes[k].parent].depth \in Nat
        BY <4>1, NodeNow
      <4> QED
        BY <2>1, <4>1, <4>2
    <3>2. nodes[k].program = in.program
      BY <3>1, NodeNow
    <3> QED
      BY <1>0, <3>2, WithinSteps
  <2> QED
    BY <2>1
<1>2. ASSUME NEW n \in Nat, n \in S
      PROVE  n + 1 \in S
  <2>1. ASSUME NEW k \in DOMAIN nodes, nodes[k].depth = n + 1
        PROVE  nodes[k].program \in Within[n + 1]
    <3>1. k # 1
      <4>1. k = 1 => nodes[k].depth = 0
        BY NodeNow
      <4> QED
        BY <2>1, <4>1
    <3> DEFINE m == nodes[k].parent
    <3>2. m \in DOMAIN nodes /\ nodes[k].depth = nodes[m].depth + 1
      BY <3>1, NodeNow
    <3>3. nodes[m].depth = n
      <4>1. nodes[m].depth \in Nat
        BY <3>2, NodeNow
      <4> QED
        BY <2>1, <3>2, <4>1
    <3>4. nodes[m].outcome = "FAIL" /\ nodes[k].program \in Successors(nodes[m].program)
      BY <3>1 DEF Descends
    <3>5. in.verdict[nodes[m].program] = "FAIL"
      BY <3>2, <3>4, NodeNow
    <3> HIDE DEF m
    <3>6. nodes[m].program \in Within[n]
      BY <1>2, <3>2, <3>3
    <3>7. n + 1 \in 1..MaxSteps /\ (n + 1) - 1 = n
      BY <1>0, <2>1
    <3>8. Within[n + 1] = Grown(Within[n])
      BY <1>0, <3>7, WithinSteps
    <3> QED
      BY <3>4, <3>5, <3>6, <3>8 DEF Grown
  <2> QED
    BY <2>1
<1> HIDE DEF S
<1>3. Nat \subseteq S
  BY <1>1, <1>2, NatInductionOn
<1>4. ASSUME NEW k \in DOMAIN nodes
      PROVE  nodes[k].program \in Within[nodes[k].depth]
  <2>1. nodes[k].depth \in Nat
    BY NodeNow
  <2> QED
    BY <1>3, <2>1 DEF S
<1> QED
  BY <1>4

(* If every failing node less deep than D was expanded, what is within D steps
   is recorded, and no deeper than it is far. *)
LEMMA LayersComplete ==
  ASSUME Sound(Artifact), NEW D \in Nat, D <= MaxSteps,
         \A k \in DOMAIN nodes : nodes[k].outcome = "FAIL" /\ nodes[k].depth < D => Expanded(k)
  PROVE  \A d \in 0..D : \A p \in Within[d] : Reached(p, d)
<1>0. MaxSteps \in Nat
  BY DepthWithin
<1> DEFINE S == {d \in Nat : d <= D => \A p \in Within[d] : Reached(p, d)}
<1>1. 0 \in S
  <2>1. Within[0] = {in.program}
    BY <1>0, WithinSteps
  <2>2. 1 \in DOMAIN nodes /\ nodes[1].program = in.program /\ nodes[1].depth = 0
    BY NodeNow
  <2> QED
    BY <2>1, <2>2 DEF Reached
<1>2. ASSUME NEW d \in Nat, d \in S
      PROVE  d + 1 \in S
  <2>1. ASSUME d + 1 <= D, NEW p \in Within[d + 1]
        PROVE  Reached(p, d + 1)
    <3>1. d + 1 \in 1..MaxSteps /\ (d + 1) - 1 = d /\ d <= D /\ d < D
      BY <1>0, <2>1
    <3>2. Within[d + 1] = Grown(Within[d])
      BY <1>0, <3>1, WithinSteps
    <3>3. CASE p \in Within[d]
      <4>1. PICK m \in DOMAIN nodes : nodes[m].program = p /\ nodes[m].depth <= d
        BY <1>2, <3>1, <3>3 DEF Reached
      <4>2. nodes[m].depth <= d + 1
        BY <4>1, NodeNow
      <4> QED
        BY <4>1, <4>2 DEF Reached
    <3>4. CASE p \notin Within[d]
      <4>1. PICK q \in Within[d] : in.verdict[q] = "FAIL" /\ p \in Successors(q)
        BY <2>1, <3>2, <3>4 DEF Grown
      <4>2. PICK m \in DOMAIN nodes : nodes[m].program = q /\ nodes[m].depth <= d
        BY <1>2, <3>1, <4>1 DEF Reached
      <4>3. nodes[m].depth \in Nat /\ nodes[m].outcome = in.verdict[nodes[m].program]
        BY NodeNow
      <4>4. Expanded(m)
        BY <3>1, <4>1, <4>2, <4>3
      <4>5. Reached(p, nodes[m].depth + 1)
        BY <4>1, <4>2, <4>4 DEF Expanded
      <4>6. PICK l \in DOMAIN nodes : nodes[l].program = p /\ nodes[l].depth <= nodes[m].depth + 1
        BY <4>5 DEF Reached
      <4>7. nodes[l].depth \in Nat
        BY NodeNow
      <4>8. nodes[l].depth <= d + 1
        BY <4>2, <4>3, <4>6, <4>7
      <4> QED
        BY <4>6, <4>8 DEF Reached
    <3> QED
      BY <3>3, <3>4
  <2> QED
    BY <2>1
<1> HIDE DEF S
<1>3. Nat \subseteq S
  BY <1>1, <1>2, NatInductionOn
<1> QED
  BY <1>3 DEF S

-----------------------------------------------------------------------------
(* The steps of the search keep LayerInv. *)

(* What can follow a program depends on the input only. *)
LEMMA SuccessorsKept ==
  ASSUME in' = in
  PROVE  \A p : Successors(p)' = Successors(p)
BY DEF Successors

(* What a step that records nothing leaves of the layers *)
LEMMA LayersSame ==
  ASSUME UNCHANGED <<in, nodes>>
  PROVE  \A k : /\ Descends(k)' = Descends(k) /\ Expanded(k)' = Expanded(k)
                /\ \A d : Reached(k, d)' = Reached(k, d)
BY DEF Descends, Expanded, Reached, Successors

(* The candidates for a recorded program are a sequence of swaps, *)
LEMMA CandidatesOf ==
  ASSUME in \in Inputs, NEW p \in DOMAIN in.verdict
  PROVE  /\ Candidates(in, p) \in Seq(SwapPatches(in, p))
         /\ Len(Candidates(in, p)) \in Nat
         /\ DOMAIN Candidates(in, p) = 1..Len(Candidates(in, p))
<1>1. FunctionOrder \in Seq(Functions) /\ \A f \in Functions : Len(p[f]) \in Nat
  BY InputsAssumption
<1>2. Candidates(in, p) \in Seq(SwapPatches(in, p))
  BY <1>1, CandidateIsSwap
<1> QED
  BY <1>2

(* all of them permitted and applicable. *)
LEMMA ProposalApplies ==
  ASSUME NEW patch, Proposing(patch)
  PROVE  /\ CheckAllowed(in, patch) /\ Applies(nodes[cur].program, patch)
         /\ WouldBe(patch) = Made(cursor + 1) /\ cursor + 1 \in DOMAIN Candidates(in, nodes[cur].program)
         /\ cursor \in Nat
<1>1. in \in Inputs /\ cur \in DOMAIN nodes /\ nodes[cur].program \in DOMAIN in.verdict
  BY ProposalFacts
<1>2. cursor \in Nat
  BY DEF Proposing, Searches, Expanding
<1>3. PICK p \in DOMAIN in.verdict : p = nodes[cur].program
  BY <1>1
<1>4. /\ Candidates(in, p) \in Seq(SwapPatches(in, p)) /\ Len(Candidates(in, p)) \in Nat
      /\ DOMAIN Candidates(in, p) = 1..Len(Candidates(in, p))
  BY <1>1, CandidatesOf
<1>5. cursor < Len(Candidates(in, p)) /\ patch = Candidates(in, p)[cursor + 1]
  BY <1>3 DEF Proposing
<1>6. cursor + 1 \in DOMAIN Candidates(in, p)
  BY <1>2, <1>4, <1>5
<1>7. in.reorder
  <2>1. ~in.reorder => Candidates(in, p) = <<>>
    BY DEF Candidates
  <2> QED
    BY <1>6, <2>1
<1>8. patch \in SwapPatches(in, p)
  BY <1>4, <1>5, <1>6
<1>9. CheckAllowed(in, patch) /\ Applies(p, patch)
  BY <1>1, <1>7, <1>8, CandidateApplies
<1> QED
  BY <1>2, <1>3, <1>5, <1>6, <1>9 DEF WouldBe, Made

(* The search starts with the root, the only layer. *)
LEMMA StartLayers ==
  ASSUME SearchInv, Searching, Started, RefuseConfig \/ VerifyRoot
  PROVE  \/ pc' = "done" /\ EndedAtRoot'
         \/ pc' = "pop" /\ Layers'
<1>1. CASE RefuseConfig
  BY <1>1 DEF RefuseConfig, Stop, Finished, Triple, EndedAtRoot
<1>2. CASE VerifyRoot /\ Root.outcome # "FAIL"
  <2>1. pc' = "done" /\ result' = Finished(RootTriple(Root.outcome))
    BY <1>2 DEF VerifyRoot, Stop
  <2>2. PICK o : o = Root.outcome
    OBVIOUS
  <2>3. o \in {"PASS", "INVALID", "UNSUPPORTED", "UNKNOWN"}
    BY <1>2, <2>2, InputsAssumption DEF Root, SearchInv
  <2>4. result' = Finished(RootTriple(o))
    BY <2>1, <2>2
  <2>5. EndedAtRoot'
    <3>1. CASE o = "PASS"
      BY <2>4, <3>1 DEF RootTriple, Triple, Finished, EndedAtRoot
    <3>2. CASE o = "INVALID"
      BY <2>4, <3>2 DEF RootTriple, Triple, Finished, EndedAtRoot
    <3>3. CASE o = "UNSUPPORTED"
      BY <2>4, <3>3 DEF RootTriple, Triple, Finished, EndedAtRoot
    <3>4. CASE o = "UNKNOWN"
      BY <2>4, <3>4 DEF RootTriple, Triple, Finished, EndedAtRoot
    <3> QED
      BY <2>3, <3>1, <3>2, <3>3, <3>4
  <2> QED
    BY <2>1, <2>5
<1>3. CASE VerifyRoot /\ Root.outcome = "FAIL"
  <2>1. pc' = "pop" /\ queue' = <<1>> /\ nodes' = <<Root>>
    BY <1>3 DEF VerifyRoot
  <2>2. /\ DOMAIN nodes' = {1} /\ nodes'[1].depth = 0 /\ nodes'[1].edits = 0
        /\ nodes'[1].outcome = "FAIL" /\ DOMAIN queue' = {1} /\ queue'[1] = 1
    BY <1>3, <2>1 DEF Root
  <2>3. \A k \in DOMAIN nodes' : Descends(k)' /\ nodes'[k].outcome # "PASS"
    BY <2>2 DEF Descends
  <2>4. Due(1)'
    BY <2>2 DEF Due, Queued
  <2>5. Expansions'
    BY <2>2, <2>4 DEF Expansions
  <2>6. Ordered' /\ Handled'
    BY <2>1, <2>2 DEF Ordered, Handled
  <2> QED
    BY <2>1, <2>3, <2>5, <2>6 DEF Layers
<1> QED
  BY <1>1, <1>2, <1>3

(* A popped node is at a bound, or the first of its layer that is left. *)
LEMMA PopLayers ==
  ASSUME Searches, Layers, Pop
  PROVE  Layers'
<1>1. PICK n : n = Head(queue)
  OBVIOUS
<1>2. /\ in' = in /\ nodes' = nodes /\ queue # <<>> /\ queue' = Tail(queue) /\ queue \in Seq(Nat)
      /\ pc = "pop" /\ \A j \in DOMAIN queue : IsOpen(queue[j])
  BY DEF Pop, WithoutHead, Searches, Expanding
<1>3. \A k : /\ Descends(k)' = Descends(k) /\ Expanded(k)' = Expanded(k)
             /\ IsOpen(k)' = IsOpen(k) /\ AtBound(k)' = AtBound(k)
  BY <1>2, LayersSame, SameNodes
<1>4. /\ Len(queue) \in Nat \ {0} /\ DOMAIN queue = 1..Len(queue) /\ n = queue[1]
      /\ DOMAIN queue' = 1..(Len(queue) - 1)
      /\ \A i \in 1..(Len(queue) - 1) : queue'[i] = queue[i + 1]
  BY <1>1, <1>2
<1>5. /\ \A k : Queued(k) => k = n \/ Queued(k)'
      /\ \A k : Queued(k)' => Queued(k)
      /\ Queued(n) /\ n \in DOMAIN nodes
  <2>1. /\ \A j \in DOMAIN queue' : \E i \in DOMAIN queue : queue[i] = queue'[j]
        /\ \A j \in DOMAIN queue : queue[j] = n \/ \E i \in DOMAIN queue' : queue'[i] = queue[j]
        /\ 1 \in DOMAIN queue
    BY <1>1, <1>2, Dequeued
  <2>2. \A k : (Queued(k) => k = n \/ Queued(k)') /\ (Queued(k)' => Queued(k))
    BY <2>1 DEF Queued
  <2>3. Queued(n)
    BY <1>4, <2>1 DEF Queued
  <2>4. n \in DOMAIN nodes
    BY <1>2, <1>4, <2>1 DEF IsOpen
  <2> QED
    BY <2>2, <2>3, <2>4
<1>6. \A i, j \in DOMAIN queue' : i <= j => nodes[queue'[i]].depth <= nodes[queue'[j]].depth
  <2>1. \A i \in DOMAIN queue' : i + 1 \in DOMAIN queue /\ queue'[i] = queue[i + 1] /\ i \in Nat
    BY <1>4
  <2>2. \A i, j \in DOMAIN queue : i <= j => nodes[queue[i]].depth <= nodes[queue[j]].depth
    BY DEF Layers, Ordered
  <2>3. ASSUME NEW i \in DOMAIN queue', NEW j \in DOMAIN queue', i <= j
        PROVE  nodes[queue'[i]].depth <= nodes[queue'[j]].depth
    <3>1. i + 1 <= j + 1 /\ i + 1 \in DOMAIN queue /\ j + 1 \in DOMAIN queue
      BY <2>1, <2>3
    <3>2. nodes[queue[i + 1]].depth <= nodes[queue[j + 1]].depth
      BY <2>2, <3>1
    <3> QED
      BY <2>1, <3>2
  <2> QED
    BY <2>3
<1>7. \A q \in DOMAIN nodes : Queued(q) =>
        /\ nodes[n].depth <= nodes[q].depth
        /\ \A k \in DOMAIN nodes : nodes[k].depth <= nodes[q].depth + 1
  <2>1. ASSUME NEW q \in DOMAIN nodes, Queued(q)
        PROVE  nodes[n].depth <= nodes[q].depth
    <3>1. PICK j \in DOMAIN queue : queue[j] = q
      BY <2>1 DEF Queued
    <3>2. 1 \in DOMAIN queue /\ 1 <= j
      BY <1>4
    <3> QED
      BY <1>4, <3>1, <3>2 DEF Layers, Ordered
  <2> QED
    BY <2>1 DEF Layers, Ordered, Due
<1>8. \A k \in DOMAIN nodes : IsOpen(k) /\ ~AtBound(k) => Queued(k) \/ Expanded(k)
  BY <1>2 DEF Layers, Expansions, Due
<1>9. \A k \in DOMAIN nodes : Descends(k)' /\ nodes'[k].outcome # "PASS"
  BY <1>2, <1>3 DEF Layers
<1>10. CASE AtBound(n) /\ pc' = "pop"
  <2>1. Ordered' /\ Handled'
    BY <1>2, <1>5, <1>6, <1>7, <1>10 DEF Ordered, Handled, Due
  <2>2. \A k \in DOMAIN nodes : IsOpen(k) /\ ~AtBound(k) => Queued(k)' \/ Expanded(k)
    BY <1>5, <1>8, <1>10
  <2>3. Expansions'
    BY <1>2, <1>3, <2>2 DEF Expansions, Due
  <2> QED
    BY <1>2, <1>9, <2>1, <2>3 DEF Layers
<1>11. CASE pc' = "propose" /\ cur' = n /\ cursor' = 0
  <2>1. Ordered'
    <3>1. \A q : Due(q)' <=> Queued(q)' \/ q = n
      BY <1>11 DEF Due
    <3>2. \A q \in DOMAIN nodes : Due(q)' => \A k \in DOMAIN nodes : nodes[k].depth <= nodes[q].depth + 1
      BY <1>5, <1>7, <3>1
    <3>3. \A q \in DOMAIN nodes : Queued(q)' => nodes[n].depth <= nodes[q].depth
      BY <1>5, <1>7
    <3> QED
      BY <1>2, <1>6, <1>11, <3>2, <3>3 DEF Ordered
  <2>2. \A k \in DOMAIN nodes : IsOpen(k) /\ ~AtBound(k) => Due(k)' \/ Expanded(k)
    BY <1>5, <1>8, <1>11 DEF Due
  <2>3. Expansions'
    BY <1>2, <1>3, <2>2 DEF Expansions
  <2>4. Handled'
    <3>1. nodes[n].program \in DOMAIN in.verdict /\ in \in Inputs
      BY <1>5, NodeNow DEF Searches, Recorded
    <3>2. Len(Candidates(in, nodes[n].program)) \in Nat
      BY <3>1, CandidatesOf
    <3>3. 0 <= Len(Candidates(in, nodes[n].program)) /\ 1..0 = {}
      BY <3>2
    <3>4. cursor' <= Len(Candidates(in', nodes'[cur'].program)) /\ 1..cursor' = {}
      BY <1>2, <1>11, <3>3
    <3> QED
      BY <3>4 DEF Handled
  <2> QED
    BY <1>2, <1>9, <2>1, <2>3, <2>4 DEF Layers
<1> QED
  BY <1>1, <1>10, <1>11, <1>2 DEF Pop, AtBound

(* A node whose candidates are used up is expanded. *)
LEMMA NoMoreLayers ==
  ASSUME Searches, Layers, NoMoreCandidates
  PROVE  Layers'
<1>1. /\ in' = in /\ nodes' = nodes /\ queue' = queue /\ cur' = cur /\ pc' = "pop" /\ pc = "propose"
      /\ cursor = Len(Candidates(in, nodes[cur].program))
  BY DEF NoMoreCandidates
<1>2. \A k : /\ Descends(k)' = Descends(k) /\ Expanded(k)' = Expanded(k)
             /\ IsOpen(k)' = IsOpen(k) /\ AtBound(k)' = AtBound(k) /\ Queued(k)' = Queued(k)
  BY <1>1, LayersSame, SameNodes DEF Queued
<1>3. Expanded(cur)
  <2>1. cur \in DOMAIN nodes /\ in \in Inputs /\ nodes[cur].program \in DOMAIN in.verdict
    BY <1>1, NodeNow DEF Searches, Expanding, IsOpen, Recorded
  <2>2. DOMAIN Candidates(in, nodes[cur].program) = 1..cursor
    BY <1>1, <2>1, CandidatesOf
  <2>3. \A j \in 1..cursor : Made(j) \in in.valid => Reached(Made(j), nodes[cur].depth + 1)
    BY <1>1 DEF Layers, Handled
  <2>4. ASSUME NEW s \in Successors(nodes[cur].program)
        PROVE  Reached(s, nodes[cur].depth + 1)
    <3>1. PICK j \in 1..cursor : s = Made(j) /\ s \in in.valid
      BY <2>2 DEF Successors, Made
    <3> QED
      BY <2>3, <3>1
  <2> QED
    BY <2>4 DEF Expanded
<1>4. Ordered' /\ Handled'
  BY <1>1, <1>2 DEF Layers, Ordered, Handled, Due
<1>5. Expansions'
  BY <1>1, <1>2, <1>3 DEF Layers, Expansions, Due
<1> QED
  BY <1>1, <1>2, <1>4, <1>5 DEF Layers

(* An empty queue: every open node within the bounds was expanded. *)
LEMMA ExhaustedEnds ==
  ASSUME Searches, Layers, Exhausted
  PROVE  pc' = "done" /\ EndedExhausted'
<1>1. /\ in' = in /\ nodes' = nodes /\ attempts' = attempts /\ queue' = queue /\ flags' = flags
      /\ verifications' = verifications /\ pc' = "done" /\ pc = "pop" /\ queue = <<>>
      /\ result' = Finished(Classify(flags'))
  BY DEF Exhausted, Stop
<1>2. \A k : /\ Descends(k)' = Descends(k) /\ Expanded(k)' = Expanded(k)
             /\ IsOpen(k)' = IsOpen(k) /\ AtBound(k)' = AtBound(k) /\ Queued(k)' = Queued(k)
             /\ TooDeep(k)' = TooDeep(k) /\ TooManyEdits(k)' = TooManyEdits(k)
  BY <1>1, LayersSame, SameNodes DEF Queued
<1>3. Recorded'
  BY <1>1, RecordKept DEF Searches
<1>4. Flagged'
  BY <1>1, <1>2 DEF Searches, Flagged
<1>5. \A k \in DOMAIN nodes : IsOpen(k) /\ ~AtBound(k) => Expanded(k)
  BY <1>1 DEF Layers, Expansions, Due, Queued
<1> QED
  BY <1>1, <1>2, <1>3, <1>4, <1>5 DEF Layers, EndedExhausted

(* The budget of proposals is used up. *)
LEMMA CandidateBudgetEnds ==
  ASSUME Searches, Layers, CandidateBudget
  PROVE  pc' = "done" /\ EndedByCandidates'
<1>1. /\ in' = in /\ nodes' = nodes /\ attempts' = attempts /\ pc' = "done"
      /\ Len(attempts) >= in.candidates
      /\ flags' = [flags EXCEPT !.candidates = TRUE] /\ result' = Finished(Classify(flags'))
  BY DEF CandidateBudget, Stop
<1>2. ~flags'.root /\ flags'.candidates
  BY <1>1 DEF Searches, Flagged
<1>3. Classify(flags') = Triple("BudgetExhausted", "candidate-budget", None)
  BY <1>2 DEF Classify
<1>4. result'.stop = "candidate-budget" /\ result'.outcome = "BudgetExhausted"
  BY <1>1, <1>3 DEF Finished, Triple
<1>5. Sound(Artifact')
  BY <1>1, SameRecord DEF Searches, Recorded
<1> QED
  BY <1>1, <1>4, <1>5 DEF Layers, EndedByCandidates

(* A proposal that makes no new node *)
LEMMA QuietLayers ==
  ASSUME NEW patch, Proposing(patch), Layers, cursor' = cursor + 1,
         UNCHANGED <<in, pc, nodes, queue, cur>>,
         Made(cursor + 1) \in in.valid => Reached(Made(cursor + 1), nodes[cur].depth + 1)
  PROVE  Layers'
<1>1. \A k : /\ Descends(k)' = Descends(k) /\ Expanded(k)' = Expanded(k)
             /\ IsOpen(k)' = IsOpen(k) /\ AtBound(k)' = AtBound(k) /\ Queued(k)' = Queued(k)
             /\ Due(k)' = Due(k)
             /\ \A d : Reached(k, d)' = Reached(k, d)
  BY LayersSame, SameNodes DEF Queued, Due
<1>2. Ordered' /\ Expansions'
  BY <1>1 DEF Layers, Ordered, Expansions
<1>3. cursor + 1 <= Len(Candidates(in, nodes[cur].program)) /\ cursor \in Nat /\ pc = "propose"
      /\ in \in Inputs /\ cur \in DOMAIN nodes /\ nodes[cur].program \in DOMAIN in.verdict
  <2>1. /\ cursor < Len(Candidates(in, nodes[cur].program)) /\ cursor \in Nat
        /\ cursor + 1 \in DOMAIN Candidates(in, nodes[cur].program)
        /\ pc = "propose"
    BY ProposalApplies DEF Proposing
  <2>2. in \in Inputs /\ cur \in DOMAIN nodes /\ nodes[cur].program \in DOMAIN in.verdict
    BY ProposalFacts
  <2>3. Len(Candidates(in, nodes[cur].program)) \in Nat
    BY <2>2, CandidatesOf
  <2> QED
    BY <2>1, <2>2, <2>3
<1>4. Handled'
  <2>1. ASSUME NEW j \in 1..(cursor + 1), Made(j) \in in.valid
        PROVE  Reached(Made(j), nodes[cur].depth + 1)
    <3>1. CASE j = cursor + 1
      BY <2>1, <3>1
    <3>2. CASE j # cursor + 1
      <4>1. j \in 1..cursor
        BY <1>3, <3>2
      <4> QED
        BY <1>3, <2>1, <4>1 DEF Layers, Handled
    <3> QED
      BY <3>1, <3>2
  <2>2. \A j \in 1..(cursor + 1) : Made(j) \in in.valid => Reached(Made(j), nodes[cur].depth + 1)
    BY <2>1
  <2>3. \A j \in 1..cursor' : Made(j)' \in in'.valid => Reached(Made(j), nodes[cur].depth + 1)'
    BY <2>2 DEF Made, Reached
  <2>4. cursor' <= Len(Candidates(in', nodes'[cur'].program))
    BY <1>3
  <2> QED
    BY <2>3, <2>4 DEF Handled
<1> QED
  BY <1>1, <1>2, <1>4 DEF Layers

(* A rejected proposal made no valid program. *)
LEMMA RejectLayers ==
  ASSUME NEW patch, Proposing(patch), Layers, Reject(patch)
  PROVE  Layers'
<1>1. CheckAllowed(in, patch) /\ Applies(nodes[cur].program, patch) /\ WouldBe(patch) = Made(cursor + 1)
  BY ProposalApplies
<1>2. Made(cursor + 1) \notin in.valid
  BY <1>1 DEF Reject, Rejection
<1>3. cursor' = cursor + 1 /\ UNCHANGED <<in, pc, nodes, queue, cur>>
  BY DEF Reject, Proposes
<1> QED
  BY <1>2, <1>3, QuietLayers

(* A program that was verified before stands no deeper than its new way is long. *)
LEMMA ReuseLayers ==
  ASSUME NEW patch, Proposing(patch), Layers, Reuse(patch)
  PROVE  Layers'
<1>1. cursor' = cursor + 1 /\ UNCHANGED <<in, pc, nodes, queue, cur>> /\ IsKnown(WouldBe(patch))
  BY DEF Reuse, Proposes
<1>2. WouldBe(patch) = Made(cursor + 1) /\ cur \in DOMAIN nodes /\ pc = "propose"
  BY ProposalApplies, ProposalFacts DEF Proposing
<1>3. PICK k \in DOMAIN nodes : nodes[k].program = Made(cursor + 1)
  BY <1>1, <1>2 DEF IsKnown
<1>4. nodes[k].depth <= nodes[cur].depth + 1
  BY <1>2 DEF Layers, Ordered, Due
<1>5. Reached(Made(cursor + 1), nodes[cur].depth + 1)
  BY <1>3, <1>4 DEF Reached
<1> QED
  BY <1>1, <1>5, QuietLayers

(* The budget of verifications is used up by a program that is new. *)
LEMMA BlockedEnds ==
  ASSUME NEW patch, Proposing(patch), Layers, BudgetBlocked(patch)
  PROVE  pc' = "done" /\ EndedByVerifications'
<1>1. /\ in' = in /\ nodes' = nodes /\ pc' = "done" /\ verifications >= in.verifications
      /\ flags' = [flags EXCEPT !.verifications = TRUE] /\ result' = Finished(Classify(flags'))
      /\ Rejection(patch) = "none" /\ ~IsKnown(WouldBe(patch))
  BY DEF BudgetBlocked, Proposes
<1>2. Searches /\ Recorded /\ Flagged /\ Sound(Artifact)
  BY DEF Proposing, Searches, Recorded
<1>3. ~flags'.root /\ ~flags'.candidates /\ flags'.verifications
  BY <1>1, <1>2 DEF Flagged
<1>4. Classify(flags') = Triple("BudgetExhausted", "verification-budget", None)
  BY <1>3 DEF Classify
<1>5. result'.stop = "verification-budget" /\ result'.outcome = "BudgetExhausted"
  BY <1>1, <1>4 DEF Finished, Triple
<1>6. Len(nodes) = in.verifications
  <2>1. Len(nodes) <= in.verifications /\ verifications = Len(nodes) /\ Len(nodes) \in Nat
        /\ in.verifications \in Nat
    BY <1>2, NodeNow, InputsAssumption DEF Recorded
  <2> QED
    BY <1>1, <2>1
<1>7. cur \in DOMAIN nodes /\ in.verdict[nodes[cur].program] = "FAIL"
  <2>1. IsOpen(cur)
    BY <1>2 DEF Searches, Expanding, Proposing
  <2> QED
    BY <1>2, <2>1, NodeNow DEF IsOpen
<1>8. WouldBe(patch) \in Successors(nodes[cur].program) /\ WouldBe(patch) \notin Verified
  <2>1. WouldBe(patch) \in in.valid
    BY <1>1 DEF Rejection
  <2>2. WouldBe(patch) = Made(cursor + 1)
        /\ cursor + 1 \in DOMAIN Candidates(in, nodes[cur].program)
    BY ProposalApplies
  <2>3. WouldBe(patch) \in Successors(nodes[cur].program)
    BY <2>1, <2>2 DEF Successors, Made
  <2>4. WouldBe(patch) \notin Verified
    BY <1>1 DEF IsKnown, Verified
  <2> QED
    BY <2>3, <2>4
<1>9. \E k \in DOMAIN nodes' : /\ in'.verdict[nodes'[k].program] = "FAIL"
                               /\ \E s \in Successors(nodes[k].program)' : s \notin Verified'
  <2>1. Verified' = Verified
    BY <1>1 DEF Verified
  <2>2. PICK s : s = WouldBe(patch)
    OBVIOUS
  <2>3. PICK k \in DOMAIN nodes : k = cur
    BY <1>7
  <2>4. s \in Successors(nodes[k].program) /\ s \notin Verified
    BY <1>8, <2>2, <2>3
  <2>5. s \in Successors(nodes[k].program)'
    BY <1>1, <2>4 DEF Successors
  <2> QED
    BY <1>1, <1>7, <2>1, <2>3, <2>4, <2>5
<1> QED
  BY <1>1, <1>5, <1>6, <1>9 DEF EndedByVerifications

(* A new node leaves what was reached and expanded. *)
LEMMA NewNodeLayers ==
  ASSUME nodes \in Seq(NodeRecords(in)), NEW n \in NodeRecords(in), nodes' = Append(nodes, n),
         in' = in
  PROVE  /\ \A s, d : Reached(s, d) => Reached(s, d)'
         /\ \A k \in DOMAIN nodes : Expanded(k) => Expanded(k)'
         /\ \A k \in DOMAIN nodes :
              Descends(k) /\ (k # 1 => nodes[k].parent \in DOMAIN nodes) => Descends(k)'
<1>1. \A k \in DOMAIN nodes : k \in DOMAIN nodes' /\ nodes'[k] = nodes[k]
  OBVIOUS
<1>2. \A s, d : Reached(s, d) => Reached(s, d)'
  BY <1>1 DEF Reached
<1>3. ASSUME NEW k \in DOMAIN nodes, Expanded(k)
      PROVE  Expanded(k)'
  <2>1. PICK p : p = nodes[k].program
    OBVIOUS
  <2>2. PICK d : d = nodes[k].depth + 1
    OBVIOUS
  <2>3. \A s \in Successors(p) : Reached(s, d)
    BY <1>3, <2>1, <2>2 DEF Expanded
  <2>4. \A s \in Successors(p)' : Reached(s, d)'
    BY <1>2, <2>3, SuccessorsKept
  <2>5. nodes'[k].program = p /\ nodes'[k].depth + 1 = d
    BY <1>1, <2>1, <2>2
  <2> QED
    BY <2>4, <2>5 DEF Expanded, Successors, Reached
<1>4. ASSUME NEW k \in DOMAIN nodes, Descends(k), k # 1 => nodes[k].parent \in DOMAIN nodes
      PROVE  Descends(k)'
  <2>1. nodes'[k] = nodes[k]
    BY <1>1
  <2>2. CASE k = 1
    BY <1>4, <2>1, <2>2 DEF Descends
  <2>3. CASE k # 1
    <3>1. PICK p : p = nodes[k].parent
      OBVIOUS
    <3>2. nodes'[k].parent = p /\ nodes'[p] = nodes[p]
      BY <1>1, <1>4, <2>1, <2>3, <3>1
    <3>3. /\ nodes[k].edits = nodes[k].depth /\ nodes[p].outcome = "FAIL"
          /\ nodes[k].program \in Successors(nodes[p].program)
      BY <1>4, <2>3, <3>1 DEF Descends
    <3>4. nodes'[k].program \in Successors(nodes[p].program)'
      BY <2>1, <3>2, <3>3, SuccessorsKept
    <3> QED
      BY <2>1, <3>2, <3>3, <3>4 DEF Descends
  <2> QED
    BY <2>2, <2>3
<1> QED
  BY <1>2, <1>3, <1>4

(* A new node of number l, one layer below the node that is expanded *)
NodeAdded(n, l) ==
  /\ Sound(Artifact') /\ l # 1 /\ nodes'[l] = n /\ DOMAIN nodes' = DOMAIN nodes \union {l}
  /\ l \notin DOMAIN nodes /\ cur \in DOMAIN nodes
  /\ \A k \in DOMAIN nodes : nodes'[k] = nodes[k] /\ nodes[k].depth \in Nat
  /\ in' = in /\ cur' = cur /\ cursor' = cursor + 1
  /\ n.program = Made(cursor + 1)
  /\ n.depth = nodes[cur].depth + 1 /\ n.edits = n.depth
  /\ \A k \in DOMAIN nodes : Descends(k)'
  /\ Descends(l)'
  /\ \A s, d : Reached(s, d) => Reached(s, d)'
  /\ \A k \in DOMAIN nodes : Expanded(k) => Expanded(k)'
  /\ \A k \in DOMAIN nodes : IsOpen(k)' = IsOpen(k) /\ AtBound(k)' = AtBound(k)
  /\ IsOpen(l)' = (n.outcome = "FAIL" /\ in.strategy # "single")

(* What a verification adds to the layers *)
LEMMA VerifyAdds ==
  ASSUME NEW patch, Proposing(patch), Verify(patch), NEW x, NEW n, Verifying(patch, x, n), Layers,
         NEW l \in Nat, l = Len(nodes) + 1
  PROVE  NodeAdded(n, l)
<1>1. /\ Sound(Artifact') /\ n \in NodeRecords(in) /\ nodes' = Append(nodes, n)
      /\ in' = in /\ cur' = cur /\ cursor' = cursor + 1
  BY VerifyRecords
<1>2. Searches /\ Recorded /\ Sound(Artifact) /\ pc = "propose"
  BY DEF Proposing, Searches, Recorded
<1>3. /\ nodes \in Seq(NodeRecords(in)) /\ Len(nodes) >= 1 /\ Len(nodes) \in Nat
  BY <1>2, ArtifactFields DEF Sound, Typed
<1>4. l # 1
  BY <1>3
<1>5. /\ DOMAIN nodes = 1..Len(nodes) /\ DOMAIN nodes' = 1..l
      /\ nodes'[l] = n /\ \A k \in DOMAIN nodes : nodes'[k] = nodes[k]
      /\ \A k \in DOMAIN nodes : IsOpen(k)' = IsOpen(k) /\ AtBound(k)' = AtBound(k)
      /\ IsOpen(l)' = (n.outcome = "FAIL" /\ in.strategy # "single")
  BY <1>1, <1>3, <1>4, NewNode
<1>6. DOMAIN nodes' = DOMAIN nodes \union {l} /\ l \notin DOMAIN nodes
  BY <1>3, <1>5
<1>7. /\ n.program = WouldBe(patch) /\ n.parent = cur /\ n.depth = nodes[cur].depth + 1
      /\ n.edits = nodes[cur].edits + Len(patch.changes)
  BY DEF Verifying, Child, DepthBelow
<1>8. cur \in DOMAIN nodes /\ IsOpen(cur) /\ nodes[cur].outcome = "FAIL"
  BY <1>2 DEF Searches, Expanding, IsOpen
<1>9. n.edits = n.depth
  <2>1. Len(patch.changes) = 1
    BY ProposalFacts, PatchShape
  <2>2. nodes[cur].edits = nodes[cur].depth
    BY <1>8 DEF Layers, Descends
  <2> QED
    BY <1>7, <2>1, <2>2
<1>10. /\ \A s, d : Reached(s, d) => Reached(s, d)'
       /\ \A k \in DOMAIN nodes : Expanded(k) => Expanded(k)'
       /\ \A k \in DOMAIN nodes :
            Descends(k) /\ (k # 1 => nodes[k].parent \in DOMAIN nodes) => Descends(k)'
  BY <1>1, <1>3, NewNodeLayers
<1>11. \A k \in DOMAIN nodes : Descends(k)' /\ nodes[k].depth \in Nat
  BY <1>2, <1>10, NodeNow DEF Layers
<1>12. WouldBe(patch) = Made(cursor + 1)
       /\ cursor + 1 \in DOMAIN Candidates(in, nodes[cur].program)
  BY ProposalApplies
<1>13. Descends(l)'
  <2>1. WouldBe(patch) \in in.valid
    <3>1. Rejection(patch) = "none"
      BY DEF Verify
    <3> QED
      BY <3>1 DEF Rejection
  <2>2. n.program \in Successors(nodes[cur].program)
    BY <1>7, <1>12, <2>1 DEF Successors, Made
  <2>3. PICK c \in DOMAIN nodes : c = cur
    BY <1>8
  <2>4. n.program \in Successors(nodes[c].program)'
    BY <1>1, <1>5, <2>2, <2>3 DEF Successors
  <2>5. nodes'[l].parent = c /\ nodes'[c].outcome = "FAIL" /\ nodes'[l].edits = nodes'[l].depth
    BY <1>5, <1>7, <1>8, <1>9, <2>3
  <2> QED
    BY <1>5, <2>4, <2>5 DEF Descends, Successors
<1> QED
  BY <1>1, <1>4, <1>5, <1>6, <1>7, <1>8, <1>9, <1>10, <1>11, <1>12, <1>13 DEF NodeAdded

(* The bounds of the depths around the node that is expanded *)
LEMMA DepthsAround ==
  ASSUME Layers, pc = "propose", cur \in DOMAIN nodes
  PROVE  /\ \A k \in DOMAIN nodes : nodes[k].depth <= nodes[cur].depth + 1
         /\ \A k \in DOMAIN nodes : Due(k) => nodes[cur].depth <= nodes[k].depth \/ k = cur
BY DEF Layers, Ordered, Due

(* A new node that does not pass stands at the end of the last layer. *)
LEMMA VerifyLayers ==
  ASSUME NEW patch, Proposing(patch), Verify(patch), NEW x, NEW n, Verifying(patch, x, n), Layers,
         n.outcome # "PASS"
  PROVE  Layers'
<1>1. PICK l \in Nat : l = Len(nodes) + 1
  BY ProposalFacts
<1>2. /\ l # 1 /\ nodes'[l] = n /\ DOMAIN nodes' = DOMAIN nodes \union {l}
      /\ l \notin DOMAIN nodes /\ cur \in DOMAIN nodes
      /\ \A k \in DOMAIN nodes : nodes'[k] = nodes[k] /\ nodes[k].depth \in Nat
      /\ in' = in /\ cur' = cur /\ cursor' = cursor + 1
      /\ n.program = Made(cursor + 1)
      /\ n.depth = nodes[cur].depth + 1
      /\ \A k \in DOMAIN nodes : Descends(k)'
      /\ Descends(l)'
      /\ \A s, d : Reached(s, d) => Reached(s, d)'
      /\ \A k \in DOMAIN nodes : Expanded(k) => Expanded(k)'
      /\ \A k \in DOMAIN nodes : IsOpen(k)' = IsOpen(k) /\ AtBound(k)' = AtBound(k)
      /\ IsOpen(l)' = (n.outcome = "FAIL" /\ in.strategy # "single")
  <2>1. NodeAdded(n, l)
    BY <1>1, VerifyAdds
  <2> QED
    BY <2>1 DEF NodeAdded
<1>3. /\ queue' = IF n.outcome = "FAIL" /\ in.strategy # "single" THEN Append(queue, l) ELSE queue
      /\ pc' = "propose" /\ pc = "propose"
  <2>1. n = Child(patch, WouldBe(patch), cur)
    BY DEF Verifying
  <2> QED
    BY <1>1, <2>1 DEF Verify, Requeued, NewIndex, Proposing
<1>4. queue \in Seq(Nat) /\ \A j \in DOMAIN queue : queue[j] \in DOMAIN nodes
  BY DEF Proposing, Searches, Expanding, IsOpen
<1>5. PICK D \in Nat : D = nodes[cur].depth
  BY <1>2
<1>6. /\ \A k \in DOMAIN nodes : nodes[k].depth <= D + 1
      /\ \A k \in DOMAIN nodes : Due(k) => D <= nodes[k].depth
  BY <1>2, <1>3, <1>5, DepthsAround
<1>7. /\ \A k : Queued(k) => Queued(k)'
      /\ \A k : Queued(k)' => Queued(k) \/ k = l
      /\ n.outcome = "FAIL" /\ in.strategy # "single" => Queued(l)'
      /\ \A i, j \in DOMAIN queue' : i <= j => nodes'[queue'[i]].depth <= nodes'[queue'[j]].depth
  <2>0. /\ \A i, j \in DOMAIN queue : i <= j => nodes[queue[i]].depth <= nodes[queue[j]].depth
        /\ \A i \in DOMAIN queue : nodes'[queue[i]].depth = nodes[queue[i]].depth
    BY <1>2, <1>4 DEF Layers, Ordered
  <2>1. CASE n.outcome = "FAIL" /\ in.strategy # "single"
    <3>1. queue' = Append(queue, l)
      BY <1>3, <2>1
    <3>2. /\ Len(queue) \in Nat /\ DOMAIN queue = 1..Len(queue)
          /\ DOMAIN queue' = 1..(Len(queue) + 1)
          /\ queue'[Len(queue) + 1] = l /\ Len(queue) + 1 \in DOMAIN queue'
          /\ \A j \in DOMAIN queue : j \in DOMAIN queue' /\ queue'[j] = queue[j]
          /\ \A j \in DOMAIN queue' : j \in DOMAIN queue \/ j = Len(queue) + 1
      BY <1>4, <3>1
    <3>3. /\ \A k : Queued(k) => Queued(k)'
          /\ \A k : Queued(k)' => Queued(k) \/ k = l
          /\ Queued(l)'
      BY <3>2 DEF Queued
    <3>4. nodes'[l].depth = D + 1
      BY <1>2, <1>5
    <3>5. ASSUME NEW i \in DOMAIN queue', NEW j \in DOMAIN queue', i <= j
          PROVE  nodes'[queue'[i]].depth <= nodes'[queue'[j]].depth
      <4>1. CASE j \in DOMAIN queue
        <5>1. i \in DOMAIN queue
          BY <3>2, <3>5, <4>1
        <5> QED
          BY <2>0, <3>2, <3>5, <4>1, <5>1
      <4>2. CASE j = Len(queue) + 1
        <5>1. nodes'[queue'[j]].depth = D + 1
          BY <3>2, <3>4, <4>2
        <5>2. CASE i \in DOMAIN queue
          <6>1. nodes'[queue'[i]].depth = nodes[queue[i]].depth /\ queue[i] \in DOMAIN nodes
            BY <1>4, <2>0, <3>2, <5>2
          <6> QED
            BY <1>6, <5>1, <6>1
        <5>3. CASE i = Len(queue) + 1
          BY <3>4, <4>2, <5>1, <5>3
        <5> QED
          BY <3>2, <5>2, <5>3
      <4> QED
        BY <3>2, <4>1, <4>2
    <3> QED
      BY <3>3, <3>5
  <2>2. CASE ~(n.outcome = "FAIL" /\ in.strategy # "single")
    <3>1. queue' = queue
      BY <1>3, <2>2
    <3> QED
      BY <2>0, <2>2, <3>1 DEF Queued
  <2> QED
    BY <2>1, <2>2
<1>8. \A k \in DOMAIN nodes : Due(k)' <=> Due(k)
  BY <1>2, <1>3, <1>7 DEF Due
<1>9. Ordered'
  <2>1. ASSUME NEW q \in DOMAIN nodes', Due(q)', NEW k \in DOMAIN nodes'
        PROVE  nodes'[k].depth <= nodes'[q].depth + 1
    <3>1. nodes'[k].depth <= D + 1 /\ nodes'[k].depth \in Nat
      <4>1. CASE k \in DOMAIN nodes
        BY <1>2, <1>6, <4>1
      <4>2. CASE k = l
        BY <1>2, <1>5, <4>2
      <4> QED
        BY <1>2, <4>1, <4>2
    <3>2. D <= nodes'[q].depth /\ nodes'[q].depth \in Nat
      <4>1. CASE q \in DOMAIN nodes
        BY <1>2, <1>6, <1>8, <2>1, <4>1
      <4>2. CASE q = l
        BY <1>2, <1>5, <4>2
      <4> QED
        BY <1>2, <4>1, <4>2
    <3> QED
      BY <3>1, <3>2
  <2>2. ASSUME NEW q \in DOMAIN nodes', Queued(q)'
        PROVE  nodes'[cur'].depth <= nodes'[q].depth
    <3>1. nodes'[cur'].depth = D
      BY <1>2, <1>5
    <3>2. CASE q \in DOMAIN nodes
      <4>1. Queued(q)
        BY <1>2, <1>7, <2>2, <3>2
      <4> QED
        BY <1>2, <1>6, <3>1, <3>2, <4>1 DEF Due
    <3>3. CASE q = l
      BY <1>2, <1>5, <3>1, <3>3
    <3> QED
      BY <1>2, <3>2, <3>3
  <2> QED
    BY <1>7, <2>1, <2>2 DEF Ordered
<1>10. Expansions'
  <2>1. ASSUME NEW k \in DOMAIN nodes', IsOpen(k)', ~AtBound(k)'
        PROVE  Due(k)' \/ Expanded(k)'
    <3>1. CASE k \in DOMAIN nodes
      BY <1>2, <1>8, <2>1, <3>1 DEF Layers, Expansions
    <3>2. CASE k = l
      BY <1>2, <1>7, <2>1, <3>2 DEF Due
    <3> QED
      BY <1>2, <3>1, <3>2
  <2> QED
    BY <2>1 DEF Expansions
<1>11. Handled'
  <2>1. PICK p : p = nodes[cur].program
    OBVIOUS
  <2>2. PICK e : e = nodes[cur].depth + 1
    OBVIOUS
  <2>3. nodes'[cur'].program = p /\ nodes'[cur'].depth + 1 = e
    BY <1>2, <2>1, <2>2
  <2>4. /\ cursor \in Nat /\ cursor + 1 <= Len(Candidates(in, p))
    <3>1. /\ cursor \in Nat /\ cursor < Len(Candidates(in, p))
      BY <2>1, ProposalApplies DEF Proposing
    <3>2. Len(Candidates(in, p)) \in Nat
      BY <2>1, ProposalFacts, CandidatesOf
    <3> QED
      BY <3>1, <3>2
  <2>5. ASSUME NEW j \in 1..(cursor + 1), Apply(p, Candidates(in, p)[j]) \in in.valid
        PROVE  Reached(Apply(p, Candidates(in, p)[j]), e)'
    <3>1. PICK s : s = Apply(p, Candidates(in, p)[j])
      OBVIOUS
    <3>2. CASE j = cursor + 1
      <4>1. n.program = s /\ nodes'[l].program = s /\ nodes'[l].depth = e /\ l \in DOMAIN nodes'
        BY <1>2, <2>1, <2>2, <3>1, <3>2 DEF Made
      <4>2. e \in Nat
        BY <1>2, <2>2
      <4>3. nodes'[l].depth <= e
        BY <4>1, <4>2
      <4>4. Reached(s, e)'
        BY <4>1, <4>3 DEF Reached
      <4> QED
        BY <1>2, <3>1, <4>4 DEF Reached
    <3>3. CASE j # cursor + 1
      <4>1. j \in 1..cursor
        BY <2>4, <3>3
      <4>2. Reached(s, e)
        BY <1>3, <2>1, <2>2, <2>5, <3>1, <4>1 DEF Layers, Handled, Made
      <4>3. Reached(s, e)'
        BY <1>2, <4>2
      <4> QED
        BY <1>2, <3>1, <4>3 DEF Reached
    <3> QED
      BY <3>2, <3>3
  <2> QED
    BY <1>2, <2>3, <2>4, <2>5 DEF Handled, Made, Reached
<1>12. \A k \in DOMAIN nodes' : Descends(k)' /\ nodes'[k].outcome # "PASS"
  BY <1>2 DEF Layers
<1> QED
  BY <1>9, <1>10, <1>11, <1>12 DEF Layers

(* The chain of a node has its depth. *)
LEMMA ChainLength ==
  ASSUME NEW ns, NEW n, ns[n].depth \in Nat
  PROVE  Len(BuildChain(ns, n)) = ns[n].depth
<1> DEFINE ancestor == CHOOSE f : f = [d \in 0..ns[n].depth |->
                         IF d = ns[n].depth THEN n ELSE ns[f[d + 1]].parent]
<1>1. BuildChain(ns, n) = [d \in 1..ns[n].depth |-> EditOf(ns, ancestor[d])]
  BY DEF BuildChain
<1> HIDE DEF ancestor
<1> QED
  BY <1>1

(* The search ends with a program one layer below the node that is expanded:
   no node above its layer is left to expand. *)
LEMMA VerifyEnds ==
  ASSUME NEW patch, Proposing(patch), Verify(patch), NEW x, NEW n, Verifying(patch, x, n), Layers,
         n.outcome = "PASS"
  PROVE  pc' = "done" /\ EndedRepaired'
<1>1. PICK l \in Nat : l = Len(nodes) + 1
  BY ProposalFacts
<1>2. NodeAdded(n, l)
  BY <1>1, VerifyAdds
<1>3. /\ Sound(Artifact') /\ nodes'[l] = n /\ DOMAIN nodes' = DOMAIN nodes \union {l}
      /\ l \notin DOMAIN nodes /\ cur \in DOMAIN nodes
      /\ \A k \in DOMAIN nodes : nodes'[k] = nodes[k] /\ nodes[k].depth \in Nat
      /\ in' = in /\ n.depth = nodes[cur].depth + 1
      /\ \A k \in DOMAIN nodes' : Descends(k)'
      /\ \A k \in DOMAIN nodes : Expanded(k) => Expanded(k)'
      /\ \A k \in DOMAIN nodes : IsOpen(k)' = IsOpen(k)
  BY <1>2 DEF NodeAdded
<1>4. /\ pc' = "done"
      /\ result' = [outcome |-> "Repaired", stop |-> "solved", truncation |-> None,
                    accepted |-> l, chain |-> BuildChain(nodes', l)]
  <2>1. n = Child(patch, WouldBe(patch), cur)
    BY DEF Verifying
  <2> QED
    BY <1>1, <2>1 DEF Verify
<1>5. Len(result'.chain) = n.depth
  <2>1. nodes'[l].depth \in Nat
    BY <1>3
  <2>2. Len(BuildChain(nodes', l)) = nodes'[l].depth
    BY <2>1, ChainLength
  <2> QED
    BY <1>3, <1>4, <2>2
<1>6. ASSUME NEW k \in DOMAIN nodes, IsOpen(k), nodes[k].depth + 1 < n.depth
      PROVE  Expanded(k)
  <2>1. /\ nodes[cur].depth < in.maxDepth /\ nodes[cur].edits < in.maxEdits /\ in \in Inputs
    BY ProposalFacts
  <2>2. nodes[k].depth < nodes[cur].depth
    BY <1>3, <1>6
  <2>3. nodes[k].edits = nodes[k].depth /\ nodes[cur].edits = nodes[cur].depth
    BY <1>3 DEF Layers, Descends
  <2>4. ~AtBound(k)
    <3>1. in.maxDepth \in Nat /\ in.maxEdits \in Nat
      BY <2>1, InputsAssumption
    <3> QED
      BY <1>3, <2>1, <2>2, <2>3, <3>1 DEF AtBound, TooDeep, TooManyEdits
  <2>5. ~Due(k)
    <3>1. Due(k) => nodes[cur].depth <= nodes[k].depth \/ k = cur
      BY <1>3, DepthsAround DEF Proposing
    <3> QED
      BY <1>3, <2>2, <3>1
  <2> QED
    BY <1>6, <2>4, <2>5 DEF Layers, Expansions
<1>7. ASSUME NEW k \in DOMAIN nodes', IsOpen(k)', nodes'[k].depth + 1 < n.depth
      PROVE  Expanded(k)'
  <2>1. CASE k \in DOMAIN nodes
    BY <1>3, <1>6, <1>7, <2>1
  <2>2. CASE k = l
    BY <1>3, <1>7, <2>2
  <2> QED
    BY <1>3, <2>1, <2>2
<1>8. \A k \in DOMAIN nodes' : k # l => nodes'[k].outcome # "PASS"
  BY <1>3 DEF Layers
<1>9. n.depth >= 1 /\ n.depth \in Nat
  BY <1>3
<1>10. /\ result'.accepted = l /\ result'.stop = "solved" /\ result'.outcome = "Repaired"
       /\ l \in DOMAIN nodes' /\ nodes'[l].outcome = "PASS" /\ nodes'[l].depth >= 1
       /\ Len(result'.chain) = nodes'[l].depth
  BY <1>3, <1>4, <1>5, <1>9
<1>11. EndedRepaired'
  BY <1>3, <1>7, <1>8, <1>10 DEF EndedRepaired
<1> QED
  BY <1>4, <1>11

(* A proposal goes on layer by layer, or ends the search as it may. *)
LEMMA ProposeLayers ==
  ASSUME Searches, Layers, Propose
  PROVE  \/ pc' = "propose" /\ Layers'
         \/ pc' = "done" /\ Ended'
<1>1. PICK patch : /\ patch = Candidates(in, nodes[cur].program)[cursor + 1]
                   /\ pc = "propose" /\ cursor < Len(Candidates(in, nodes[cur].program))
                   /\ Reject(patch) \/ Reuse(patch) \/ BudgetBlocked(patch) \/ Verify(patch)
  BY DEF Propose
<1>2. Proposing(patch)
  BY <1>1 DEF Proposing
<1>3. CASE Reject(patch)
  <2>1. pc' = pc
    BY <1>3 DEF Reject
  <2> QED
    BY <1>1, <1>2, <1>3, <2>1, RejectLayers
<1>4. CASE Reuse(patch)
  <2>1. pc' = pc
    BY <1>4 DEF Reuse
  <2> QED
    BY <1>1, <1>2, <1>4, <2>1, ReuseLayers
<1>5. CASE BudgetBlocked(patch)
  BY <1>2, <1>5, BlockedEnds DEF Ended
<1>6. CASE Verify(patch)
  <2>1. PICK n : n = Child(patch, WouldBe(patch), cur)
    OBVIOUS
  <2>2. PICK x : x = Attempt(patch, "verified", None, WouldBe(patch), n.outcome)
    OBVIOUS
  <2>3. Verifying(patch, x, n)
    BY <2>1, <2>2 DEF Verifying
  <2>4. CASE n.outcome = "PASS"
    BY <1>2, <1>6, <2>3, <2>4, VerifyEnds DEF Ended
  <2>5. CASE n.outcome # "PASS"
    <3>1. pc' = pc
      BY <1>6, <2>1, <2>5 DEF Verify
    <3>2. Layers'
      BY <1>2, <1>6, <2>3, <2>5, VerifyLayers
    <3> QED
      BY <1>1, <3>1, <3>2
  <2> QED
    BY <2>4, <2>5
<1> QED
  BY <1>1, <1>3, <1>4, <1>5, <1>6

(* Every step goes on layer by layer, or ends as it may. *)
LEMMA LayersKeep ==
  ASSUME SearchInv, LayerInv, Searching, Next
  PROVE  LayerInv'
<1>1. pc # "done" /\ (Started \/ Searches)
  BY SearchElsewhere DEF SearchInv, Searches
<1>2. ASSUME \/ pc' \in {"pop", "propose"} /\ Layers'
             \/ pc' = "done" /\ Ended'
      PROVE  LayerInv'
  BY <1>2 DEF LayerInv
<1>3. CASE RefuseConfig \/ VerifyRoot
  <2>1. Started
    BY <1>1, <1>3 DEF RefuseConfig, VerifyRoot, Searches
  <2>2. \/ pc' = "done" /\ EndedAtRoot'
        \/ pc' = "pop" /\ Layers'
    BY <1>3, <2>1, StartLayers
  <2> QED
    BY <1>2, <2>2 DEF Ended
<1>4. CASE ~(RefuseConfig \/ VerifyRoot)
  <2>1. Searches
    BY <1>1, <1>4 DEF Started, Next, Pop, Exhausted, CandidateBudget, NoMoreCandidates, Propose
  <2>2. Layers
    BY <2>1 DEF LayerInv, Searches
  <2>3. CASE Pop
    <3>1. pc' \in {"pop", "propose"}
      BY <2>3 DEF Pop
    <3> QED
      BY <1>2, <2>1, <2>2, <2>3, <3>1, PopLayers
  <2>4. CASE Exhausted
    BY <1>2, <2>1, <2>2, <2>4, ExhaustedEnds DEF Ended
  <2>5. CASE CandidateBudget
    BY <1>2, <2>1, <2>2, <2>5, CandidateBudgetEnds DEF Ended
  <2>6. CASE NoMoreCandidates
    <3>1. pc' = "pop"
      BY <2>6 DEF NoMoreCandidates
    <3> QED
      BY <1>2, <2>1, <2>2, <2>6, <3>1, NoMoreLayers
  <2>7. CASE Propose
    BY <1>2, <2>1, <2>2, <2>7, ProposeLayers
  <2> QED
    BY <1>4, <2>3, <2>4, <2>5, <2>6, <2>7 DEF Next
<1> QED
  BY <1>3, <1>4

(* A step that changes nothing keeps the layers. *)
LEMMA LayersStutter ==
  ASSUME LayerInv, UNCHANGED vars
  PROVE  LayerInv'
<1>1. /\ in' = in /\ pc' = pc /\ nodes' = nodes /\ attempts' = attempts /\ queue' = queue
      /\ cur' = cur /\ cursor' = cursor /\ flags' = flags /\ verifications' = verifications
      /\ result' = result
  BY DEF vars
<1>2. \A k : /\ Descends(k)' = Descends(k) /\ Expanded(k)' = Expanded(k)
             /\ IsOpen(k)' = IsOpen(k) /\ AtBound(k)' = AtBound(k) /\ Queued(k)' = Queued(k)
             /\ TooDeep(k)' = TooDeep(k) /\ TooManyEdits(k)' = TooManyEdits(k)
             /\ Due(k)' = Due(k) /\ Made(k)' = Made(k)
             /\ \A d : Reached(k, d)' = Reached(k, d)
  BY <1>1, LayersSame, SameNodes DEF Queued, Due, Made
<1>3. Sound(Artifact) => Sound(Artifact')
  BY <1>1, SameRecord
<1>4. Layers => Layers'
  <2>1. Handled => Handled'
    BY <1>1 DEF Handled, Made, Reached
  <2>2. Ordered => Ordered'
    BY <1>1, <1>2 DEF Ordered
  <2>3. Expansions => Expansions'
    BY <1>1, <1>2 DEF Expansions
  <2> QED
    BY <1>1, <1>2, <2>1, <2>2, <2>3 DEF Layers
<1>5. EndedAtRoot => EndedAtRoot'
  BY <1>1 DEF EndedAtRoot
<1>6. EndedExhausted => EndedExhausted'
  <2>1. Recorded => Recorded'
    BY <1>1, RecordKept
  <2>2. Flagged => Flagged'
    BY <1>1, <1>2 DEF Flagged
  <2> QED
    BY <1>1, <1>2, <2>1, <2>2 DEF EndedExhausted
<1>7. EndedByCandidates => EndedByCandidates'
  BY <1>1, <1>3 DEF EndedByCandidates
<1>8. EndedByVerifications => EndedByVerifications'
  <2>1. SUFFICES ASSUME EndedByVerifications
                 PROVE  EndedByVerifications'
    OBVIOUS
  <2>2. PICK k \in DOMAIN nodes : /\ in.verdict[nodes[k].program] = "FAIL"
                                  /\ \E s \in Successors(nodes[k].program) : s \notin Verified
    BY <2>1 DEF EndedByVerifications
  <2>3. PICK s \in Successors(nodes[k].program) : s \notin Verified
    BY <2>2
  <2>4. Verified' = Verified
    BY <1>1 DEF Verified
  <2>5. s \in Successors(nodes[k].program)'
    BY <1>1, <2>3 DEF Successors
  <2>6. k \in DOMAIN nodes' /\ in'.verdict[nodes'[k].program] = "FAIL" /\ s \notin Verified'
    BY <1>1, <2>2, <2>3, <2>4
  <2>7. \E j \in DOMAIN nodes' : /\ in'.verdict[nodes'[j].program] = "FAIL"
                                 /\ \E t \in Successors(nodes[j].program)' : t \notin Verified'
    BY <2>5, <2>6
  <2> QED
    BY <1>1, <2>1, <2>7 DEF EndedByVerifications
<1>9. EndedRepaired => EndedRepaired'
  BY <1>1, <1>2, <1>3 DEF EndedRepaired
<1>10. Searching' <=> Searching
  BY <1>1 DEF Searching
<1> QED
  BY <1>1, <1>4, <1>5, <1>6, <1>7, <1>8, <1>9, <1>10 DEF LayerInv, Ended

-----------------------------------------------------------------------------
(* Why a search ended *)

(* What StopReasonTrue says of a number of steps *)
NoneWithin(d) ==
  \A p \in Within[IF d < MaxSteps THEN d ELSE MaxSteps] : p \in Verified /\ in.verdict[p] # "PASS"
FailAt(d) ==
  \E p \in Within[d] \ (IF d = 0 THEN {} ELSE Within[d - 1]) : in.verdict[p] = "FAIL"

(* A search that expanded every failing node above a layer knows all that is
   within that many steps. *)
LEMMA LayersKnown ==
  ASSUME Sound(Artifact), \A k \in DOMAIN nodes : Descends(k) /\ nodes[k].outcome # "PASS",
         NEW D \in Nat, D <= MaxSteps,
         \A k \in DOMAIN nodes : nodes[k].outcome = "FAIL" /\ nodes[k].depth < D => Expanded(k)
  PROVE  /\ NoneWithin(D)
         /\ \A p \in Within[D] : \E m \in DOMAIN nodes : nodes[m].program = p
         /\ \A k \in DOMAIN nodes : nodes[k].depth = D /\ nodes[k].outcome = "FAIL" => FailAt(D)
<1>1. \A d \in 0..D : \A p \in Within[d] : Reached(p, d)
  BY LayersComplete
<1>2. \A p \in Within[D] : \E m \in DOMAIN nodes : nodes[m].program = p
  <2>1. D \in 0..D
    OBVIOUS
  <2> QED
    BY <1>1, <2>1 DEF Reached
<1>3. NoneWithin(D)
  <2>1. (IF D < MaxSteps THEN D ELSE MaxSteps) = D
    BY DepthWithin
  <2>2. ASSUME NEW p \in Within[D]
        PROVE  p \in Verified /\ in.verdict[p] # "PASS"
    <3>1. PICK m \in DOMAIN nodes : nodes[m].program = p
      BY <1>2
    <3> QED
      BY <3>1, NodeNow DEF Verified
  <2> QED
    BY <2>1, <2>2 DEF NoneWithin
<1>4. ASSUME NEW k \in DOMAIN nodes, nodes[k].depth = D, nodes[k].outcome = "FAIL"
      PROVE  FailAt(D)
  <2>1. PICK p : p = nodes[k].program
    OBVIOUS
  <2>2. p \in Within[D] /\ in.verdict[p] = "FAIL"
    BY <1>4, <2>1, NodesWithin, NodeNow
  <2>3. ASSUME D # 0, p \in Within[D - 1]
        PROVE  FALSE
    <3>1. D - 1 \in 0..D
      BY <2>3
    <3>2. PICK m \in DOMAIN nodes : nodes[m].program = p /\ nodes[m].depth <= D - 1
      BY <1>1, <2>3, <3>1 DEF Reached
    <3>3. m = k
      BY <2>1, <3>2, NodeNow
    <3> QED
      BY <1>4, <3>2, <3>3
  <2> QED
    BY <2>2, <2>3 DEF FailAt
<1> QED
  BY <1>2, <1>3, <1>4

(* What the flags of an exhausted search say of its nodes *)
LEMMA FlagsTrue ==
  ASSUME EndedExhausted
  PROVE  /\ Sound(Artifact) /\ in \in Inputs /\ in.maxDepth \in Nat /\ in.maxEdits \in Nat
         /\ ~flags.root /\ ~flags.candidates /\ ~flags.verifications
         /\ \A k \in DOMAIN nodes : Descends(k) /\ nodes[k].outcome # "PASS"
                                    /\ nodes[k].edits = nodes[k].depth
         /\ flags.depth => \E k \in DOMAIN nodes : IsOpen(k) /\ nodes[k].depth = in.maxDepth
         /\ flags.depth => in.maxDepth <= in.maxEdits
         /\ flags.edits => \E k \in DOMAIN nodes : IsOpen(k) /\ nodes[k].depth = in.maxEdits
         /\ flags.edits => in.maxEdits < in.maxDepth
         /\ ~flags.depth /\ ~flags.edits => \A k \in DOMAIN nodes : IsOpen(k) => ~AtBound(k)
         /\ flags.unknown <=> \E k \in DOMAIN nodes : nodes[k].outcome = "UNKNOWN"
<1>1. Recorded /\ Flagged /\ Sound(Artifact) /\ queue = <<>>
  BY DEF EndedExhausted, Recorded
<1>2. in \in Inputs /\ in.maxDepth \in Nat /\ in.maxEdits \in Nat
  BY <1>1, NodeNow, InputsAssumption
<1>3. \A k \in DOMAIN nodes : Descends(k) /\ nodes[k].outcome # "PASS" /\ nodes[k].edits = nodes[k].depth
  BY DEF EndedExhausted, Descends
<1>4. \A k \in DOMAIN nodes : /\ nodes[k].depth \in Nat /\ nodes[k].depth <= in.maxDepth
                              /\ nodes[k].edits <= in.maxEdits
  BY <1>1, NodeNow
<1>5. \A k : ~Queued(k)
  BY <1>1 DEF Queued
<1>6. ASSUME flags.depth
      PROVE  /\ \E k \in DOMAIN nodes : IsOpen(k) /\ nodes[k].depth = in.maxDepth
             /\ in.maxDepth <= in.maxEdits
  <2>1. PICK k \in DOMAIN nodes : IsOpen(k) /\ TooDeep(k)
    BY <1>1, <1>6 DEF Flagged
  <2>2. nodes[k].depth = in.maxDepth /\ nodes[k].depth <= in.maxEdits
    BY <1>2, <1>3, <1>4, <2>1 DEF TooDeep
  <2> QED
    BY <2>1, <2>2
<1>7. ASSUME flags.edits
      PROVE  /\ \E k \in DOMAIN nodes : IsOpen(k) /\ nodes[k].depth = in.maxEdits
             /\ in.maxEdits < in.maxDepth
  <2>1. PICK k \in DOMAIN nodes : IsOpen(k) /\ ~TooDeep(k) /\ TooManyEdits(k)
    BY <1>1, <1>7 DEF Flagged
  <2>2. nodes[k].depth = in.maxEdits /\ nodes[k].depth < in.maxDepth
    BY <1>2, <1>3, <1>4, <2>1 DEF TooDeep, TooManyEdits
  <2> QED
    BY <2>1, <2>2
<1>8. ~flags.depth /\ ~flags.edits => \A k \in DOMAIN nodes : IsOpen(k) => ~AtBound(k)
  BY <1>1, <1>5 DEF Flagged, AtBound
<1>9. ~flags.root /\ ~flags.candidates /\ ~flags.verifications
  BY <1>1 DEF Flagged
<1>10. flags.unknown <=> \E k \in DOMAIN nodes : nodes[k].outcome = "UNKNOWN"
  BY <1>1 DEF Flagged
<1> QED
  BY <1>1, <1>2, <1>3, <1>6, <1>7, <1>8, <1>9, <1>10

(* In a search of one step only the root can be less deep than the bound. *)
LEMMA FailingOpen ==
  ASSUME Sound(Artifact), NEW k \in DOMAIN nodes, nodes[k].outcome = "FAIL", nodes[k].depth < MaxSteps
  PROVE  IsOpen(k)
<1>1. CASE in.strategy = "single"
  <2>1. nodes[k].depth < 1
    BY <1>1 DEF MaxSteps
  <2>2. k = 1
    BY <1>1, <2>1, NodeNow
  <2> QED
    BY <2>2 DEF IsOpen
<1>2. CASE in.strategy # "single"
  BY <1>2 DEF IsOpen
<1> QED
  BY <1>1, <1>2

(* A bound on the depth that a node reached is one up to which all is known. *)
LEMMA BoundKnown ==
  ASSUME EndedExhausted, NEW D \in Nat, D <= in.maxDepth, D <= in.maxEdits,
         NEW k \in DOMAIN nodes, IsOpen(k), nodes[k].depth = D
  PROVE  NoneWithin(D) /\ FailAt(D)
<1>1. /\ Sound(Artifact) /\ in.maxDepth \in Nat /\ in.maxEdits \in Nat
      /\ \A j \in DOMAIN nodes : Descends(j) /\ nodes[j].outcome # "PASS"
                                 /\ nodes[j].edits = nodes[j].depth
  BY FlagsTrue
<1>2. MaxSteps \in Nat /\ D <= MaxSteps
  BY <1>1, DepthWithin
<1>3. ASSUME NEW j \in DOMAIN nodes, nodes[j].outcome = "FAIL", nodes[j].depth < D
      PROVE  Expanded(j)
  <2>1. nodes[j].depth \in Nat /\ nodes[j].depth < MaxSteps
    BY <1>1, <1>2, <1>3, NodeNow
  <2>2. IsOpen(j)
    BY <1>1, <1>3, <2>1, FailingOpen
  <2>3. ~AtBound(j)
    BY <1>1, <1>3, <2>1 DEF AtBound, TooDeep, TooManyEdits
  <2> QED
    BY <2>2, <2>3 DEF EndedExhausted
<1>4. nodes[k].outcome = "FAIL"
  BY DEF IsOpen
<1> QED
  BY <1>1, <1>2, <1>3, <1>4, LayersKnown

(* Without a bound that was met, everything is known. *)
LEMMA AllKnown ==
  ASSUME EndedExhausted, ~flags.depth, ~flags.edits
  PROVE  /\ NoneWithin(MaxSteps)
         /\ flags.unknown <=> \E p \in Within[MaxSteps] : in.verdict[p] = "UNKNOWN"
<1>1. /\ Sound(Artifact)
      /\ \A j \in DOMAIN nodes : Descends(j) /\ nodes[j].outcome # "PASS"
      /\ \A k \in DOMAIN nodes : IsOpen(k) => ~AtBound(k)
      /\ flags.unknown <=> \E k \in DOMAIN nodes : nodes[k].outcome = "UNKNOWN"
  BY FlagsTrue
<1>2. MaxSteps \in Nat /\ MaxSteps <= MaxSteps /\ \A k \in DOMAIN nodes : nodes[k].depth <= MaxSteps
  BY <1>1, DepthWithin
<1>3. ASSUME NEW j \in DOMAIN nodes, nodes[j].outcome = "FAIL", nodes[j].depth < MaxSteps
      PROVE  Expanded(j)
  BY <1>1, <1>3, FailingOpen DEF EndedExhausted
<1>4. /\ NoneWithin(MaxSteps)
      /\ \A p \in Within[MaxSteps] : \E m \in DOMAIN nodes : nodes[m].program = p
  BY <1>1, <1>2, <1>3, LayersKnown
<1>5. ASSUME NEW p \in Within[MaxSteps], in.verdict[p] = "UNKNOWN"
      PROVE  flags.unknown
  <2>1. PICK m \in DOMAIN nodes : nodes[m].program = p
    BY <1>4
  <2>2. nodes[m].outcome = "UNKNOWN"
    BY <1>1, <1>5, <2>1, NodeNow
  <2> QED
    BY <1>1, <2>2
<1>6. ASSUME flags.unknown
      PROVE  \E p \in Within[MaxSteps] : in.verdict[p] = "UNKNOWN"
  <2>1. PICK k \in DOMAIN nodes : nodes[k].outcome = "UNKNOWN"
    BY <1>1, <1>6
  <2>2. nodes[k].program \in Within[nodes[k].depth] /\ in.verdict[nodes[k].program] = "UNKNOWN"
        /\ nodes[k].depth \in Nat
    BY <1>1, <2>1, NodesWithin, NodeNow
  <2>3. nodes[k].depth \in 0..MaxSteps /\ MaxSteps \in 0..MaxSteps
    BY <1>2, <2>2
  <2>4. Within[nodes[k].depth] \subseteq Within[MaxSteps]
    BY <1>2, <2>3, WithinGrows
  <2> QED
    BY <2>2, <2>4
<1> QED
  BY <1>4, <1>5, <1>6

(* Why a search that ran to its end ended *)
LEMMA ExhaustedTrue ==
  ASSUME EndedExhausted
  PROVE  StopReasonTrue
<1>1. /\ in.maxDepth \in Nat /\ in.maxEdits \in Nat
      /\ ~flags.root /\ ~flags.candidates /\ ~flags.verifications
      /\ flags.depth => \E k \in DOMAIN nodes : IsOpen(k) /\ nodes[k].depth = in.maxDepth
      /\ flags.depth => in.maxDepth <= in.maxEdits
      /\ flags.edits => \E k \in DOMAIN nodes : IsOpen(k) /\ nodes[k].depth = in.maxEdits
      /\ flags.edits => in.maxEdits < in.maxDepth
  BY FlagsTrue
<1>2. ~(flags.depth /\ flags.edits)
  BY <1>1
<1>3. result.stop = Classify(flags).stop
  BY DEF EndedExhausted, Finished
<1>4. CASE flags.depth
  <2>1. result.stop = "max-depth"
    BY <1>1, <1>2, <1>3, <1>4 DEF Classify, Triple
  <2>2. NoneWithin(in.maxDepth) /\ FailAt(in.maxDepth)
    BY <1>1, <1>4, BoundKnown
  <2> QED
    BY <2>1, <2>2 DEF StopReasonTrue, NoneWithin, FailAt
<1>5. CASE flags.edits
  <2>1. result.stop = "max-total-edits"
    BY <1>1, <1>2, <1>3, <1>5 DEF Classify, Triple
  <2>2. NoneWithin(in.maxEdits) /\ FailAt(in.maxEdits)
    BY <1>1, <1>5, BoundKnown
  <2> QED
    BY <1>1, <1>5, <2>1, <2>2 DEF StopReasonTrue, NoneWithin, FailAt
<1>6. CASE ~flags.depth /\ ~flags.edits
  <2>1. result.stop = IF flags.unknown THEN "analysis-unknown" ELSE "no-acceptable-candidate"
    BY <1>1, <1>3, <1>6 DEF Classify, Triple
  <2>2. /\ NoneWithin(MaxSteps)
        /\ flags.unknown <=> \E p \in Within[MaxSteps] : in.verdict[p] = "UNKNOWN"
    BY <1>6, AllKnown
  <2>3. CASE flags.unknown
    <3>1. result.stop = "analysis-unknown"
      BY <2>1, <2>3
    <3> QED
      BY <2>2, <2>3, <3>1 DEF StopReasonTrue, NoneWithin
  <2>4. CASE ~flags.unknown
    <3>1. result.stop = "no-acceptable-candidate"
      BY <2>1, <2>4
    <3> QED
      BY <2>2, <2>4, <3>1 DEF StopReasonTrue, NoneWithin
  <2> QED
    BY <2>3, <2>4
<1> QED
  BY <1>4, <1>5, <1>6

(* However a search ended, the reason it gives is true. *)
LEMMA EndedTrue ==
  ASSUME Ended
  PROVE  StopReasonTrue
<1>1. CASE EndedAtRoot
  BY <1>1 DEF EndedAtRoot, StopReasonTrue
<1>2. CASE EndedExhausted
  BY <1>2, ExhaustedTrue
<1>3. CASE EndedByCandidates
  <2>1. result.stop = "candidate-budget"
    BY <1>3 DEF EndedByCandidates
  <2>2. Len(attempts) = in.candidates
    <3>1. Len(attempts) \in Nat /\ Len(attempts) <= in.candidates /\ in.candidates \in Nat
      BY <1>3, NodeNow, InputsAssumption DEF EndedByCandidates
    <3> QED
      BY <1>3, <3>1 DEF EndedByCandidates
  <2>3. \A p \in Verified : in.verdict[p] # "PASS"
    BY <1>3, NodeNow DEF EndedByCandidates, Verified
  <2> QED
    BY <2>1, <2>2, <2>3 DEF StopReasonTrue
<1>4. CASE EndedByVerifications
  <2>1. result.stop = "verification-budget" /\ Len(nodes) = in.verifications
    BY <1>4 DEF EndedByVerifications
  <2>2. \E p \in Verified : in.verdict[p] = "FAIL" /\ Successors(p) \ Verified # {}
    BY <1>4 DEF EndedByVerifications, Verified
  <2> QED
    BY <2>1, <2>2 DEF StopReasonTrue
<1>5. CASE EndedRepaired
  BY <1>5 DEF EndedRepaired, StopReasonTrue
<1> QED
  BY <1>1, <1>2, <1>3, <1>4, <1>5 DEF Ended

(* The invariant of both *)
LEMMA LayerInvariant ==
  ASSUME SearchInv, LayerInv, [Next \/ LoopNext]_vars
  PROVE  LayerInv'
<1>1. CASE Next /\ Searching
  BY <1>1, LayersKeep
<1>2. CASE UNCHANGED vars
  BY <1>2, LayersStutter
<1>3. CASE (Next \/ LoopNext) /\ ~Searching
  BY <1>3, InputKept DEF LayerInv, Searching
<1>4. CASE LoopNext /\ Searching
  <2>1. pc = "round"
    BY <1>4 DEF LoopNext, Round, NoMoreRounds, NothingOffered
  <2> QED
    BY <1>4, <2>1 DEF SearchInv, Started
<1> QED
  BY <1>1, <1>2, <1>3, <1>4

(* Whatever the programs, the oracle and the budgets, the reason a search gives
   for ending without a repair is true of the programs: no acceptable candidate
   means that nothing within reach passes or is unknown, a bound means that
   nothing within it passes and something at it fails, and a budget means that
   there was more to do (TerminalFacts::classify). *)
THEOREM StopReason == RepairSpec => []StopReasonTrue
<1> DEFINE Inv == SearchInv /\ LayerInv
<1>1. Init => Inv
  BY DEF Init, SearchInv, LayerInv, Searching, Started
<1>2. Inv /\ [Next \/ LoopNext]_vars => Inv'
  BY SearchInvariant, LayerInvariant
<1>3. Inv => StopReasonTrue
  <2>1. ASSUME LayerInv, pc = "done", Searching
        PROVE  StopReasonTrue
    BY <2>1, EndedTrue DEF LayerInv
  <2>2. ~(pc = "done" /\ Searching) => StopReasonTrue
    BY DEF StopReasonTrue
  <2> QED
    BY <2>1, <2>2
<1> QED
  BY <1>1, <1>2, <1>3, PTL DEF RepairSpec

-----------------------------------------------------------------------------
(* What permitted changes leave of a program *)

(* What permitted changes leave of a body *)
Fixed(sid) == LockOf[sid] = NoLock \/ sid \in ControlTargets
Kept(b, c) ==
  /\ Distinct(b) /\ Distinct(c) /\ Ids(c) \subseteq Ids(b)
  /\ \A sid \in Ids(b) : sid \in Control \union ControlTargets => sid \in Ids(c)
  /\ \A sid \in Ids(c) : Fixed(sid) => BeforeIn(c, sid) = BeforeIn(b, sid) \cap Ids(c)

(* A body is what is left of itself, *)
LEMMA KeptSelf ==
  ASSUME NEW b, Distinct(b)
  PROVE  Kept(b, b)
<1>1. ASSUME NEW sid \in Ids(b)
      PROVE  BeforeIn(b, sid) \subseteq Ids(b)
  <2>1. PICK k \in DOMAIN b : sid = b[k]
    BY DEF Ids
  <2>2. Position(b, sid) = k
    BY <2>1, PositionIs
  <2>3. k \in 1..Len(b) /\ DOMAIN b = 1..Len(b) /\ Len(b) \in Nat
    BY DEF Distinct
  <2>4. 1..(k - 1) \subseteq DOMAIN b
    BY <2>3
  <2> QED
    BY <2>2, <2>4 DEF BeforeIn, Ids
<1> QED
  BY <1>1 DEF Kept

(* and what is left of what is left is left. *)
LEMMA KeptTwice ==
  ASSUME NEW b, NEW c, NEW e, Kept(b, c), Kept(c, e)
  PROVE  Kept(b, e)
<1>1. Ids(e) \subseteq Ids(b)
  BY DEF Kept
<1>2. \A sid \in Ids(b) : sid \in Control \union ControlTargets => sid \in Ids(e)
  BY DEF Kept
<1>3. ASSUME NEW sid \in Ids(e), Fixed(sid)
      PROVE  BeforeIn(e, sid) = BeforeIn(b, sid) \cap Ids(e)
  <2>1. sid \in Ids(c) /\ Ids(e) \subseteq Ids(c)
    BY DEF Kept
  <2>2. BeforeIn(e, sid) = BeforeIn(c, sid) \cap Ids(e)
    BY <1>3 DEF Kept
  <2>3. BeforeIn(c, sid) = BeforeIn(b, sid) \cap Ids(c)
    BY <1>3, <2>1 DEF Kept
  <2> QED
    BY <2>1, <2>2, <2>3
<1> QED
  BY <1>1, <1>2, <1>3 DEF Kept

(* What stands before the k-th statement *)
LEMMA BeforeIs ==
  ASSUME NEW b, Distinct(b), NEW k \in DOMAIN b
  PROVE  BeforeIn(b, b[k]) = {b[j] : j \in 1..(k - 1)}
BY PositionIs DEF BeforeIn

(* A swap of two adjacent locks *)
LEMMA SwapKeeps ==
  ASSUME NEW b, Distinct(b), NEW c, c.kind = "swap", SwapLegal(b, c.a, c.b)
  PROVE  Kept(b, Change(b, c))
<1> DEFINE e == Change(b, c)
<1>1. PICK n \in Nat : n = Len(b) /\ DOMAIN b = 1..n
  BY DEF Distinct
<1>2. PICK i \in DOMAIN b : b[i] = c.a
  BY DEF SwapLegal, Has
<1>3. PICK j \in DOMAIN b : b[j] = c.b
  BY DEF SwapLegal, Has
<1>4. /\ i # j /\ (i = j + 1 \/ j = i + 1) /\ ~Fixed(c.a) /\ ~Fixed(c.b)
  <2>1. Position(b, c.a) = i /\ Position(b, c.b) = j
    BY <1>2, <1>3, PositionIs
  <2> QED
    BY <1>2, <1>3, <2>1 DEF SwapLegal, Fixed
<1>5. e = [k \in DOMAIN b |-> IF k = i THEN b[j] ELSE IF k = j THEN b[i] ELSE b[k]]
  <2>1. \A k \in DOMAIN b : (b[k] = c.a <=> k = i) /\ (b[k] = c.b <=> k = j)
    BY <1>2, <1>3 DEF Distinct
  <2>2. e = [k \in DOMAIN b |-> CASE b[k] = c.a -> c.b [] b[k] = c.b -> c.a [] OTHER -> b[k]]
    BY DEF Change
  <2> QED
    BY <1>2, <1>3, <1>4, <2>1, <2>2
<1> HIDE DEF e
<1>6. /\ DOMAIN e = 1..n /\ e[i] = b[j] /\ e[j] = b[i]
      /\ \A k \in 1..n : k # i /\ k # j => e[k] = b[k]
      /\ i \in 1..n /\ j \in 1..n
  BY <1>1, <1>4, <1>5
<1>7. Distinct(e)
  <2>1. \A k \in 1..n : b[k] \in Sids
    BY <1>1 DEF Distinct
  <2>2. e \in [1..n -> Sids]
    BY <1>1, <1>5, <2>1
  <2>3. e \in Seq(Sids)
    BY <2>2
  <2>4. \A k, l \in 1..n : e[k] = e[l] => k = l
    <3>1. \A k, l \in 1..n : b[k] = b[l] => k = l
      BY <1>1 DEF Distinct
    <3> QED
      BY <1>6, <3>1
  <2> QED
    BY <1>6, <2>3, <2>4 DEF Distinct
<1>8. Ids(e) = Ids(b)
  <2>1. ASSUME NEW k \in 1..n
        PROVE  e[k] \in Ids(b)
    <3>1. e[k] \in {b[i], b[j], b[k]}
      BY <1>6
    <3> QED
      BY <1>1, <3>1 DEF Ids
  <2>2. ASSUME NEW k \in 1..n
        PROVE  b[k] \in Ids(e)
    <3>1. b[k] \in {e[i], e[j], e[k]}
      BY <1>6
    <3> QED
      BY <1>6, <3>1 DEF Ids
  <2>3. Ids(e) \subseteq Ids(b)
    BY <1>6, <2>1 DEF Ids
  <2>4. Ids(b) \subseteq Ids(e)
    BY <1>1, <2>2 DEF Ids
  <2> QED
    BY <2>3, <2>4
<1>9. ASSUME NEW sid \in Ids(e), Fixed(sid)
      PROVE  BeforeIn(e, sid) = BeforeIn(b, sid) \cap Ids(e)
  <2>1. PICK k \in 1..n : sid = e[k]
    BY <1>6 DEF Ids
  <2>2. k # i /\ k # j /\ sid = b[k]
    BY <1>2, <1>3, <1>4, <1>6, <1>9, <2>1
  <2>3. BeforeIn(e, sid) = {e[l] : l \in 1..(k - 1)}
    BY <1>6, <1>7, <2>1, BeforeIs
  <2>4. BeforeIn(b, sid) = {b[l] : l \in 1..(k - 1)}
    BY <1>1, <2>2, BeforeIs
  <2>5. i \in 1..(k - 1) <=> j \in 1..(k - 1)
    BY <1>4, <1>6, <2>2
  <2>6. \A l \in 1..(k - 1) : l \in 1..n
    BY <1>1
  <2>7. {e[l] : l \in 1..(k - 1)} = {b[l] : l \in 1..(k - 1)}
    <3> DEFINE E == {e[l] : l \in 1..(k - 1)}
               B == {b[l] : l \in 1..(k - 1)}
    <3>1. ASSUME NEW l \in 1..(k - 1)
          PROVE  e[l] \in B
      <4>1. CASE l # i /\ l # j
        BY <1>6, <2>6, <4>1
      <4>2. CASE l = i
        <5>1. j \in 1..(k - 1) /\ e[l] = b[j]
          BY <1>6, <2>5, <4>2
        <5> QED
          BY <5>1
      <4>3. CASE l = j
        <5>1. i \in 1..(k - 1) /\ e[l] = b[i]
          BY <1>6, <2>5, <4>3
        <5> QED
          BY <5>1
      <4> QED
        BY <4>1, <4>2, <4>3
    <3>2. ASSUME NEW l \in 1..(k - 1)
          PROVE  b[l] \in E
      <4>1. CASE l # i /\ l # j
        <5>1. e[l] = b[l]
          BY <1>6, <2>6, <4>1
        <5> QED
          BY <5>1
      <4>2. CASE l = i
        <5>1. j \in 1..(k - 1) /\ b[l] = e[j]
          BY <1>6, <2>5, <4>2
        <5> QED
          BY <5>1
      <4>3. CASE l = j
        <5>1. i \in 1..(k - 1) /\ b[l] = e[i]
          BY <1>6, <2>5, <4>3
        <5> QED
          BY <5>1
      <4> QED
        BY <4>1, <4>2, <4>3
    <3> QED
      BY <3>1, <3>2
  <2>8. BeforeIn(b, sid) \subseteq Ids(b)
    BY <1>1, <2>4, <2>6 DEF Ids
  <2> QED
    BY <1>8, <2>3, <2>4, <2>7, <2>8
<1> QED
  BY <1>7, <1>8, <1>9 DEF Kept, e

(* The removal of one statement *)
LEMMA Removed ==
  ASSUME NEW b \in Seq(Sids), NEW i \in DOMAIN b
  PROVE  /\ RemoveAt(b, i) \in Seq(Sids) /\ Len(b) \in Nat \ {0} /\ DOMAIN b = 1..Len(b)
         /\ DOMAIN RemoveAt(b, i) = 1..(Len(b) - 1)
         /\ \A k \in 1..(Len(b) - 1) : RemoveAt(b, i)[k] = IF k < i THEN b[k] ELSE b[k + 1]
<1> DEFINE s == SubSeq(b, 1, i - 1)
           t == SubSeq(b, i + 1, Len(b))
<1>1. Len(b) \in Nat \ {0} /\ DOMAIN b = 1..Len(b) /\ i \in 1..Len(b)
  OBVIOUS
<1>2. s \in Seq(Sids) /\ Len(s) = i - 1 /\ \A k \in 1..(i - 1) : s[k] = b[k]
  BY <1>1
<1>3. t \in Seq(Sids) /\ Len(t) = Len(b) - i /\ \A k \in 1..(Len(b) - i) : t[k] = b[i + k]
  BY <1>1
<1>4. RemoveAt(b, i) = s \o t
  BY DEF RemoveAt
<1> HIDE DEF s, t
<1>5. /\ s \o t \in Seq(Sids) /\ Len(s \o t) = Len(s) + Len(t)
      /\ DOMAIN (s \o t) = 1..(Len(s) + Len(t))
      /\ \A k \in 1..(Len(s) + Len(t)) : (s \o t)[k] = IF k <= Len(s) THEN s[k] ELSE t[k - Len(s)]
  <2>1. /\ s \o t \in Seq(Sids) /\ Len(s \o t) = Len(s) + Len(t)
        /\ \A k \in 1..(Len(s) + Len(t)) : (s \o t)[k] = IF k <= Len(s) THEN s[k] ELSE t[k - Len(s)]
    BY <1>2, <1>3, ConcatProperties
  <2>2. DOMAIN (s \o t) = 1..Len(s \o t)
    BY <2>1
  <2> QED
    BY <2>1, <2>2
<1>6. Len(s) + Len(t) = Len(b) - 1
  BY <1>1, <1>2, <1>3
<1>7. ASSUME NEW k \in 1..(Len(b) - 1)
      PROVE  (s \o t)[k] = IF k < i THEN b[k] ELSE b[k + 1]
  <2>1. CASE k < i
    <3>1. k \in 1..(i - 1) /\ k <= Len(s)
      BY <1>1, <1>2, <2>1
    <3> QED
      BY <1>2, <1>5, <1>6, <2>1, <3>1
  <2>2. CASE ~(k < i)
    <3>1. k - (i - 1) \in 1..(Len(b) - i) /\ ~(k <= Len(s)) /\ i + (k - (i - 1)) = k + 1
      BY <1>1, <1>2, <2>2
    <3>2. (s \o t)[k] = t[k - (i - 1)]
      BY <1>2, <1>5, <1>6, <3>1
    <3> QED
      BY <1>3, <2>2, <3>1, <3>2
  <2> QED
    BY <2>1, <2>2
<1> QED
  BY <1>1, <1>4, <1>5, <1>6, <1>7

(* A legal deletion removes its statement and no other. *)
LEMMA DeleteKeeps ==
  ASSUME NEW b, Distinct(b), NEW c, c.kind = "delete", DeleteLegal(b, c.a)
  PROVE  Kept(b, Change(b, c))
<1>1. PICK i \in DOMAIN b : b[i] = c.a
  BY DEF DeleteLegal, Has
<1> DEFINE e == RemoveAt(b, i)
           n == Len(b)
<1>2. Change(b, c) = e
  <2>1. Position(b, c.a) = i
    BY <1>1, PositionIs
  <2> QED
    BY <2>1 DEF Change
<1>3. b \in Seq(Sids) /\ \A j, k \in DOMAIN b : b[j] = b[k] => j = k
  BY DEF Distinct
<1>4. /\ e \in Seq(Sids) /\ n \in Nat \ {0} /\ DOMAIN b = 1..n /\ DOMAIN e = 1..(n - 1)
      /\ \A k \in 1..(n - 1) : e[k] = IF k < i THEN b[k] ELSE b[k + 1]
  BY <1>3, Removed
<1> HIDE DEF e, n
<1>5. i \in 1..n
  BY <1>4
(* Where a statement of b went *)
<1>6. /\ \A k \in 1..(n - 1) : k < i => e[k] = b[k]
      /\ \A k \in 1..(n - 1) : ~(k < i) => e[k] = b[k + 1] /\ k + 1 \in 1..n
      /\ \A k \in 1..(n - 1) : k \in 1..n
      /\ \A k \in 1..n : k < i => k \in 1..(n - 1) /\ e[k] = b[k]
      /\ \A k \in 1..n : k > i => k - 1 \in 1..(n - 1) /\ e[k - 1] = b[k]
  <2>1. ASSUME NEW k \in 1..n, k > i
        PROVE  k - 1 \in 1..(n - 1) /\ e[k - 1] = b[k]
    <3>1. k - 1 \in 1..(n - 1) /\ ~(k - 1 < i) /\ (k - 1) + 1 = k
      BY <1>4, <1>5, <2>1
    <3> QED
      BY <1>4, <3>1
  <2>2. \A k \in 1..(n - 1) : k \in 1..n /\ k + 1 \in 1..n
    BY <1>4
  <2>3. \A k \in 1..n : k < i => k \in 1..(n - 1)
    BY <1>4, <1>5
  <2> QED
    BY <1>4, <2>1, <2>2, <2>3
<1>7. Ids(e) = Ids(b) \ {c.a}
  <2>1. ASSUME NEW k \in 1..(n - 1)
        PROVE  e[k] \in Ids(b) \ {c.a}
    <3>1. CASE k < i
      BY <1>1, <1>3, <1>4, <1>6, <3>1 DEF Ids
    <3>2. CASE ~(k < i)
      <4>1. k + 1 \in 1..n /\ e[k] = b[k + 1] /\ k + 1 # i
        BY <1>4, <1>5, <1>6, <3>2
      <4> QED
        BY <1>1, <1>3, <1>4, <4>1 DEF Ids
    <3> QED
      BY <3>1, <3>2
  <2>2. ASSUME NEW k \in 1..n, b[k] # c.a
        PROVE  b[k] \in Ids(e)
    <3>1. k < i \/ k > i
      BY <1>1, <1>4, <1>5, <2>2
    <3> QED
      BY <1>4, <1>6, <3>1 DEF Ids
  <2> QED
    BY <1>4, <2>1, <2>2 DEF Ids
<1>8. Distinct(e)
  <2>1. \A j, k \in 1..n : b[j] = b[k] => j = k
    BY <1>3, <1>4
  <2> DEFINE old(k) == IF k < i THEN k ELSE k + 1
  <2>2. \A k \in 1..(n - 1) : old(k) \in 1..n /\ e[k] = b[old(k)]
    BY <1>4, <1>6
  <2>3. \A j, k \in 1..(n - 1) : old(j) = old(k) => j = k
    BY <1>4, <1>5
  <2> HIDE DEF old
  <2>4. \A j, k \in 1..(n - 1) : e[j] = e[k] => j = k
    BY <2>1, <2>2, <2>3
  <2> QED
    BY <1>4, <2>4 DEF Distinct
<1>9. ASSUME NEW sid \in Ids(e)
      PROVE  BeforeIn(e, sid) = BeforeIn(b, sid) \cap Ids(e)
  <2>1. PICK k \in 1..(n - 1) : sid = e[k]
    BY <1>4 DEF Ids
  <2>2. BeforeIn(e, sid) = {e[l] : l \in 1..(k - 1)}
    BY <1>4, <1>8, <2>1, BeforeIs
  <2>3. CASE k < i
    <3>1. sid = b[k] /\ k \in 1..n /\ \A l \in 1..(k - 1) : l \in 1..(n - 1) /\ l < i
      BY <1>4, <1>5, <1>6, <2>1, <2>3
    <3>2. BeforeIn(b, sid) = {b[l] : l \in 1..(k - 1)}
      BY <1>4, <3>1, BeforeIs
    <3>3. \A l \in 1..(k - 1) : e[l] = b[l] /\ e[l] \in Ids(e)
      BY <1>4, <1>6, <3>1 DEF Ids
    <3> QED
      BY <2>2, <3>2, <3>3
  <2>4. CASE ~(k < i)
    <3>1. sid = b[k + 1] /\ k + 1 \in 1..n
      BY <1>6, <2>1, <2>4
    <3>2. BeforeIn(b, sid) = {b[l] : l \in 1..k}
      <4>1. (k + 1) - 1 = k
        OBVIOUS
      <4> QED
        BY <1>4, <3>1, <4>1, BeforeIs
    <3>3. ASSUME NEW l \in 1..(k - 1)
          PROVE  e[l] \in Ids(e) /\ \E m \in 1..k : e[l] = b[m]
      <4>1. l \in 1..(n - 1) /\ l \in 1..k /\ l + 1 \in 1..k
        BY <1>4
      <4> QED
        BY <1>4, <1>6, <4>1 DEF Ids
    <3>4. ASSUME NEW m \in 1..k, b[m] \in Ids(e)
          PROVE  \E l \in 1..(k - 1) : b[m] = e[l]
      <4>1. m \in 1..n /\ m # i
        BY <1>1, <1>4, <1>7, <3>4
      <4>2. CASE m < i
        <5>1. m \in 1..(k - 1)
          BY <1>5, <2>4, <4>2
        <5> QED
          BY <1>6, <4>1, <4>2, <5>1
      <4>3. CASE m > i
        <5>1. m - 1 \in 1..(k - 1) /\ e[m - 1] = b[m]
          BY <1>5, <1>6, <4>1, <4>3
        <5> QED
          BY <5>1
      <4> QED
        BY <1>5, <4>1, <4>2, <4>3
    <3> QED
      BY <2>2, <3>2, <3>3, <3>4
  <2> QED
    BY <2>3, <2>4
<1>10. c.a \notin Control \union ControlTargets
  BY DEF DeleteLegal
<1> QED
  BY <1>2, <1>7, <1>8, <1>9, <1>10 DEF Kept

(* A legal patch, change by change *)
LEMMA ChangeKeeps ==
  ASSUME NEW b, Distinct(b), NEW c,
         IF c.kind = "swap" THEN SwapLegal(b, c.a, c.b) ELSE c.kind = "delete" /\ DeleteLegal(b, c.a)
  PROVE  Kept(b, Change(b, c))
<1>1. CASE c.kind = "swap"
  BY <1>1, SwapKeeps
<1>2. CASE c.kind # "swap"
  BY <1>2, DeleteKeeps
<1> QED
  BY <1>1, <1>2

(* A patch keeps what its changes keep. *)
LEMMA PatchKeeps ==
  ASSUME NEW p, NEW c, Len(c.changes) \in Nat, Applies(p, c), Distinct(p[c.f]),
         \A k \in 1..Len(c.changes) : c.changes[k].kind \in {"swap", "delete"}
  PROVE  Kept(p[c.f], After(p[c.f], c.changes)[Len(c.changes)])
<1> DEFINE b == p[c.f]
           n == Len(c.changes)
           w == After(b, c.changes)
           S == {k \in Nat : k <= n => Kept(b, w[k])}
<1>1. w[0] = b /\ \A k \in 1..n : w[k] = Change(w[k - 1], c.changes[k])
  BY AfterSteps
<1>2. \A k \in 1..n : IF c.changes[k].kind = "swap"
                      THEN SwapLegal(w[k - 1], c.changes[k].a, c.changes[k].b)
                      ELSE DeleteLegal(w[k - 1], c.changes[k].a)
  BY DEF Applies
<1> HIDE DEF w
<1>3. 0 \in S
  BY <1>1, KeptSelf
<1>4. ASSUME NEW k \in Nat, k \in S
      PROVE  k + 1 \in S
  <2>1. ASSUME k + 1 <= n
        PROVE  Kept(b, w[k + 1])
    <3>1. k + 1 \in 1..n /\ (k + 1) - 1 = k /\ k <= n
      BY <2>1
    <3>2. Kept(b, w[k])
      BY <1>4, <3>1
    <3>3. w[k + 1] = Change(w[k], c.changes[k + 1])
      BY <1>1, <3>1
    <3>4. IF c.changes[k + 1].kind = "swap"
          THEN SwapLegal(w[k], c.changes[k + 1].a, c.changes[k + 1].b)
          ELSE c.changes[k + 1].kind = "delete" /\ DeleteLegal(w[k], c.changes[k + 1].a)
      BY <1>2, <3>1
    <3>5. Distinct(w[k])
      BY <3>2 DEF Kept
    <3>6. Kept(w[k], Change(w[k], c.changes[k + 1]))
      BY <3>4, <3>5, ChangeKeeps
    <3> QED
      BY <3>2, <3>3, <3>6, KeptTwice
  <2> QED
    BY <2>1
<1> HIDE DEF S
<1>5. Nat \subseteq S
  BY <1>3, <1>4, NatInductionOn
<1>6. n \in S
  BY <1>5
<1> QED
  BY <1>6 DEF S, w

(* A program that permitted patches made of another *)
Permits(i, p, q) ==
  /\ DOMAIN q = DOMAIN p
  /\ \A f \in DOMAIN p : Kept(p[f], q[f]) /\ (f \notin i.allowed => q[f] = p[f])

(* Patches after patches are patches. *)
LEMMA PermitsTwice ==
  ASSUME NEW i, NEW p, NEW q, NEW r, Permits(i, p, q), Permits(i, q, r)
  PROVE  Permits(i, p, r)
<1>1. ASSUME NEW f \in DOMAIN p
      PROVE  Kept(p[f], r[f]) /\ (f \notin i.allowed => r[f] = p[f])
  <2>1. Kept(p[f], q[f]) /\ Kept(q[f], r[f])
    BY DEF Permits
  <2>2. Kept(p[f], r[f])
    BY <2>1, KeptTwice
  <2> QED
    BY <2>2 DEF Permits
<1> QED
  BY <1>1 DEF Permits

(* No patch changes nothing. *)
LEMMA PermitsSelf ==
  ASSUME NEW i \in Inputs, NEW p \in DOMAIN i.verdict
  PROVE  Permits(i, p, p)
BY BodyDistinct, KeptSelf DEF Permits

(* A permitted patch that applies makes a permitted program. *)
LEMMA ApplyPermits ==
  ASSUME NEW i \in Inputs, NEW p \in DOMAIN i.verdict, NEW c, Len(c.changes) \in Nat,
         CheckAllowed(i, c), Applies(p, c),
         \A k \in 1..Len(c.changes) : c.changes[k].kind \in {"swap", "delete"}
  PROVE  Permits(i, p, Apply(p, c))
<1> DEFINE e == After(p[c.f], c.changes)[Len(c.changes)]
           q == Apply(p, c)
<1>1. c.f \in DOMAIN p /\ c.f \in i.allowed
  BY DEF Applies, CheckAllowed
<1>2. Kept(p[c.f], e)
  BY <1>1, BodyDistinct, PatchKeeps
<1>3. q = [p EXCEPT ![c.f] = e]
  BY DEF Apply
<1> HIDE DEF e, q
<1>4. DOMAIN q = DOMAIN p /\ q[c.f] = e /\ \A f \in DOMAIN p : f # c.f => q[f] = p[f]
  BY <1>1, <1>3
<1>5. \A f \in DOMAIN p : Kept(p[f], p[f])
  BY BodyDistinct, KeptSelf
<1>6. \A f \in DOMAIN p : Kept(p[f], q[f]) /\ (f \notin i.allowed => q[f] = p[f])
  BY <1>1, <1>2, <1>4, <1>5
<1> QED
  BY <1>4, <1>6 DEF Permits, q

(* What RepairIsShortest asks of an accepted program *)
LEMMA PermittedShape ==
  ASSUME NEW p, NEW q, Permits(in, p, q), NEW f \in DOMAIN p
  PROVE  /\ f \notin in.allowed => q[f] = p[f]
         /\ \A k \in DOMAIN p[f] :
              LET sid == p[f][k] IN
              /\ sid \in Control \union ControlTargets => Has(q[f], sid)
              /\ Has(q[f], sid) /\ (LockOf[sid] = NoLock \/ sid \in ControlTargets) =>
                   BeforeIn(q[f], sid) = BeforeIn(p[f], sid) \cap {q[f][j] : j \in DOMAIN q[f]}
<1>1. Kept(p[f], q[f]) /\ (f \notin in.allowed => q[f] = p[f])
  BY DEF Permits
<1>2. PICK b : b = p[f]
  OBVIOUS
<1>3. PICK c : c = q[f]
  OBVIOUS
<1>4. Kept(b, c)
  BY <1>1, <1>2, <1>3
<1>5. ASSUME NEW k \in DOMAIN b
      PROVE  /\ b[k] \in Control \union ControlTargets => Has(c, b[k])
             /\ Has(c, b[k]) /\ (LockOf[b[k]] = NoLock \/ b[k] \in ControlTargets) =>
                  BeforeIn(c, b[k]) = BeforeIn(b, b[k]) \cap {c[j] : j \in DOMAIN c}
  <2>1. b[k] \in Ids(b)
    BY DEF Ids
  <2>2. Has(c, b[k]) <=> b[k] \in Ids(c)
    BY DEF Has, Ids
  <2>3. Ids(c) = {c[j] : j \in DOMAIN c}
    BY DEF Ids
  <2> QED
    BY <1>4, <2>1, <2>2, <2>3 DEF Kept, Fixed
<1> QED
  BY <1>1, <1>2, <1>3, <1>5

(* Every node is made of the input by permitted changes. *)
LEMMA NodesPermitted ==
  ASSUME Sound(Artifact)
  PROVE  \A k \in DOMAIN nodes : Permits(in, in.program, nodes[k].program)
<1> DEFINE S == {n \in Nat : \A k \in DOMAIN nodes :
                   k <= n => Permits(in, in.program, nodes[k].program)}
<1>0. PICK a : a = Artifact
  OBVIOUS
<1>1. Sound(a) /\ a.nodes = nodes /\ a.input = in /\ in \in Inputs
  BY <1>0, ArtifactFields, NodeNow
<1>2. 0 \in S
  BY NodeNow
<1>3. ASSUME NEW n \in Nat, n \in S
      PROVE  n + 1 \in S
  <2>1. ASSUME NEW k \in DOMAIN nodes, k <= n + 1
        PROVE  Permits(in, in.program, nodes[k].program)
    <3>1. k \in Nat
      BY NodeNow
    <3>2. CASE k = 1
      <4>1. nodes[k].program = in.program /\ in.program \in DOMAIN in.verdict
        BY <3>2, NodeNow
      <4> QED
        BY <1>1, <4>1, PermitsSelf
    <3>3. CASE k # 1
      <4> DEFINE m == nodes[k].parent
      <4>1. m \in DOMAIN nodes /\ m < k /\ m \in Nat /\ nodes[m].program \in DOMAIN in.verdict
        BY <3>3, NodeNow
      <4>2. PICK c : c = nodes[k].patch
        OBVIOUS
      <4>3. /\ CheckAllowed(in, c) /\ Applies(nodes[m].program, c)
            /\ Apply(nodes[m].program, c) = nodes[k].program
        BY <1>1, <3>3, <4>2, NodeFacts
      <4>4. c \in PatchesOf(in)
        <5>1. NodeSound(a, k)
          BY <1>1 DEF Sound
        <5> QED
          BY <1>1, <3>3, <4>2, <5>1 DEF NodeSound
      <4> HIDE DEF m
      <4>5. PICK p \in DOMAIN in.verdict : p = nodes[m].program
        BY <4>1
      <4>6. /\ Len(c.changes) \in Nat
            /\ \A j \in 1..Len(c.changes) : c.changes[j].kind \in {"swap", "delete"}
        <5>1. Len(c.changes) = 1
          BY <1>1, <4>4, PatchShape
        <5>2. c.changes[1].kind = "swap"
          BY <4>4 DEF PatchesOf, SwapPatches, SwapOf, Swap
        <5>3. \A j \in 1..1 : j = 1
          OBVIOUS
        <5> QED
          BY <5>1, <5>2, <5>3
      <4>7. Permits(in, p, nodes[k].program)
        <5>1. Permits(in, p, Apply(p, c))
          BY <1>1, <4>3, <4>5, <4>6, ApplyPermits
        <5> QED
          BY <4>3, <4>5, <5>1
      <4>8. Permits(in, in.program, p)
        <5>1. m <= n
          BY <2>1, <3>1, <4>1
        <5> QED
          BY <1>3, <4>1, <4>5, <5>1
      <4> QED
        BY <4>7, <4>8, PermitsTwice
    <3> QED
      BY <3>2, <3>3
  <2> QED
    BY <2>1
<1> HIDE DEF S
<1>4. Nat \subseteq S
  BY <1>2, <1>3, NatInductionOn
<1>5. ASSUME NEW k \in DOMAIN nodes
      PROVE  Permits(in, in.program, nodes[k].program)
  <2>1. k \in Nat /\ k \in S
    BY <1>4, NodeNow
  <2> QED
    BY <2>1 DEF S
<1> QED
  BY <1>5

(* No shorter way leads to a program that passes. *)
LEMMA EndedShortest ==
  ASSUME EndedRepaired
  PROVE  LET n == nodes[result.accepted] IN
         /\ in.verdict[n.program] = "PASS" /\ Permits(in, in.program, n.program)
         /\ n.program \in Within[Len(result.chain)]
         /\ \A p \in Within[Len(result.chain) - 1] : in.verdict[p] # "PASS"
<1>1. PICK k : k = result.accepted
  OBVIOUS
<1>2. PICK D : D = nodes[k].depth
  OBVIOUS
<1>3. /\ Sound(Artifact) /\ k \in DOMAIN nodes /\ nodes[k].outcome = "PASS" /\ D >= 1
      /\ Len(result.chain) = D
      /\ \A j \in DOMAIN nodes : Descends(j) /\ (j # k => nodes[j].outcome # "PASS")
      /\ \A j \in DOMAIN nodes : IsOpen(j) /\ nodes[j].depth + 1 < D => Expanded(j)
  BY <1>1, <1>2 DEF EndedRepaired
<1>4. D \in Nat /\ D <= MaxSteps /\ MaxSteps \in Nat
  BY <1>2, <1>3, NodeNow, DepthWithin
<1>5. D - 1 \in Nat /\ D - 1 <= MaxSteps
  BY <1>3, <1>4
<1>6. ASSUME NEW j \in DOMAIN nodes, nodes[j].outcome = "FAIL", nodes[j].depth < D - 1
      PROVE  Expanded(j)
  <2>1. nodes[j].depth \in Nat
    BY <1>3, NodeNow
  <2>2. nodes[j].depth < MaxSteps /\ nodes[j].depth + 1 < D
    BY <1>4, <1>6, <2>1
  <2>3. IsOpen(j)
    BY <1>3, <1>6, <2>2, FailingOpen
  <2> QED
    BY <1>3, <2>2, <2>3
<1>7. \A d \in 0..(D - 1) : \A p \in Within[d] : Reached(p, d)
  BY <1>3, <1>5, <1>6, LayersComplete
<1>8. ASSUME NEW p \in Within[D - 1]
      PROVE  in.verdict[p] # "PASS"
  <2>1. D - 1 \in 0..(D - 1)
    BY <1>5
  <2>2. PICK m \in DOMAIN nodes : nodes[m].program = p /\ nodes[m].depth <= D - 1
    BY <1>7, <2>1 DEF Reached
  <2>3. m # k
    BY <1>2, <1>4, <2>2
  <2>4. nodes[m].outcome = in.verdict[nodes[m].program]
    BY <1>3, NodeNow
  <2> QED
    BY <1>3, <2>2, <2>3, <2>4
<1>9. nodes[k].program \in Within[D] /\ in.verdict[nodes[k].program] = "PASS"
  BY <1>2, <1>3, NodesWithin, NodeNow
<1>10. Permits(in, in.program, nodes[k].program)
  BY <1>3, NodesPermitted
<1> QED
  BY <1>1, <1>3, <1>8, <1>9, <1>10

(* An accepted candidate of a file is made of the input by permitted changes. *)
LEMMA FoundPermitted ==
  ASSUME in \in Inputs, FirstFound, result.outcome = "Repaired"
  PROVE  LET q == attempts[result.accepted].program IN
         in.verdict[q] = "PASS" /\ Permits(in, in.program, q)
<1>1. PICK k : k = result.accepted
  OBVIOUS
<1>2. PICK q : q = attempts[k].program
  OBVIOUS
<1>3. /\ k \in DOMAIN in.file /\ CheckAllowed(in, Offered(k)) /\ Applies(in.program, Offered(k))
      /\ Apply(in.program, Offered(k)) = q /\ in.verdict[q] = "PASS"
  BY <1>1, <1>2 DEF FirstFound, Good, Enumerated, Passes
<1>4. in.program \in DOMAIN in.verdict
  BY InputsAssumption
<1>5. PICK c : c = Offered(k)
  OBVIOUS
<1>6. c.changes = in.file[k].changes
  <2>1. DOMAIN in.file[k] = {"f", "hash", "changes"}
    BY <1>3, InputsAssumption
  <2> QED
    BY <1>5, <2>1 DEF Offered
<1>7. /\ Len(c.changes) \in Nat
      /\ \A j \in 1..Len(c.changes) : c.changes[j].kind \in {"swap", "delete"}
  BY <1>3, <1>6, InputsAssumption
<1>8. Permits(in, in.program, q)
  BY <1>3, <1>4, <1>5, <1>7, ApplyPermits
<1> QED
  BY <1>1, <1>2, <1>3, <1>8

(* Only a search that found a program that passes is repaired. *)
LEMMA RepairedEnds ==
  ASSUME Ended, result.outcome = "Repaired"
  PROVE  EndedRepaired
<1>1. ~EndedExhausted
  <2>1. result = Finished(Classify(flags)) => result.outcome = Classify(flags).outcome
    BY DEF Finished
  <2>2. Classify(flags).outcome # "Repaired"
    BY DEF Classify, Triple
  <2> QED
    BY <2>1, <2>2 DEF EndedExhausted
<1> QED
  BY <1>1 DEF Ended, EndedAtRoot, EndedByCandidates, EndedByVerifications

(* Whatever the programs, the oracle and the budgets, an accepted program
   passes, is made of the input by permitted changes that move nothing across a
   statement that is no lock, and lies no more candidates away from the input
   than any program that passes: keeping the depth of the first path to a reused
   program loses no shorter repair. *)
THEOREM ShortestRepair == RepairSpec => []RepairIsShortest
<1> DEFINE Inv == LoopInv /\ SearchInv /\ LayerInv
<1>1. Init => Inv
  BY InputsAssumption DEF Init, LoopInv, Looping, SearchInv, LayerInv, Searching, Started
<1>2. Inv /\ [Next \/ LoopNext]_vars => Inv'
  BY LoopInvariant, SearchInvariant, LayerInvariant
<1>3. ASSUME Inv, pc = "done", result.outcome = "Repaired"
      PROVE  RepairIsShortest
  <2>1. PICK q : q = Accepted
    OBVIOUS
  <2>2. /\ in.verdict[q] = "PASS" /\ Permits(in, in.program, q)
        /\ Searching => /\ q \in Within[Len(result.chain)]
                        /\ \A p \in Within[Len(result.chain) - 1] : in.verdict[p] # "PASS"
    <3>1. CASE Searching
      <4>1. EndedRepaired
        BY <1>3, <3>1, RepairedEnds DEF LayerInv
      <4> QED
        BY <2>1, <3>1, <4>1, EndedShortest DEF Accepted
    <3>2. CASE ~Searching
      <4>1. in \in Inputs /\ FirstFound
        BY <1>3, <3>2 DEF LoopInv, Looping, Searching
      <4> QED
        BY <1>3, <2>1, <3>2, <4>1, FoundPermitted DEF Accepted
    <3> QED
      BY <3>1, <3>2
  <2>3. \A f \in DOMAIN in.program : f \notin in.allowed => q[f] = in.program[f]
    BY <2>2, PermittedShape
  <2>4. ASSUME NEW f \in DOMAIN in.program, NEW k \in DOMAIN in.program[f]
        PROVE  LET sid == in.program[f][k] IN
               /\ sid \in Control \union ControlTargets => Has(q[f], sid)
               /\ Has(q[f], sid) /\ (LockOf[sid] = NoLock \/ sid \in ControlTargets) =>
                    BeforeIn(q[f], sid)
                      = BeforeIn(in.program[f], sid) \cap {q[f][j] : j \in DOMAIN q[f]}
    BY <2>2, PermittedShape
  <2>5. \A f \in DOMAIN in.program : f \notin in.allowed => Accepted[f] = in.program[f]
    BY <2>1, <2>3
  <2>6. ASSUME NEW f \in DOMAIN in.program, NEW k \in DOMAIN in.program[f]
        PROVE  LET sid == in.program[f][k] IN
               /\ sid \in Control \union ControlTargets => Has(Accepted[f], sid)
               /\ Has(Accepted[f], sid) /\ (LockOf[sid] = NoLock \/ sid \in ControlTargets) =>
                    BeforeIn(Accepted[f], sid)
                      = BeforeIn(in.program[f], sid)
                          \cap {Accepted[f][j] : j \in DOMAIN Accepted[f]}
    BY <2>1, <2>4
  <2>7. /\ in.verdict[Accepted] = "PASS"
        /\ Searching => /\ Accepted \in Within[Len(result.chain)]
                        /\ \A p \in Within[Len(result.chain) - 1] : in.verdict[p] # "PASS"
    BY <2>1, <2>2
  <2> QED
    BY <2>5, <2>6, <2>7 DEF RepairIsShortest
<1>4. Inv => RepairIsShortest
  BY <1>3 DEF RepairIsShortest
<1> QED
  BY <1>1, <1>2, <1>4, PTL DEF RepairSpec
=============================================================================
