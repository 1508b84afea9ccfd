------------------------------ MODULE MCExplore ------------------------------
(* Instances of the explorer for TLC: every small transition system. *)
EXTENDS ExploreProps, TLC

(* Every system of three states with at most two steps from each, one of the
   states possibly answered with boundary events or an error. *)
Outs(S) == {<<>>} \union {<<a>> : a \in S} \union {<<a, b>> : a, b \in S}
OneOdd == {[n \in Node |-> "ok"]} \union
          {[n \in Node |-> IF n = o THEN a ELSE "ok"] : o \in 1..3, a \in Answers}
Rows(S) == [1..3 -> {o \in Outs(S) : Len(o) = 2 => o[1] < o[2]}]
ThreeStateSystems ==
  {[init |-> 1, succ |-> [n \in Node |-> IF n <= 3 THEN e[n] ELSE <<>>], answer |-> a,
    key |-> [n \in Node |-> n], finished |-> {3}] : e \in Rows(1..3), a \in OneOdd}

(* Systems where 3 and 4 have one key: 4 steps where 3 does, or to the other
   state of that key. *)
Swap(o) == [i \in DOMAIN o |-> IF o[i] = 3 THEN 4 ELSE IF o[i] = 4 THEN 3 ELSE o[i]]
MergedSystems ==
  {[init |-> 1, succ |-> [n \in Node |-> IF n < 4 THEN e[n] ELSE IF n > 4 THEN <<>>
                                         ELSE IF same THEN e[3] ELSE Swap(e[3])],
    answer |-> [n \in Node |-> "ok"], key |-> [n \in Node |-> IF n = 4 THEN 3 ELSE n],
    finished |-> {}] :
     e \in Rows(1..4), same \in BOOLEAN}

(* Systems where two paths of different lengths lead to one state. *)
DetourSystems ==
  {[init |-> 1, succ |-> [n \in Node |-> IF n = 1 THEN first ELSE e[n]],
    answer |-> [n \in Node |-> "ok"], key |-> [n \in Node |-> n], finished |-> {}] :
     first \in {<<2, 3>>, <<3, 2>>}, e \in [Node \ {1} -> {<<>>, <<3>>, <<4>>, <<5>>}]}
EverySystem == ThreeStateSystems \union MergedSystems \union DetourSystems
AllSystems == EverySystem    \* TLC evaluates EverySystem once

B(s, d, e) == [max_states |-> s, max_depth |-> d, max_boundary_events |-> e]
AllBounds == {B(9, 9, 9), B(2, 9, 9), B(3, 9, 9), B(9, 1, 9), B(9, 2, 9), B(9, 9, 0)}
=============================================================================
