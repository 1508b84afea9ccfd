------------------------------ MODULE MCRepair ------------------------------
(***************************************************************************)
(* Repair searches for TLC: every oracle over the programs that swaps make  *)
(* of two small inputs, under budgets around what those need, and every     *)
(* candidate file of three patches out of seven.                           *)
(***************************************************************************)
EXTENDS RepairProps, TLC

MCFunctionOrder == <<"f", "g">>
MCSids == {"a1", "b1", "c1", "n1", "a2", "b2", "t2", "j2"}
MCLockOf == [s \in MCSids |-> CASE s \in {"a1", "a2"} -> "A" [] s \in {"b1", "b2", "t2"} -> "B"
                                [] s = "c1" -> "C" [] OTHER -> "none"]
MCControl == {"j2"}     \* goto t2
MCTargets == {"t2"}

Orders(S) == {q \in [1..Cardinality(S) -> S] : \A j, k \in DOMAIN q : q[j] = q[k] => j = k}
With(fs, gs) == {("f" :> q) @@ ("g" :> r) : q \in fs, r \in gs}

AtMost(c, v, d, e) == [candidates |-> c, verifications |-> v, maxDepth |-> d, maxEdits |-> e]
Wide == AtMost(9, 9, 9, 9)
Budgets ==
  {Wide} \union {AtMost(c, 9, 9, 9) : c \in 0..5} \union {AtMost(9, v, 9, 9) : v \in 0..4}
  \union {AtMost(9, 9, d, 9) : d \in 0..2} \union {AtMost(9, 9, 9, e) : e \in 0..2}
  \union {AtMost(9, 9, 2, 1), AtMost(9, 9, 1, 2), AtMost(4, 3, 2, 2)}
FewBudgets ==
  {AtMost(12, 9, 9, 9), AtMost(5, 9, 9, 9), AtMost(12, 4, 9, 9), AtMost(12, 9, 2, 9),
   AtMost(12, 9, 9, 2), AtMost(12, 9, 3, 9)}

Input(p, verdict, blocked, allowed, reorder, delete, strategy, b, file) ==
  [program |-> p, verdict |-> verdict, blocked |-> blocked,
   valid |-> {q \in DOMAIN verdict : verdict[q] # "INVALID"},
   allowed |-> allowed, reorder |-> reorder, delete |-> delete, strategy |-> strategy,
   candidates |-> b.candidates, verifications |-> b.verifications,
   maxDepth |-> b.maxDepth, maxEdits |-> b.maxEdits, file |-> file]

(* Two functions that lock the same two mutexes: four programs. *)
Square == With(Orders({"a1", "b1"}), Orders({"a2", "b2"}))
SquareRoot == "f" :> <<"a1", "b1">> @@ "g" :> <<"b2", "a2">>
SquareInput(v, allowed, reorder, strategy, b) ==
  Input(SquareRoot, v, [p \in Square |-> {}], allowed, reorder, FALSE, strategy, b, <<>>)
SquareInputs ==
  {SquareInput(v, {"f", "g"}, TRUE, strategy, b) :
     v \in {w \in [Square -> {"PASS", "FAIL", "UNKNOWN", "INVALID"}] : w[SquareRoot] = "FAIL"},
     strategy \in {"single", "composite"}, b \in Budgets}
  \union
  {SquareInput(v, {"f", "g"}, TRUE, "composite", b) :
     v \in {[p \in Square |-> IF p = SquareRoot THEN o ELSE "PASS"] :
              o \in {"PASS", "UNKNOWN", "INVALID", "UNSUPPORTED"}},
     b \in Budgets}
  \union
  {SquareInput(v, s, r, "composite", Wide) :
     v \in {w \in [Square -> {"PASS", "FAIL"}] : w[SquareRoot] = "FAIL"},
     s \in {{"f"}, {"g"}, {}}, r \in BOOLEAN}
  \union     \* errors that only running a program shows
  {[SquareInput(v, {"f", "g"}, TRUE, "composite", Wide) EXCEPT !.valid = Square] :
     v \in {w \in [Square -> {"PASS", "FAIL", "INVALID"}] : w[SquareRoot] = "FAIL"}}

(* One function of three locks beside a swap that a jump forbids: six programs
   in a circle, the farthest three swaps away either way round. *)
Hexagon == With(Orders({"a1", "b1", "c1"}), {<<"a2", "t2", "j2">>})
HexagonRoot == "f" :> <<"a1", "b1", "c1">> @@ "g" :> <<"a2", "t2", "j2">>
HexagonInputs ==
  {Input(HexagonRoot, v, blocked, {"f", "g"}, TRUE, FALSE, strategy, b, <<>>) :
     v \in {w \in [Hexagon -> {"PASS", "FAIL", "UNKNOWN"}] : w[HexagonRoot] = "FAIL"},
     blocked \in {[p \in Hexagon |-> {}]},
     strategy \in {"composite"}, b \in FewBudgets}
  \union
  {Input(HexagonRoot, v, blocked, {"f", "g"}, TRUE, FALSE, "diagnostic", b, <<>>) :
     v \in {w \in [Hexagon -> {"PASS", "FAIL"}] : w[HexagonRoot] = "FAIL"},
     blocked \in {[p \in Hexagon |-> {"A"}], [p \in Hexagon |-> {"C"}],
                  [p \in Hexagon |-> IF p = HexagonRoot THEN {"C"} ELSE {}]},
     b \in FewBudgets}

(* Candidate files: legal, illegal, stale, conflicting and repeated patches. *)
FileRoot == "f" :> <<"a1", "b1", "n1">> @@ "g" :> <<"a2", "t2", "j2">>
Patch(f, hash, changes) == [f |-> f, hash |-> hash, changes |-> changes]
FilePatches ==
  {Patch("f", None, <<Swap("a1", "b1")>>),
   Patch("f", None, <<Delete("n1")>>),
   Patch("f", <<"a1", "b1", "n1">>, <<Delete("n1"), Swap("b1", "a1")>>),
   Patch("f", <<"b1", "a1", "n1">>, <<Delete("n1")>>),
   Patch("f", None, <<Swap("a1", "b1"), Delete("a1")>>),
   Patch("g", None, <<Swap("a2", "t2")>>),
   Patch("h", None, <<Delete("j2")>>)}
FilePrograms ==
  With({<<"a1", "b1", "n1">>, <<"b1", "a1", "n1">>, <<"a1", "b1">>, <<"b1", "a1">>, <<"b1", "n1">>},
       {<<"a2", "t2", "j2">>, <<"t2", "a2", "j2">>})
Verdicts(swapped, shorter, both) ==
  [p \in FilePrograms |-> CASE p["g"] # <<"a2", "t2", "j2">> -> "PASS"
     [] p["f"] = <<"b1", "a1", "n1">> -> swapped
     [] p["f"] = <<"a1", "b1">> -> shorter
     [] p["f"] = <<"b1", "a1">> -> both
     [] OTHER -> "FAIL"]
FileInput(v, delete, c, file) ==
  Input(FileRoot, v, [p \in FilePrograms |-> {}], {"f", "g"}, TRUE, delete, "file",
        AtMost(c, 0, 0, 0), file)
FileInputs ==
  {FileInput(v, TRUE, c, file) :
     v \in {Verdicts(x, y, "UNKNOWN") : x \in {"PASS", "FAIL"}, y \in {"PASS", "INVALID", "UNSUPPORTED"}},
     c \in {2, 4}, file \in [1..3 -> FilePatches]}
  \union
  {FileInput(Verdicts("UNKNOWN", "PASS", "PASS"), FALSE, 4, file) :
     file \in [1..3 -> FilePatches]}

MCInputs == SquareInputs \union HexagonInputs \union FileInputs
=============================================================================
