------------------------------ MODULE MCInterp ------------------------------
(* The interpreter on the program families of MCPrograms, and on programs the
   lock checks accept: y is protected by m1, which v requires of its callers. *)
EXTENDS InterpProps, LockProps, MCPrograms

MCRequires   == [f \in Functions |-> IF f = "v" THEN {m1} ELSE {}]
MCProtection == ("y" :> m1)
MCReadsOf(e) == IF e.k = "var" THEN {e.x} ELSE {}

(* Two sections in w, every two operations in one, against a main that waits,
   notifies, sends or reads; v may give its caller's lock back for a while. *)
SectionOps ==
  {nop, lock(m1), unlock(m1), wait(cv1, m1), load("y", "x"), store("y", Inc("x")),
   recv(c1, "y"), call("v", <<Lit("0")>>, "y"), branch(Var("flag"), 2, 5),
   branch(Slot("x"), 4, 5), assign("x", Var("y"))}
SectionPrograms ==
  {Bodies(<<spawn("w", "h"), spawn("w", "k")>> \o a \o <<return(NoExpr)>>,
          <<lock(m1)>> \o b \o <<unlock(m1)>> \o d \o <<return(NoExpr)>>, c) :
     a \in {<<lock(m1), notify_all(cv1), store("y", Lit("1")), unlock(m1)>>,
            <<send(c1, Lit("1")), lock(m1), load("y", "x"), unlock(m1)>>},
     b \in SeqsOf(SectionOps, 2),
     c \in {<<store("y", Lit("1")), return(Slot("p"))>>,
            <<unlock(m1), lock(m1), return(Var("y"))>>},
     d \in {<<>>, <<recv(c1, "y")>>, <<assign("x", Var("y"))>>}}

EveryCheckedProgram == EveryProgram \union {p \in SectionPrograms : Validates(p)}
CheckedPrograms == EveryCheckedProgram
=============================================================================
