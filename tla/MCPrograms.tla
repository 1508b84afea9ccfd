----------------------------- MODULE MCPrograms -----------------------------
(***************************************************************************)
(* Programs for TLC. A run explores every program of a family at once:     *)
(* bodies are sequences drawn from a small set of operations, so a run     *)
(* covers all the orders of those operations and not one hand-picked       *)
(* program.                                                                *)
(***************************************************************************)
EXTENDS ConcIR, TLC

CONSTANTS m1, cv1, s1, c0, c1   \* resources

MCFunctions == {"main", "w", "v", "ext"}
MCNobody    == {"ext"}
MCValues    == {"0", "1", "true", "false"}
Bools == {"true", "false"}
Ints  == {"0", "1"}

(* Expressions: a literal, a slot, a shared variable, and an increment that
   leaves the universe of values, hence fails, at "1". *)
Lit(v)  == [k |-> "lit", x |-> v]
Slot(x) == [k |-> "slot", x |-> x]
Var(r)  == [k |-> "var", x |-> r]
Inc(x)  == [k |-> "inc", x |-> x]
MCExprs == {Lit(v) : v \in MCValues} \union {Slot("x"), Slot("p"), Inc("x")}
           \union {Var(r) : r \in Shared}
MCEval(e, l, s) ==
  CASE e.k = "lit"  -> e.x
    [] e.k = "slot" -> l[e.x]
    [] e.k = "var"  -> s[e.x]
    [] e.k = "inc"  -> IF l[e.x] = "0" THEN "1" ELSE EvalError

(* Slot x takes any Int, the parameter p only "0": a domain a value can miss. *)
MCSlotType   == [f \in Functions |-> [x \in Locals |-> IF x = "p" THEN {"0"} ELSE Ints]]
MCSlotInit   == [f \in Functions |-> [x \in Locals |-> "0"]]
MCParams     == [f \in Functions |-> IF f = "v" THEN <<"p">> ELSE <<>>]
MCReturnType == [f \in Functions |-> IF f = "v" THEN {"0"} ELSE Values]
MCSharedType == [r \in Shared |-> IF r = "flag" THEN Bools ELSE Ints]
MCSharedInit == [r \in Shared |-> IF r = "flag" THEN "false" ELSE "0"]
MCChannelType == [c \in Channels |-> Ints]
MCCapacity   == [c \in Channels |-> IF c = c1 THEN 1 ELSE 0]
MCPermits    == [s \in Semaphores |-> 1]
MCMonitorMax == [f \in Functions |-> IF f = "main" THEN 0 ELSE 1]
NoBounds     == [f \in Functions |-> NoBound]

-----------------------------------------------------------------------------
(* Operations *)
nop        == [op |-> "nop"]
assign(x, e) == [op |-> "assign", dst |-> x, e |-> e]
load(r, d) == [op |-> "load", r |-> r, dst |-> d]
store(r, e) == [op |-> "store", r |-> r, e |-> e]
cas(r, a, b, d) == [op |-> "cas", r |-> r, expected |-> a, desired |-> b, dst |-> d]
lock(r)    == [op |-> "lock", m |-> r]
unlock(r)  == [op |-> "unlock", m |-> r]
wait(c, r) == [op |-> "wait", cv |-> c, m |-> r]
notify(c)  == [op |-> "notify", cv |-> c]
notify_all(c) == [op |-> "notify_all", cv |-> c]
acquire(i) == [op |-> "acquire", s |-> s1, n |-> i]
release(i) == [op |-> "release", s |-> s1, n |-> i]
send(c, e) == [op |-> "send", c |-> c, e |-> e]
recv(c, d) == [op |-> "recv", c |-> c, dst |-> d]
spawn(f, h) == [op |-> "spawn", f |-> f, h |-> h]
join(h)    == [op |-> "join", h |-> h]
scopeOf(fs) == [op |-> "scope", fs |-> fs]
goto(i)    == [op |-> "goto", to |-> i]
branch(e, i, j) == [op |-> "branch", e |-> e, yes |-> i, no |-> j]
switch(e, i, j) == [op |-> "switch", e |-> e,
                    to |-> [v \in Values |-> IF v = "0" THEN i ELSE j]]
call(f, as, d) == [op |-> "call", f |-> f, args |-> as, dst |-> d]
return(e)  == [op |-> "return", e |-> e]
unsupported == [op |-> "unsupported"]

SeqsOf(S, len) == [1..len -> S]
Bodies(main, w, v) ==
  [f \in Functions |-> CASE f = "main" -> main [] f = "w" -> w
                         [] f = "v" -> v [] OTHER -> <<>>]

(* Two workers w and the main thread contend for two mutexes, a condvar and a
   semaphore, in every order of three operations against two. *)
LockOps == {lock(m1), unlock(m1), wait(cv1, m1), notify(cv1), notify_all(cv1),
            acquire(1), release(1)}
LockFamily(len) ==
  {Bodies(<<spawn("w", "h"), spawn("w", "k")>> \o a, b, <<>>) :
     a \in {<<lock(m1), notify(cv1), unlock(m1)>>,
            <<lock(m1), notify_all(cv1), unlock(m1)>>,
            <<acquire(1), release(2), release(1)>>,
            <<lock(m1), wait(cv1, m1), notify(cv1)>>},
     b \in SeqsOf(LockOps, len)}
LockPrograms == LockFamily(3)

(* Three threads on a rendezvous channel c0 and a channel c1 of capacity 1;
   Inc(x) makes a sender's value differ from one send to the next, and the
   destination p refuses the value 1. *)
ChannelOps == {send(c0, Lit("1")), send(c1, Var("y")), recv(c0, "x"), recv(c1, "x"),
               recv(c1, "y"), assign("x", Inc("x"))}
ChannelFamily(len) ==
  {Bodies(<<spawn("w", "h"), spawn("w", "k")>> \o a, b, <<>>) :
     a \in {<<recv(c0, "p"), recv(c0, "x")>>, <<send(c0, Lit("0")), send(c0, Lit("1"))>>,
            <<recv(c1, "x"), recv(c1, "p"), recv(c1, Discard)>>,
            <<send(c1, Lit("0")), send(c1, Lit("1"))>>,
            <<recv(c1, "flag"), recv(c0, "y"), send(c1, Var("y"))>>},
     b \in SeqsOf(ChannelOps, len)}
ChannelPrograms == ChannelFamily(3)

(* Spawns, joins, scopes and calls in every order, nested two deep: main over
   w over v, with a transparent function. *)
ThreadOps == {spawn("w", "h"), spawn("v", "h"), spawn("ext", "k"), join("h"), join("k"),
              scopeOf(<<"ext", "v">>), scopeOf(<<"w", "v">>)}
WorkerBodies == {<<>>, <<scopeOf(<<"v", "v">>)>>, <<spawn("v", "h"), join("h")>>,
                 <<spawn("v", "h")>>, <<call("v", <<Lit("0")>>, Discard)>>}
ThreadFamily(ops) ==
  {Bodies(a, b, <<return(Slot("p"))>>) : a \in SeqsOf(ops, 3), b \in WorkerBodies}
ThreadPrograms == ThreadFamily(ThreadOps)

(* The same handle name spawned, joined and rebound in a loop. *)
LoopPrograms ==
  {Bodies(<<a, b, c, goto(1)>>, <<d>>, <<>>) :
     a \in ThreadOps \union {scopeOf(<<"ext">>), call("v", <<Lit("0")>>, "x")},
     b \in ThreadOps \union {scopeOf(<<>>), call("ext", <<>>, Discard)},
     c \in {nop, join("h"), call("w", <<>>, Discard)},
     d \in {nop, spawn("v", "h"), call("w", <<>>, Discard)}}

(* Reads, writes, swaps, jumps, calls and returns against a second thread that
   writes the same variables. *)
DataOps == {nop, assign("x", Inc("x")), assign("p", Slot("x")), load("y", "x"),
            load("y", "p"), store("y", Inc("x")), store("flag", Lit("true")),
            cas("y", Lit("0"), Slot("x"), "x"), cas("y", Slot("x"), Lit("1"), "flag"),
            cas("y", Lit("0"), Lit("1"), "y"), branch(Var("flag"), 1, 4),
            branch(Slot("x"), 1, 2), switch(Slot("x"), 4, 2), switch(Var("flag"), 1, 1),
            call("v", <<Slot("x")>>, "x"), call("v", <<Inc("x")>>, "y"),
            call("w", <<>>, "flag"), return(NoExpr), unsupported}
DataFamily(ops) ==
  {Bodies(<<spawn("w", "h")>> \o a, <<store("y", Lit("1")), store("flag", Lit("true")),
                                      return(Lit("1"))>>, b) :
     a \in SeqsOf(ops, 2),
     b \in {<<return(Slot("p"))>>, <<return(Var("y"))>>}}
DataPrograms == DataFamily(DataOps)

(* A definition that stands for a constant is evaluated at every use, so it
   only names one that TLC evaluates once. *)
EveryProgram ==
  LockPrograms \union ChannelPrograms \union ThreadPrograms \union LoopPrograms
  \union DataPrograms
AllPrograms == EveryProgram

(* A scope that names a function of bound 1 twice; a call of a transparent
   function; a scope whose members are all transparent. *)
OneEach == [f \in Functions |-> IF f = "v" THEN 1 ELSE NoBound]
BoundPrograms == {Bodies(<<scopeOf(<<"v", "v">>)>>, <<>>, <<nop>>)}
NobodyPrograms == {Bodies(<<call("ext", <<>>, Discard), nop>>, <<>>, <<>>)}
ReclaimPrograms == {Bodies(<<scopeOf(<<"ext">>), nop>>, <<>>, <<>>)}

(* What the two engines are compared on: no call of a transparent function, to
   which the net gives a frame and a step of its own, no `switch` on a value
   that is neither Int nor Enum, and no unsupported statement. *)
ComparedPrograms ==
  LockPrograms \union ChannelPrograms
  \union ThreadFamily({spawn("w", "h"), spawn("ext", "k"), join("h"), join("k"),
                       scopeOf(<<"ext", "v">>)})
  \union DataFamily({assign("x", Inc("x")), store("flag", Lit("true")),
                     cas("y", Lit("0"), Slot("x"), "x"), branch(Var("flag"), 1, 4),
                     switch(Slot("x"), 4, 2), call("v", <<Slot("x")>>, "x"),
                     call("w", <<>>, "flag"), return(NoExpr)})
  \union {Bodies(<<spawn("w", "h"), a, join("h"), goto(1)>>, <<nop>>, <<>>) :
            a \in {nop, scopeOf(<<"ext">>), spawn("w", "h")}}
AgreeingPrograms == ComparedPrograms
=============================================================================
