------------------------------- MODULE Locks -------------------------------
(***************************************************************************)
(* The lock passes of the static validator: for every statement of a       *)
(* function, the sets of locks a path from the entry may hold there, and   *)
(* the errors found on those paths.  A function starts with the locks it   *)
(* requires of its caller.                                                 *)
(*                                                                         *)
(* Not modelled: E504, as the interpreter has no await, and E505, which    *)
(* compares the acquisition orders of one function's paths; both refuse    *)
(* more programs.                                                          *)
(***************************************************************************)
EXTENDS ConcIR
LOCAL INSTANCE Functions

CONSTANTS
  RequiresHeld,   \* the locks each function requires of its caller
  Protection,     \* the lock of each protected Var
  ReadsOf(_)      \* the Vars and Atomics an expression reads

ASSUME LocksAssumption ==
  /\ RequiresHeld \in [Functions -> SUBSET Mutexes]
  /\ DOMAIN Protection \subseteq Shared /\ Protection \in [DOMAIN Protection -> Mutexes]
  /\ \A e \in Exprs, l \in [Locals -> Values], s, z \in [Shared -> Values] :
       (\A r \in ReadsOf(e) : s[r] = z[r]) => Eval(e, l, s) = Eval(e, l, z)

(* build_cfg: a jump beyond the body names no statement. *)
ThenOnly(o, i) ==                                                   \* mutant
  CASE o.op = "goto" -> {o.to} [] o.op = "branch" -> {o.yes} [] o.op = "return" -> {}
    [] OTHER -> {i + 1}
Goes(o, i) ==
  CASE o.op = "goto"   -> {o.to}
    [] o.op = "branch" -> {o.yes, o.no}
    [] o.op = "switch" -> {o.to[v] : v \in Values}
    [] o.op = "return" -> {}
    [] OTHER           -> {i + 1}
Follows(body, i) == Goes(body[i], i) \cap DOMAIN body

Leaves(o, held) ==
  CASE o.op = "lock"   -> held \union {o.m}
    [] o.op = "unlock" -> held \ {o.m}
    [] OTHER           -> held

(* The worklist, to its fixpoint: pairs of a statement and the locks held
   before it. *)
Steps(body, found) ==
  found \union UNION {{<<j, Leaves(body[x[1]], x[2])>> : j \in Follows(body, x[1])} : x \in found}
Visited(p, f) ==
  LET rounds == Len(p[f]) * Cardinality(SUBSET Mutexes)
      visited[n \in 0..rounds] ==
        IF n = 0 THEN {<<1, RequiresHeld[f]>>} ELSE Steps(p[f], visited[n - 1])
  IN  IF p[f] = <<>> THEN {} ELSE visited[rounds]

-----------------------------------------------------------------------------
(* protected_var_accesses *)
Writes(o) == IF "dst" \in DOMAIN o THEN {o.dst} ELSE {}
Expressions(o) ==
  CASE o.op = "cas"  -> {o.expected, o.desired}
    [] o.op = "call" -> Range(o.args)
    [] OTHER         -> IF "e" \in DOMAIN o THEN {o.e} \ {NoExpr} ELSE {}
NamedOnly(o) ==                                                     \* mutant
  IF o.op \in {"load", "store"} THEN {o.r} ELSE {}
Accesses(o) ==
  (IF o.op \in {"load", "store"} THEN {o.r} ELSE {})
  \union Writes(o) \union UNION {ReadsOf(e) : e \in Expressions(o)}

(* The errors of a statement reached with some locks held. *)
NotReleased(f, o, held)   == o.op = "return" /\ held \ RequiresHeld[f] # {}          \* E501
NotLocked(o, held)        == o.op = "unlock" /\ o.m \notin held                      \* E502
LockedTwice(o, held)      == o.op = "lock" /\ o.m \in held                           \* E503
WaitsWithout(o, held)     == o.op = "wait" /\ o.m \notin held                        \* E512
CallsWithout(o, held)     == o.op = "call" /\ ~(RequiresHeld[o.f] \subseteq held)    \* E803
Unprotected(o, held) ==                                                              \* E309
  \E r \in Accesses(o) \cap DOMAIN Protection : Protection[r] \notin held

Clean(f, o, held) ==
  /\ ~NotReleased(f, o, held) /\ ~NotLocked(o, held) /\ ~LockedTwice(o, held)
  /\ ~WaitsWithout(o, held) /\ ~CallsWithout(o, held) /\ ~Unprotected(o, held)

(* E602: only a return ends a path.  That a jump has a target is for the
   lowering to check (sem/program.rs:841). *)
AlwaysReturns(body) == \A i \in DOMAIN body : Goes(body[i], i) \subseteq DOMAIN body

(* The worklist starts at the entry and runs until nothing is left. *)
Exhausted(p, f) ==
  p[f] # <<>> => {<<1, RequiresHeld[f]>>} \union Steps(p[f], Visited(p, f)) \subseteq Visited(p, f)

Validates(p) ==
  \A f \in Functions :
    /\ AlwaysReturns(p[f]) /\ Exhausted(p, f)
    /\ \A x \in Visited(p, f) : Clean(f, p[f][x[1]], x[2])
=============================================================================
