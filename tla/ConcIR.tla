------------------------------- MODULE ConcIR -------------------------------
(***************************************************************************)
(* The resolved program the two executable semantics run: what             *)
(* src/sem/program.rs lowers a validated ConcIR document to.  A program    *)
(* gives every function a body, a sequence of operations whose jumps are   *)
(* already indices; slots and resources are resolved, and every type is    *)
(* the set of values within_type accepts for it.                           *)
(*                                                                         *)
(* Indices are 1-based here and 0-based in the code.                       *)
(***************************************************************************)
EXTENDS Integers, Sequences, FiniteSets

CONSTANTS
  Functions,      \* the function ids
  Entry,          \* the function the first thread runs
  Nobody,         \* functions for which is_transparent_nobody() holds
  Programs,       \* the sets of bodies to run: [Functions -> Seq(Operation)]
  Bound,          \* declared `bound` of each function, or NoBound
  NoBound,
  NoValue,        \* what a plain `return` returns
  Values,         \* every value a slot, a variable or a message can hold
  True, False,    \* the two Bool values
  Scrutinees,     \* the Int and Enum values, those `switch` accepts
  Exprs,          \* resolved expressions
  NoExpr,         \* the missing expression of a plain `return`
  Eval(_, _, _),  \* their value, given the locals and the shared store
  EvalError,      \* ... or the error E2xx the evaluator returns
  Locals,         \* names of activation slots
  Discard,        \* the destination that drops its value
  Params,         \* modelled parameter slots of each function, in order
  SlotType,       \* declared type of each slot of each function
  SlotInit,       \* its initial (or default) value
  ReturnType,     \* declared return type, Values if there is none
  Shared,         \* Var and Atomic resources
  SharedType,
  SharedInit,
  Mutexes, Condvars, Semaphores, Channels,
  Permits,        \* initial permits of each semaphore
  Capacity,       \* capacity of each channel, 0 for a rendezvous
  ChannelType,
  HandleNames     \* the names `spawn` binds and `join` reads

Destinations == Locals \union Shared \union {Discard}

(* Targets of jumps: any statement index; one past the end falls off. *)
Target == Nat \ {0}

-----------------------------------------------------------------------------
(* SemOp: one record per kind of operation. A `switch` gives every value its
   target: that of its case, or the default's. ReadShared and AtomicLoad, and
   WriteShared and AtomicStore, act alike on the store and are merged. *)

DataOp ==
        [op : {"nop"}]
  \cup  [op : {"assign"}, dst : Locals, e : Exprs]
  \cup  [op : {"load"}, r : Shared, dst : Destinations]
  \cup  [op : {"store"}, r : Shared, e : Exprs]
  \cup  [op : {"cas"}, r : Shared, expected : Exprs, desired : Exprs,
         dst : Destinations]

SyncOp ==
        [op : {"lock", "unlock"}, m : Mutexes]
  \cup  [op : {"wait"}, cv : Condvars, m : Mutexes]
  \cup  [op : {"notify", "notify_all"}, cv : Condvars]
  \cup  [op : {"acquire", "release"}, s : Semaphores, n : Int]

ChannelOp ==
        [op : {"send"}, c : Channels, e : Exprs]
  \cup  [op : {"recv"}, c : Channels, dst : Destinations]

ThreadOp ==
        [op : {"spawn"}, f : Functions, h : HandleNames]
  \cup  [op : {"join"}, h : HandleNames]
  \cup  [op : {"scope"}, fs : Seq(Functions)]

ControlOp ==
        [op : {"goto"}, to : Target]
  \cup  [op : {"branch"}, e : Exprs, yes : Target, no : Target]
  \cup  [op : {"switch"}, e : Exprs, to : [Values -> Target]]
  \cup  [op : {"call"}, f : Functions, args : Seq(Exprs), dst : Destinations]
  \cup  [op : {"return"}, e : Exprs \union {NoExpr}]
  \cup  [op : {"unsupported"}]

Operation == DataOp \cup SyncOp \cup ChannelOp \cup ThreadOp \cup ControlOp

(* What a destination of function f accepts: its declared domain. *)
DomainOf(f, dst) == IF dst \in Locals THEN SlotType[f][dst]
                    ELSE IF dst \in Shared THEN SharedType[dst]
                    ELSE Values

-----------------------------------------------------------------------------
ASSUME FunctionsAssumption ==
  /\ Entry \in Functions
  /\ Nobody \subseteq Functions
  /\ NoBound \notin Nat
  /\ Bound \in [Functions -> Nat \union {NoBound}]
  /\ \A f \in Functions : Params[f] \in Seq(Locals)

ASSUME ValuesAssumption ==
  /\ {True, False} \subseteq Values /\ True # False
  /\ Scrutinees \subseteq Values
  /\ NoValue \notin Values /\ EvalError \notin Values
  /\ NoExpr \notin Exprs
  /\ Locals \cap Shared = {} /\ Discard \notin Locals \union Shared

(* Every expression has a value of the universe or fails. *)
ASSUME EvalAssumption ==
  \A e \in Exprs, l \in [Locals -> Values], s \in [Shared -> Values] :
     Eval(e, l, s) \in Values \union {EvalError}

(* Lowering gives every slot, Var and Atomic an initial value, and clamps
   channel capacities at zero. *)
ASSUME DeclarationsAssumption ==
  /\ SlotType \in [Functions -> [Locals -> SUBSET Values]]
  /\ SlotInit \in [Functions -> [Locals -> Values]]
  /\ ReturnType \in [Functions -> SUBSET Values]
  /\ SharedType \in [Shared -> SUBSET Values]
  /\ SharedInit \in [Shared -> Values]
  /\ ChannelType \in [Channels -> SUBSET Values]
  /\ Capacity \in [Channels -> Nat]
  /\ Permits \in [Semaphores -> Int]

(* Stated pointwise, so that TLC does not enumerate Seq(Operation). *)
ASSUME ProgramsAssumption ==
  \A p \in Programs :
    /\ DOMAIN p = Functions
    /\ \A f \in Functions : p[f] \in Seq(Operation)

(* Declarations whose initial values are of the declared types. *)
InitialValuesTyped ==
  /\ \A r \in Shared : SharedInit[r] \in SharedType[r]
  /\ \A f \in Functions, x \in Locals : SlotInit[f][x] \in SlotType[f][x]

(* Programs both engines run alike: without statements the net has no
   transition for, calls of transparent functions, and switches on what is
   neither an Int nor an Enum (E207). *)
Comparable(p) ==
  \A f \in Functions : \A i \in DOMAIN p[f] :
    LET o == p[f][i] IN
    /\ o.op # "unsupported"
    /\ o.op = "call" => o.f \notin Nobody
    /\ o.op = "switch" =>
         \A l \in [Locals -> Values], s \in [Shared -> Values] :
           /\ \A x \in Locals : l[x] \in SlotType[f][x]
           /\ \A r \in Shared : s[r] \in SharedType[r]
           => Eval(o.e, l, s) \in Scrutinees \union {EvalError}
=============================================================================
