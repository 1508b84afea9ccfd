---------------------------- MODULE Interp_proofs ----------------------------
(***************************************************************************)
(* Proofs about the reference interpreter, for every program, every set of *)
(* resources and all limits: its invariant; each thread that waits still   *)
(* stands at the statement it waits in, and what it waits for exists;      *)
(* messages keep their order; every value is in the declared domain of     *)
(* where it is stored, on whichever path it came there; and the analysis   *)
(* limits hold, however many threads one operation creates.                *)
(***************************************************************************)
EXTENDS InterpProps, FiniteSetTheorems, TLAPS

-----------------------------------------------------------------------------
(* What the state holds for a thread that has a frame *)

(* The top frame of a live thread is allocated. *)
LEMMA TopAllocated ==
  ASSUME TypeOK, FramesOwned, NEW t \in Ids, stack[t] # <<>>
  PROVE  /\ Len(stack[t]) \in DOMAIN stack[t]
         /\ Top(t) \in Ids
         /\ Fr(t) \in FrameState /\ Fr(t) # NoFrame
<1>1. stack[t] \in Seq(Ids)
  BY DEF TypeOK
<1>2. Len(stack[t]) \in DOMAIN stack[t] /\ Top(t) \in Ids
  BY <1>1 DEF Top
<1>3. frame[Top(t)] # NoFrame
  BY <1>2 DEF FramesOwned, Top
<1> QED
  BY <1>2, <1>3 DEF TypeOK, Fr

(* Two live threads have different top frames. *)
LEMMA TopsDiffer ==
  ASSUME TypeOK, FramesOwned, NEW t \in Ids, NEW u \in Ids,
         stack[t] # <<>>, stack[u] # <<>>, Top(t) = Top(u)
  PROVE  t = u
BY TopAllocated DEF FramesOwned, Top

(* A thread at a statement stands at an operation of its function's body. *)
LEMMA OpTyped ==
  ASSUME TypeOK, FramesOwned, NEW t \in Ids, AtStatement(t)
  PROVE  Op(t) \in Operation
<1>1. Fr(t).fn \in Functions
  BY TopAllocated DEF AtStatement, FrameState
<1>2. Body(t) \in Seq(Operation)
  BY <1>1, ProgramsAssumption DEF TypeOK, Body
<1> QED
  BY <1>2 DEF AtStatement, Op

(* The kind of an operation fixes its fields. *)
LEMMA OpFields ==
  ASSUME NEW o \in Operation
  PROVE  /\ o.op \in {"assign"} => o.dst \in Locals /\ o.e \in Exprs
         /\ o.op = "load" => o.r \in Shared /\ o.dst \in Destinations
         /\ o.op = "store" => o.r \in Shared /\ o.e \in Exprs
         /\ o.op = "cas" => o.r \in Shared /\ o.desired \in Exprs /\ o.dst \in Destinations
         /\ o.op \in {"lock", "unlock"} => o.m \in Mutexes
         /\ o.op = "wait" => o.cv \in Condvars /\ o.m \in Mutexes
         /\ o.op \in {"notify", "notify_all"} => o.cv \in Condvars
         /\ o.op \in {"acquire", "release"} => o.s \in Semaphores /\ o.n \in Int
         /\ o.op = "send" => o.c \in Channels /\ o.e \in Exprs
         /\ o.op = "recv" => o.c \in Channels /\ o.dst \in Destinations
         /\ o.op = "spawn" => o.f \in Functions /\ o.h \in HandleNames
         /\ o.op = "join" => o.h \in HandleNames
         /\ o.op = "scope" => o.fs \in Seq(Functions)
         /\ o.op = "goto" => o.to \in Target
         /\ o.op = "branch" => o.e \in Exprs /\ o.yes \in Target /\ o.no \in Target
         /\ o.op = "switch" => o.e \in Exprs /\ o.to \in [Values -> Target]
         /\ o.op = "call" => o.f \in Functions /\ o.args \in Seq(Exprs) /\ o.dst \in Destinations
         /\ o.op = "return" => o.e \in Exprs \union {NoExpr}
BY DEF Operation, DataOp, SyncOp, ChannelOp, ThreadOp, ControlOp

(* An expression has a value or fails. *)
LEMMA ValueTyped ==
  ASSUME TypeOK, FramesOwned, NEW t \in Ids, stack[t] # <<>>, NEW e \in Exprs
  PROVE  Value(t, e) \in Values \union {EvalError}
<1>1. Fr(t).locals \in [Locals -> Values] /\ shared \in [Shared -> Values]
  BY TopAllocated DEF FrameState, TypeOK
<1> QED
  BY <1>1, EvalAssumption DEF Value

-----------------------------------------------------------------------------
(* Updates of the frames *)

FrameStore == [Ids -> FrameState \union {NoFrame}]

(* The frames g are the frames h, but for the locals, the handles and the
   statement of some of them. *)
Similar(g, h) ==
  /\ g \in FrameStore /\ h \in FrameStore
  /\ \A f \in Ids : g[f] = NoFrame <=> h[f] = NoFrame
  /\ \A f \in Ids : h[f] # NoFrame => g[f].ret = h[f].ret

(* Similar stores compose. *)
LEMMA SimilarTrans ==
  ASSUME NEW g, NEW h, NEW k, Similar(g, h), Similar(h, k)
  PROVE  Similar(g, k)
BY DEF Similar

(* A store is similar to itself. *)
LEMMA SimilarSelf ==
  ASSUME NEW g \in FrameStore
  PROVE  Similar(g, g)
BY DEF Similar

(* Replacing a frame by one that returns to the same place. *)
LEMMA SimilarReplace ==
  ASSUME NEW g \in FrameStore, NEW f \in Ids, g[f] # NoFrame,
         NEW x \in FrameState, x.ret = g[f].ret
  PROVE  Similar([g EXCEPT ![f] = x], g)
BY LimitsAssumption DEF Similar, FrameStore

(* write_dst keeps the frames' shape. *)
LEMMA PutSimilar ==
  ASSUME NEW g \in FrameStore, NEW f \in Ids, g[f] # NoFrame,
         NEW dst, NEW v, dst \in Locals => v \in Values
  PROVE  Similar(Put(g, f, dst, v), g)
<1>1. CASE dst \in Locals
  <2> DEFINE x == [g[f] EXCEPT !.locals[dst] = v]
  <2>1. g[f] \in FrameState
    BY DEF FrameStore
  <2>2. x \in FrameState /\ x.ret = g[f].ret
    BY <1>1, <2>1 DEF FrameState
  <2>3. Put(g, f, dst, v) = [g EXCEPT ![f] = x]
    BY <1>1 DEF Put
  <2> QED
    BY ZenonT(120), <2>2, <2>3, SimilarReplace
<1>2. CASE dst \notin Locals
  BY <1>2, SimilarSelf DEF Put
<1> QED
  BY <1>1, <1>2

(* So does advance, for threads whose top frame is allocated. *)
LEMMA AdvanceSimilar ==
  ASSUME NEW g \in FrameStore, NEW ts, \A t \in ts : Top(t) \in Ids => g[Top(t)] # NoFrame
  PROVE  Similar(Advance(g, ts), g)
<1> DEFINE a == Advance(g, ts)
<1>1. \A f \in Ids : g[f] # NoFrame => g[f] \in FrameState
  BY DEF FrameStore
<1>2. \A f \in Ids : g[f] # NoFrame =>
        /\ [g[f] EXCEPT !.pc = @ + 1] \in FrameState
        /\ [g[f] EXCEPT !.pc = @ + 1].ret = g[f].ret
  BY <1>1 DEF FrameState
<1>3. \A f \in Ids : a[f] = IF \E t \in ts : f = Top(t)
                            THEN [g[f] EXCEPT !.pc = @ + 1] ELSE g[f]
  BY DEF Advance
<1>4. DOMAIN a = Ids /\ a = [f \in Ids |-> a[f]]
  BY DEF Advance
<1>5. \A f \in Ids : /\ a[f] \in FrameState \union {NoFrame}
                     /\ a[f] = NoFrame <=> g[f] = NoFrame
                     /\ g[f] # NoFrame => a[f].ret = g[f].ret
  <2> HIDE DEF a
  <2> QED
    BY ZenonT(120), <1>1, <1>2, <1>3, LimitsAssumption
<1> HIDE DEF a
<1>6. a \in FrameStore
  BY <1>4, <1>5 DEF FrameStore
<1> QED
  BY <1>5, <1>6 DEF Similar, a

(* A write at the destination of thread t, then the advance of some threads. *)
LEMMA StepSimilar ==
  ASSUME TypeOK, FramesOwned, NEW t \in Ids, stack[t] # <<>>,
         NEW dst, NEW v, dst \in Locals => v \in Values,
         NEW ts \in SUBSET Ids, \A u \in ts : stack[u] # <<>>
  PROVE  Similar(Advance(Put(frame, Top(t), dst, v), ts), frame)
<1>1. frame \in FrameStore /\ Top(t) \in Ids /\ frame[Top(t)] # NoFrame
  BY TopAllocated DEF TypeOK, FrameStore, Fr
<1>2. Similar(Put(frame, Top(t), dst, v), frame)
  BY <1>1, PutSimilar
<1>3. \A u \in ts : Top(u) \in Ids /\ frame[Top(u)] # NoFrame
  BY TopAllocated DEF Fr
<1>4. Similar(Advance(Put(frame, Top(t), dst, v), ts), Put(frame, Top(t), dst, v))
  BY <1>2, <1>3, AdvanceSimilar DEF Similar
<1> QED
  BY <1>2, <1>4, SimilarTrans

(* advance moves a frame to its next statement and nothing else. *)
LEMMA AdvanceStep ==
  ASSUME TypeOK, FramesOwned, NEW ts \in SUBSET Ids, \A u \in ts : stack[u] # <<>>
  PROVE  Similar(Advance(frame, ts), frame)
<1>1. frame \in FrameStore
  BY DEF TypeOK, FrameStore
<1>2. \A u \in ts : Top(u) \in Ids /\ frame[Top(u)] # NoFrame
  BY TopAllocated DEF Fr
<1> QED
  BY <1>1, <1>2, AdvanceSimilar

-----------------------------------------------------------------------------
(* Steps that start, end and stack no thread *)

Ended == {"absent", "done"}

(* Only threads that are neither ended nor the owner of an open scope change
   status, and none ends. *)
LiveStep ==
  \A u \in Ids : \/ status'[u] = status[u] /\ on'[u] = on[u]
                 \/ status[u] \notin Ended \union {"scope"} /\ status'[u] \notin Ended

LocalStep ==
  /\ prog' = prog
  /\ stack' = stack /\ children' = children /\ parent' = parent
  /\ UNCHANGED idVars
  /\ Similar(frame', frame)
  /\ LiveStep

(* Such a step keeps the frames and the scopes in order. *)
LEMMA StructureKept ==
  ASSUME IInv, LocalStep
  PROVE  ScopesExact' /\ FramesOwned' /\ CallsReturn'
<1>1. /\ stack' = stack /\ parent' = parent /\ scope' = scope /\ finished' = finished
      /\ prog' = prog
  BY DEF LocalStep, idVars
<1>2. \A u \in Ids : /\ status'[u] = "absent" <=> status[u] = "absent"
                     /\ status'[u] = "done" <=> status[u] = "done"
                     /\ status[u] = "scope" => status'[u] = "scope" /\ on'[u] = on[u]
  BY DEF LocalStep, LiveStep, Ended
<1>3. Live' = Live
  BY <1>2 DEF Live
<1>4. \A s : Members(s)' = Members(s)
  BY <1>1, <1>2 DEF Members
<1>5. \A t : Top(t)' = Top(t)
  BY <1>1 DEF Top
<1>6. ScopesExact'
  <2> SUFFICES ASSUME NEW s \in Ids, scope[s] # NoScope
               PROVE  LET sc == scope[s] IN
                      /\ sc.remaining = Members(s) \cap Live /\ sc.remaining # {}
                      /\ status'[sc.owner] = "scope" /\ on'[sc.owner] = s
                      /\ Top(sc.owner) = sc.frame
    BY <1>1, <1>3, <1>4, <1>5 DEF ScopesExact
  <2>1. scope[s].owner \in Ids
    BY DEF IInv, TypeOK, ScopeState
  <2> QED
    BY <1>2, <2>1 DEF IInv, ScopesExact
<1>7. FramesOwned'
  <2>1. \A f \in Ids : frame'[f] = NoFrame <=> frame[f] = NoFrame
    BY DEF LocalStep, Similar
  <2> QED
    BY <1>1, <1>2, <1>3, <2>1 DEF IInv, FramesOwned
<1>8. CallsReturn'
  <2>1. \A t \in Ids : stack[t] \in Seq(Ids)
    BY DEF IInv, TypeOK
  <2>2. \A t \in Ids : \A i \in DOMAIN stack[t] :
          stack[t][i] \in Ids /\ frame[stack[t][i]] # NoFrame
    BY <2>1 DEF IInv, FramesOwned
  <2>3. \A f \in Ids : frame[f] # NoFrame => frame'[f].ret = frame[f].ret
    BY DEF LocalStep, Similar
  <2> QED
    BY <1>1, <2>2, <2>3 DEF IInv, CallsReturn
<1> QED
  BY <1>6, <1>7, <1>8

(* ... and, if mutexes go to threads that exist, the identities fresh. *)
LEMMA FreshKept ==
  ASSUME IInv, LocalStep, \A k \in Mutexes : mutex'[k] < next.thread
  PROVE  Fresh'
<1>1. parent' = parent /\ scope' = scope /\ next' = next
  BY DEF LocalStep, idVars
<1>2. \A u \in Ids : status'[u] = "absent" <=> status[u] = "absent"
  BY DEF LocalStep, LiveStep, Ended
<1>3. \A f \in Ids : frame'[f] = NoFrame <=> frame[f] = NoFrame
  BY DEF LocalStep, Similar
<1> QED
  BY <1>1, <1>2, <1>3 DEF IInv, Fresh

(* A thread that exists has an identity that was handed out. *)
LEMMA Exists ==
  ASSUME IInv, NEW t \in Ids, status[t] # "absent"
  PROVE  t < next.thread
<1>1. t \in Int /\ next.thread \in Int
  BY LimitsAssumption DEF IInv, TypeOK, Ids
<1> QED
  BY <1>1 DEF IInv, Fresh

(* Queues stay exact when they and the threads in them stay. *)
LEMMA QueuesKept ==
  ASSUME WaitQueuesExact, UNCHANGED <<sendq, recvq, cvq, semq>>,
         \A u \in Ids : \/ status'[u] = status[u] /\ on'[u] = on[u]
                        \/ /\ status[u] \notin {"send", "recv", "wait", "acquire"}
                           /\ status'[u] \notin {"send", "recv", "wait", "acquire"}
  PROVE  WaitQueuesExact'
<1>1. \A r : /\ Waiting("send", r)' = Waiting("send", r)
             /\ Waiting("recv", r)' = Waiting("recv", r)
             /\ Waiting("wait", r)' = Waiting("wait", r)
             /\ Waiting("acquire", r)' = Waiting("acquire", r)
  BY DEF Waiting
<1> QED
  BY <1>1 DEF WaitQueuesExact

(* The types of what such a step changes *)
LocalTypes ==
  /\ status \in [Ids -> Status] /\ on \in [Ids -> Reason]
  /\ shared \in [Shared -> Values]
  /\ mutex \in [Mutexes -> Ids \union {None}]
  /\ \A k \in Mutexes : mutex[k] < next.thread
  /\ sem \in [Semaphores -> Int]
  /\ semq \in [Semaphores -> SUBSET (Ids \X Int)]
  /\ cvq \in [Condvars -> SUBSET (Ids \X Mutexes)]
  /\ buf \in [Channels -> Seq(Values)]
  /\ sendq \in [Channels -> SUBSET (Ids \X Values)]
  /\ recvq \in [Channels -> SUBSET Ids]
  /\ completed \in [Functions -> Nat]
  /\ reached \subseteq Functions \X (Nat \ {0})

(* The invariant gives the types such a step starts from. *)
LEMMA LocalTypesHold == IInv => LocalTypes
BY DEF IInv, TypeOK, Fresh, LocalTypes

(* A step that starts, ends and stacks no thread keeps the invariant when it
   keeps its types and its queues. *)
LEMMA LocalStepKeeps ==
  ASSUME IInv, LocalStep, LocalTypes', WaitQueuesExact'
  PROVE  IInv'
<1>1. next' = next
  BY DEF LocalStep, idVars
<1>2. \A k \in Mutexes : mutex'[k] < next.thread
  BY <1>1 DEF LocalTypes
<1>3. ScopesExact' /\ FramesOwned' /\ CallsReturn' /\ Fresh'
  BY <1>2, StructureKept, FreshKept
<1>4. frame' \in [Ids -> FrameState \union {NoFrame}]
  BY DEF LocalStep, Similar, FrameStore
<1>5. /\ prog' = prog /\ stack' = stack /\ children' = children /\ parent' = parent
      /\ scope' = scope /\ finished' = finished /\ scopesDone' = scopesDone
  BY DEF LocalStep, idVars
<1>6. TypeOK'
  BY <1>1, <1>4, <1>5 DEF IInv, TypeOK, LocalTypes
<1> QED
  BY <1>3, <1>6 DEF IInv

(* What a thread that executes has. *)
LEMMA Executing ==
  ASSUME IInv, NEW t \in Ids, AtStatement(t)
  PROVE  /\ stack[t] # <<>> /\ Op(t) \in Operation
         /\ <<Fr(t).fn, Fr(t).pc>> \in Functions \X (Nat \ {0})
         /\ Fr(t).fn \in Functions /\ status[t] \notin Ended
<1>1. stack[t] # <<>>
  BY DEF AtStatement
<1>2. Fr(t) \in FrameState /\ Op(t) \in Operation
  BY <1>1, TopAllocated, OpTyped DEF IInv
<1>3. status[t] \notin Ended
  BY <1>1 DEF IInv, FramesOwned, Live, Ended
<1> QED
  BY <1>1, <1>2, <1>3 DEF FrameState

(* A destination's domain consists of values. *)
LEMMA DomainValues ==
  ASSUME NEW f \in Functions, NEW dst \in Destinations
  PROVE  DomainOf(f, dst) \subseteq Values
BY DeclarationsAssumption DEF DomainOf, Destinations

(* A statement recorded as reached is one of a function. *)
LEMMA ReachTyped ==
  ASSUME IInv, NEW t \in Ids, AtStatement(t), Reach(t)
  PROVE  reached' \subseteq Functions \X (Nat \ {0})
BY Executing DEF Reach, IInv, TypeOK

(* A step on data: frames and shared variables. *)
LEMMA DataKeeps ==
  ASSUME IInv, NEW t \in Ids, OnlyData, Similar(frame', frame),
         shared' \in [Shared -> Values], AtStatement(t), Reach(t)
  PROVE  IInv'
<1>1. LocalStep
  BY DEF OnlyData, threadVars, LocalStep, LiveStep
<1>2. LocalTypes'
  BY LocalTypesHold, ReachTyped DEF OnlyData, threadVars, syncVars, chanVars, idVars, LocalTypes
<1>3. WaitQueuesExact'
  BY QueuesKept DEF OnlyData, threadVars, syncVars, chanVars, IInv
<1> QED
  BY <1>1, <1>2, <1>3, LocalStepKeeps

(* write_dst keeps the shared store typed. *)
LEMMA PutSharedTyped ==
  ASSUME TypeOK, NEW dst, NEW v, dst \in Shared => v \in Values
  PROVE  PutShared(dst, v) \in [Shared -> Values]
BY DEF TypeOK, PutShared

(* write_dst followed by advance keeps the invariant. *)
LEMMA AssignKeeps ==
  ASSUME IInv, NEW t \in Ids, AtStatement(t), NEW dst \in Destinations, NEW v,
         Assign(t, dst, v)
  PROVE  IInv'
<1>1. v \in Values /\ stack[t] # <<>>
  BY Executing, DomainValues DEF Assign, Accepts
<1>2. frame' = Advance(Put(frame, Top(t), dst, v), {t}) /\ OnlyData /\ Reach(t)
  BY DEF Assign
<1>3. Similar(frame', frame)
  BY <1>1, <1>2, StepSimilar DEF IInv
<1>4. shared' \in [Shared -> Values]
  BY <1>1, PutSharedTyped DEF Assign, IInv
<1> QED
  BY <1>2, <1>3, <1>4, DataKeeps

(* Every operation on data keeps the invariant. *)
LEMMA DataStepKeeps ==
  ASSUME IInv, ~Faulted, NEW t \in Ids, DataStep(t)
  PROVE  IInv'
<1>1. CASE Nop(t)
  <2>1. AtStatement(t) /\ stack[t] # <<>>
    BY <1>1 DEF Nop, Executes, AtStatement
  <2>2. Similar(frame', frame)
    BY <1>1, <2>1, AdvanceStep DEF Nop, IInv
  <2> QED
    BY <1>1, <2>1, <2>2, DataKeeps DEF Nop, IInv, TypeOK
<1>2. CASE AssignLocal(t)
  <2>1. AtStatement(t) /\ Op(t).dst \in Locals
    BY <1>2, Executing, OpFields DEF AssignLocal, Executes
  <2> QED
    BY <1>2, <2>1, AssignKeeps DEF AssignLocal, Destinations
<1>3. CASE LoadShared(t)
  <2>1. AtStatement(t) /\ Op(t).dst \in Destinations
    BY <1>3, Executing, OpFields DEF LoadShared, Executes
  <2> QED
    BY <1>3, <2>1, AssignKeeps DEF LoadShared
<1>4. CASE StoreShared(t)
  <2>1. AtStatement(t) /\ Op(t).r \in Destinations
    BY <1>4, Executing, OpFields DEF StoreShared, Executes, Destinations
  <2> QED
    BY <1>4, <2>1, AssignKeeps DEF StoreShared
<1>5. CASE AtomicCas(t)
  <2> DEFINE o == Op(t)
             old == shared[o.r]
  <2>1. AtStatement(t) /\ o.dst \in Destinations /\ o.r \in Shared /\ stack[t] # <<>>
    BY <1>5, Executing, OpFields DEF AtomicCas, Executes
  <2>2. old \in Values
    BY <2>1 DEF IInv, TypeOK
  <2>3. Value(t, o.desired) \in Values
    BY <1>5, <2>1, DeclarationsAssumption DEF AtomicCas
  <2>4. frame' = Advance(Put(frame, Top(t), o.dst, old), {t})
    BY <1>5 DEF AtomicCas
  <2>5. Similar(frame', frame)
    BY <2>1, <2>2, <2>4, StepSimilar DEF IInv
  <2>6. PutShared(o.dst, old) \in [Shared -> Values]
    BY <2>2, PutSharedTyped DEF IInv
  <2>7. shared' \in [Shared -> Values]
    BY <1>5, <2>1, <2>3, <2>6 DEF AtomicCas
  <2> QED
    BY <1>5, <2>1, <2>5, <2>7, DataKeeps DEF AtomicCas
<1> QED
  BY <1>1, <1>2, <1>3, <1>4, <1>5 DEF DataStep

-----------------------------------------------------------------------------
(* Jumps *)

(* A jump keeps the invariant. *)
LEMMA JumpKeeps ==
  ASSUME IInv, NEW t \in Ids, AtStatement(t), NEW target \in Target, Jump(t, target)
  PROVE  IInv'
<1> DEFINE x == [Fr(t) EXCEPT !.pc = target]
<1>1. /\ frame \in FrameStore /\ Top(t) \in Ids /\ frame[Top(t)] # NoFrame
      /\ Fr(t) \in FrameState /\ Fr(t) = frame[Top(t)]
  BY TopAllocated DEF IInv, TypeOK, FrameStore, AtStatement, Fr
<1>2. x \in FrameState /\ x.ret = frame[Top(t)].ret
  BY <1>1 DEF FrameState, Target
<1>3. frame' = [frame EXCEPT ![Top(t)] = x]
  BY <1>1 DEF Jump
<1>4. Similar(frame', frame)
  BY <1>1, <1>2, <1>3, SimilarReplace
<1> QED
  BY <1>4, DataKeeps DEF Jump, IInv, TypeOK

(* A thread that is running and does not fail jumps to a statement. *)
LEMMA BranchesKeep ==
  ASSUME IInv, ~Faulted, NEW t \in Ids, Goto(t) \/ Branch(t) \/ Switch(t)
  PROVE  IInv'
<1>1. AtStatement(t) /\ status[t] = "run" /\ Op(t) \in Operation
  BY Executing DEF Goto, Branch, Switch, Executes
<1>2. CASE Goto(t)
  <2>1. Op(t).to \in Target
    BY <1>1, <1>2, OpFields DEF Goto, Executes
  <2> QED
    BY <1>1, <1>2, <2>1, JumpKeeps DEF Goto
<1>3. CASE Branch(t)
  <2>1. Op(t).yes \in Target /\ Op(t).no \in Target
    BY <1>1, <1>3, OpFields DEF Branch, Executes
  <2> QED
    BY <1>1, <1>3, <2>1, JumpKeeps DEF Branch
<1>4. CASE Switch(t)
  <2>1. Op(t).op = "switch" /\ Op(t).to \in [Values -> Target]
    BY <1>1, <1>4, OpFields DEF Switch, Executes
  <2>2. Value(t, Op(t).e) \in Scrutinees
    BY <1>1, <2>1 DEF Faulted, Fails, EvalFails
  <2>3. Op(t).to[Value(t, Op(t).e)] \in Target
    BY <2>1, <2>2, ValuesAssumption
  <2> QED
    BY <1>1, <1>4, <2>3, JumpKeeps DEF Switch
<1> QED
  BY <1>2, <1>3, <1>4

(* A saturated count of completions is a number. *)
LEMMA CompletedTyped ==
  ASSUME TypeOK, NEW f \in Functions, NEW n \in Nat
  PROVE  Completed(f, n) \in Nat
BY LimitsAssumption DEF TypeOK, Completed

(* record_completion keeps the counts typed. *)
LEMMA CompleteTyped ==
  ASSUME TypeOK, NEW f \in Functions, Complete(f)
  PROVE  completed' \in [Functions -> Nat]
BY CompletedTyped DEF Complete, TypeOK

(* A call of a transparent function keeps the invariant. *)
LEMMA CallTransparentKeeps ==
  ASSUME IInv, NEW t \in Ids, CallTransparent(t)
  PROVE  IInv'
<1>1. AtStatement(t) /\ stack[t] # <<>> /\ Op(t).f \in Functions
  BY Executing, OpFields DEF CallTransparent, Executes
<1>2. Similar(frame', frame)
  BY <1>1, AdvanceStep DEF CallTransparent, IInv
<1>3. LocalStep
  BY <1>2 DEF CallTransparent, OnlyStack, LocalStep, LiveStep, idVars
<1>4. completed' \in [Functions -> Nat]
  BY <1>1, CompleteTyped DEF CallTransparent, IInv
<1>5. LocalTypes'
  BY <1>1, <1>4, LocalTypesHold, ReachTyped
     DEF CallTransparent, OnlyStack, syncVars, chanVars, LocalTypes
<1>6. WaitQueuesExact'
  BY QueuesKept DEF CallTransparent, OnlyStack, syncVars, chanVars, IInv
<1> QED
  BY <1>3, <1>5, <1>6, LocalStepKeeps

-----------------------------------------------------------------------------
(* Mutexes and semaphores *)

(* A step on mutexes or semaphores that blocks nobody. *)
LEMMA SyncKeeps ==
  ASSUME IInv, NEW t \in Ids, AtStatement(t), Reach(t), frame' = Advance(frame, {t}),
         OnlySync, UNCHANGED <<threadVars, semq, cvq>>,
         mutex' \in [Mutexes -> Ids \union {None}],
         \A k \in Mutexes : mutex'[k] < next.thread,
         sem' \in [Semaphores -> Int]
  PROVE  IInv'
<1>1. Similar(frame', frame)
  BY Executing, AdvanceStep DEF IInv
<1>2. LocalStep
  BY <1>1 DEF OnlySync, threadVars, LocalStep, LiveStep
<1>3. LocalTypes'
  BY LocalTypesHold, ReachTyped DEF OnlySync, threadVars, chanVars, idVars, LocalTypes
<1>4. WaitQueuesExact'
  BY QueuesKept DEF OnlySync, threadVars, chanVars, IInv
<1> QED
  BY <1>2, <1>3, <1>4, LocalStepKeeps

(* block changes the status of one running thread, which stays live. *)
LEMMA BlockStep ==
  ASSUME IInv, NEW t \in Ids, status[t] = "run", NEW why \in Blocking, NEW what,
         Block(t, why, what)
  PROVE  /\ LiveStep
         /\ status' \in [Ids -> Status]
         /\ what \in Reason => on' \in [Ids -> Reason]
         /\ status'[t] = why /\ on'[t] = what
         /\ \A u \in Ids : u # t => status'[u] = status[u] /\ on'[u] = on[u]
         /\ stack' = stack /\ children' = children /\ parent' = parent
<1>1. status \in [Ids -> Status] /\ on \in [Ids -> Reason] /\ why \in Status
  BY DEF IInv, TypeOK, Status
<1>2. /\ status'[t] = why /\ on'[t] = what
      /\ \A u \in Ids : u # t => status'[u] = status[u] /\ on'[u] = on[u]
  BY <1>1 DEF Block
<1>3. LiveStep
  BY <1>2 DEF LiveStep, Ended, Blocking
<1> QED
  BY <1>1, <1>2, <1>3 DEF Block

(* set_runnable changes the status of blocked threads, which stay live. *)
LEMMA WakeStep ==
  ASSUME IInv, NEW ts \in SUBSET Ids, Wake(ts),
         \A u \in ts : status[u] \in Blocking \ {"scope"}
  PROVE  /\ LiveStep
         /\ status' \in [Ids -> Status] /\ on' \in [Ids -> Reason]
         /\ \A u \in ts : status'[u] = "run"
         /\ \A u \in Ids \ ts : status'[u] = status[u] /\ on'[u] = on[u]
         /\ stack' = stack /\ children' = children /\ parent' = parent
<1>1. status \in [Ids -> Status] /\ on \in [Ids -> Reason]
  BY DEF IInv, TypeOK
<1>2. /\ \A u \in ts : status'[u] = "run"
      /\ \A u \in Ids \ ts : status'[u] = status[u] /\ on'[u] = on[u]
  BY DEF Wake
<1>3. status' \in [Ids -> Status] /\ on' \in [Ids -> Reason]
  BY <1>1 DEF Wake, Status, Reason
<1>4. LiveStep
  BY <1>2 DEF LiveStep, Ended, Blocking
<1> QED
  BY <1>2, <1>3, <1>4 DEF Wake

(* A queue that gains an entry for a thread that is not in it, and one that
   loses the entry of a thread. *)
Heads(q) == {w[1] : w \in q}

(* A thread that joins a queue is in it once. *)
LEMMA Enqueued ==
  ASSUME NEW q, FunctionIn(q), NEW t, NEW v, t \notin Heads(q)
  PROVE  Heads(q \union {<<t, v>>}) = Heads(q) \union {t} /\ FunctionIn(q \union {<<t, v>>})
<1> DEFINE x == <<t, v>>
<1>1. x[1] = t
  OBVIOUS
<1>2. \A w \in q : w[1] # t
  BY DEF Heads
<1> HIDE DEF x
<1>3. Heads(q \union {x}) = Heads(q) \union {t}
  BY <1>1 DEF Heads
<1>4. FunctionIn(q \union {x})
  BY <1>1, <1>2 DEF FunctionIn
<1> QED
  BY <1>3, <1>4 DEF x

(* A thread that leaves a queue is no longer in it. *)
LEMMA Dequeued ==
  ASSUME NEW q, FunctionIn(q), NEW t
  PROVE  Heads(Without(q, t)) = Heads(q) \ {t} /\ FunctionIn(Without(q, t))
BY DEF Heads, Without, FunctionIn

(* MutexLock keeps the invariant, whether it takes the mutex or blocks. *)
LEMMA MutexLockKeeps ==
  ASSUME IInv, NEW t \in Ids, MutexLock(t)
  PROVE  IInv'
<1> DEFINE k == Op(t).m
<1>1. /\ AtStatement(t) /\ status[t] = "run" /\ k \in Mutexes /\ Reach(t) /\ OnlySync
      /\ UNCHANGED <<sem, semq, cvq>>
  BY Executing, OpFields DEF MutexLock, Executes
<1>2. CASE IsFree(k) /\ mutex' = [mutex EXCEPT ![k] = t] /\ frame' = Advance(frame, {t})
           /\ UNCHANGED threadVars
  <2>1. t < next.thread
    BY <1>1, Exists
  <2>2. mutex' \in [Mutexes -> Ids \union {None}] /\ \A j \in Mutexes : mutex'[j] < next.thread
    BY <1>2, <2>1 DEF IInv, TypeOK, Fresh
  <2> QED
    BY <1>1, <1>2, <2>2, SyncKeeps DEF IInv, TypeOK
<1>3. CASE ~IsFree(k) /\ Block(t, "lock", k) /\ UNCHANGED <<mutex, frame>>
  <2>1. /\ LiveStep /\ status' \in [Ids -> Status] /\ on' \in [Ids -> Reason]
        /\ status'[t] = "lock"
        /\ \A u \in Ids : u # t => status'[u] = status[u] /\ on'[u] = on[u]
        /\ stack' = stack /\ children' = children /\ parent' = parent
    BY <1>1, <1>3, BlockStep DEF Blocking, Reason
  <2>2. Similar(frame', frame)
    BY <1>3, SimilarSelf DEF IInv, TypeOK, FrameStore
  <2>3. LocalStep
    BY <1>1, <2>1, <2>2 DEF LocalStep, OnlySync
  <2>4. LocalTypes'
    BY <1>1, <1>3, <2>1, LocalTypesHold, ReachTyped DEF OnlySync, chanVars, idVars, LocalTypes
  <2>5. WaitQueuesExact'
    BY <1>1, <2>1, QueuesKept DEF OnlySync, chanVars, IInv
  <2> QED
    BY <2>3, <2>4, <2>5, LocalStepKeeps
<1> QED
  BY <1>2, <1>3 DEF MutexLock

(* MutexUnlock keeps the invariant. *)
LEMMA MutexUnlockKeeps ==
  ASSUME IInv, NEW t \in Ids, MutexUnlock(t)
  PROVE  IInv'
<1>1. AtStatement(t) /\ Op(t).m \in Mutexes
  BY Executing, OpFields DEF MutexUnlock, Executes
<1>2. None < next.thread
  BY DEF IInv, TypeOK, None
<1>3. mutex' \in [Mutexes -> Ids \union {None}] /\ \A j \in Mutexes : mutex'[j] < next.thread
  <2>1. mutex \in [Mutexes -> Ids \union {None}] /\ \A j \in Mutexes : mutex[j] < next.thread
    BY DEF IInv, TypeOK, Fresh
  <2> QED
    BY <1>1, <1>2, <2>1 DEF MutexUnlock
<1> QED
  BY <1>1, <1>3, SyncKeeps DEF MutexUnlock, IInv, TypeOK

(* SemaphoreRelease keeps the invariant. *)
LEMMA SemaphoreReleaseKeeps ==
  ASSUME IInv, NEW t \in Ids, SemaphoreRelease(t)
  PROVE  IInv'
<1>1. AtStatement(t) /\ Op(t).s \in Semaphores /\ Op(t).n \in Int
  BY Executing, OpFields DEF SemaphoreRelease, Executes
<1>2. sem' \in [Semaphores -> Int]
  BY <1>1 DEF SemaphoreRelease, IInv, TypeOK
<1> QED
  BY <1>1, <1>2, SyncKeeps DEF SemaphoreRelease, IInv, TypeOK, Fresh

(* SemaphoreAcquire keeps the invariant: who blocks is queued. *)
LEMMA SemaphoreAcquireKeeps ==
  ASSUME IInv, NEW t \in Ids, SemaphoreAcquire(t)
  PROVE  IInv'
<1> DEFINE o == Op(t)
<1>1. /\ AtStatement(t) /\ status[t] = "run" /\ o.s \in Semaphores /\ o.n \in Int
      /\ Reach(t) /\ OnlySync /\ UNCHANGED <<mutex, cvq>>
  BY Executing, OpFields DEF SemaphoreAcquire, Executes
<1>2. CASE sem' = [sem EXCEPT ![o.s] = @ - o.n] /\ frame' = Advance(frame, {t})
           /\ UNCHANGED <<threadVars, semq>>
  <2>1. sem' \in [Semaphores -> Int]
    BY <1>1, <1>2 DEF IInv, TypeOK
  <2> QED
    BY <1>1, <1>2, <2>1, SyncKeeps DEF IInv, TypeOK, Fresh
<1>3. CASE semq' = [semq EXCEPT ![o.s] = @ \union {<<t, o.n>>}] /\ Block(t, "acquire", o.s)
           /\ UNCHANGED <<sem, frame>>
  <2>1. /\ LiveStep /\ status' \in [Ids -> Status] /\ on' \in [Ids -> Reason]
        /\ status'[t] = "acquire" /\ on'[t] = o.s
        /\ \A u \in Ids : u # t => status'[u] = status[u] /\ on'[u] = on[u]
        /\ stack' = stack /\ children' = children /\ parent' = parent
    BY <1>1, <1>3, BlockStep DEF Blocking, Reason
  <2>2. Similar(frame', frame)
    BY <1>3, SimilarSelf DEF IInv, TypeOK, FrameStore
  <2>3. LocalStep
    BY <1>1, <2>1, <2>2 DEF LocalStep, OnlySync
  <2>4. semq' \in [Semaphores -> SUBSET (Ids \X Int)]
    BY <1>1, <1>3 DEF IInv, TypeOK
  <2>5. LocalTypes'
    BY <1>1, <1>3, <2>1, <2>4, LocalTypesHold, ReachTyped DEF OnlySync, chanVars, idVars, LocalTypes
  <2>6. /\ \A r : Waiting("send", r)' = Waiting("send", r)
        /\ \A r : Waiting("recv", r)' = Waiting("recv", r)
        /\ \A r : Waiting("wait", r)' = Waiting("wait", r)
        /\ \A r : Waiting("acquire", r)' =
                    Waiting("acquire", r) \union (IF r = o.s THEN {t} ELSE {})
    BY <1>1, <2>1 DEF Waiting
  <2>7. t \notin Waiting("acquire", o.s)
    BY <1>1 DEF Waiting
  <2>8. /\ semq'[o.s] = semq[o.s] \union {<<t, o.n>>}
        /\ \A s \in Semaphores : s # o.s => semq'[s] = semq[s]
    BY <1>1, <1>3 DEF IInv, TypeOK
  <2>9. ASSUME NEW s \in Semaphores
        PROVE  Heads(semq'[s]) = Waiting("acquire", s)' /\ FunctionIn(semq'[s])
    <3>1. Heads(semq[s]) = Waiting("acquire", s) /\ FunctionIn(semq[s])
      BY DEF IInv, WaitQueuesExact, Heads
    <3>2. CASE s = o.s
      <4>1. t \notin Heads(semq[s])
        BY <2>7, <3>1, <3>2
      <4>2. Waiting("acquire", s)' = Waiting("acquire", s) \union {t}
        BY <2>6, <3>2
      <4>3. semq'[s] = semq[s] \union {<<t, o.n>>}
        BY <2>8, <3>2
      <4> DEFINE q == semq[s]
                 v == o.n
      <4>4. Heads(q \union {<<t, v>>}) = Heads(q) \union {t} /\ FunctionIn(q \union {<<t, v>>})
        <5> HIDE DEF q, v
        <5>1. FunctionIn(q) /\ t \notin Heads(q)
          BY <3>1, <4>1 DEF q
        <5> QED
          BY ONLY <5>1, Enqueued
      <4> QED
        BY ONLY <3>1, <4>2, <4>3, <4>4
    <3>3. CASE s # o.s
      <4>1. Waiting("acquire", s)' = Waiting("acquire", s)
        BY <2>6, <3>3
      <4> QED
        BY <2>8, <3>1, <3>3, <4>1
    <3> QED
      BY <3>2, <3>3
  <2>10. UNCHANGED <<sendq, recvq, cvq>>
    BY <1>1 DEF OnlySync, chanVars
  <2>11. WaitQueuesExact'
    BY <2>6, <2>9, <2>10 DEF IInv, WaitQueuesExact, Heads
  <2> QED
    BY <2>3, <2>5, <2>11, LocalStepKeeps
<1> QED
  BY <1>2, <1>3 DEF SemaphoreAcquire

(* Who waits where once a thread blocked, and once some were woken. *)
Queued == {"send", "recv", "wait", "acquire"}

(* Who waits at a resource after a thread blocked. *)
LEMMA WaitingAfterBlock ==
  ASSUME IInv, NEW t \in Ids, status[t] = "run", NEW why \in Blocking, NEW what,
         Block(t, why, what), NEW k \in Queued, NEW r
  PROVE  /\ Waiting(k, r)' = Waiting(k, r) \union (IF k = why /\ r = what THEN {t} ELSE {})
         /\ t \notin Waiting(k, r)
BY BlockStep DEF Waiting, Queued

(* Who waits at a resource after threads were woken. *)
LEMMA WaitingAfterWake ==
  ASSUME IInv, NEW ts \in SUBSET Ids, Wake(ts),
         \A u \in ts : status[u] \in Blocking \ {"scope"},
         NEW k \in Queued, NEW r
  PROVE  Waiting(k, r)' = Waiting(k, r) \ ts
BY WakeStep DEF Waiting, Queued

(* CondvarWait keeps the invariant: who waits is queued. *)
LEMMA CondvarWaitKeeps ==
  ASSUME IInv, NEW t \in Ids, CondvarWait(t)
  PROVE  IInv'
<1> DEFINE o == Op(t)
<1>1. /\ AtStatement(t) /\ status[t] = "run" /\ o.cv \in Condvars /\ o.m \in Mutexes
      /\ Reach(t) /\ OnlySync /\ UNCHANGED <<frame, sem, semq>>
      /\ mutex' = [mutex EXCEPT ![o.m] = None]
      /\ cvq' = [cvq EXCEPT ![o.cv] = @ \union {<<t, o.m>>}]
      /\ Block(t, "wait", o.cv)
  BY Executing, OpFields DEF CondvarWait, Executes
<1>2. /\ LiveStep /\ status' \in [Ids -> Status] /\ on' \in [Ids -> Reason]
      /\ stack' = stack /\ children' = children /\ parent' = parent
  BY <1>1, BlockStep DEF Blocking, Reason
<1>3. LocalStep
  BY <1>1, <1>2, SimilarSelf DEF LocalStep, OnlySync, IInv, TypeOK, FrameStore
<1>4. cvq' \in [Condvars -> SUBSET (Ids \X Mutexes)]
  BY <1>1 DEF IInv, TypeOK
<1>5. mutex' \in [Mutexes -> Ids \union {None}] /\ \A j \in Mutexes : mutex'[j] < next.thread
  <2>1. mutex \in [Mutexes -> Ids \union {None}] /\ \A j \in Mutexes : mutex[j] < next.thread
    BY DEF IInv, TypeOK, Fresh
  <2>2. None < next.thread
    BY DEF IInv, TypeOK, None
  <2> QED
    BY <1>1, <2>1, <2>2
<1>6. LocalTypes'
  BY <1>1, <1>2, <1>4, <1>5, LocalTypesHold, ReachTyped DEF OnlySync, chanVars, idVars, LocalTypes
<1>7. WaitQueuesExact'
  <2>1. ASSUME NEW c \in Condvars
        PROVE  Heads(cvq'[c]) = Waiting("wait", c)' /\ FunctionIn(cvq'[c])
    <3>1. Heads(cvq[c]) = Waiting("wait", c) /\ FunctionIn(cvq[c])
      BY DEF IInv, WaitQueuesExact, Heads
    <3>2. /\ Waiting("wait", c)' = Waiting("wait", c) \union (IF c = o.cv THEN {t} ELSE {})
          /\ t \notin Waiting("wait", c)
      BY <1>1, WaitingAfterBlock DEF Queued, Blocking
    <3>3. cvq'[c] = IF c = o.cv THEN cvq[c] \union {<<t, o.m>>} ELSE cvq[c]
      BY <1>1 DEF IInv, TypeOK
    <3> DEFINE q == cvq[c]
               v == o.m
    <3>4. Heads(q \union {<<t, v>>}) = Heads(q) \union {t} /\ FunctionIn(q \union {<<t, v>>})
      <4> HIDE DEF q, v
      <4>1. FunctionIn(q) /\ t \notin Heads(q)
        BY <3>1, <3>2 DEF q
      <4> QED
        BY ONLY <4>1, Enqueued
    <3> QED
      BY ONLY <3>1, <3>2, <3>3, <3>4
  <2>2. \A r : /\ Waiting("send", r)' = Waiting("send", r)
               /\ Waiting("recv", r)' = Waiting("recv", r)
               /\ Waiting("acquire", r)' = Waiting("acquire", r)
    BY <1>1, WaitingAfterBlock DEF Queued, Blocking
  <2>3. UNCHANGED <<sendq, recvq, semq>>
    BY <1>1 DEF OnlySync, chanVars
  <2> QED
    BY <2>1, <2>2, <2>3 DEF IInv, WaitQueuesExact, Heads
<1> QED
  BY <1>3, <1>6, <1>7, LocalStepKeeps

(* Notified waiters leave the condvar's queue for no other queue. *)
LEMMA NotifyKeeps ==
  ASSUME IInv, NEW t \in Ids, AtStatement(t), Reach(t), frame' = Advance(frame, {t}), OnlySync,
         UNCHANGED <<mutex, sem, semq>>,
         NEW cv \in Condvars, NEW ws \in SUBSET cvq[cv],
         cvq' = [cvq EXCEPT ![cv] = @ \ ws], Notified(ws)
  PROVE  IInv'
<1>1. cvq[cv] \in SUBSET (Ids \X Mutexes) /\ status \in [Ids -> Status] /\ on \in [Ids -> Reason]
  BY DEF IInv, TypeOK
<1>2. \A w \in cvq[cv] : w[1] \in Ids /\ status[w[1]] = "wait" /\ on[w[1]] = cv
  BY DEF IInv, WaitQueuesExact, Waiting
<1>3. FunctionIn(cvq[cv])
  BY DEF IInv, WaitQueuesExact
<1>4. /\ \A w \in ws : status'[w[1]] = "lock"
      /\ \A u \in Ids \ Heads(ws) : status'[u] = status[u] /\ on'[u] = on[u]
      /\ stack' = stack /\ children' = children /\ parent' = parent
  BY <1>2 DEF Notified, Heads
<1>5. status' \in [Ids -> Status]
  BY <1>1 DEF Notified, Status, Blocking
<1>6. on' \in [Ids -> Reason]
  <2>1. \A u \in Ids : (\E w \in ws : w[1] = u) => (CHOOSE w \in ws : w[1] = u)[2] \in Mutexes
    BY <1>1
  <2> QED
    BY <1>1, <2>1 DEF Notified, Reason
<1>7. LiveStep
  BY <1>2, <1>4 DEF LiveStep, Ended, Heads
<1>8. LocalStep
  BY <1>4, <1>7, Executing, AdvanceStep DEF LocalStep, OnlySync, IInv
<1>9. cvq' \in [Condvars -> SUBSET (Ids \X Mutexes)]
  BY DEF IInv, TypeOK
<1>10. LocalTypes'
  BY <1>5, <1>6, <1>9, LocalTypesHold, ReachTyped DEF OnlySync, chanVars, idVars, LocalTypes
<1>11. /\ \A r : Waiting("send", r)' = Waiting("send", r)
       /\ \A r : Waiting("recv", r)' = Waiting("recv", r)
       /\ \A r : Waiting("acquire", r)' = Waiting("acquire", r)
       /\ \A r : r # cv => Waiting("wait", r)' = Waiting("wait", r)
       /\ Waiting("wait", cv)' = Waiting("wait", cv) \ Heads(ws)
  BY <1>2, <1>4 DEF Waiting, Heads
<1>12. Heads(cvq[cv] \ ws) = Heads(cvq[cv]) \ Heads(ws) /\ FunctionIn(cvq[cv] \ ws)
  BY <1>3 DEF Heads, FunctionIn
<1>13. cvq'[cv] = cvq[cv] \ ws /\ \A c \in Condvars : c # cv => cvq'[c] = cvq[c]
  BY DEF IInv, TypeOK
<1>14. UNCHANGED <<sendq, recvq, semq>>
  BY DEF OnlySync, chanVars
<1>15. WaitQueuesExact'
  <2>1. ASSUME NEW c \in Condvars
        PROVE  Heads(cvq'[c]) = Waiting("wait", c)' /\ FunctionIn(cvq'[c])
    <3>1. Heads(cvq[c]) = Waiting("wait", c) /\ FunctionIn(cvq[c])
      BY DEF IInv, WaitQueuesExact, Heads
    <3>2. CASE c = cv
      BY <1>11, <1>12, <1>13, <3>1, <3>2
    <3>3. CASE c # cv
      BY <1>11, <1>13, <3>1, <3>3
    <3> QED
      BY <3>2, <3>3
  <2> QED
    BY <1>11, <1>14, <2>1 DEF IInv, WaitQueuesExact, Heads
<1> QED
  BY <1>8, <1>10, <1>15, LocalStepKeeps

(* A notify keeps the invariant: who leaves the queue of the condvar no longer
   waits for it. *)
LEMMA CondvarNotifyKeeps ==
  ASSUME IInv, NEW t \in Ids, CondvarNotify(t) \/ CondvarNotifyAll(t)
  PROVE  IInv'
<1>1. /\ AtStatement(t) /\ Op(t).cv \in Condvars /\ Reach(t) /\ OnlySync
      /\ frame' = Advance(frame, {t}) /\ UNCHANGED <<mutex, sem, semq>>
  BY Executing, OpFields DEF CondvarNotify, CondvarNotifyAll, Executes
<1>2. CASE CondvarNotify(t) /\ UNCHANGED <<cvq, threadVars>>
  BY <1>1, <1>2, SyncKeeps DEF IInv, TypeOK, Fresh
<1>3. CASE CondvarNotify(t) /\ \E w \in cvq[Op(t).cv] :
             cvq' = [cvq EXCEPT ![Op(t).cv] = @ \ {w}] /\ Notified({w})
  <2>1. PICK w \in cvq[Op(t).cv] : cvq' = [cvq EXCEPT ![Op(t).cv] = @ \ {w}] /\ Notified({w})
    BY <1>3
  <2>2. {w} \in SUBSET cvq[Op(t).cv]
    OBVIOUS
  <2> QED
    BY <1>1, <2>1, <2>2, NotifyKeeps
<1>4. CASE CondvarNotifyAll(t)
  <2> DEFINE ws == cvq[Op(t).cv]
  <2>1. cvq' = [cvq EXCEPT ![Op(t).cv] = @ \ ws] /\ Notified(ws)
    <3>1. cvq' = [cvq EXCEPT ![Op(t).cv] = {}] /\ Notified(ws)
      BY <1>4 DEF CondvarNotifyAll
    <3>2. ws \ ws = {}
      OBVIOUS
    <3> QED
      BY <3>1, <3>2
  <2> QED
    BY <1>1, <2>1, NotifyKeeps
<1> QED
  BY <1>2, <1>3, <1>4 DEF CondvarNotify

(* A blocked thread has a frame. *)
LEMMA BlockedHasFrame ==
  ASSUME IInv, NEW t \in Ids, status[t] \in Blocking
  PROVE  stack[t] # <<>>
BY DEF IInv, FramesOwned, Live, Blocking

(* Waking a thread on its mutex keeps the invariant. *)
LEMMA ResumeLockKeeps ==
  ASSUME IInv, NEW t \in Ids, ResumeLock(t)
  PROVE  IInv'
<1>1. /\ status[t] = "lock" /\ mutex' = [mutex EXCEPT ![on[t]] = t]
      /\ Wake({t}) /\ frame' = Advance(frame, {t}) /\ UNCHANGED <<sem, semq, cvq, reached>>
      /\ OnlySync
  BY DEF ResumeLock
<1>2. stack[t] # <<>> /\ t < next.thread
  BY <1>1, BlockedHasFrame, Exists DEF Blocking
<1>3. /\ LiveStep /\ status' \in [Ids -> Status] /\ on' \in [Ids -> Reason]
      /\ status'[t] = "run" /\ \A u \in Ids \ {t} : status'[u] = status[u] /\ on'[u] = on[u]
      /\ stack' = stack /\ children' = children /\ parent' = parent
  BY <1>1, WakeStep DEF Blocking
<1>4. LocalStep
  BY <1>1, <1>2, <1>3, AdvanceStep DEF LocalStep, OnlySync, IInv
<1>5. mutex' \in [Mutexes -> Ids \union {None}] /\ \A j \in Mutexes : mutex'[j] < next.thread
  <2>1. mutex \in [Mutexes -> Ids \union {None}] /\ \A j \in Mutexes : mutex[j] < next.thread
    BY DEF IInv, TypeOK, Fresh
  <2> QED
    BY <1>1, <1>2, <2>1
<1>6. LocalTypes'
  BY <1>1, <1>3, <1>5, LocalTypesHold DEF OnlySync, chanVars, idVars, LocalTypes
<1>7. WaitQueuesExact'
  BY <1>1, <1>3, QueuesKept DEF OnlySync, chanVars, IInv
<1> QED
  BY <1>4, <1>6, <1>7, LocalStepKeeps

(* Waking a thread on its permits keeps the invariant: it leaves the queue. *)
LEMMA ResumeSemaphoreKeeps ==
  ASSUME IInv, NEW t \in Ids, ResumeSemaphore(t)
  PROVE  IInv'
<1> DEFINE s == on[t]
<1>1. /\ status[t] = "acquire" /\ Wake({t}) /\ frame' = Advance(frame, {t})
      /\ semq' = [semq EXCEPT ![s] = Without(@, t)]
      /\ UNCHANGED <<mutex, cvq, reached>> /\ OnlySync
  BY DEF ResumeSemaphore
<1>2. PICK n \in {w[2] : w \in {w \in semq[s] : w[1] = t}} : sem' = [sem EXCEPT ![s] = @ - n]
  BY DEF ResumeSemaphore
<1>3. stack[t] # <<>>
  BY <1>1, BlockedHasFrame DEF Blocking
<1>4. /\ LiveStep /\ status' \in [Ids -> Status] /\ on' \in [Ids -> Reason]
      /\ stack' = stack /\ children' = children /\ parent' = parent
  BY <1>1, WakeStep DEF Blocking
<1>5. LocalStep
  BY <1>1, <1>3, <1>4, AdvanceStep DEF LocalStep, OnlySync, IInv
<1>6. sem' \in [Semaphores -> Int]
  <2>1. s \in Semaphores => n \in Int
    BY <1>2 DEF IInv, TypeOK
  <2>2. sem \in [Semaphores -> Int]
    BY DEF IInv, TypeOK
  <2>3. s \in Semaphores => sem[s] - n \in Int
    BY <2>1, <2>2
  <2> HIDE DEF s
  <2> QED
    BY ONLY <1>2, <2>2, <2>3
<1>7. semq' \in [Semaphores -> SUBSET (Ids \X Int)]
  BY <1>1 DEF IInv, TypeOK, Without
<1>8. LocalTypes'
  BY <1>1, <1>4, <1>6, <1>7, LocalTypesHold DEF OnlySync, chanVars, idVars, LocalTypes
<1>9. WaitQueuesExact'
  <2>1. ASSUME NEW r \in Semaphores
        PROVE  Heads(semq'[r]) = Waiting("acquire", r)' /\ FunctionIn(semq'[r])
    <3>1. Heads(semq[r]) = Waiting("acquire", r) /\ FunctionIn(semq[r])
      BY DEF IInv, WaitQueuesExact, Heads
    <3>2. Waiting("acquire", r)' = Waiting("acquire", r) \ {t}
      BY <1>1, WaitingAfterWake DEF Queued, Blocking
    <3>3. r # s => t \notin Waiting("acquire", r)
      BY DEF Waiting
    <3>4. semq'[r] = IF r = s THEN Without(semq[r], t) ELSE semq[r]
      BY <1>1 DEF IInv, TypeOK
    <3> QED
      BY <3>1, <3>2, <3>3, <3>4, Dequeued
  <2>2. \A r : /\ Waiting("send", r)' = Waiting("send", r)
               /\ Waiting("recv", r)' = Waiting("recv", r)
               /\ Waiting("wait", r)' = Waiting("wait", r)
    BY <1>1, WakeStep DEF Waiting, Blocking
  <2>3. UNCHANGED <<sendq, recvq, cvq>>
    BY <1>1 DEF OnlySync, chanVars
  <2> QED
    BY <2>1, <2>2, <2>3 DEF IInv, WaitQueuesExact, Heads
<1> QED
  BY <1>5, <1>8, <1>9, LocalStepKeeps

(* Every operation on mutexes, condvars and semaphores keeps the invariant. *)
LEMMA SyncStepKeeps ==
  ASSUME IInv, NEW t \in Ids, SyncStep(t)
  PROVE  IInv'
BY MutexLockKeeps, MutexUnlockKeeps, CondvarWaitKeeps, CondvarNotifyKeeps,
   SemaphoreAcquireKeeps, SemaphoreReleaseKeeps DEF SyncStep

-----------------------------------------------------------------------------
(* Channels *)

(* A channel step is a local step when it keeps the queues exact. *)
LEMMA ChannelKeeps ==
  ASSUME IInv, OnlyChannels, Similar(frame', frame), LiveStep,
         stack' = stack, children' = children, parent' = parent,
         status' \in [Ids -> Status], on' \in [Ids -> Reason],
         shared' \in [Shared -> Values],
         buf' \in [Channels -> Seq(Values)],
         sendq' \in [Channels -> SUBSET (Ids \X Values)],
         recvq' \in [Channels -> SUBSET Ids],
         reached' \subseteq Functions \X (Nat \ {0}),
         \A c \in Channels : /\ Heads(sendq'[c]) = Waiting("send", c)' /\ FunctionIn(sendq'[c])
                             /\ recvq'[c] = Waiting("recv", c)',
         \A r : /\ Waiting("wait", r)' = Waiting("wait", r)
                /\ Waiting("acquire", r)' = Waiting("acquire", r)
  PROVE  IInv'
<1>1. LocalStep
  BY DEF LocalStep, OnlyChannels
<1>2. LocalTypes'
  BY LocalTypesHold DEF OnlyChannels, syncVars, idVars, LocalTypes
<1>3. UNCHANGED <<cvq, semq>>
  BY DEF OnlyChannels, syncVars
<1>4. WaitQueuesExact'
  BY <1>3 DEF IInv, WaitQueuesExact, Heads
<1> QED
  BY <1>1, <1>2, <1>4, LocalStepKeeps

(* Who waits on channels. *)
LEMMA ChannelWaiters ==
  ASSUME IInv, NEW c \in Channels
  PROVE  /\ Heads(sendq[c]) = Waiting("send", c) /\ FunctionIn(sendq[c])
         /\ recvq[c] = Waiting("recv", c)
         /\ sendq[c] \in SUBSET (Ids \X Values) /\ recvq[c] \in SUBSET Ids
         /\ buf[c] \in Seq(Values)
BY DEF IInv, TypeOK, WaitQueuesExact, Heads

(* A delivery writes one destination and advances at most two frames. *)
LEMMA DeliverSimilar ==
  ASSUME IInv, NEW r \in Ids, NEW t \in Ids, NEW v, Deliver(r, v, t),
         stack[r] # <<>>, stack[t] # <<>>
  PROVE  Similar(frame', frame) /\ shared' \in [Shared -> Values]
<1>0. Op(r).dst \in Locals \union Shared => v \in Values
  <2>1. Fr(r).fn \in Functions
    BY TopAllocated DEF IInv, FrameState
  <2> QED
    BY <2>1, DomainValues DEF Deliver, Accepts, Destinations
<1>1. frame' = Advance(Put(frame, Top(r), Op(r).dst, v), {r, t})
  BY DEF Deliver
<1>2. Similar(frame', frame)
  <2> DEFINE dst == Op(r).dst
             ts  == {r, t}
  <2>1. ts \in SUBSET Ids /\ \A u \in ts : stack[u] # <<>>
    OBVIOUS
  <2> HIDE DEF dst, ts
  <2>2. Similar(Advance(Put(frame, Top(r), dst, v), ts), frame)
    <3>1. dst \in Locals => v \in Values
      BY <1>0 DEF dst
    <3> QED
      BY <2>1, <3>1, StepSimilar DEF IInv
  <2> QED
    BY <1>1, <2>2 DEF dst, ts
<1>3. shared' \in [Shared -> Values]
  BY <1>0, PutSharedTyped DEF Deliver, IInv
<1> QED
  BY <1>2, <1>3

(* A thread that blocks in a channel is queued at it. *)
LEMMA ChannelBlockKeeps ==
  ASSUME IInv, OnlyChannels, NEW t \in Ids, status[t] = "run", AtStatement(t), Reach(t),
         NEW c \in Channels, NEW why \in {"send", "recv"}, Block(t, why, c),
         UNCHANGED <<frame, shared, buf>>,
         NEW v \in Values,
         sendq' = IF why = "send" THEN [sendq EXCEPT ![c] = @ \union {<<t, v>>}] ELSE sendq,
         recvq' = IF why = "recv" THEN [recvq EXCEPT ![c] = @ \union {t}] ELSE recvq
  PROVE  IInv'
<1>1. why \in Blocking /\ c \in Reason
  BY DEF Blocking, Reason
<1>2. /\ LiveStep /\ status' \in [Ids -> Status] /\ on' \in [Ids -> Reason]
      /\ stack' = stack /\ children' = children /\ parent' = parent
  BY <1>1, BlockStep
<1>3. Similar(frame', frame)
  BY SimilarSelf DEF IInv, TypeOK, FrameStore
<1>4. \A k \in Queued : \A r :
        /\ Waiting(k, r)' = Waiting(k, r) \union (IF k = why /\ r = c THEN {t} ELSE {})
        /\ t \notin Waiting(k, r)
  BY <1>1, WaitingAfterBlock
<1>5. \A r : /\ Waiting("wait", r)' = Waiting("wait", r)
             /\ Waiting("acquire", r)' = Waiting("acquire", r)
  <2> SUFFICES ASSUME NEW r
               PROVE  /\ Waiting("wait", r)' = Waiting("wait", r)
                      /\ Waiting("acquire", r)' = Waiting("acquire", r)
    OBVIOUS
  <2>1. /\ "wait" \in Queued /\ "acquire" \in Queued
        /\ "wait" # why /\ "acquire" # why
    BY DEF Queued
  <2>2. Waiting("wait", r)' = Waiting("wait", r) \union {}
    BY <1>4, <2>1
  <2>3. Waiting("acquire", r)' = Waiting("acquire", r) \union {}
    BY <1>4, <2>1
  <2> QED
    BY <2>2, <2>3
<1>6. ASSUME NEW d \in Channels
      PROVE  /\ Heads(sendq'[d]) = Waiting("send", d)' /\ FunctionIn(sendq'[d])
             /\ recvq'[d] = Waiting("recv", d)'
  <2>1. /\ Heads(sendq[d]) = Waiting("send", d) /\ FunctionIn(sendq[d])
        /\ recvq[d] = Waiting("recv", d)
    BY ChannelWaiters
  <2>2. sendq'[d] = IF why = "send" /\ d = c THEN sendq[d] \union {<<t, v>>} ELSE sendq[d]
    BY DEF IInv, TypeOK
  <2>3. recvq'[d] = IF why = "recv" /\ d = c THEN recvq[d] \union {t} ELSE recvq[d]
    BY DEF IInv, TypeOK
  <2>4. /\ Waiting("send", d)' = Waiting("send", d) \union (IF "send" = why /\ d = c THEN {t} ELSE {})
        /\ Waiting("recv", d)' = Waiting("recv", d) \union (IF "recv" = why /\ d = c THEN {t} ELSE {})
        /\ t \notin Waiting("send", d)
    BY <1>4 DEF Queued
  <2>5. /\ Heads(sendq[d] \union {<<t, v>>}) = Heads(sendq[d]) \union {t}
        /\ FunctionIn(sendq[d] \union {<<t, v>>})
    <3>1. t \notin Heads(sendq[d]) /\ FunctionIn(sendq[d])
      BY <2>1, <2>4
    <3> QED
      BY ONLY <3>1, Enqueued
  <2> QED
    BY ONLY <2>1, <2>2, <2>3, <2>4, <2>5
<1>7. sendq' \in [Channels -> SUBSET (Ids \X Values)] /\ recvq' \in [Channels -> SUBSET Ids]
  BY DEF IInv, TypeOK
<1>8. shared' \in [Shared -> Values] /\ buf' \in [Channels -> Seq(Values)]
  BY DEF IInv, TypeOK
<1> QED
  BY <1>2, <1>3, <1>5, <1>6, <1>7, <1>8, ReachTyped, ChannelKeeps

(* A thread that is woken in a channel leaves that channel's queue. *)
LEMMA ChannelWakeKeeps ==
  ASSUME IInv, OnlyChannels, NEW u \in Ids, status[u] \in {"send", "recv"}, Wake({u}),
         Similar(frame', frame), shared' \in [Shared -> Values],
         buf' \in [Channels -> Seq(Values)], reached' \subseteq Functions \X (Nat \ {0}),
         sendq' = IF status[u] = "send" THEN [sendq EXCEPT ![on[u]] = Without(@, u)] ELSE sendq,
         recvq' = IF status[u] = "recv" THEN [recvq EXCEPT ![on[u]] = @ \ {u}] ELSE recvq
  PROVE  IInv'
<1>1. status[u] \in Blocking \ {"scope"}
  BY DEF Blocking
<1>2. /\ LiveStep /\ status' \in [Ids -> Status] /\ on' \in [Ids -> Reason]
      /\ stack' = stack /\ children' = children /\ parent' = parent
  BY <1>1, WakeStep
<1>3. \A k \in Queued : \A r : Waiting(k, r)' = Waiting(k, r) \ {u}
  BY <1>1, WaitingAfterWake
<1>4. \A r : /\ Waiting("wait", r)' = Waiting("wait", r)
             /\ Waiting("acquire", r)' = Waiting("acquire", r)
  BY DEF Wake, Waiting, IInv, TypeOK
<1>5. ASSUME NEW d \in Channels
      PROVE  /\ Heads(sendq'[d]) = Waiting("send", d)' /\ FunctionIn(sendq'[d])
             /\ recvq'[d] = Waiting("recv", d)'
  <2>1. /\ Heads(sendq[d]) = Waiting("send", d) /\ FunctionIn(sendq[d])
        /\ recvq[d] = Waiting("recv", d)
    BY ChannelWaiters
  <2>2. sendq'[d] = IF status[u] = "send" /\ on[u] = d THEN Without(sendq[d], u) ELSE sendq[d]
    BY DEF IInv, TypeOK
  <2>3. recvq'[d] = IF status[u] = "recv" /\ on[u] = d THEN recvq[d] \ {u} ELSE recvq[d]
    BY DEF IInv, TypeOK
  <2>4. /\ Waiting("send", d)' = Waiting("send", d) \ {u}
        /\ Waiting("recv", d)' = Waiting("recv", d) \ {u}
    BY <1>3 DEF Queued
  <2>5. /\ u \in Waiting("send", d) => status[u] = "send" /\ on[u] = d
        /\ u \in Waiting("recv", d) => status[u] = "recv" /\ on[u] = d
    BY DEF Waiting
  <2>6. Heads(Without(sendq[d], u)) = Heads(sendq[d]) \ {u} /\ FunctionIn(Without(sendq[d], u))
    BY <2>1, Dequeued
  <2> QED
    BY ONLY <2>1, <2>2, <2>3, <2>4, <2>5, <2>6
<1>6. sendq' \in [Channels -> SUBSET (Ids \X Values)] /\ recvq' \in [Channels -> SUBSET Ids]
  BY DEF IInv, TypeOK, Without
<1> QED
  BY <1>2, <1>4, <1>5, <1>6, ChannelKeeps

(* A step that only moves a value between a frame and a buffer. *)
LEMMA BufferKeeps ==
  ASSUME IInv, OnlyChannels, UNCHANGED <<threadVars, sendq, recvq>>,
         Similar(frame', frame), shared' \in [Shared -> Values],
         buf' \in [Channels -> Seq(Values)], reached' \subseteq Functions \X (Nat \ {0})
  PROVE  IInv'
<1>1. /\ LiveStep /\ stack' = stack /\ children' = children /\ parent' = parent
      /\ status' \in [Ids -> Status] /\ on' \in [Ids -> Reason]
      /\ status' = status /\ on' = on
  BY DEF threadVars, LiveStep, IInv, TypeOK
<1>2. \A k, r : Waiting(k, r)' = Waiting(k, r)
  BY <1>1 DEF Waiting
<1> QED
  BY <1>1, <1>2, ChannelWaiters, ChannelKeeps DEF IInv, TypeOK

(* The parts of a non-empty sequence. *)
LEMMA HeadTail ==
  ASSUME NEW S, NEW q \in Seq(S), q # <<>>
  PROVE  Head(q) \in S /\ Tail(q) \in Seq(S)
OBVIOUS

(* A message put in a buffer keeps the buffers typed. *)
LEMMA AppendTyped ==
  ASSUME IInv, NEW c, NEW v, c \in Channels => v \in Values
  PROVE  [buf EXCEPT ![c] = Append(@, v)] \in [Channels -> Seq(Values)]
<1>1. buf \in [Channels -> Seq(Values)]
  BY DEF IInv, TypeOK
<1>2. c \in Channels => Append(buf[c], v) \in Seq(Values)
  BY <1>1
<1> QED
  BY ONLY <1>1, <1>2

(* A message taken from a buffer keeps the buffers typed. *)
LEMMA TailTyped ==
  ASSUME IInv, NEW c, c \in Channels => buf[c] # <<>>
  PROVE  [buf EXCEPT ![c] = Tail(@)] \in [Channels -> Seq(Values)]
<1>1. buf \in [Channels -> Seq(Values)]
  BY DEF IInv, TypeOK
<1>2. c \in Channels => Tail(buf[c]) \in Seq(Values)
  BY <1>1, HeadTail
<1> QED
  BY ONLY <1>1, <1>2

(* ChannelSend keeps the invariant in each of its four outcomes. *)
LEMMA ChannelSendKeeps ==
  ASSUME IInv, NEW t \in Ids, ChannelSend(t)
  PROVE  IInv'
<1> DEFINE c == Op(t).c
           v == Value(t, Op(t).e)
<1>1. /\ AtStatement(t) /\ status[t] = "run" /\ c \in Channels /\ stack[t] # <<>>
      /\ Reach(t) /\ OnlyChannels /\ v \in ChannelType[c]
  BY Executing, OpFields DEF ChannelSend, Executes
<1>2. v \in Values
  BY <1>1, DeclarationsAssumption
<1>3. reached' \subseteq Functions \X (Nat \ {0})
  BY <1>1, ReachTyped
<1> HIDE DEF c, v
<1>4. CASE SendToReceiver(t, c, v)
  <2>1. PICK r \in recvq[c] :
          /\ Deliver(r, v, t) /\ recvq' = [recvq EXCEPT ![c] = @ \ {r}] /\ Wake({r})
          /\ UNCHANGED <<buf, sendq>>
    BY <1>4 DEF SendToReceiver
  <2>2. r \in Ids /\ status[r] = "recv" /\ on[r] = c
    BY <1>1, <2>1, ChannelWaiters DEF Waiting
  <2>3. stack[r] # <<>>
    BY <2>2, BlockedHasFrame DEF Blocking
  <2>4. Similar(frame', frame) /\ shared' \in [Shared -> Values]
    BY <1>1, <2>1, <2>2, <2>3, DeliverSimilar
  <2> QED
    BY <1>1, <1>3, <2>1, <2>2, <2>4, ChannelWakeKeeps DEF IInv, TypeOK
<1>5. CASE SendBlocks(t, c, v)
  BY <1>1, <1>2, <1>5, ChannelBlockKeeps DEF SendBlocks
<1>6. CASE SendToBuffer(t, c, v)
  <2>1. Similar(frame', frame)
    BY <1>1, <1>6, AdvanceStep DEF SendToBuffer, IInv
  <2>2. buf' \in [Channels -> Seq(Values)]
    BY <1>2, <1>6, AppendTyped DEF SendToBuffer
  <2> QED
    BY <1>1, <1>3, <1>6, <2>1, <2>2, BufferKeeps DEF SendToBuffer, IInv, TypeOK
<1> QED
  BY <1>4, <1>5, <1>6 DEF ChannelSend, c, v

(* ChannelRecv keeps the invariant in each of its four outcomes. *)
LEMMA ChannelRecvKeeps ==
  ASSUME IInv, NEW t \in Ids, ChannelRecv(t)
  PROVE  IInv'
<1> DEFINE c == Op(t).c
<1>1. /\ AtStatement(t) /\ status[t] = "run" /\ c \in Channels /\ stack[t] # <<>>
      /\ Reach(t) /\ OnlyChannels
  BY Executing, OpFields DEF ChannelRecv, Executes
<1>2. reached' \subseteq Functions \X (Nat \ {0})
  BY <1>1, ReachTyped
<1> HIDE DEF c
<1>3. CASE RecvFromSender(t, c)
  <2>1. PICK w \in sendq[c] :
          /\ Deliver(t, w[2], w[1]) /\ sendq' = [sendq EXCEPT ![c] = Without(@, w[1])]
          /\ Wake({w[1]}) /\ UNCHANGED <<buf, recvq>>
    BY <1>3 DEF RecvFromSender
  <2>2. PICK u : u = w[1]
    OBVIOUS
  <2>3. u \in Ids /\ status[u] = "send" /\ on[u] = c
    BY <1>1, <2>1, <2>2, ChannelWaiters DEF Waiting, Heads
  <2>4. stack[u] # <<>>
    BY <2>3, BlockedHasFrame DEF Blocking
  <2>5. Similar(frame', frame) /\ shared' \in [Shared -> Values]
    BY <1>1, <2>1, <2>2, <2>3, <2>4, DeliverSimilar
  <2> QED
    BY <1>1, <1>2, <2>1, <2>2, <2>3, <2>5, ChannelWakeKeeps DEF IInv, TypeOK
<1>4. CASE RecvBlocks(t, c)
  <2>1. True \in Values
    BY ValuesAssumption
  <2> QED
    BY <1>1, <1>4, <2>1, ChannelBlockKeeps DEF RecvBlocks
<1>5. CASE RecvFromBuffer(t, c) /\ buf[c] # <<>>
  <2>1. Similar(frame', frame) /\ shared' \in [Shared -> Values]
    BY <1>1, <1>5, DeliverSimilar DEF RecvFromBuffer
  <2>2. buf' \in [Channels -> Seq(Values)]
    BY <1>5, TailTyped DEF RecvFromBuffer
  <2> QED
    BY <1>1, <1>2, <1>5, <2>1, <2>2, BufferKeeps DEF RecvFromBuffer
<1> QED
  BY <1>3, <1>4, <1>5 DEF ChannelRecv, c

(* Waking a sender keeps the invariant: it leaves the queue. *)
LEMMA ResumeSendKeeps ==
  ASSUME IInv, NEW t \in Ids, ResumeSend(t)
  PROVE  IInv'
<1>1. /\ status[t] = "send" /\ Wake({t}) /\ frame' = Advance(frame, {t})
      /\ UNCHANGED <<shared, recvq, reached>> /\ OnlyChannels
      /\ sendq' = [sendq EXCEPT ![on[t]] = Without(@, t)]
  BY DEF ResumeSend
<1>2. PICK v \in Captured(t, on[t]) : buf' = [buf EXCEPT ![on[t]] = Append(@, v)]
  BY DEF ResumeSend
<1>3. Similar(frame', frame)
  BY <1>1, BlockedHasFrame, AdvanceStep DEF IInv, Blocking
<1>4. buf' \in [Channels -> Seq(Values)]
  <2>1. on[t] \in Channels => v \in Values
    BY <1>2, ChannelWaiters DEF Captured
  <2> QED
    BY <1>2, <2>1, AppendTyped
<1> QED
  BY <1>1, <1>3, <1>4, ChannelWakeKeeps DEF IInv, TypeOK

(* Waking a receiver keeps the invariant: it leaves the queue. *)
LEMMA ResumeRecvKeeps ==
  ASSUME IInv, NEW t \in Ids, ResumeRecv(t)
  PROVE  IInv'
<1>1. /\ status[t] = "recv" /\ Wake({t}) /\ Deliver(t, Head(buf[on[t]]), t)
      /\ buf[on[t]] # <<>> /\ buf' = [buf EXCEPT ![on[t]] = Tail(@)]
      /\ recvq' = [recvq EXCEPT ![on[t]] = @ \ {t}]
      /\ UNCHANGED <<sendq, reached>> /\ OnlyChannels
  BY DEF ResumeRecv
<1>2. stack[t] # <<>>
  BY <1>1, BlockedHasFrame DEF Blocking
<1>3. Similar(frame', frame) /\ shared' \in [Shared -> Values]
  BY <1>1, <1>2, DeliverSimilar
<1>4. buf' \in [Channels -> Seq(Values)]
  BY <1>1, TailTyped
<1> QED
  BY <1>1, <1>3, <1>4, ChannelWakeKeeps DEF IInv, TypeOK

-----------------------------------------------------------------------------
(* Stacks *)

(* The frames on the stacks are the allocated ones, each on one stack once. *)
Owned(fr, st) ==
  /\ \A f \in Ids : fr[f] # NoFrame <=>
       \E t \in Ids : \E i \in DOMAIN st[t] : st[t][i] = f
  /\ \A t, u \in Ids : \A i \in DOMAIN st[t], j \in DOMAIN st[u] :
       st[t][i] = st[u][j] => t = u /\ i = j

Stacks == [Ids -> Seq(Ids)]

(* A new frame is pushed on one stack. *)
LEMMA Pushed ==
  ASSUME NEW fr, NEW st \in Stacks, Owned(fr, st), NEW t \in Ids,
         NEW f \in Ids, fr[f] = NoFrame,
         NEW fr2, fr2[f] # NoFrame,
         \A g \in Ids : g # f => (fr2[g] = NoFrame <=> fr[g] = NoFrame)
  PROVE  Owned(fr2, [st EXCEPT ![t] = Append(@, f)])
<1> DEFINE st2 == [st EXCEPT ![t] = Append(@, f)]
           k == Len(st[t]) + 1
<1>1. \A u \in Ids : st[u] \in Seq(Ids)
  BY DEF Stacks
<1>2. /\ DOMAIN st2[t] = DOMAIN st[t] \union {k} /\ k \notin DOMAIN st[t]
      /\ st2[t][k] = f
      /\ \A i \in DOMAIN st[t] : st2[t][i] = st[t][i]
  <2>1. st2[t] = Append(st[t], f)
    BY DEF Stacks
  <2>2. st[t] \in Seq(Ids)
    BY <1>1
  <2> HIDE DEF st2
  <2> QED
    BY <2>1, <2>2
<1>3. \A u \in Ids : u # t => st2[u] = st[u]
  BY DEF Stacks
<1>4. \A u \in Ids : \A i \in DOMAIN st[u] : st[u][i] # f
  BY DEF Owned
<1> HIDE DEF st2, k
<1>5. \A g \in Ids : fr2[g] # NoFrame <=>
        \E u \in Ids : \E i \in DOMAIN st2[u] : st2[u][i] = g
  <2> SUFFICES ASSUME NEW g \in Ids
               PROVE  fr2[g] # NoFrame <=> \E u \in Ids : \E i \in DOMAIN st2[u] : st2[u][i] = g
    OBVIOUS
  <2>1. CASE g = f
    BY <1>2, <2>1
  <2>2. CASE g # f
    <3>1. fr2[g] # NoFrame <=> \E u \in Ids : \E i \in DOMAIN st[u] : st[u][i] = g
      BY <2>2 DEF Owned
    <3>2. ASSUME NEW u \in Ids
          PROVE  (\E i \in DOMAIN st[u] : st[u][i] = g) <=> (\E i \in DOMAIN st2[u] : st2[u][i] = g)
      BY <1>2, <1>3, <2>2
    <3> QED
      BY <3>1, <3>2
  <2> QED
    BY <2>1, <2>2
<1>6. \A u, v \in Ids : \A i \in DOMAIN st2[u], j \in DOMAIN st2[v] :
        st2[u][i] = st2[v][j] => u = v /\ i = j
  <2>1. ASSUME NEW u \in Ids, NEW i \in DOMAIN st2[u]
        PROVE  IF u = t /\ i = k THEN st2[u][i] = f
               ELSE i \in DOMAIN st[u] /\ st2[u][i] = st[u][i] /\ st2[u][i] # f
    BY <1>2, <1>3, <1>4
  <2> QED
    BY <2>1 DEF Owned
<1> QED
  BY <1>5, <1>6 DEF Owned, st2

(* The top frame of a stack is popped, and its frame released. *)
LEMMA Popped ==
  ASSUME NEW fr, NEW st \in Stacks, Owned(fr, st), NEW t \in Ids, st[t] # <<>>,
         NEW s \in Seq(Ids), Len(s) = Len(st[t]) - 1, \A i \in 1..Len(s) : s[i] = st[t][i],
         NEW fr2, fr2[st[t][Len(st[t])]] = NoFrame,
         \A g \in Ids : g # st[t][Len(st[t])] => (fr2[g] = NoFrame <=> fr[g] = NoFrame)
  PROVE  Owned(fr2, [st EXCEPT ![t] = s])
<1> DEFINE st2 == [st EXCEPT ![t] = s]
           k == Len(st[t])
           f == st[t][k]
<1>1. \A u \in Ids : st[u] \in Seq(Ids)
  BY DEF Stacks
<1>2. /\ DOMAIN st2[t] = DOMAIN st[t] \ {k} /\ k \in DOMAIN st[t]
      /\ \A i \in DOMAIN st2[t] : st2[t][i] = st[t][i]
  <2>1. st2[t] = s
    BY DEF Stacks
  <2>2. st[t] \in Seq(Ids)
    BY <1>1
  <2>3. k \in Nat /\ k # 0 /\ DOMAIN st[t] = 1..k
    BY <2>2
  <2>4. Len(s) = k - 1 /\ DOMAIN s = 1..(k - 1)
    <3>1. DOMAIN s = 1..Len(s) /\ Len(s) = k - 1
      OBVIOUS
    <3> QED
      BY ONLY <3>1
  <2>5. DOMAIN s = DOMAIN st[t] \ {k} /\ k \in DOMAIN st[t]
    BY ONLY <2>3, <2>4
  <2>6. \A i \in DOMAIN s : s[i] = st[t][i]
    <3> HIDE DEF k
    <3>1. DOMAIN s = 1..Len(s)
      OBVIOUS
    <3> QED
      BY <3>1
  <2> HIDE DEF st2, k
  <2> QED
    BY <2>1, <2>5, <2>6
<1>3. \A u \in Ids : u # t => st2[u] = st[u]
  BY DEF Stacks
<1>4. \A u \in Ids : \A i \in DOMAIN st[u] : st[u][i] = f => u = t /\ i = k
  BY <1>2 DEF Owned
<1>5. fr2[f] = NoFrame /\ \A g \in Ids : g # f => (fr2[g] = NoFrame <=> fr[g] = NoFrame)
  OBVIOUS
<1> HIDE DEF st2, k, f
<1>6. \A g \in Ids : fr2[g] # NoFrame <=>
        \E u \in Ids : \E i \in DOMAIN st2[u] : st2[u][i] = g
  <2> SUFFICES ASSUME NEW g \in Ids
               PROVE  fr2[g] # NoFrame <=> \E u \in Ids : \E i \in DOMAIN st2[u] : st2[u][i] = g
    OBVIOUS
  <2>1. CASE g = f
    BY SMTT(60), <1>2, <1>3, <1>4, <1>5, <2>1
  <2>2. CASE g # f
    <3>1. fr2[g] # NoFrame <=> \E u \in Ids : \E i \in DOMAIN st[u] : st[u][i] = g
      BY <1>5, <2>2 DEF Owned
    <3>2. ASSUME NEW u \in Ids
          PROVE  (\E i \in DOMAIN st[u] : st[u][i] = g) <=> (\E i \in DOMAIN st2[u] : st2[u][i] = g)
      BY <1>2, <1>3, <2>2 DEF f
    <3> QED
      BY <3>1, <3>2
  <2> QED
    BY <2>1, <2>2
<1>7. \A u, v \in Ids : \A i \in DOMAIN st2[u], j \in DOMAIN st2[v] :
        st2[u][i] = st2[v][j] => u = v /\ i = j
  <2>1. ASSUME NEW u \in Ids, NEW i \in DOMAIN st2[u]
        PROVE  i \in DOMAIN st[u] /\ st2[u][i] = st[u][i]
    BY <1>2, <1>3
  <2> QED
    BY <2>1 DEF Owned
<1> QED
  BY <1>6, <1>7 DEF Owned, st2

(* A step of a running thread t on its own stack that leaves it a frame. *)
LEMMA StackKeeps ==
  ASSUME IInv, NEW t \in Ids, status[t] = "run", OnlyStack,
         NEW s \in Seq(Ids), s # <<>>, stack' = [stack EXCEPT ![t] = s],
         frame' \in FrameStore, Owned(frame', stack'), CallsReturn',
         shared' \in [Shared -> Values], completed' \in [Functions -> Nat],
         reached' \subseteq Functions \X (Nat \ {0}),
         NEW n \in Nat \ {0}, next' = [next EXCEPT !.frame = n],
         \A f \in Ids : f >= n => frame'[f] = NoFrame
  PROVE  IInv'
<1>1. /\ prog' = prog /\ status' = status /\ on' = on /\ children' = children
      /\ parent' = parent /\ scope' = scope /\ finished' = finished
      /\ scopesDone' = scopesDone /\ UNCHANGED syncVars /\ UNCHANGED chanVars
  BY DEF OnlyStack
<1>2. Live' = Live /\ \A x : Members(x)' = Members(x)
  BY <1>1 DEF Live, Members
<1>3. stack' \in [Ids -> Seq(Ids)] /\ stack'[t] = s /\ \A u \in Ids : u # t => stack'[u] = stack[u]
  BY DEF IInv, TypeOK
<1>4. ScopesExact'
  <2> SUFFICES ASSUME NEW x \in Ids, scope[x] # NoScope
               PROVE  LET sc == scope[x] IN
                      /\ sc.remaining = Members(x) \cap Live /\ sc.remaining # {}
                      /\ status[sc.owner] = "scope" /\ on[sc.owner] = x
                      /\ Top(sc.owner)' = sc.frame
    BY <1>1, <1>2 DEF ScopesExact
  <2>1. scope[x].owner \in Ids
    BY DEF IInv, TypeOK, ScopeState
  <2>2. scope[x].owner # t
    BY DEF IInv, ScopesExact
  <2>3. Top(scope[x].owner)' = Top(scope[x].owner)
    BY <1>1, <1>3, <2>1, <2>2 DEF Top
  <2> QED
    BY <2>1, <2>3 DEF IInv, ScopesExact
<1>5. FramesOwned'
  <2>1. t \in Live
    BY DEF Live
  <2>2. \A u \in Ids : stack'[u] # <<>> <=> u \in Live'
    BY <1>2, <1>3, <2>1 DEF IInv, FramesOwned
  <2>3. finished' = {u \in Ids : status'[u] = "done"}
    BY <1>1 DEF IInv, FramesOwned
  <2> QED
    BY <2>2, <2>3 DEF FramesOwned, Owned
<1>6. /\ next' \in [thread : Nat \ {0}, frame : Nat \ {0}, scope : Nat \ {0}, handle : Nat \ {0}]
      /\ next'.thread = next.thread /\ next'.scope = next.scope /\ next'.frame = n
  BY DEF IInv, TypeOK
<1>7. Fresh'
  BY <1>1, <1>6 DEF IInv, Fresh, syncVars
<1>8. WaitQueuesExact'
  BY <1>1, QueuesKept DEF IInv, syncVars, chanVars
<1>9. frame' \in [Ids -> FrameState \union {NoFrame}]
  BY DEF FrameStore
<1>10. TypeOK'
  BY <1>1, <1>3, <1>6, <1>9 DEF IInv, TypeOK, syncVars, chanVars
<1> QED
  BY <1>4, <1>5, <1>7, <1>8, <1>10 DEF IInv

(* The parameters of a call are bound to values of their slots' types. *)
LEMMA BindTyped ==
  ASSUME NEW f \in Functions, NEW vals,
         \A i \in DOMAIN vals : i <= Len(Params[f]) => vals[i] \in SlotType[f][Params[f][i]],
         \A i \in DOMAIN vals : i \in Nat \ {0}
  PROVE  Bind(f, vals) \in [Locals -> Values]
<1>1. ASSUME NEW i \in DOMAIN vals, i <= Len(Params[f])
      PROVE  vals[i] \in Values
  <2>1. Params[f] \in Seq(Locals)
    BY FunctionsAssumption
  <2>2. Params[f][i] \in Locals
    BY <1>1, <2>1
  <2> QED
    BY <1>1, <2>2, DeclarationsAssumption
<1>2. \A x \in Locals : SlotInit[f][x] \in Values
  BY DeclarationsAssumption
<1>3. ASSUME NEW x \in Locals
      PROVE  Bind(f, vals)[x] \in Values
  <2> DEFINE P(i) == i <= Len(Params[f]) /\ Params[f][i] = x
  <2>1. Bind(f, vals)[x] = IF \E i \in DOMAIN vals : P(i)
                           THEN vals[CHOOSE i \in DOMAIN vals : P(i)] ELSE SlotInit[f][x]
    BY DEF Bind
  <2>2. CASE \E i \in DOMAIN vals : P(i)
    <3>1. PICK i : i = CHOOSE j \in DOMAIN vals : P(j)
      OBVIOUS
    <3>2. i \in DOMAIN vals /\ P(i)
      BY <2>2, <3>1
    <3> QED
      BY <1>1, <2>1, <2>2, <3>1, <3>2
  <2>3. CASE ~\E i \in DOMAIN vals : P(i)
    BY <1>2, <2>1, <2>3
  <2> QED
    BY <2>2, <2>3
<1> QED
  BY <1>3 DEF Bind

(* A call pushes a new frame. *)
LEMMA CallBodyKeeps ==
  ASSUME IInv, NEW t \in Ids, CallBody(t)
  PROVE  IInv'
<1> DEFINE f == next.frame
           o == Op(t)
           x == frame'[f]
<1>1. /\ AtStatement(t) /\ status[t] = "run" /\ stack[t] # <<>> /\ Reach(t) /\ OnlyStack
      /\ o.f \in Functions /\ o.args \in Seq(Exprs) /\ o.dst \in Destinations
      /\ f \in Ids /\ f \in Nat \ {0}
  BY Executing, OpFields DEF CallBody, Executes, IInv, TypeOK
<1>2. PICK y \in FrameState : y.ret.pc # 0 /\ frame' = [frame EXCEPT ![f] = y]
  <2> DEFINE vals == [i \in DOMAIN o.args |-> Value(t, o.args[i])]
             ret  == [pc |-> Fr(t).pc + 1, dst |-> o.dst]
             y    == [Activation(o.f, ret) EXCEPT !.locals = Bind(o.f, vals)]
  <2>1. /\ \A i \in DOMAIN vals : i <= Len(Params[o.f]) => vals[i] \in SlotType[o.f][Params[o.f][i]]
        /\ frame' = [frame EXCEPT ![f] = y]
    BY DEF CallBody
  <2>2. \A i \in DOMAIN vals : i \in Nat \ {0}
    BY <1>1
  <2>3. Bind(o.f, vals) \in [Locals -> Values]
    <3> HIDE DEF vals
    <3> QED
      BY <1>1, <2>1, <2>2, BindTyped
  <2>4. ret \in RetAddr /\ ret.pc # 0
    BY <1>1, TopAllocated DEF IInv, FrameState, RetAddr
  <2>5. y \in FrameState /\ y.ret.pc # 0
    <3> DEFINE a == Activation(o.f, ret)
               b == Bind(o.f, vals)
    <3> HIDE DEF ret, vals
    <3>1. a \in FrameState /\ a.ret = ret
      BY <1>1, <2>4, DeclarationsAssumption DEF Activation, FrameState
    <3>2. b \in [Locals -> Values]
      BY <2>3
    <3> HIDE DEF a, b
    <3>3. [a EXCEPT !.locals = b] \in FrameState /\ [a EXCEPT !.locals = b].ret = a.ret
      BY <3>1, <3>2 DEF FrameState
    <3> QED
      BY <2>4, <3>1, <3>3 DEF a, b
  <2> HIDE DEF y
  <2> QED
    BY <2>1, <2>5
<1>3. frame \in FrameStore /\ stack \in Stacks /\ stack[t] \in Seq(Ids)
  BY DEF IInv, TypeOK, FrameStore, Stacks
<1>4. /\ frame[f] = NoFrame /\ frame'[f] = y /\ y # NoFrame
      /\ \A g \in Ids : g # f => frame'[g] = frame[g]
  BY <1>1, <1>2, <1>3, LimitsAssumption DEF IInv, Fresh, FrameStore
<1>5. stack' = [stack EXCEPT ![t] = Append(@, f)]
  BY DEF CallBody
<1>6. Owned(frame', stack')
  <2>1. Owned(frame, stack)
    BY DEF IInv, FramesOwned, Owned
  <2>2. Owned(frame', [stack EXCEPT ![t] = Append(@, f)])
    <3> HIDE DEF f
    <3> QED
      BY <1>1, <1>3, <1>4, <2>1, Pushed
  <2> QED
    BY <1>5, <2>2
<1>7. CallsReturn'
  <2> SUFFICES ASSUME NEW u \in Ids, NEW i \in DOMAIN stack'[u], i > 1
               PROVE  frame'[stack'[u][i]].ret.pc # 0
    BY DEF CallsReturn
  <2>1. \A g \in Ids : \A j \in DOMAIN stack[g] : stack[g][j] # f /\ stack[g][j] \in Ids
    BY <1>3, <1>4 DEF IInv, FramesOwned, Stacks
  <2>2. CASE i \in DOMAIN stack[u] /\ stack'[u][i] = stack[u][i]
    BY <1>4, <2>1, <2>2 DEF IInv, CallsReturn
  <2>3. CASE stack'[u][i] = f
    BY <1>2, <1>4, <2>3
  <2>4. (i \in DOMAIN stack[u] /\ stack'[u][i] = stack[u][i]) \/ stack'[u][i] = f
    <3>1. stack'[u] = IF u = t THEN Append(stack[t], f) ELSE stack[u]
      BY <1>3, <1>5 DEF Stacks
    <3> HIDE DEF f
    <3> QED
      BY <1>3, <3>1
  <2> QED
    BY <2>2, <2>3, <2>4
<1>8. frame' \in FrameStore
  BY <1>2, <1>3 DEF FrameStore
<1>9. next' = [next EXCEPT !.frame = f + 1] /\ \A g \in Ids : g >= f + 1 => frame'[g] = NoFrame
  <2>1. \A g \in Ids : g \in Int
    BY LimitsAssumption DEF Ids
  <2>2. next' = [next EXCEPT !.frame = f + 1]
    BY DEF CallBody
  <2> QED
    BY <1>1, <1>4, <2>1, <2>2 DEF IInv, Fresh
<1>10. /\ shared' \in [Shared -> Values] /\ completed' \in [Functions -> Nat]
       /\ reached' \subseteq Functions \X (Nat \ {0})
  BY <1>1, ReachTyped DEF CallBody, IInv, TypeOK
<1>11. Append(stack[t], f) \in Seq(Ids) /\ Append(stack[t], f) # <<>> /\ f + 1 \in Nat \ {0}
  <2> HIDE DEF f
  <2> QED
    BY <1>1, <1>3
<1>12. stack' = [stack EXCEPT ![t] = Append(stack[t], f)]
  BY <1>5
<1> HIDE DEF f, x, o
<1> QED
  BY <1>1, <1>6, <1>7, <1>8, <1>9, <1>10, <1>11, <1>12, StackKeeps

(* A return to a caller pops the callee's frame. *)
LEMMA PopFrameKeeps ==
  ASSUME IInv, NEW t \in Ids, status[t] = "run", stack[t] # <<>>,
         NEW v, v = NoValue \/ v \in Values, PopFrame(t, v),
         reached' \subseteq Functions \X (Nat \ {0})
  PROVE  IInv'
<1> DEFINE k == Len(stack[t])
           c == Caller(t)
           f == Top(t)
           ret == Fr(t).ret
           s == SubSeq(stack[t], 1, k - 1)
<1>1. /\ frame \in FrameStore /\ stack \in Stacks /\ stack[t] \in Seq(Ids)
      /\ Owned(frame, stack) /\ OnlyStack
  BY DEF IInv, TypeOK, FrameStore, Stacks, PopFrame, FramesOwned, Owned
<1>2. /\ k \in Nat /\ k > 1 /\ k \in DOMAIN stack[t] /\ k - 1 \in DOMAIN stack[t]
  BY <1>1 DEF PopFrame, Nested
<1>3. c \in Ids /\ f \in Ids /\ c # f /\ frame[c] # NoFrame /\ frame[f] # NoFrame
  BY <1>1, <1>2 DEF Caller, Top, Owned
<1>4. ret \in RetAddr /\ ret.pc \in Nat \ {0} /\ ret.dst \in Destinations /\ Fr(t).fn \in Functions
  <2>1. Fr(t) \in FrameState
    BY TopAllocated DEF IInv
  <2>2. frame[stack[t][k]].ret.pc # 0
    BY <1>2 DEF IInv, CallsReturn
  <2> QED
    BY <2>1, <2>2 DEF FrameState, RetAddr, Fr, Top
<1>5. PICK g \in FrameStore : /\ Similar(g, frame)
                              /\ frame' = [g EXCEPT ![c].pc = ret.pc, ![f] = NoFrame]
  <2> DEFINE g == IF v = NoValue THEN frame ELSE Put(frame, c, ret.dst, v)
  <2>1. frame' = [g EXCEPT ![c].pc = ret.pc, ![f] = NoFrame]
    BY DEF PopFrame
  <2>2. Similar(g, frame)
    <3>1. CASE v = NoValue
      BY <1>1, <3>1, SimilarSelf
    <3>2. CASE v # NoValue
      <4>1. Similar(Put(frame, c, ret.dst, v), frame)
        BY <1>1, <1>3, <3>2, PutSimilar
      <4> QED
        BY <3>2, <4>1
    <3> QED
      BY <3>1, <3>2
  <2> HIDE DEF g
  <2> QED
    BY <2>1, <2>2 DEF Similar
<1>6. /\ frame'[f] = NoFrame
      /\ frame'[c] \in FrameState /\ frame'[c].ret = frame[c].ret
      /\ \A x \in Ids : x # f /\ x # c => frame'[x] = g[x]
      /\ DOMAIN frame' = Ids
  <2>1. g[c] \in FrameState /\ g[c].ret = frame[c].ret
    BY <1>3, <1>5 DEF Similar, FrameStore
  <2>2. [g[c] EXCEPT !.pc = ret.pc] \in FrameState /\ [g[c] EXCEPT !.pc = ret.pc].ret = g[c].ret
    BY <1>4, <2>1 DEF FrameState
  <2>3. frame' = [[g EXCEPT ![c] = [g[c] EXCEPT !.pc = ret.pc]] EXCEPT ![f] = NoFrame]
    BY <1>3, <1>5
  <2>4. DOMAIN g = Ids
    BY DEF FrameStore
  <2> HIDE DEF c, f, ret
  <2> QED
    BY <1>3, <2>1, <2>2, <2>3, <2>4
<1>7. frame' \in FrameStore
  <2>1. \A x \in Ids : frame'[x] \in FrameState \union {NoFrame}
    BY <1>6 DEF FrameStore
  <2>2. frame' = [x \in Ids |-> frame'[x]]
    <3>1. frame' = [[g EXCEPT ![c] = [g[c] EXCEPT !.pc = ret.pc]] EXCEPT ![f] = NoFrame]
      BY <1>3, <1>5
    <3>2. g = [x \in Ids |-> g[x]]
      BY DEF FrameStore
    <3> HIDE DEF c, f, ret
    <3> QED
      BY <3>1, <3>2
  <2> QED
    BY <2>1, <2>2 DEF FrameStore
<1>8. /\ \A x \in Ids : x # f => (frame'[x] = NoFrame <=> frame[x] = NoFrame)
      /\ \A x \in Ids : x # f /\ frame[x] # NoFrame => frame'[x].ret = frame[x].ret
  <2>1. \A x \in Ids : /\ g[x] = NoFrame <=> frame[x] = NoFrame
                       /\ frame[x] # NoFrame => g[x].ret = frame[x].ret
    BY <1>5 DEF Similar
  <2> QED
    BY <1>3, <1>6, <2>1, LimitsAssumption
<1>9. /\ s \in Seq(Ids) /\ Len(s) = k - 1 /\ s # <<>> /\ DOMAIN s = 1..(k - 1)
      /\ \A i \in 1..Len(s) : s[i] = stack[t][i]
      /\ stack' = [stack EXCEPT ![t] = s]
  <2>1. stack' = [stack EXCEPT ![t] = s]
    BY DEF PopFrame
  <2>2. /\ s \in Seq(Ids) /\ Len(s) = k - 1 /\ DOMAIN s = 1..(k - 1)
        /\ \A i \in 1..(k - 1) : s[i] = stack[t][i]
    BY <1>1, <1>2
  <2>3. s # <<>>
    <3>1. Len(s) # 0
      BY ONLY <1>2, <2>2
    <3> HIDE DEF s
    <3> QED
      BY <3>1
  <2> HIDE DEF s, k
  <2> QED
    BY <2>1, <2>2, <2>3
<1>10. Owned(frame', stack')
  <2>1. f = stack[t][Len(stack[t])] /\ Len(s) = Len(stack[t]) - 1
    BY <1>9 DEF Top
  <2>2. Owned(frame', [stack EXCEPT ![t] = s])
    <3> DEFINE top == stack[t][Len(stack[t])]
    <3>1. frame'[top] = NoFrame /\ \A x \in Ids : x # top => (frame'[x] = NoFrame <=> frame[x] = NoFrame)
      BY <1>6, <1>8, <2>1
    <3> HIDE DEF f, s, k, c, ret
    <3> QED
      BY <1>1, <1>9, <2>1, <3>1, Popped
  <2> QED
    BY <1>9, <2>2
<1>11. CallsReturn'
  <2> SUFFICES ASSUME NEW u \in Ids, NEW i \in DOMAIN stack'[u], i > 1
               PROVE  frame'[stack'[u][i]].ret.pc # 0
    BY DEF CallsReturn
  <2>1. i \in DOMAIN stack[u] /\ stack'[u][i] = stack[u][i]
    <3>1. stack'[u] = IF u = t THEN s ELSE stack[u]
      BY <1>1, <1>9 DEF Stacks
    <3>2. DOMAIN stack[t] = 1..k
      BY <1>1
    <3> HIDE DEF s, k
    <3> QED
      BY <1>2, <1>9, <3>1, <3>2
  <2>2. stack[u][i] \in Ids /\ stack[u][i] # f /\ frame[stack[u][i]] # NoFrame
    <3>1. \E w \in Ids : \E j \in DOMAIN stack'[w] : stack'[w][j] = stack[u][i]
      BY <2>1
    <3>2. stack[u] \in Seq(Ids)
      BY <1>1 DEF Stacks
    <3>3. stack[u][i] \in Ids
      BY <2>1, <3>2
    <3> QED
      BY <1>1, <1>6, <1>10, <2>1, <3>1, <3>3 DEF Owned
  <2> QED
    BY <1>8, <2>1, <2>2 DEF IInv, CallsReturn
<1>12. shared' \in [Shared -> Values] /\ completed' \in [Functions -> Nat]
  <2>1. shared' \in [Shared -> Values]
    BY PutSharedTyped DEF PopFrame, IInv, TypeOK
  <2>2. completed' \in [Functions -> Nat]
    BY <1>4, CompleteTyped DEF PopFrame, IInv
  <2> QED
    BY <2>1, <2>2
<1>13. /\ next.frame \in Nat \ {0} /\ next' = [next EXCEPT !.frame = next.frame]
       /\ \A x \in Ids : x >= next.frame => frame'[x] = NoFrame
  <2>1. next \in [thread : Nat \ {0}, frame : Nat \ {0}, scope : Nat \ {0}, handle : Nat \ {0}]
    BY DEF IInv, TypeOK
  <2>2. next' = next
    BY DEF PopFrame
  <2>3. \A x \in Ids : x >= next.frame => frame'[x] = NoFrame
    BY <1>6, <1>8 DEF IInv, Fresh
  <2> QED
    BY <2>1, <2>2, <2>3
<1> HIDE DEF s, k, c, f, ret
<1> QED
  BY <1>1, <1>7, <1>9, <1>10, <1>11, <1>12, <1>13, StackKeeps

-----------------------------------------------------------------------------
(* The end of a thread *)

Owners(t) == IF EmptiesScope(t) THEN {scope[parent[t]].owner} ELSE {}
Gone(t)   == (IF EmptiesScope(t) THEN Members(parent[t]) ELSE {})
             \union (IF Joiners(t) = {} THEN {} ELSE {t})

(* The last member of a scope wakes its owner, a thread that waits for that
   scope and for nothing else; whatever is reclaimed has finished, or is the
   thread itself. *)
LEMMA LastMember ==
  ASSUME IInv, NEW t \in Ids, status[t] = "run"
  PROVE  /\ t \notin Owners(t) /\ Owners(t) \subseteq Ids
         /\ \A u \in Owners(t) : status[u] = "scope" /\ on[u] = parent[t]
         /\ \A u \in Gone(t) : u = t \/ status[u] = "done"
         /\ Gone(t) \subseteq Ids
         /\ EmptiesScope(t) => /\ parent[t] \in Ids /\ scope[parent[t]] \in ScopeState
                               /\ frame[scope[parent[t]].frame] \in FrameState
                               /\ Gone(t) = Members(parent[t])
         /\ ~EmptiesScope(t) => Gone(t) \subseteq {t} /\ Owners(t) = {}
<1>1. CASE EmptiesScope(t)
  <2> DEFINE s == parent[t]
             sc == scope[s]
  <2>1. s \in Ids /\ sc # NoScope /\ sc.remaining \ {t} = {}
    BY <1>1 DEF EmptiesScope, IInv, TypeOK
  <2>2. sc \in ScopeState
    BY <2>1 DEF IInv, TypeOK
  <2>3. /\ sc.remaining = Members(s) \cap Live /\ status[sc.owner] = "scope" /\ on[sc.owner] = s
        /\ Top(sc.owner) = sc.frame
    BY <2>1 DEF IInv, ScopesExact
  <2>4. sc.owner \in Ids /\ sc.owner # t /\ sc.owner \in Live
    BY <2>2, <2>3 DEF ScopeState, Live
  <2>5. frame[sc.frame] \in FrameState
    <3>1. stack[sc.owner] # <<>>
      BY <2>4 DEF IInv, FramesOwned
    <3> QED
      BY <2>3, <2>4, <3>1, TopAllocated DEF IInv, Fr
  <2>6. \A u \in Members(s) : u = t \/ status[u] = "done"
    BY <2>1, <2>3 DEF Members, Live
  <2>7. t \in Members(s) /\ Members(s) \subseteq Ids
    BY DEF Members
  <2> QED
    BY <1>1, <2>1, <2>2, <2>3, <2>4, <2>5, <2>6, <2>7 DEF Owners, Gone
<1>2. CASE ~EmptiesScope(t)
  BY <1>2 DEF Owners, Gone
<1> QED
  BY <1>1, <1>2

(* What the end of a thread does to the threads. *)
LEMMA FinishStatus ==
  ASSUME IInv, NEW t \in Ids, status[t] = "run", FinishThread(t)
  PROVE  /\ status' \in [Ids -> Status] /\ on' \in [Ids -> Reason]
         /\ status'[t] \in Ended
         /\ Live' = Live \ {t}
         /\ \A u \in Ids : status[u] = "absent" => status'[u] = "absent"
         /\ \A u \in Ids : \/ status'[u] = status[u] /\ on'[u] = on[u]
                           \/ status[u] \in {"run", "done", "scope", "join"}
                              /\ status'[u] \in {"absent", "done", "run"}
         /\ \A u \in Ids : status[u] = "scope" /\ u \notin Owners(t) =>
                           status'[u] = "scope" /\ on'[u] = on[u]
         /\ \A u \in Ids : status'[u] = "absent" <=> u \in Gone(t) \/ status[u] = "absent"
         /\ finished' = {u \in Ids : status'[u] = "done"}
<1> DEFINE J == Joiners(t)
<1>1. /\ status' = [u \in Ids |-> IF u \in Gone(t) THEN "absent" ELSE IF u = t THEN "done"
                                  ELSE IF u \in Owners(t) \union J THEN "run" ELSE status[u]]
      /\ on' = [u \in Ids |-> IF u \in Owners(t) \union J \union Gone(t) THEN Nothing ELSE on[u]]
      /\ finished' = (finished \union {t}) \ Gone(t)
  BY DEF FinishThread, Owners, Gone
<1>2. \A u \in J : status[u] = "join"
  BY DEF Joiners
<1>3. /\ t \notin Owners(t) /\ Owners(t) \subseteq Ids
      /\ \A u \in Owners(t) : status[u] = "scope"
      /\ \A u \in Gone(t) : u = t \/ status[u] = "done"
      /\ Gone(t) \subseteq Ids
  BY LastMember
<1>4. status \in [Ids -> Status] /\ on \in [Ids -> Reason]
      /\ finished = {u \in Ids : status[u] = "done"}
  BY DEF IInv, TypeOK, FramesOwned
<1> HIDE DEF J
<1>5. status' \in [Ids -> Status] /\ on' \in [Ids -> Reason]
  BY <1>1, <1>4 DEF Status, Reason
<1>6. \A u \in Ids :
         /\ status'[u] = IF u \in Gone(t) THEN "absent" ELSE IF u = t THEN "done"
                         ELSE IF u \in Owners(t) \union J THEN "run" ELSE status[u]
         /\ on'[u] = IF u \in Owners(t) \union J \union Gone(t) THEN Nothing ELSE on[u]
  BY <1>1
<1>7. Live' = Live \ {t}
  BY <1>2, <1>3, <1>6 DEF Live
<1>8. \A u \in Ids : \/ status'[u] = status[u] /\ on'[u] = on[u]
                     \/ status[u] \in {"run", "done", "scope", "join"}
                        /\ status'[u] \in {"absent", "done", "run"}
  BY <1>2, <1>3, <1>6
<1>9. finished' = {u \in Ids : status'[u] = "done"}
  BY <1>1, <1>2, <1>3, <1>4, <1>6
<1>10. \A u \in Ids : status'[u] = "absent" <=> u \in Gone(t) \/ status[u] = "absent"
  BY <1>2, <1>3, <1>6
<1>11. \A u \in Ids : status[u] = "scope" /\ u \notin Owners(t) =>
                        status'[u] = "scope" /\ on'[u] = on[u]
  BY <1>2, <1>3, <1>6
<1>12. status'[t] \in Ended
  BY <1>6 DEF Ended
<1> QED
  BY <1>5, <1>7, <1>8, <1>9, <1>10, <1>11, <1>12

(* ... and to the frames. *)
LEMMA FinishFrames ==
  ASSUME IInv, NEW t \in Ids, status[t] = "run", stack[t] # <<>>, FinishThread(t)
  PROVE  /\ frame' \in FrameStore
         /\ frame'[Top(t)] = NoFrame
         /\ \A f \in Ids : f # Top(t) => (frame'[f] = NoFrame <=> frame[f] = NoFrame)
         /\ \A f \in Ids : f # Top(t) /\ frame[f] # NoFrame => frame'[f].ret = frame[f].ret
<1> DEFINE J == Joiners(t)
           g == frame'
<1>1. frame' = [f \in Ids |->
              IF f = Top(t) THEN NoFrame
              ELSE IF \E u \in J : f = Top(u)
                   THEN AfterJoin(frame[f], Op(CHOOSE u \in J : f = Top(u)).h)
              ELSE IF \E u \in Owners(t) : f = Top(u)
                   THEN [frame[f] EXCEPT !.pc = @ + 1]
              ELSE frame[f]]
  BY DEF FinishThread, Owners
<1>2. \A u \in J \union Owners(t) : u \in Ids /\ stack[u] # <<>>
  <2>1. \A u \in J : u \in Ids /\ status[u] = "join"
    BY DEF Joiners
  <2>2. \A u \in Owners(t) : u \in Ids /\ status[u] = "scope"
    BY LastMember
  <2> QED
    BY <2>1, <2>2 DEF IInv, FramesOwned, Live
<1>3. \A u \in J \union Owners(t) : frame[Top(u)] # NoFrame
  BY <1>2, TopAllocated DEF IInv, Fr
<1>4. frame \in FrameStore
  BY DEF IInv, TypeOK, FrameStore
<1>5. ASSUME NEW x \in FrameState, NEW h
      PROVE  /\ AfterJoin(x, h) \in FrameState /\ AfterJoin(x, h).ret = x.ret
             /\ [x EXCEPT !.pc = @ + 1] \in FrameState /\ [x EXCEPT !.pc = @ + 1].ret = x.ret
  <2> DEFINE hs == [x.handles EXCEPT ![h] = None]
  <2>1. hs \in [HandleNames -> Ids \union {None}]
    BY DEF FrameState
  <2>2. AfterJoin(x, h) = [x EXCEPT !.pc = @ + 1, !.handles = hs]
    BY DEF AfterJoin
  <2> HIDE DEF hs
  <2> DEFINE y == [x EXCEPT !.pc = @ + 1]
  <2>3. y \in FrameState /\ y.ret = x.ret
    BY DEF FrameState
  <2>4. AfterJoin(x, h) = [y EXCEPT !.handles = hs]
    BY <2>2 DEF FrameState
  <2>5. [y EXCEPT !.handles = hs] \in FrameState /\ [y EXCEPT !.handles = hs].ret = y.ret
    <3> HIDE DEF y
    <3> QED
      BY <2>1, <2>3 DEF FrameState
  <2> QED
    BY <2>3, <2>4, <2>5
<1>6. ASSUME NEW f \in Ids
      PROVE  /\ frame'[f] \in FrameState \union {NoFrame}
             /\ f = Top(t) => frame'[f] = NoFrame
             /\ f # Top(t) => (frame'[f] = NoFrame <=> frame[f] = NoFrame)
             /\ f # Top(t) /\ frame[f] # NoFrame => frame'[f].ret = frame[f].ret
  <2>1. CASE f = Top(t)
    BY <1>1, <2>1
  <2>2. CASE f # Top(t) /\ \E u \in J : f = Top(u)
    <3>1. PICK h : frame'[f] = AfterJoin(frame[f], h)
      BY <1>1, <2>2
    <3>2. frame[f] # NoFrame /\ frame[f] \in FrameState
      BY <1>3, <1>4, <2>2 DEF FrameStore
    <3> QED
      BY ZenonT(120), <1>5, <2>2, <3>1, <3>2, LimitsAssumption
  <2>3. CASE f # Top(t) /\ (~\E u \in J : f = Top(u)) /\ \E u \in Owners(t) : f = Top(u)
    <3>1. frame'[f] = [frame[f] EXCEPT !.pc = @ + 1]
      BY <1>1, <2>3
    <3>2. frame[f] # NoFrame /\ frame[f] \in FrameState
      BY <1>3, <1>4, <2>3 DEF FrameStore
    <3> QED
      BY <1>5, <2>3, <3>1, <3>2, LimitsAssumption
  <2>4. CASE f # Top(t) /\ (~\E u \in J : f = Top(u)) /\ ~\E u \in Owners(t) : f = Top(u)
    BY <1>1, <1>4, <2>4 DEF FrameStore
  <2> QED
    BY <2>1, <2>2, <2>3, <2>4
<1>7. frame' = [f \in Ids |-> frame'[f]]
  <2> DEFINE h(f) == IF f = Top(t) THEN NoFrame
              ELSE IF \E u \in J : f = Top(u)
                   THEN AfterJoin(frame[f], Op(CHOOSE u \in J : f = Top(u)).h)
              ELSE IF \E u \in Owners(t) : f = Top(u)
                   THEN [frame[f] EXCEPT !.pc = @ + 1]
              ELSE frame[f]
  <2>1. frame' = [f \in Ids |-> h(f)]
    BY <1>1
  <2> HIDE DEF h
  <2> QED
    BY <2>1
<1>8. Top(t) \in Ids
  BY TopAllocated DEF IInv
<1>9. frame' \in FrameStore
  BY <1>6, <1>7 DEF FrameStore
<1> QED
  BY <1>6, <1>8, <1>9

(* A finished thread leaves its scope, and the last member completes it. *)
LEMMA FinishScopes ==
  ASSUME IInv, NEW t \in Ids, status[t] = "run", FinishThread(t)
  PROVE  /\ ScopesExact'
         /\ scope' \in [Ids -> ScopeState \union {NoScope}]
         /\ scopesDone' \subseteq Functions \X (Nat \ {0})
         /\ \A x \in Ids : scope[x] = NoScope => scope'[x] = NoScope
<1> DEFINE s == parent[t]
<1>1. /\ \A x \in Ids : scope'[x] = IF x # s \/ scope[x] = NoScope THEN scope[x]
                                    ELSE IF EmptiesScope(t) THEN NoScope
                                    ELSE [scope[x] EXCEPT !.remaining = @ \ {t}]
      /\ scope' = [x \in Ids |-> IF x # s \/ scope[x] = NoScope THEN scope[x]
                                    ELSE IF EmptiesScope(t) THEN NoScope
                                    ELSE [scope[x] EXCEPT !.remaining = @ \ {t}]]
      /\ parent' = [u \in Ids |-> IF u \in Gone(t) THEN None ELSE parent[u]]
      /\ stack' = [stack EXCEPT ![t] = <<>>]
  BY DEF FinishThread, Gone
<1>2. scope \in [Ids -> ScopeState \union {NoScope}]
  BY DEF IInv, TypeOK
<1>3. scope' \in [Ids -> ScopeState \union {NoScope}]
  <2>1. \A x \in Ids : scope[x] # NoScope =>
           [scope[x] EXCEPT !.remaining = @ \ {t}] \in ScopeState
    BY <1>2 DEF ScopeState
  <2> QED
    BY <1>1, <1>2, <2>1
<1>4. /\ Live' = Live \ {t}
      /\ \A u \in Ids : status[u] = "scope" /\ u \notin Owners(t) =>
                        status'[u] = "scope" /\ on'[u] = on[u]
      /\ \A u \in Ids : status'[u] = "absent" <=> u \in Gone(t) \/ status[u] = "absent"
  BY FinishStatus
<1>5. \A x \in Ids : Members(x)' = Members(x) \ Gone(t)
  <2>1. None \notin Ids
    BY LimitsAssumption DEF Ids, None
  <2> QED
    BY <1>1, <1>4, <2>1 DEF Members
<1>6. ScopesExact'
  <2> SUFFICES ASSUME NEW x \in Ids, scope'[x] # NoScope
               PROVE  LET sc == scope'[x] IN
                      /\ sc.remaining = Members(x)' \cap Live' /\ sc.remaining # {}
                      /\ status'[sc.owner] = "scope" /\ on'[sc.owner] = x
                      /\ stack'[sc.owner][Len(stack'[sc.owner])] = sc.frame
    BY DEF ScopesExact, Top
  <2>1. scope[x] # NoScope /\ scope[x] \in ScopeState
    BY <1>1, <1>2
  <2>2. /\ scope[x].remaining = Members(x) \cap Live /\ scope[x].remaining # {}
        /\ status[scope[x].owner] = "scope" /\ on[scope[x].owner] = x
        /\ Top(scope[x].owner) = scope[x].frame /\ scope[x].owner \in Ids
    BY <2>1 DEF IInv, ScopesExact, ScopeState
  <2>3. scope'[x].owner = scope[x].owner /\ scope'[x].frame = scope[x].frame
    BY <1>1, <2>1 DEF ScopeState
  <2>4. scope[x].owner \notin Owners(t)
    BY <1>1, <2>1, <2>2, LastMember
  <2>5. status'[scope[x].owner] = "scope" /\ on'[scope[x].owner] = x
    BY <1>4, <2>2, <2>4
  <2> DEFINE o == scope[x].owner
  <2>6. stack'[o][Len(stack'[o])] = scope[x].frame
    <3>1. o # t
      BY <2>2
    <3>2. stack'[o] = stack[o]
      BY <1>1, <2>2, <3>1 DEF IInv, TypeOK
    <3> QED
      BY <2>2, <3>2 DEF Top
  <2>7. t \in Members(x) <=> x = s
    BY DEF Members
  <2>8. Gone(t) \cap Members(x) \cap Live \subseteq {t}
    BY LastMember DEF Live
  <2>9. Members(x)' \cap Live' = (Members(x) \cap Live) \ {t}
    BY <1>4, <1>5, <2>8
  <2>10. CASE x = s
    <3>1. ~EmptiesScope(t) /\ scope'[x].remaining = scope[x].remaining \ {t}
      BY <1>1, <2>1, <2>10 DEF ScopeState
    <3>2. x # None
      BY LimitsAssumption DEF Ids, None
    <3>3. scope[x].remaining \ {t} # {}
      BY <2>1, <2>10, <3>1, <3>2 DEF EmptiesScope
    <3> QED
      BY <2>2, <2>3, <2>5, <2>6, <2>9, <3>1, <3>3
  <2>11. CASE x # s
    <3>1. scope'[x] = scope[x] /\ t \notin Members(x)
      BY <1>1, <2>7, <2>11
    <3> QED
      BY <2>2, <2>5, <2>6, <2>9, <3>1
  <2> QED
    BY <2>10, <2>11
<1>7. scopesDone' \subseteq Functions \X (Nat \ {0})
  <2>1. EmptiesScope(t) => frame[scope[s].frame] \in FrameState
    BY LastMember
  <2>2. scopesDone \subseteq Functions \X (Nat \ {0})
    BY DEF IInv, TypeOK
  <2>3. EmptiesScope(t) => <<frame[scope[s].frame].fn, frame[scope[s].frame].pc>>
                              \in Functions \X (Nat \ {0})
    BY <2>1 DEF FrameState
  <2> QED
    BY <2>2, <2>3 DEF FinishThread
<1> QED
  BY <1>1, <1>3, <1>6, <1>7

(* The end of a thread keeps the invariant. *)
LEMMA FinishThreadKeeps ==
  ASSUME IInv, NEW t \in Ids, status[t] = "run", stack[t] # <<>>, FinishThread(t),
         reached' \subseteq Functions \X (Nat \ {0})
  PROVE  IInv'
<1>1. /\ prog' = prog /\ shared' = shared /\ next' = next
      /\ UNCHANGED syncVars /\ UNCHANGED chanVars /\ stack' = [stack EXCEPT ![t] = <<>>]
      /\ parent' = [u \in Ids |-> IF u \in Gone(t) THEN None ELSE parent[u]]
      /\ children' = [u \in Ids |-> [h \in Ids |->
              IF u \in Gone(t) \/ (u \in Joiners(t) /\ children[u][h] = t)
              THEN None ELSE children[u][h]]]
  BY DEF FinishThread, Gone
<1>2. stack \in Stacks /\ stack[t] \in Seq(Ids) /\ Len(stack[t]) = 1
  <2>1. stack \in Stacks /\ stack[t] \in Seq(Ids)
    BY DEF IInv, TypeOK, Stacks
  <2>2. ~(Len(stack[t]) > 1)
    BY DEF FinishThread, Nested
  <2>3. Len(stack[t]) \in Nat /\ Len(stack[t]) # 0
    BY <2>1
  <2>4. Len(stack[t]) = 1
    <3> DEFINE n == Len(stack[t])
    <3>1. n \in Nat /\ n # 0 /\ ~(n > 1)
      BY <2>2, <2>3
    <3> HIDE DEF n
    <3>2. n = 1
      BY ONLY <3>1
    <3> QED
      BY <3>2 DEF n
  <2> QED
    BY <2>1, <2>4
<1>3. Owned(frame', stack')
  <2>1. /\ frame'[stack[t][Len(stack[t])]] = NoFrame
        /\ \A f \in Ids : f # stack[t][Len(stack[t])] => (frame'[f] = NoFrame <=> frame[f] = NoFrame)
    BY FinishFrames DEF Top
  <2>2. Owned(frame, stack)
    BY DEF IInv, FramesOwned, Owned
  <2> DEFINE e == <<>>
  <2>3. e \in Seq(Ids) /\ Len(e) = Len(stack[t]) - 1 /\ \A i \in 1..Len(e) : e[i] = stack[t][i]
    BY <1>2
  <2>4. stack' = [stack EXCEPT ![t] = e]
    BY <1>1
  <2> HIDE DEF e
  <2> QED
    BY <1>2, <2>1, <2>2, <2>3, <2>4, Popped
<1>4. /\ status' \in [Ids -> Status] /\ on' \in [Ids -> Reason] /\ Live' = Live \ {t}
      /\ \A u \in Ids : status[u] = "absent" => status'[u] = "absent"
      /\ finished' = {u \in Ids : status'[u] = "done"}
      /\ \A u \in Ids : status'[u] = "absent" <=> u \in Gone(t) \/ status[u] = "absent"
  BY FinishStatus
<1>5. \A u \in Ids : u # t => stack'[u] = stack[u]
  BY <1>1, <1>2 DEF Stacks
<1>6. stack'[t] = <<>> /\ stack' \in [Ids -> Seq(Ids)]
  BY <1>1, <1>2 DEF Stacks
<1>7. FramesOwned'
  <2>1. \A u \in Ids : stack'[u] # <<>> <=> u \in Live'
    <3>1. \A u \in Ids : stack[u] # <<>> <=> u \in Live
      BY DEF IInv, FramesOwned
    <3>2. stack'[t] = <<>> /\ t \notin Live'
      BY <1>4, <1>6
    <3>3. \A u \in Ids : u # t => (u \in Live' <=> u \in Live)
      BY <1>4
    <3> QED
      BY ONLY <1>5, <3>1, <3>2, <3>3
  <2> QED
    BY <1>3, <1>4, <2>1 DEF FramesOwned, Owned
<1>8. CallsReturn'
  <2> SUFFICES ASSUME NEW u \in Ids, NEW i \in DOMAIN stack'[u], i > 1
               PROVE  frame'[stack'[u][i]].ret.pc # 0
    BY DEF CallsReturn
  <2>1. u # t
    BY <1>6
  <2>2. i \in DOMAIN stack[u] /\ stack'[u][i] = stack[u][i]
    BY <1>5, <2>1
  <2>3. stack[u][i] \in Ids /\ frame[stack[u][i]] # NoFrame
    BY <1>2, <2>2 DEF Stacks, IInv, FramesOwned
  <2>4. stack[u][i] # Top(t)
    BY <1>2, <2>1, <2>2, TopAllocated DEF IInv, FramesOwned, Top
  <2> QED
    BY <2>2, <2>3, <2>4, FinishFrames DEF IInv, CallsReturn
<1>9. WaitQueuesExact'
  <2>1. \A u \in Ids : \/ status'[u] = status[u] /\ on'[u] = on[u]
                       \/ /\ status[u] \notin {"send", "recv", "wait", "acquire"}
                          /\ status'[u] \notin {"send", "recv", "wait", "acquire"}
    BY FinishStatus
  <2> QED
    BY <1>1, <2>1, QueuesKept DEF IInv, syncVars, chanVars
<1>10. /\ frame' \in [Ids -> FrameState \union {NoFrame}]
       /\ \A f \in Ids : frame[f] = NoFrame => frame'[f] = NoFrame
  BY FinishFrames DEF FrameStore
<1>11. /\ ScopesExact' /\ scope' \in [Ids -> ScopeState \union {NoScope}]
       /\ scopesDone' \subseteq Functions \X (Nat \ {0})
       /\ \A x \in Ids : scope[x] = NoScope => scope'[x] = NoScope
  BY FinishScopes
<1>12. Fresh'
  <2>1. \A u \in Ids : parent'[u] < next.scope \/ status'[u] = "absent"
    <3>1. \A u \in Ids : status'[u] # "absent" => u \notin Gone(t) /\ status[u] # "absent"
      BY <1>4
    <3> QED
      BY <1>1, <3>1 DEF IInv, Fresh
  <2> QED
    BY <1>1, <1>4, <1>10, <1>11, <2>1 DEF IInv, Fresh, syncVars
<1>13. completed' \in [Functions -> Nat]
  <2>1. Fr(t).fn \in Functions
    BY TopAllocated DEF IInv, FrameState
  <2> QED
    BY <2>1, CompleteTyped DEF FinishThread, IInv
<1>14. parent' \in [Ids -> Ids \union {None}] /\ children' \in [Ids -> [Ids -> Ids \union {None}]]
  BY <1>1 DEF IInv, TypeOK
<1>15. finished' \subseteq Ids
  BY <1>4
<1>16. TypeOK'
  BY <1>1, <1>4, <1>6, <1>10, <1>11, <1>13, <1>14, <1>15 DEF IInv, TypeOK, syncVars, chanVars
<1> QED
  BY <1>7, <1>8, <1>9, <1>11, <1>12, <1>16 DEF IInv

-----------------------------------------------------------------------------
(* The birth of threads *)

(* create_thread's frames: inside the limits and no two the same. *)
LEMMA FramesFor ==
  ASSUME IInv, NEW fs \in Seq(Functions), HasRoom(fs)
  PROVE  /\ Cardinality(Born(fs)) \in Nat
         /\ \A i \in Born(fs) : /\ FrameOf(fs, i) \in Ids
                                /\ FrameOf(fs, i) >= next.frame
                                /\ FrameOf(fs, i) < next.frame + Cardinality(Born(fs))
         /\ \A i, k \in Born(fs) : FrameOf(fs, i) = FrameOf(fs, k) => i = k
<1> DEFINE Before(i) == {j \in Born(fs) : j < i}
<1>1. IsFiniteSet(Born(fs)) /\ Born(fs) \subseteq 1..Len(fs)
  <2>1. Born(fs) \subseteq 1..Len(fs)
    BY DEF Born
  <2> QED
    BY <2>1, FS_Interval, FS_Subset
<1>2. next.frame \in Nat \ {0} /\ MaxId \in Nat
  BY LimitsAssumption DEF IInv, TypeOK
<1>3. Cardinality(Born(fs)) \in Nat
  BY <1>1, FS_CardinalityType
<1>4. ASSUME NEW i \in Born(fs)
      PROVE  /\ IsFiniteSet(Before(i)) /\ Cardinality(Before(i)) \in Nat
             /\ Cardinality(Before(i)) < Cardinality(Born(fs))
  <2>1. Before(i) \subseteq Born(fs) /\ i \notin Before(i) /\ i \in Born(fs)
    BY <1>1
  <2>2. IsFiniteSet(Before(i)) /\ Cardinality(Before(i)) \in Nat
    BY <1>1, <2>1, FS_Subset, FS_CardinalityType
  <2>3. Before(i) \union {i} \subseteq Born(fs)
    BY <2>1
  <2>4. Cardinality(Before(i) \union {i}) = Cardinality(Before(i)) + 1
    BY <2>1, <2>2, FS_AddElement
  <2>5. Cardinality(Before(i) \union {i}) <= Cardinality(Born(fs))
    BY <1>1, <2>3, FS_Subset
  <2> HIDE DEF Before
  <2> QED
    BY <1>3, <2>2, <2>4, <2>5
<1>5. ASSUME NEW i \in Born(fs), NEW k \in Born(fs), i < k
      PROVE  Cardinality(Before(i)) < Cardinality(Before(k))
  <2>1. Before(i) \union {i} \subseteq Before(k) /\ i \notin Before(i)
    <3>1. \A j \in Born(fs) : j \in Int
      BY <1>1
    <3> QED
      BY <1>5, <3>1
  <2>2. Cardinality(Before(i) \union {i}) = Cardinality(Before(i)) + 1
    BY <1>4, <2>1, FS_AddElement
  <2>3. Cardinality(Before(i) \union {i}) <= Cardinality(Before(k))
    BY <1>4, <2>1, FS_Subset
  <2>4. Cardinality(Before(i)) \in Nat /\ Cardinality(Before(k)) \in Nat
    BY <1>4
  <2> HIDE DEF Before
  <2> QED
    BY <2>2, <2>3, <2>4
<1>6. \A i \in Born(fs) : FrameOf(fs, i) = next.frame + Cardinality(Before(i))
  BY DEF FrameOf
<1>7. next.frame + Cardinality(Born(fs)) - 1 <= MaxId
  BY DEF HasRoom
<1> HIDE DEF Before
<1>8. ASSUME NEW i \in Born(fs)
      PROVE  /\ FrameOf(fs, i) \in Ids
             /\ FrameOf(fs, i) >= next.frame
             /\ FrameOf(fs, i) < next.frame + Cardinality(Born(fs))
  BY <1>2, <1>3, <1>4, <1>6, <1>7 DEF Ids
<1>9. ASSUME NEW i \in Born(fs), NEW k \in Born(fs), FrameOf(fs, i) = FrameOf(fs, k)
      PROVE  i = k
  <2>1. i \in Int /\ k \in Int
    BY <1>1
  <2>2. Cardinality(Before(i)) = Cardinality(Before(k))
    BY <1>2, <1>4, <1>6, <1>9
  <2>3. ~(i < k) /\ ~(k < i)
    BY <1>4, <1>5, <2>2
  <2> QED
    BY <2>1, <2>3
<1> QED
  BY <1>3, <1>8, <1>9

(* The threads being created, and those of them that run. *)
Created(fs) == {u \in Ids : Nth(u) \in DOMAIN fs}
Running(fs) == {u \in Ids : Nth(u) \in Born(fs)}

(* The identities create_thread hands out were never handed out before. *)
LEMMA CreatedFresh ==
  ASSUME IInv, NEW fs \in Seq(Functions), HasRoom(fs)
  PROVE  /\ Running(fs) \subseteq Created(fs)
         /\ \A u \in Created(fs) : /\ u >= next.thread /\ u < next.thread + Len(fs)
                                   /\ status[u] = "absent" /\ stack[u] = <<>>
         /\ \A u, v \in Ids : Nth(u) = Nth(v) => u = v
         /\ \A i \in DOMAIN fs : \E u \in Created(fs) : Nth(u) = i
<1>1. next.thread \in Nat \ {0} /\ MaxId \in Nat /\ Ids \subseteq Int
  BY LimitsAssumption DEF IInv, TypeOK, Ids
<1>2. DOMAIN fs = 1..Len(fs) /\ Len(fs) \in Nat /\ Born(fs) \subseteq 1..Len(fs)
  BY DEF Born
<1>3. \A u \in Ids : Nth(u) = u - next.thread + 1
  BY DEF Nth
<1>4. next.thread + Len(fs) - 1 <= MaxId
  BY DEF HasRoom
<1> DEFINE n == Len(fs)
           k == next.thread
<1>5. Running(fs) \subseteq Created(fs)
  BY <1>2 DEF Running, Created
<1>6. \A u \in Created(fs) : u >= k /\ u < k + n
  <2> HIDE DEF n, k
  <2>1. \A u \in Created(fs) : u \in Int /\ u - k + 1 \in 1..n
    BY <1>1, <1>2, <1>3 DEF Created, n, k
  <2>2. k \in Int /\ n \in Int
    BY <1>1, <1>2 DEF n, k
  <2> QED
    BY <2>1, <2>2
<1>7. \A u \in Created(fs) : status[u] = "absent" /\ stack[u] = <<>>
  BY <1>6 DEF IInv, Fresh, Created, FramesOwned, Live
<1>8. \A u, v \in Ids : Nth(u) = Nth(v) => u = v
  BY <1>1, <1>3
<1>9. ASSUME NEW i \in DOMAIN fs
      PROVE  \E u \in Created(fs) : Nth(u) = i
  <2>1. k + i - 1 \in Ids
    <3> HIDE DEF k, n
    <3>1. i \in 1..n /\ k \in Nat \ {0} /\ MaxId \in Nat /\ k + n - 1 <= MaxId /\ n \in Nat
      BY <1>1, <1>2, <1>4 DEF k, n
    <3> QED
      BY <3>1 DEF Ids
  <2>2. (k + i - 1) - k + 1 = i
    <3> HIDE DEF k, n
    <3>1. i \in Int /\ k \in Int
      BY <1>1, <1>2 DEF k
    <3> QED
      BY <3>1
  <2>3. Nth(k + i - 1) = i
    BY <1>3, <2>1, <2>2
  <2> QED
    BY <2>1, <2>3 DEF Created
<1> QED
  BY <1>5, <1>6, <1>7, <1>8, <1>9

(* A different free frame for each thread of b *)
FreshFrames(fo, b, fr) ==
  /\ \A u \in b : fo[u] \in Ids /\ fr[fo[u]] = NoFrame
  /\ \A u, v \in b : fo[u] = fo[v] => u = v

(* New stacks of one new frame each. *)
LEMMA Stacked ==
  ASSUME stack \in Stacks, Owned(frame, stack), NEW b \in SUBSET Ids,
         \A u \in b : stack[u] = <<>>,
         NEW fo, FreshFrames(fo, b, frame),
         \A u \in b : frame'[fo[u]] # NoFrame,
         \A f \in Ids : (\A u \in b : f # fo[u]) => (frame'[f] = NoFrame <=> frame[f] = NoFrame),
         \A u \in Ids : stack'[u] = IF u \in b THEN <<fo[u]>> ELSE stack[u]
  PROVE  Owned(frame', stack')
<1>1. ASSUME NEW u \in b
      PROVE  DOMAIN stack'[u] = {1} /\ stack'[u][1] = fo[u] /\ DOMAIN stack[u] = {}
  <2>1. stack'[u] = <<fo[u]>> /\ stack[u] = <<>>
    OBVIOUS
  <2> QED
    BY <2>1
<1>2. \A u \in Ids : u \notin b => stack'[u] = stack[u]
  OBVIOUS
<1>3. \A u \in Ids : \A i \in DOMAIN stack[u] : stack[u][i] \in Ids /\ frame[stack[u][i]] # NoFrame
  BY DEF Owned, Stacks, FreshFrames
<1>4. ASSUME NEW u \in Ids, NEW i \in DOMAIN stack'[u]
      PROVE  IF u \in b THEN i = 1 /\ stack'[u][i] = fo[u]
             ELSE /\ i \in DOMAIN stack[u] /\ stack'[u][i] = stack[u][i]
                  /\ \A v \in b : stack'[u][i] # fo[v]
  BY <1>1, <1>2, <1>3 DEF FreshFrames
<1>5. ASSUME NEW f \in Ids
      PROVE  frame'[f] # NoFrame <=> \E u \in Ids : \E i \in DOMAIN stack'[u] : stack'[u][i] = f
  <2>1. CASE \E u \in b : f = fo[u]
    BY <1>1, <2>1
  <2>2. CASE ~\E u \in b : f = fo[u]
    <3>1. frame'[f] # NoFrame <=> \E u \in Ids : \E i \in DOMAIN stack[u] : stack[u][i] = f
      BY <2>2 DEF Owned
    <3>2. ASSUME NEW u \in Ids
          PROVE  (\E i \in DOMAIN stack[u] : stack[u][i] = f) <=> (\E i \in DOMAIN stack'[u] : stack'[u][i] = f)
      BY <1>1, <1>2, <2>2
    <3> QED
      BY <3>1, <3>2
  <2> QED
    BY <2>1, <2>2
<1>6. \A u, v \in Ids : \A i \in DOMAIN stack'[u], j \in DOMAIN stack'[v] :
        stack'[u][i] = stack'[v][j] => u = v /\ i = j
  BY <1>4 DEF Owned, FreshFrames
<1> QED
  BY <1>5, <1>6 DEF Owned

(* The frames of new threads, on frames g that resemble the old ones. *)
LEMMA NewFrames ==
  ASSUME IInv, NEW fs \in Seq(Functions), HasRoom(fs), NEW g, Similar(g, frame)
  PROVE  LET w == WithNewFrames(fs, g) IN
         /\ w \in FrameStore
         /\ \A i \in Born(fs) : w[FrameOf(fs, i)] # NoFrame
         /\ \A f \in Ids : (\A i \in Born(fs) : f # FrameOf(fs, i)) => w[f] = g[f]
<1> DEFINE w == WithNewFrames(fs, g)
           P(f) == \E i \in Born(fs) : f = FrameOf(fs, i)
           which(f) == fs[CHOOSE i \in Born(fs) : f = FrameOf(fs, i)]
<1>1. \A f \in Ids : w[f] = IF P(f) THEN Activation(which(f), NoReturn) ELSE g[f]
  BY DEF WithNewFrames
<1>2. w = [f \in Ids |-> w[f]]
  BY DEF WithNewFrames
<1>3. \A f \in Ids : P(f) => which(f) \in Functions
  BY DEF Born
<1>4. \A x \in Functions : Activation(x, NoReturn) \in FrameState
  BY DeclarationsAssumption DEF Activation, NoReturn, FrameState, RetAddr, Destinations
<1>5. \A i \in Born(fs) : FrameOf(fs, i) \in Ids
  BY FramesFor
<1>6. \A f \in Ids : g[f] \in FrameState \union {NoFrame}
  BY DEF Similar, FrameStore
<1>7. \A f \in Ids : /\ P(f) => w[f] \in FrameState
                     /\ ~P(f) => w[f] = g[f]
  BY SMTT(60), <1>1, <1>3, <1>4
<1> HIDE DEF w, which
<1>8. w \in FrameStore
  BY <1>2, <1>6, <1>7 DEF FrameStore
<1>9. \A i \in Born(fs) : w[FrameOf(fs, i)] # NoFrame
  BY <1>5, <1>7, LimitsAssumption
<1> QED
  BY <1>7, <1>8, <1>9 DEF w

(* What Spawn and Scope share: threads for fs are created in scope p, on frames
   g; the creator stays alive. *)
Creation(t, fs, p, g) ==
  /\ CreateThreads(fs, p)
  /\ Similar(g, frame) /\ frame' = WithNewFrames(fs, g)
  /\ status' \in [Ids -> Status] /\ on' \in [Ids -> Reason]
  /\ \A u \in Ids \ {t} :
        /\ on'[u] = on[u]
        /\ status'[u] = IF u \in Running(fs) THEN "run"
                        ELSE IF u \in Created(fs) THEN "done" ELSE status[u]
  /\ status'[t] \in {"run", "scope"}
  /\ next' \in [thread : Nat \ {0}, frame : Nat \ {0}, scope : Nat \ {0}, handle : Nat \ {0}]
  /\ next'.thread = next.thread + Len(fs) /\ next'.frame = next.frame + Cardinality(Born(fs))
  /\ next.scope <= next'.scope /\ p < next'.scope
  /\ OnlyThreads

(* Which threads are live, and in which scope, after threads were created. *)
LEMMA CreationLive ==
  ASSUME IInv, NEW t \in Ids, status[t] = "run", NEW fs \in Seq(Functions),
         NEW p \in Ids \union {None}, NEW g, Creation(t, fs, p, g)
  PROVE  /\ Live' = Live \union Running(fs)
         /\ \A x : x # p => Members(x)' = Members(x)
         /\ Members(p)' = Members(p) \union Created(fs)
         /\ t \notin Created(fs) /\ Created(fs) \cap Live = {}
         /\ \A u \in Ids : u \notin Created(fs) =>
              /\ stack'[u] = stack[u] /\ parent'[u] = parent[u]
              /\ u # t => status'[u] = status[u] /\ on'[u] = on[u]
<1>1. HasRoom(fs)
  BY DEF Creation, CreateThreads
<1>2. /\ Running(fs) \subseteq Created(fs)
      /\ \A u \in Created(fs) : status[u] = "absent"
  BY <1>1, CreatedFresh
<1>3. t \notin Created(fs)
  BY <1>2
<1>4. \A u \in Ids : u \in Created(fs) => status'[u] = IF u \in Running(fs) THEN "run" ELSE "done"
  BY <1>2, <1>3 DEF Creation
<1>5. \A u \in Ids : u \notin Created(fs) =>
              /\ stack'[u] = stack[u] /\ parent'[u] = parent[u]
              /\ u # t => status'[u] = status[u] /\ on'[u] = on[u]
  <2>1. \A u \in Ids : u \notin Created(fs) => Nth(u) \notin DOMAIN fs /\ Nth(u) \notin Born(fs)
    BY <1>2 DEF Created, Running
  <2> QED
    BY <1>2, <2>1 DEF Creation, CreateThreads
<1>6. \A u \in Created(fs) : u \in Ids /\ parent'[u] = p
  BY DEF Creation, CreateThreads, Created
<1>7. status'[t] \in {"run", "scope"}
  BY DEF Creation
<1>8. Live' = Live \union Running(fs)
  BY <1>2, <1>3, <1>4, <1>5, <1>7 DEF Live, Running
<1>9. \A x : x # p => Members(x)' = Members(x)
  BY <1>2, <1>3, <1>4, <1>5, <1>6, <1>7 DEF Members
<1>10. Members(p)' = Members(p) \union Created(fs)
  BY <1>2, <1>3, <1>4, <1>5, <1>6, <1>7 DEF Members
<1> QED
  BY <1>2, <1>3, <1>5, <1>8, <1>9, <1>10 DEF Live

(* The frames of created threads are new, and each is on one stack. *)
LEMMA CreationFrames ==
  ASSUME IInv, NEW t \in Ids, status[t] = "run", NEW fs \in Seq(Functions),
         NEW p \in Ids \union {None}, NEW g, Creation(t, fs, p, g)
  PROVE  FramesOwned' /\ CallsReturn' /\ stack' \in Stacks /\ frame' \in FrameStore
<1> DEFINE b == Running(fs)
           fo == [u \in Ids |-> FrameOf(fs, Nth(u))]
<1>1. HasRoom(fs) /\ Similar(g, frame) /\ frame' = WithNewFrames(fs, g)
  BY DEF Creation, CreateThreads
<1>2. /\ b \subseteq Created(fs) /\ b \subseteq Ids
      /\ \A u \in Created(fs) : stack[u] = <<>>
      /\ \A u, v \in Ids : Nth(u) = Nth(v) => u = v
      /\ \A i \in Born(fs) : \E u \in b : Nth(u) = i
  BY <1>1, CreatedFresh DEF Born, Running, Created
<1>3. stack \in Stacks /\ Owned(frame, stack)
  BY DEF IInv, TypeOK, Stacks, FramesOwned, Owned
<1>4. stack' = [u \in Ids |-> IF u \in b THEN <<fo[u]>> ELSE stack[u]]
  <2>1. stack' = [u \in Ids |-> IF Nth(u) \in Born(fs) THEN <<FrameOf(fs, Nth(u))>> ELSE stack[u]]
    BY DEF Creation, CreateThreads
  <2>2. \A u \in Ids : u \in b <=> Nth(u) \in Born(fs)
    BY DEF Running
  <2> QED
    BY <2>1, <2>2
<1>5. /\ \A u \in b : fo[u] \in Ids /\ fo[u] >= next.frame
      /\ \A u, v \in b : fo[u] = fo[v] => u = v
  BY <1>1, <1>2, FramesFor DEF Running
<1>6. \A u \in b : frame[fo[u]] = NoFrame
  BY <1>5 DEF IInv, Fresh
<1>7. /\ frame' \in FrameStore
      /\ \A u \in b : frame'[fo[u]] # NoFrame
      /\ \A f \in Ids : (\A u \in b : f # fo[u]) => frame'[f] = g[f]
  <2>1. /\ frame' \in FrameStore
        /\ \A i \in Born(fs) : frame'[FrameOf(fs, i)] # NoFrame
        /\ \A f \in Ids : (\A i \in Born(fs) : f # FrameOf(fs, i)) => frame'[f] = g[f]
    BY <1>1, NewFrames
  <2>2. \A u \in b : u \in Ids /\ Nth(u) \in Born(fs)
    BY DEF Running
  <2>3. \A i \in Born(fs) : \E u \in b : fo[u] = FrameOf(fs, i)
    BY <1>2
  <2> QED
    BY <2>1, <2>2, <2>3
<1> HIDE DEF fo, b
<1>8. \A f \in Ids : (\A u \in b : f # fo[u]) => (frame'[f] = NoFrame <=> frame[f] = NoFrame)
  BY <1>1, <1>7 DEF Similar
<1>9. Owned(frame', stack')
  <2>1. \A u \in b : fo[u] \in Ids /\ frame[fo[u]] = NoFrame
    BY <1>5, <1>6
  <2>2. \A u \in b : frame'[fo[u]] # NoFrame
    BY <1>7
  <2>3. \A u \in b : stack[u] = <<>>
    BY <1>2
  <2>4. \A u \in Ids : stack'[u] = IF u \in b THEN <<fo[u]>> ELSE stack[u]
    BY <1>4
  <2>5. Owned(frame', stack')
    <3>1. stack \in Stacks /\ Owned(frame, stack) /\ b \in SUBSET Ids
      BY <1>2, <1>3
    <3>2. FreshFrames(fo, b, frame)
      BY <1>5, <2>1 DEF FreshFrames
    <3> QED
      BY ONLY ZenonT(120), <3>1, <3>2, <1>8, <2>1, <2>2, <2>3, <2>4, Stacked
  <2> QED
    BY <2>5
<1>10. stack' \in Stacks
  BY <1>3, <1>4, <1>5 DEF Stacks
<1>11. /\ Live' = Live \union b /\ t \notin Created(fs) /\ t \in Live
       /\ \A u \in Ids : u \notin Created(fs) => stack'[u] = stack[u] /\ (u # t => status'[u] = status[u])
  BY CreationLive DEF b, Live
<1>12. \A u \in Ids : stack'[u] # <<>> <=> u \in Live'
  BY <1>4, <1>11 DEF IInv, FramesOwned
<1>13. finished' = {u \in Ids : status'[u] = "done"}
  <2>1. finished' = finished \union (Created(fs) \ b)
    BY DEF Creation, CreateThreads, Created, Running, b
  <2>2. \A u \in Created(fs) : u \in Ids /\ status'[u] = IF u \in b THEN "run" ELSE "done"
    BY <1>11 DEF Creation, b, Created
  <2>3. status'[t] # "done"
    BY DEF Creation
  <2>4. finished = {u \in Ids : status[u] = "done"}
    BY DEF IInv, FramesOwned
  <2>5. \A u \in Created(fs) : status[u] = "absent"
    BY <1>1, CreatedFresh
  <2> QED
    BY <1>11, <2>1, <2>2, <2>3, <2>4, <2>5
<1>14. FramesOwned'
  BY <1>9, <1>12, <1>13 DEF FramesOwned, Owned
<1>15. CallsReturn'
  <2> SUFFICES ASSUME NEW u \in Ids, NEW i \in DOMAIN stack'[u], i > 1
               PROVE  frame'[stack'[u][i]].ret.pc # 0
    BY DEF CallsReturn
  <2>1. u \notin b
    BY <1>4
  <2>2. stack'[u] = stack[u] /\ i \in DOMAIN stack[u]
    BY <1>4, <2>1
  <2>3. stack[u][i] \in Ids /\ frame[stack[u][i]] # NoFrame
    BY <1>3, <2>2 DEF Stacks, Owned
  <2>4. \A v \in b : stack[u][i] # fo[v]
    BY <1>6, <2>3
  <2> QED
    BY <1>1, <1>7, <2>2, <2>3, <2>4 DEF Similar, IInv, CallsReturn
<1> QED
  BY <1>7, <1>10, <1>14, <1>15

(* Creating threads keeps the invariant when it keeps the scopes. *)
LEMMA CreationKeeps ==
  ASSUME IInv, NEW t \in Ids, status[t] = "run", NEW fs \in Seq(Functions),
         NEW p \in Ids \union {None}, NEW g, Creation(t, fs, p, g),
         children' \in [Ids -> [Ids -> Ids \union {None}]],
         reached' \subseteq Functions \X (Nat \ {0}),
         scope' \in [Ids -> ScopeState \union {NoScope}],
         scopesDone' \subseteq Functions \X (Nat \ {0}),
         \A x \in Ids : x >= next'.scope => scope'[x] = NoScope,
         ScopesExact'
  PROVE  IInv'
<1>1. FramesOwned' /\ CallsReturn' /\ stack' \in Stacks /\ frame' \in FrameStore
  BY CreationFrames
<1>2. /\ t \notin Created(fs) /\ Created(fs) \cap Live = {} /\ Running(fs) \subseteq Created(fs)
      /\ \A u \in Ids : u \notin Created(fs) =>
              /\ stack'[u] = stack[u] /\ parent'[u] = parent[u]
              /\ u # t => status'[u] = status[u] /\ on'[u] = on[u]
      /\ \A u \in Created(fs) : u < next'.thread /\ status[u] = "absent"
  <2>1. HasRoom(fs) /\ next'.thread = next.thread + Len(fs)
    BY DEF Creation, CreateThreads
  <2>2. /\ Running(fs) \subseteq Created(fs)
        /\ \A u \in Created(fs) : u < next.thread + Len(fs) /\ status[u] = "absent"
    BY <2>1, CreatedFresh
  <2>3. /\ t \notin Created(fs) /\ Created(fs) \cap Live = {}
        /\ \A u \in Ids : u \notin Created(fs) =>
              /\ stack'[u] = stack[u] /\ parent'[u] = parent[u]
              /\ u # t => status'[u] = status[u] /\ on'[u] = on[u]
    BY CreationLive
  <2> QED
    BY <2>1, <2>2, <2>3
<1>3. \A u \in Ids : u \in Created(fs) =>
         /\ status'[u] \in {"run", "done"} /\ parent'[u] = p
  BY <1>2 DEF Creation, CreateThreads, Created
<1>4. /\ prog' = prog /\ shared' = shared /\ UNCHANGED syncVars /\ UNCHANGED chanVars
      /\ status' \in [Ids -> Status] /\ on' \in [Ids -> Reason]
      /\ next' \in [thread : Nat \ {0}, frame : Nat \ {0}, scope : Nat \ {0}, handle : Nat \ {0}]
      /\ next.thread <= next'.thread /\ next.frame <= next'.frame
      /\ next.scope <= next'.scope /\ p < next'.scope
      /\ status'[t] \in {"run", "scope"}
  <2>1. HasRoom(fs)
    BY DEF Creation, CreateThreads
  <2>2. Cardinality(Born(fs)) \in Nat
    BY <2>1, FramesFor
  <2>3. Len(fs) \in Nat /\ next.thread \in Nat /\ next.frame \in Nat
    BY DEF IInv, TypeOK
  <2> QED
    BY <2>2, <2>3 DEF Creation, OnlyThreads
<1>5. WaitQueuesExact'
  <2>1. \A u \in Ids : \/ status'[u] = status[u] /\ on'[u] = on[u]
                       \/ /\ status[u] \notin {"send", "recv", "wait", "acquire"}
                          /\ status'[u] \notin {"send", "recv", "wait", "acquire"}
    BY <1>2, <1>3, <1>4
  <2> QED
    BY <1>4, <2>1, QueuesKept DEF IInv, syncVars, chanVars
<1>6. Fresh'
  <2>1. /\ next.thread \in Int /\ next'.thread \in Int /\ next.frame \in Int /\ next'.frame \in Int
        /\ next.scope \in Int /\ next'.scope \in Int /\ None \in Int /\ Ids \subseteq Int
    BY <1>4, LimitsAssumption DEF IInv, TypeOK, Ids, None
  <2>2. \A u \in Ids : u >= next'.thread => status'[u] = "absent"
    <3>1. ASSUME NEW u \in Ids, u >= next'.thread
          PROVE  status'[u] = "absent"
      <4>1. u \notin Created(fs)
        BY <1>2, <2>1, <3>1
      <4>2. status[u] = "absent"
        BY <1>4, <2>1, <3>1 DEF IInv, Fresh
      <4> QED
        BY <1>2, <4>1, <4>2
    <3> QED
      BY <3>1
  <2>3. \A f \in Ids : f >= next'.frame => frame'[f] = NoFrame
    <3>1. ASSUME NEW f \in Ids, f >= next'.frame
          PROVE  frame'[f] = NoFrame
      <4>1. HasRoom(fs) /\ Similar(g, frame) /\ frame' = WithNewFrames(fs, g)
            /\ next'.frame = next.frame + Cardinality(Born(fs))
        BY DEF Creation, CreateThreads
      <4>2. \A i \in Born(fs) : FrameOf(fs, i) \in Int /\ FrameOf(fs, i) < next'.frame
        <5>1. \A i \in Born(fs) : FrameOf(fs, i) \in Ids /\ FrameOf(fs, i) < next.frame + Cardinality(Born(fs))
          BY <4>1, FramesFor
        <5>2. ASSUME NEW i \in Born(fs)
              PROVE  FrameOf(fs, i) \in Int /\ FrameOf(fs, i) < next'.frame
          <6>1. next'.frame = next.frame + Cardinality(Born(fs))
            BY <4>1
          <6>2. FrameOf(fs, i) < next'.frame
            BY ONLY <5>1, <5>2, <6>1, Zenon
          <6>3. FrameOf(fs, i) \in Int
            BY <5>1, <5>2, <2>1
          <6> QED
            BY <6>2, <6>3
        <5> QED
          BY ONLY <5>2, Zenon
      <4>3. frame'[f] = g[f]
        BY <2>1, <3>1, <4>1, <4>2, NewFrames
      <4>4. frame[f] = NoFrame
        BY <1>4, <2>1, <3>1 DEF IInv, Fresh
      <4> QED
        BY <4>1, <4>3, <4>4 DEF Similar
    <3> QED
      BY <3>1
  <2>4. \A u \in Ids : status'[u] # "absent" => parent'[u] < next'.scope
    <3>1. ASSUME NEW u \in Ids, status'[u] # "absent"
          PROVE  parent'[u] < next'.scope
      <4>1. CASE u \in Created(fs)
        BY <1>3, <1>4, <4>1
      <4>2. CASE u \notin Created(fs)
        <5>1. parent'[u] = parent[u] /\ status[u] # "absent"
          BY <1>2, <3>1, <4>2
        <5>2. parent[u] < next.scope /\ parent[u] \in Int
          BY <2>1, <5>1 DEF IInv, Fresh, TypeOK
        <5> QED
          BY <1>4, <2>1, <5>1, <5>2
      <4> QED
        BY <4>1, <4>2
    <3> QED
      BY <3>1
  <2>5. \A k \in Mutexes : mutex'[k] < next'.thread
    <3>1. mutex' = mutex /\ \A k \in Mutexes : mutex[k] < next.thread /\ mutex[k] \in Int
      BY <1>4, <2>1 DEF syncVars, IInv, Fresh, TypeOK
    <3> QED
      BY <1>4, <2>1, <3>1
  <2> QED
    BY <2>2, <2>3, <2>4, <2>5 DEF Fresh
<1>7. parent' \in [Ids -> Ids \union {None}]
  <2>1. parent' = [u \in Ids |-> IF Nth(u) \in DOMAIN fs THEN p ELSE parent[u]]
    BY DEF Creation, CreateThreads
  <2> QED
    BY <2>1 DEF IInv, TypeOK
<1>8. completed' \in [Functions -> Nat]
  <2>1. completed' = [f \in Functions |-> IF f \notin Nobody THEN completed[f]
                        ELSE Completed(f, Cardinality({i \in DOMAIN fs : fs[i] = f}))]
    BY DEF Creation, CreateThreads
  <2>2. \A f : Cardinality({i \in DOMAIN fs : fs[i] = f}) \in Nat
    <3>1. ASSUME NEW f
          PROVE  Cardinality({i \in DOMAIN fs : fs[i] = f}) \in Nat
      <4> DEFINE d == {i \in DOMAIN fs : fs[i] = f}
                 n == Len(fs)
      <4>1. d \in SUBSET (1..n) /\ n \in Int /\ 1 \in Int
        OBVIOUS
      <4> HIDE DEF d, n
      <4>2. IsFiniteSet(1..n)
        BY <4>1, FS_Interval
      <4>3. IsFiniteSet(d)
        BY ONLY <4>1, <4>2, FS_Subset
      <4>4. Cardinality(d) \in Nat
        BY <4>3, FS_CardinalityType
      <4> QED
        BY <4>4 DEF d
    <3> QED
      BY <3>1
  <2>3. \A f \in Functions : Completed(f, Cardinality({i \in DOMAIN fs : fs[i] = f})) \in Nat
    BY <2>2, CompletedTyped DEF IInv
  <2> QED
    BY <2>1, <2>3 DEF IInv, TypeOK
<1>9. finished' \subseteq Ids
  BY <1>1 DEF FramesOwned
<1>10. TypeOK'
  BY <1>1, <1>4, <1>7, <1>8, <1>9 DEF IInv, TypeOK, Stacks, FrameStore, syncVars, chanVars
<1> QED
  BY <1>1, <1>5, <1>6, <1>10 DEF IInv

(* The scopes that were open keep their members and their owners. *)
LEMMA OpenScopes ==
  ASSUME IInv, NEW t \in Ids, status[t] = "run", NEW fs \in Seq(Functions),
         NEW p \in Ids \union {None}, NEW g, Creation(t, fs, p, g)
  PROVE  \A x \in Ids : scope[x] # NoScope /\ x # p =>
           /\ scope[x].remaining = Members(x)' \cap Live' /\ scope[x].remaining # {}
           /\ status'[scope[x].owner] = "scope" /\ on'[scope[x].owner] = x
           /\ stack'[scope[x].owner][Len(stack'[scope[x].owner])] = scope[x].frame
<1> SUFFICES ASSUME NEW x \in Ids, scope[x] # NoScope, x # p
             PROVE  /\ scope[x].remaining = Members(x)' \cap Live' /\ scope[x].remaining # {}
                    /\ status'[scope[x].owner] = "scope" /\ on'[scope[x].owner] = x
                    /\ stack'[scope[x].owner][Len(stack'[scope[x].owner])] = scope[x].frame
  OBVIOUS
<1> DEFINE o == scope[x].owner
<1>1. o \in Ids
  BY DEF IInv, TypeOK, ScopeState
<1>2. /\ scope[x].remaining = Members(x) \cap Live /\ scope[x].remaining # {}
      /\ status[o] = "scope" /\ on[o] = x /\ Top(o) = scope[x].frame
  BY DEF IInv, ScopesExact
<1>3. /\ Live' = Live \union Running(fs)
      /\ \A y : y # p => Members(y)' = Members(y)
      /\ Created(fs) \cap Live = {}
      /\ \A u \in Ids : u \notin Created(fs) =>
           /\ stack'[u] = stack[u] /\ parent'[u] = parent[u]
           /\ u # t => status'[u] = status[u] /\ on'[u] = on[u]
  BY CreationLive
<1>7. Members(x)' = Members(x)
  BY <1>3
<1>4. Running(fs) \subseteq Created(fs) /\ \A u \in Created(fs) : status[u] = "absent"
  BY CreatedFresh DEF Creation, CreateThreads
<1>5. Members(x) \cap Running(fs) = {}
  BY <1>4 DEF Members
<1>6. o # t /\ o \notin Created(fs)
  BY <1>2, <1>4
<1> QED
  BY <1>1, <1>2, <1>3, <1>5, <1>6, <1>7 DEF Top

(* Spawn keeps the invariant. *)
LEMMA SpawnKeeps ==
  ASSUME IInv, NEW t \in Ids, Spawn(t)
  PROVE  IInv'
<1> DEFINE o == Op(t)
           fs == <<o.f>>
           h == next.handle
           x == [Fr(t) EXCEPT !.handles[o.h] = h, !.pc = @ + 1]
           g == [frame EXCEPT ![Top(t)] = x]
<1>1. /\ AtStatement(t) /\ status[t] = "run" /\ stack[t] # <<>> /\ Reach(t)
      /\ o.f \in Functions /\ o.h \in HandleNames
  BY Executing, OpFields DEF Spawn, Executes
<1>2. fs \in Seq(Functions) /\ Len(fs) = 1
  BY <1>1
<1>3. /\ h \in Ids /\ CreateThreads(fs, None) /\ status' = BornStatus(fs)
      /\ children' = [children EXCEPT ![t][h] = next.thread]
      /\ frame' = WithNewFrames(fs, [frame EXCEPT ![Top(t)].handles[o.h] = h, ![Top(t)].pc = @ + 1])
      /\ next' = [next EXCEPT !.thread = @ + 1, !.handle = @ + 1,
                              !.frame = @ + Cardinality(Born(fs))]
      /\ UNCHANGED <<on, scope, scopesDone>> /\ OnlyThreads
  BY DEF Spawn
<1>4. HasRoom(fs)
  BY <1>3 DEF CreateThreads
<1>5. /\ Similar(g, frame)
      /\ [frame EXCEPT ![Top(t)].handles[o.h] = h, ![Top(t)].pc = @ + 1] = g
  <2>1. /\ frame \in FrameStore /\ Top(t) \in Ids /\ frame[Top(t)] # NoFrame
        /\ Fr(t) \in FrameState /\ Fr(t) = frame[Top(t)]
    BY <1>1, TopAllocated DEF IInv, TypeOK, FrameStore, Fr
  <2> DEFINE hs == [Fr(t).handles EXCEPT ![o.h] = h]
             y == [Fr(t) EXCEPT !.handles = hs]
  <2>2. hs \in [HandleNames -> Ids \union {None}]
    BY <1>3, <2>1 DEF FrameState
  <2>3. y \in FrameState /\ y.ret = Fr(t).ret
    <3> HIDE DEF hs
    <3> QED
      BY <2>1, <2>2 DEF FrameState
  <2>4. [y EXCEPT !.pc = @ + 1] \in FrameState /\ [y EXCEPT !.pc = @ + 1].ret = y.ret
    <3> HIDE DEF y
    <3> QED
      BY <2>3 DEF FrameState
  <2>5. x = [y EXCEPT !.pc = @ + 1]
    BY <2>1 DEF FrameState
  <2>6. x \in FrameState /\ x.ret = frame[Top(t)].ret
    BY <2>1, <2>3, <2>4, <2>5
  <2>7. [frame EXCEPT ![Top(t)].handles[o.h] = h, ![Top(t)].pc = @ + 1] = g
    BY <2>1 DEF FrameStore
  <2>8. Similar(g, frame)
    <3> HIDE DEF x
    <3> QED
      BY <2>1, <2>6, SimilarReplace
  <2> QED
    BY <2>7, <2>8
<1>6. t \notin Created(fs) /\ next.thread \in Ids
  <2>1. \A u \in Created(fs) : status[u] = "absent"
    BY <1>2, <1>4, CreatedFresh
  <2>2. next.thread + 1 - 1 <= MaxId /\ next.thread \in Nat \ {0}
    BY <1>2, <1>4 DEF HasRoom, IInv, TypeOK
  <2>3. next.thread \in Ids
    BY <2>2, LimitsAssumption DEF Ids
  <2> QED
    BY <1>1, <2>1, <2>3
<1>7. Cardinality(Born(fs)) \in Nat
  BY <1>2, <1>4, FramesFor
<1>8. /\ next' \in [thread : Nat \ {0}, frame : Nat \ {0}, scope : Nat \ {0}, handle : Nat \ {0}]
      /\ next'.thread = next.thread + Len(fs) /\ next'.frame = next.frame + Cardinality(Born(fs))
      /\ next.scope <= next'.scope /\ None < next'.scope
  <2> DEFINE n == Cardinality(Born(fs))
  <2>1. next \in [thread : Nat \ {0}, frame : Nat \ {0}, scope : Nat \ {0}, handle : Nat \ {0}]
    BY DEF IInv, TypeOK
  <2>2. n \in Nat /\ next' = [next EXCEPT !.thread = @ + 1, !.handle = @ + 1, !.frame = @ + n]
    BY <1>3, <1>7
  <2> HIDE DEF n
  <2>3. next' = [thread |-> next.thread + 1, frame |-> next.frame + n,
                 scope |-> next.scope, handle |-> next.handle + 1]
    BY <2>1, <2>2
  <2>4. /\ next' \in [thread : Nat \ {0}, frame : Nat \ {0}, scope : Nat \ {0}, handle : Nat \ {0}]
        /\ next'.thread = next.thread + 1 /\ next'.frame = next.frame + n
        /\ next.scope <= next'.scope /\ None < next'.scope
    BY <2>1, <2>2, <2>3 DEF None
  <2> QED
    BY <1>2, <2>4 DEF n
<1>9. status' \in [Ids -> Status] /\ on' \in [Ids -> Reason]
  BY <1>3 DEF BornStatus, IInv, TypeOK, Status
<1>10. /\ \A u \in Ids : status'[u] = IF u \in Running(fs) THEN "run"
                        ELSE IF u \in Created(fs) THEN "done" ELSE status[u]
  BY <1>3 DEF BornStatus, Running, Created
<1>11. status'[t] = "run"
  <2>1. t \notin Running(fs)
    BY <1>2, <1>4, <1>6, CreatedFresh
  <2> QED
    BY <1>1, <1>6, <1>10, <2>1
<1>12. Creation(t, fs, None, g)
  BY <1>3, <1>5, <1>8, <1>9, <1>10, <1>11 DEF Creation
<1> HIDE DEF g, fs
<1>13. ScopesExact'
  <2>1. scope' = scope /\ None \notin Ids /\ None \in Ids \union {None}
    BY <1>3, LimitsAssumption DEF Ids, None
  <2>2. \A sc \in Ids : scope[sc] # NoScope /\ sc # None =>
          /\ scope[sc].remaining = Members(sc)' \cap Live' /\ scope[sc].remaining # {}
          /\ status'[scope[sc].owner] = "scope" /\ on'[scope[sc].owner] = sc
          /\ stack'[scope[sc].owner][Len(stack'[scope[sc].owner])] = scope[sc].frame
    BY <1>1, <1>2, <1>12, <2>1, OpenScopes
  <2> QED
    BY <2>1, <2>2 DEF ScopesExact, Top
<1>14. children' \in [Ids -> [Ids -> Ids \union {None}]]
  BY <1>3, <1>6 DEF IInv, TypeOK
<1>15. reached' \subseteq Functions \X (Nat \ {0})
  BY <1>1, ReachTyped
<1>16. /\ scope' \in [Ids -> ScopeState \union {NoScope}]
       /\ scopesDone' \subseteq Functions \X (Nat \ {0})
       /\ \A s \in Ids : s >= next'.scope => scope'[s] = NoScope
  <2>1. next'.scope = next.scope
    BY <1>3 DEF IInv, TypeOK
  <2> QED
    BY <1>3, <2>1 DEF IInv, TypeOK, Fresh
<1>17. None \in Ids \union {None}
  OBVIOUS
<1> QED
  BY <1>1, <1>2, <1>12, <1>13, <1>14, <1>15, <1>16, <1>17, CreationKeeps

(* ScopeStart keeps the invariant, whether the scope completes at once or its
   owner blocks. *)
LEMMA ScopeStartKeeps ==
  ASSUME IInv, NEW t \in Ids, ScopeStart(t)
  PROVE  IInv'
<1> DEFINE fs == Op(t).fs
           n == Cardinality(Born(fs))
<1>1. /\ AtStatement(t) /\ status[t] = "run" /\ stack[t] # <<>> /\ Reach(t)
      /\ fs \in Seq(Functions)
  BY Executing, OpFields DEF ScopeStart, Executes
<1>s. PICK s \in Ids : s = next.scope
  BY DEF ScopeStart
<1>2. /\ CreateThreads(fs, s) /\ s \in Ids /\ children' = children /\ OnlyThreads
      /\ next' = [next EXCEPT !.thread = @ + Len(fs), !.scope = @ + 1, !.frame = @ + n]
      /\ \/ /\ Running(fs) = {}
            /\ scopesDone' = scopesDone \union {<<Fr(t).fn, Fr(t).pc>>}
            /\ status' = BornStatus(fs)
            /\ frame' = Advance(frame, {t})
            /\ UNCHANGED <<on, scope>>
         \/ /\ Running(fs) # {}
            /\ scope' = [scope EXCEPT ![s] =
                 [owner |-> t, frame |-> Top(t), remaining |-> Running(fs)]]
            /\ status' = [BornStatus(fs) EXCEPT ![t] = "scope"]
            /\ on' = [on EXCEPT ![t] = s]
            /\ frame' = WithNewFrames(fs, frame)
            /\ UNCHANGED scopesDone
  BY <1>s DEF ScopeStart, Running
<1>3. HasRoom(fs)
  BY <1>2 DEF CreateThreads
<1>4. /\ t \notin Created(fs) /\ Running(fs) \subseteq Created(fs)
      /\ \A i \in DOMAIN fs : \E u \in Created(fs) : Nth(u) = i
  BY <1>1, <1>3, CreatedFresh
<1>5. n \in Nat
  BY <1>1, <1>3, FramesFor
<1>6. /\ next' \in [thread : Nat \ {0}, frame : Nat \ {0}, scope : Nat \ {0}, handle : Nat \ {0}]
      /\ next'.thread = next.thread + Len(fs) /\ next'.frame = next.frame + n
      /\ next'.scope = s + 1 /\ next.scope <= next'.scope /\ s < next'.scope
  <2> DEFINE k == Len(fs)
  <2>1. next \in [thread : Nat \ {0}, frame : Nat \ {0}, scope : Nat \ {0}, handle : Nat \ {0}]
    BY DEF IInv, TypeOK
  <2>2. k \in Nat /\ next' = [next EXCEPT !.thread = @ + k, !.scope = @ + 1, !.frame = @ + n]
    BY <1>1, <1>2
  <2> HIDE DEF n, k
  <2>3. next' = [thread |-> next.thread + k, frame |-> next.frame + n,
                 scope |-> next.scope + 1, handle |-> next.handle]
    BY <2>1, <2>2
  <2>4. /\ next' \in [thread : Nat \ {0}, frame : Nat \ {0}, scope : Nat \ {0}, handle : Nat \ {0}]
        /\ next'.thread = next.thread + k /\ next'.frame = next.frame + n
        /\ next'.scope = s + 1 /\ next.scope <= next'.scope /\ s < next'.scope
    BY <1>s, <1>5, <2>1, <2>2, <2>3
  <2> QED
    BY <2>4 DEF k
<1>7. frame \in FrameStore /\ Similar(frame, frame)
  BY SimilarSelf DEF IInv, TypeOK, FrameStore
<1>8. BornStatus(fs) \in [Ids -> Status]
      /\ \A u \in Ids : BornStatus(fs)[u] = IF u \in Running(fs) THEN "run"
                              ELSE IF u \in Created(fs) THEN "done" ELSE status[u]
  BY DEF BornStatus, IInv, TypeOK, Status, Running, Created
<1>9. BornStatus(fs)[t] = "run"
  BY <1>1, <1>4, <1>8
<1>10. scope[s] = NoScope /\ Members(s) = {}
  <2>1. s \in Int
    BY <1>2, LimitsAssumption DEF Ids
  <2>2. scope[s] = NoScope
    BY <1>s, <2>1 DEF IInv, Fresh
  <2>3. \A u \in Ids : status[u] # "absent" => parent[u] # s
    BY <1>s, <2>1 DEF IInv, Fresh, TypeOK
  <2> QED
    BY <2>2, <2>3 DEF Members
<1>11. reached' \subseteq Functions \X (Nat \ {0})
  BY <1>1, ReachTyped
<1>12. children' \in [Ids -> [Ids -> Ids \union {None}]]
  BY <1>2 DEF IInv, TypeOK
<1>13. \A x \in Ids : x >= next'.scope => scope[x] = NoScope /\ x # s
  <2>1. \A x \in Ids : x \in Int
    BY LimitsAssumption DEF Ids
  <2>2. s \in Int
    BY <1>2, <2>1
  <2>3. \A x \in Ids : x >= next'.scope => x >= s /\ x # s
    BY <1>6, <2>1, <2>2
  <2> QED
    BY <1>s, <2>3 DEF IInv, Fresh
<1>14. <<Fr(t).fn, Fr(t).pc>> \in Functions \X (Nat \ {0})
  BY <1>1, Executing
<1> HIDE DEF fs, n
<1>15. CASE /\ Running(fs) = {}
            /\ scopesDone' = scopesDone \union {<<Fr(t).fn, Fr(t).pc>>}
            /\ status' = BornStatus(fs)
            /\ frame' = Advance(frame, {t})
            /\ UNCHANGED <<on, scope>>
  <2> DEFINE g == Advance(frame, {t})
  <2>1. Similar(g, frame)
    BY <1>1, AdvanceStep DEF IInv
  <2>2. Born(fs) = {}
    <3>1. Born(fs) \subseteq DOMAIN fs
      BY <1>1 DEF Born
    <3>2. \A u \in Created(fs) : u \in Ids /\ Nth(u) \notin Born(fs)
      BY <1>15 DEF Running, Created
    <3> QED
      BY <1>4, <3>1, <3>2
  <2>3. frame' = WithNewFrames(fs, g)
    <3>1. WithNewFrames(fs, g) = [f \in Ids |-> g[f]]
      BY <2>2 DEF WithNewFrames
    <3>2. g = [f \in Ids |-> g[f]]
      BY <2>1 DEF Similar, FrameStore
    <3> QED
      BY <1>15, <3>1, <3>2
  <2>4. status' \in [Ids -> Status] /\ on' \in [Ids -> Reason]
    BY <1>8, <1>15 DEF IInv, TypeOK
  <2>5. Creation(t, fs, s, g)
    <3> HIDE DEF g
    <3> QED
      BY <1>2, <1>6, <1>8, <1>9, <1>15, <2>1, <2>3, <2>4 DEF Creation, n
  <2> HIDE DEF g
  <2>6. ScopesExact'
    <3>1. scope' = scope /\ s \in Ids \union {None}
      BY <1>2, <1>15
    <3>2. \A x \in Ids : scope[x] # NoScope /\ x # s =>
            /\ scope[x].remaining = Members(x)' \cap Live' /\ scope[x].remaining # {}
            /\ status'[scope[x].owner] = "scope" /\ on'[scope[x].owner] = x
            /\ stack'[scope[x].owner][Len(stack'[scope[x].owner])] = scope[x].frame
      BY <1>1, <2>5, <3>1, OpenScopes
    <3> QED
      BY <1>10, <3>1, <3>2 DEF ScopesExact, Top
  <2>7. /\ scope' \in [Ids -> ScopeState \union {NoScope}]
        /\ scopesDone' \subseteq Functions \X (Nat \ {0})
        /\ \A x \in Ids : x >= next'.scope => scope'[x] = NoScope
    BY <1>13, <1>14, <1>15 DEF IInv, TypeOK
  <2>8. s \in Ids \union {None}
    BY <1>2
  <2> QED
    BY <1>1, <1>11, <1>12, <2>5, <2>6, <2>7, <2>8, CreationKeeps
<1>16. CASE /\ Running(fs) # {}
            /\ scope' = [scope EXCEPT ![s] =
                 [owner |-> t, frame |-> Top(t), remaining |-> Running(fs)]]
            /\ status' = [BornStatus(fs) EXCEPT ![t] = "scope"]
            /\ on' = [on EXCEPT ![t] = s]
            /\ frame' = WithNewFrames(fs, frame)
            /\ UNCHANGED scopesDone
  <2> DEFINE sc == [owner |-> t, frame |-> Top(t), remaining |-> Running(fs)]
  <2>1. sc \in ScopeState
    <3>1. Top(t) \in Ids /\ Running(fs) \subseteq Ids
      BY <1>1, TopAllocated DEF IInv, Running
    <3> QED
      BY <3>1 DEF ScopeState
  <2>2. /\ scope'[s] = sc
        /\ \A x \in Ids : x # s => scope'[x] = scope[x]
        /\ scope' \in [Ids -> ScopeState \union {NoScope}]
    <3> HIDE DEF sc
    <3>1. scope' = [scope EXCEPT ![s] = sc]
      BY <1>16 DEF sc
    <3> QED
      BY <1>2, <2>1, <3>1 DEF IInv, TypeOK
  <2>3. /\ status' \in [Ids -> Status] /\ on' \in [Ids -> Reason]
        /\ status'[t] = "scope" /\ on'[t] = s
        /\ \A u \in Ids : u # t => status'[u] = BornStatus(fs)[u] /\ on'[u] = on[u]
    BY <1>2, <1>8, <1>16 DEF IInv, TypeOK, Status, Blocking, Reason
  <2>4. Creation(t, fs, s, frame)
    BY <1>2, <1>6, <1>7, <1>8, <1>16, <2>3 DEF Creation, n
  <2>5. s \in Ids \union {None}
    BY <1>2
  <2>6. /\ Live' = Live \union Running(fs) /\ Members(s)' = Members(s) \union Created(fs)
        /\ Created(fs) \cap Live = {}
        /\ stack'[t] = stack[t]
    BY <1>1, <1>4, <2>4, <2>5, CreationLive
  <2>7. Running(fs) = Members(s)' \cap Live'
    BY <1>4, <1>10, <2>6
  <2>8. ScopesExact'
    <3>1. \A x \in Ids : scope[x] # NoScope /\ x # s =>
            /\ scope[x].remaining = Members(x)' \cap Live' /\ scope[x].remaining # {}
            /\ status'[scope[x].owner] = "scope" /\ on'[scope[x].owner] = x
            /\ stack'[scope[x].owner][Len(stack'[scope[x].owner])] = scope[x].frame
      BY <1>1, <2>4, <2>5, OpenScopes
    <3>2. \A x \in Ids : scope'[x] # NoScope /\ x # s =>
            /\ scope'[x].remaining = Members(x)' \cap Live' /\ scope'[x].remaining # {}
            /\ status'[scope'[x].owner] = "scope" /\ on'[scope'[x].owner] = x
            /\ stack'[scope'[x].owner][Len(stack'[scope'[x].owner])] = scope'[x].frame
      BY <2>2, <3>1
    <3>3. /\ scope'[s].owner = t /\ scope'[s].frame = Top(t)
          /\ scope'[s].remaining = Running(fs)
      BY <2>2
    <3>4. stack'[t][Len(stack'[t])] = Top(t)
      BY <2>6 DEF Top
    <3>5. ASSUME NEW x \in Ids, x = s
          PROVE  /\ scope'[x].remaining = Members(x)' \cap Live' /\ scope'[x].remaining # {}
                 /\ status'[scope'[x].owner] = "scope" /\ on'[scope'[x].owner] = x
                 /\ stack'[scope'[x].owner][Len(stack'[scope'[x].owner])] = scope'[x].frame
      <4>1. Members(x)' = Created(fs)
        BY SMTT(60), <1>1, <1>10, <2>4, <2>5, <3>5, CreationLive
      <4> QED
        BY <1>4, <1>16, <2>3, <2>6, <3>3, <3>4, <3>5, <4>1
    <3> QED
      BY <3>2, <3>5 DEF ScopesExact, Top
  <2>9. /\ scopesDone' \subseteq Functions \X (Nat \ {0})
        /\ \A x \in Ids : x >= next'.scope => scope'[x] = NoScope
    BY <1>13, <1>16, <2>2 DEF IInv, TypeOK
  <2> QED
    BY <1>1, <1>11, <1>12, <2>2, <2>4, <2>5, <2>8, <2>9, CreationKeeps
<1> QED
  BY <1>2, <1>15, <1>16 DEF n

(* Joining a finished child reclaims it; otherwise the thread blocks. *)
LEMMA JoinFinishedKeeps ==
  ASSUME IInv, NEW t \in Ids, Join(t), NEW h, NEW c, JoinFinished(t, h, c)
  PROVE  IInv'
<1>1. /\ AtStatement(t) /\ status[t] = "run" /\ stack[t] # <<>> /\ Reach(t)
      /\ scope' = scope /\ scopesDone' = scopesDone /\ next' = next /\ completed' = completed
      /\ prog' = prog /\ shared' = shared /\ UNCHANGED syncVars /\ UNCHANGED chanVars
  BY Executing DEF Join, Executes, OnlyThreads
<1>2. /\ c \in finished /\ on' = on /\ stack' = stack
      /\ frame' = [frame EXCEPT ![Top(t)] = AfterJoin(@, Op(t).h)]
      /\ children' = [children EXCEPT ![t][h] = None, ![c] = [x \in Ids |-> None]]
      /\ status' = [status EXCEPT ![c] = "absent"]
      /\ parent' = [parent EXCEPT ![c] = None]
      /\ finished' = finished \ {c}
  BY DEF JoinFinished
<1>3. /\ c \in Ids /\ status[c] = "done" /\ finished = {u \in Ids : status[u] = "done"}
      /\ status \in [Ids -> Status] /\ parent \in [Ids -> Ids \union {None}]
  BY <1>2 DEF IInv, TypeOK, FramesOwned
<1>4. /\ status' \in [Ids -> Status] /\ parent' \in [Ids -> Ids \union {None}]
      /\ \A u \in Ids : u # c => status'[u] = status[u] /\ parent'[u] = parent[u]
      /\ status'[c] = "absent"
  BY <1>2, <1>3 DEF Status
<1>5. Live' = Live /\ \A x : x # None => Members(x)' = Members(x) \ {c}
  BY <1>3, <1>4 DEF Live, Members
<1>6. Similar(frame', frame)
  <2>1. /\ frame \in FrameStore /\ Top(t) \in Ids /\ frame[Top(t)] # NoFrame
        /\ Fr(t) \in FrameState /\ Fr(t) = frame[Top(t)]
    BY <1>1, TopAllocated DEF IInv, TypeOK, FrameStore, Fr
  <2> DEFINE x == AfterJoin(Fr(t), Op(t).h)
             hs == [Fr(t).handles EXCEPT ![Op(t).h] = None]
             y == [Fr(t) EXCEPT !.pc = @ + 1]
  <2>2. hs \in [HandleNames -> Ids \union {None}]
    BY <2>1 DEF FrameState
  <2>3. y \in FrameState /\ y.ret = Fr(t).ret
    BY <2>1 DEF FrameState
  <2>4. [y EXCEPT !.handles = hs] \in FrameState /\ [y EXCEPT !.handles = hs].ret = y.ret
    <3> HIDE DEF y, hs
    <3> QED
      BY <2>2, <2>3 DEF FrameState
  <2>5. x = [y EXCEPT !.handles = hs]
    BY <2>1 DEF FrameState, AfterJoin
  <2>6. x \in FrameState /\ x.ret = frame[Top(t)].ret
    BY <2>1, <2>3, <2>4, <2>5
  <2>7. frame' = [frame EXCEPT ![Top(t)] = x]
    BY <1>2, <2>1
  <2> HIDE DEF x
  <2> QED
    BY <2>1, <2>6, <2>7, SimilarReplace
<1>7. ScopesExact'
  <2>1. \A x \in Ids : scope[x] # NoScope =>
          /\ scope[x].remaining = Members(x)' \cap Live' /\ scope[x].remaining # {}
          /\ status'[scope[x].owner] = "scope" /\ on'[scope[x].owner] = x
          /\ stack'[scope[x].owner][Len(stack'[scope[x].owner])] = scope[x].frame
    <3> SUFFICES ASSUME NEW x \in Ids, scope[x] # NoScope
                 PROVE  /\ scope[x].remaining = Members(x)' \cap Live' /\ scope[x].remaining # {}
                        /\ status'[scope[x].owner] = "scope" /\ on'[scope[x].owner] = x
                        /\ stack'[scope[x].owner][Len(stack'[scope[x].owner])] = scope[x].frame
      OBVIOUS
    <3> DEFINE o == scope[x].owner
    <3>1. o \in Ids
      BY DEF IInv, TypeOK, ScopeState
    <3>2. /\ scope[x].remaining = Members(x) \cap Live /\ scope[x].remaining # {}
          /\ status[o] = "scope" /\ on[o] = x /\ Top(o) = scope[x].frame
      BY DEF IInv, ScopesExact
    <3>3. x # None /\ c \notin Live
      BY <1>3, LimitsAssumption DEF Ids, None, Live
    <3>4. Members(x)' \cap Live' = Members(x) \cap Live
      BY <1>5, <3>3
    <3> QED
      BY <1>2, <1>3, <1>4, <3>1, <3>2, <3>4 DEF Top
  <2> QED
    BY <1>1, <2>1 DEF ScopesExact, Top
<1>8. FramesOwned'
  <2>1. \A f \in Ids : frame'[f] = NoFrame <=> frame[f] = NoFrame
    BY <1>6 DEF Similar
  <2>2. finished' = {u \in Ids : status'[u] = "done"}
    BY <1>2, <1>3, <1>4
  <2> QED
    BY <1>2, <1>5, <2>1, <2>2 DEF IInv, FramesOwned
<1>9. CallsReturn'
  <2>1. \A u \in Ids : stack[u] \in Seq(Ids)
    BY DEF IInv, TypeOK
  <2>2. \A u \in Ids : \A i \in DOMAIN stack[u] :
          stack[u][i] \in Ids /\ frame[stack[u][i]] # NoFrame
    BY <2>1 DEF IInv, FramesOwned
  <2>3. \A f \in Ids : frame[f] # NoFrame => frame'[f].ret = frame[f].ret
    BY <1>6 DEF Similar
  <2> QED
    BY <1>2, <2>2, <2>3 DEF IInv, CallsReturn
<1>10. Fresh'
  <2>1. \A f \in Ids : frame'[f] = NoFrame <=> frame[f] = NoFrame
    BY <1>6 DEF Similar
  <2> QED
    BY <1>1, <1>4, <2>1 DEF IInv, Fresh, syncVars
<1>11. WaitQueuesExact'
  <2>1. \A u \in Ids : \/ status'[u] = status[u] /\ on'[u] = on[u]
                       \/ /\ status[u] \notin {"send", "recv", "wait", "acquire"}
                          /\ status'[u] \notin {"send", "recv", "wait", "acquire"}
    BY <1>2, <1>3, <1>4
  <2> QED
    BY <1>1, <2>1, QueuesKept DEF IInv, syncVars, chanVars
<1>12. children' \in [Ids -> [Ids -> Ids \union {None}]]
  BY <1>2 DEF IInv, TypeOK
<1>13. reached' \subseteq Functions \X (Nat \ {0}) /\ finished' \subseteq Ids
  BY <1>1, <1>2, ReachTyped DEF IInv, TypeOK
<1>14. TypeOK'
  BY <1>1, <1>2, <1>4, <1>6, <1>12, <1>13 DEF IInv, TypeOK, Similar, FrameStore, syncVars, chanVars
<1> QED
  BY <1>7, <1>8, <1>9, <1>10, <1>11, <1>14 DEF IInv

(* Join keeps the invariant, whether it reclaims the child or blocks. *)
LEMMA JoinKeeps ==
  ASSUME IInv, ~Faulted, NEW t \in Ids, Join(t)
  PROVE  IInv'
<1> DEFINE h == Fr(t).handles[Op(t).h]
           c == children[t][h]
<1>1. CASE JoinFinished(t, h, c)
  <2> HIDE DEF h, c
  <2> QED
    BY <1>1, JoinFinishedKeeps
<1>2. CASE JoinBlocks(t, h, c)
  <2>1. /\ AtStatement(t) /\ status[t] = "run" /\ stack[t] # <<>> /\ Reach(t)
        /\ Op(t).op = "join" /\ Op(t).h \in HandleNames
        /\ OnlyThreads /\ UNCHANGED <<scope, scopesDone, next, completed>>
        /\ Block(t, "join", h) /\ UNCHANGED <<frame, finished>>
    BY <1>2, Executing, OpFields DEF Join, Executes, JoinBlocks
  <2>2. h \in Ids
    <3>1. Fr(t) \in FrameState
      BY <2>1, TopAllocated DEF IInv
    <3>2. h \in Ids \union {None}
      BY <2>1, <3>1 DEF FrameState
    <3>3. h # None
      BY <2>1 DEF Faulted, Fails, OpFails
    <3> QED
      BY <3>2, <3>3
  <2> HIDE DEF h, c
  <2>3. /\ LiveStep /\ status' \in [Ids -> Status] /\ on' \in [Ids -> Reason]
        /\ stack' = stack /\ children' = children /\ parent' = parent
        /\ status'[t] = "join"
        /\ \A u \in Ids : u # t => status'[u] = status[u] /\ on'[u] = on[u]
    BY <2>1, <2>2, BlockStep DEF Blocking, Reason
  <2>4. LocalStep
    BY <2>1, <2>3, SimilarSelf DEF LocalStep, OnlyThreads, idVars, IInv, TypeOK, FrameStore
  <2>5. LocalTypes'
    BY <2>1, <2>3, LocalTypesHold, ReachTyped DEF OnlyThreads, syncVars, chanVars, LocalTypes
  <2>6. WaitQueuesExact'
    BY <2>1, <2>3, QueuesKept DEF OnlyThreads, syncVars, chanVars, IInv
  <2> QED
    BY <2>4, <2>5, <2>6, LocalStepKeeps
<1> QED
  BY <1>1, <1>2 DEF Join

(* A return keeps the invariant, from a call or from a thread. *)
LEMMA ReturnKeeps ==
  ASSUME IInv, NEW t \in Ids, Return(t) \/ ImplicitReturn(t)
  PROVE  IInv'
<1>1. CASE Return(t)
  <2> DEFINE v == IF Op(t).e = NoExpr THEN NoValue ELSE Value(t, Op(t).e)
  <2>1. /\ AtStatement(t) /\ status[t] = "run" /\ stack[t] # <<>> /\ Fr(t).fn \in Functions
        /\ ReturnAccepted(t, v) /\ Reach(t) /\ (PopFrame(t, v) \/ FinishThread(t))
    BY <1>1, Executing DEF Return, Executes
  <2>2. v = NoValue \/ v \in Values
    BY <2>1, DeclarationsAssumption DEF ReturnAccepted
  <2>3. reached' \subseteq Functions \X (Nat \ {0})
    BY <2>1, ReachTyped
  <2> HIDE DEF v
  <2> QED
    BY <2>1, <2>2, <2>3, PopFrameKeeps, FinishThreadKeeps
<1>2. CASE ImplicitReturn(t)
  BY <1>2, PopFrameKeeps, FinishThreadKeeps DEF ImplicitReturn, IInv, TypeOK
<1> QED
  BY <1>1, <1>2

(* Initially one thread runs the entry function, or has finished it. *)
LEMMA InitInv == Init => IInv
<1> SUFFICES ASSUME Init PROVE IInv
  OBVIOUS
<1> DEFINE born == Entry \in Nobody
<1>1. 1 \in Ids /\ None \notin Ids /\ Ids \subseteq Int
  BY LimitsAssumption DEF Ids, None
<1>2. Activation(Entry, NoReturn) \in FrameState
  BY FunctionsAssumption, DeclarationsAssumption
     DEF Activation, NoReturn, FrameState, RetAddr, Destinations
<1>3. Activation(Entry, NoReturn) # NoFrame
  BY <1>2, LimitsAssumption
<1>4. /\ \A t \in Ids : stack[t] = IF t = 1 /\ ~born THEN <<1>> ELSE <<>>
      /\ stack \in [Ids -> Seq(Ids)]
  BY <1>1 DEF Init
<1>5. /\ frame \in [Ids -> FrameState \union {NoFrame}]
      /\ \A f \in Ids : frame[f] # NoFrame <=> f = 1 /\ ~born
  BY <1>1, <1>2, <1>3 DEF Init
<1>6. /\ status \in [Ids -> Status]
      /\ \A t \in Ids : status[t] = IF t # 1 THEN "absent" ELSE IF born THEN "done" ELSE "run"
  BY DEF Init, Status
<1>7. next \in [thread : Nat \ {0}, frame : Nat \ {0}, scope : Nat \ {0}, handle : Nat \ {0}]
      /\ next.thread = 2 /\ next.frame = (IF born THEN 1 ELSE 2) /\ next.scope = 1
  BY DEF Init
<1>8. completed \in [Functions -> Nat]
  BY DEF Init
<1>9. TypeOK
  <2>1. /\ prog \in Programs /\ on \in [Ids -> Reason]
        /\ children \in [Ids -> [Ids -> Ids \union {None}]]
        /\ parent \in [Ids -> Ids \union {None}]
        /\ scope \in [Ids -> ScopeState \union {NoScope}]
        /\ finished \subseteq Ids
        /\ scopesDone \subseteq Functions \X (Nat \ {0})
        /\ reached \subseteq Functions \X (Nat \ {0})
    BY <1>1 DEF Init, Reason
  <2>2. /\ shared \in [Shared -> Values] /\ sem \in [Semaphores -> Int]
        /\ mutex \in [Mutexes -> Ids \union {None}]
    BY DeclarationsAssumption DEF Init
  <2>3. /\ semq \in [Semaphores -> SUBSET (Ids \X Int)]
        /\ cvq \in [Condvars -> SUBSET (Ids \X Mutexes)]
        /\ buf \in [Channels -> Seq(Values)]
        /\ sendq \in [Channels -> SUBSET (Ids \X Values)]
        /\ recvq \in [Channels -> SUBSET Ids]
    BY DEF Init
  <2> QED
    BY <1>4, <1>5, <1>6, <1>7, <1>8, <2>1, <2>2, <2>3 DEF TypeOK
<1>10. WaitQueuesExact
  <2>1. \A k \in Queued : \A r : Waiting(k, r) = {}
    BY <1>6 DEF Waiting, Queued
  <2>2. FunctionIn({})
    BY DEF FunctionIn
  <2> QED
    BY <2>1, <2>2 DEF Init, WaitQueuesExact, Queued
<1>11. ScopesExact
  BY DEF Init, ScopesExact
<1>12. \A t \in Ids : \A i \in DOMAIN stack[t] : t = 1 /\ ~born /\ i = 1 /\ stack[t][i] = 1
  <2> SUFFICES ASSUME NEW t \in Ids, NEW i \in DOMAIN stack[t]
               PROVE  t = 1 /\ ~born /\ i = 1 /\ stack[t][i] = 1
    OBVIOUS
  <2>1. CASE t = 1 /\ ~born
    <3>1. stack[t] = <<1>>
      BY <1>4, <2>1
    <3> QED
      BY <2>1, <3>1
  <2>2. CASE ~(t = 1 /\ ~born)
    <3>1. stack[t] = <<>>
      BY <1>4, <2>2
    <3> QED
      BY <3>1
  <2> QED
    BY <2>1, <2>2
<1>13. FramesOwned
  <2>1. ~born => 1 \in DOMAIN stack[1] /\ stack[1][1] = 1
    <3>1. ~born => stack[1] = <<1>>
      BY <1>1, <1>4
    <3> QED
      BY <3>1
  <2>2. \A f \in Ids : frame[f] # NoFrame <=> \E t \in Ids : \E i \in DOMAIN stack[t] : stack[t][i] = f
    BY <1>1, <1>5, <1>12, <2>1
  <2>3. \A t \in Ids : stack[t] # <<>> <=> t \in Live
    <3>1. \A t \in Ids : t \in Live <=> t = 1 /\ ~born
      BY <1>6 DEF Live
    <3>2. <<1>> # <<>>
      OBVIOUS
    <3> QED
      BY <1>4, <3>1, <3>2
  <2>4. finished = {t \in Ids : status[t] = "done"}
    BY <1>1, <1>6 DEF Init
  <2> QED
    BY <1>12, <2>2, <2>3, <2>4 DEF FramesOwned
<1>14. Fresh
  <2>1. \A t \in Ids : t >= next.thread => status[t] = "absent"
    BY <1>1, <1>6, <1>7
  <2>2. \A f \in Ids : f >= next.frame => frame[f] = NoFrame
    BY <1>1, <1>5, <1>7
  <2>3. /\ \A s \in Ids : scope[s] = NoScope
        /\ \A t \in Ids : parent[t] = None
        /\ \A k \in Mutexes : mutex[k] = None
    BY DEF Init
  <2> QED
    BY <1>7, <2>1, <2>2, <2>3 DEF Fresh, None
<1>15. CallsReturn
  BY <1>12 DEF CallsReturn
<1> QED
  BY <1>9, <1>10, <1>11, <1>13, <1>14, <1>15 DEF IInv

(* Every action keeps the invariant. *)
LEMMA StepKeeps ==
  ASSUME IInv, ~Faulted, NEW t \in Ids, Step(t)
  PROVE  IInv'
<1>1. CASE DataStep(t)
  BY <1>1, DataStepKeeps
<1>2. CASE ControlStep(t)
  BY <1>2, BranchesKeep, CallTransparentKeeps, CallBodyKeeps, ReturnKeeps DEF ControlStep
<1>3. CASE SyncStep(t)
  BY <1>3, SyncStepKeeps
<1>4. CASE ChannelStep(t)
  BY <1>4, ChannelSendKeeps, ChannelRecvKeeps DEF ChannelStep
<1>5. CASE ThreadStep(t)
  BY <1>5, SpawnKeeps, ScopeStartKeeps, JoinKeeps DEF ThreadStep
<1>6. CASE Resume(t)
  BY <1>6, ResumeLockKeeps, ResumeSemaphoreKeeps, ResumeSendKeeps, ResumeRecvKeeps DEF Resume
<1> QED
  BY <1>1, <1>2, <1>3, <1>4, <1>5, <1>6 DEF Step

-----------------------------------------------------------------------------
(* Theorems about the states *)

(* A step of the machine, or none, keeps the inductive invariant. *)
LEMMA NextInv == IInv /\ [Next]_vars => IInv'
<1> SUFFICES ASSUME IInv, [Next]_vars
             PROVE  IInv'
  OBVIOUS
<1>1. CASE Next
  BY <1>1, StepKeeps DEF Next
<1>2. CASE UNCHANGED vars
  <2>1. /\ Live' = Live /\ \A x : Members(x)' = Members(x)
        /\ \A x : Top(x)' = Top(x) /\ \A k, r : Waiting(k, r)' = Waiting(k, r)
    BY <1>2 DEF vars, threadVars, Live, Members, Top, Waiting
  <2>2. TypeOK'
    BY <1>2 DEF IInv, TypeOK, vars, threadVars, syncVars, chanVars, idVars
  <2>3. WaitQueuesExact' /\ ScopesExact'
    BY <1>2, <2>1 DEF IInv, WaitQueuesExact, ScopesExact, vars, threadVars, syncVars, chanVars, idVars
  <2>4. FramesOwned' /\ Fresh' /\ CallsReturn'
    BY <1>2, <2>1 DEF IInv, FramesOwned, Fresh, CallsReturn, vars, threadVars, syncVars, idVars
  <2> QED
    BY <2>2, <2>3, <2>4 DEF IInv
<1> QED
  BY <1>1, <1>2

(* The inductive invariant holds of every program's every run: the sum of the
   bookkeeping of step_thread, resume_thread, finish_thread and create_thread. *)
THEOREM Invariant == Spec => []IInv
BY NextInv, InitInv, PTL DEF Spec

(* Every variable of the machine state has its type in every state. *)
THEOREM TypeCorrect == Spec => []TypeOK
<1>1. IInv => TypeOK
  BY DEF IInv
<1> QED
  BY <1>1, Invariant, PTL

(* A thread is in the queue of the resource its BlockReason names, once, and in
   no other queue. *)
THEOREM QueuesExact == Spec => []WaitQueuesExact
<1>1. IInv => WaitQueuesExact
  BY DEF IInv
<1> QED
  BY <1>1, Invariant, PTL

(* A scope lists exactly its unfinished members, and its owner waits for it. *)
THEOREM Scopes == Spec => []ScopesExact
<1>1. IInv => ScopesExact
  BY DEF IInv
<1> QED
  BY <1>1, Invariant, PTL

(* The store holds the frames on the stacks and no others, each on one stack,
   and exactly the live threads have one. *)
THEOREM Frames == Spec => []FramesOwned
<1>1. IInv => FramesOwned
  BY DEF IInv
<1> QED
  BY <1>1, Invariant, PTL

-----------------------------------------------------------------------------
(* Theorems about the steps *)

(* What a step may do to the status of a thread: only a notify moves it off a
   condvar, only taking the mutex it asks for ends its wait for a mutex, and
   only a new identity comes to life. *)
StatusStep(u) ==
  \/ status'[u] = status[u] /\ on'[u] = on[u]
  \/ /\ status[u] \in Status \ {"absent", "wait", "lock"}
     /\ status'[u] # "lock" \/ on'[u] \in Mutexes
  \/ status[u] = "wait" /\ status'[u] = "lock" /\ on'[u] \in Mutexes
  \/ /\ status[u] = "lock" /\ status'[u] = "run"
     /\ mutex' = [mutex EXCEPT ![on[u]] = u]
  \/ /\ status[u] = "absent" /\ status'[u] # "lock"
     /\ u >= next.thread /\ u < next'.thread

(* Blocking is a legal change of status. *)
LEMMA BlockStatus ==
  ASSUME IInv, NEW t \in Ids, status[t] = "run", NEW why \in Blocking, NEW what,
         Block(t, why, what), why = "lock" => what \in Mutexes
  PROVE  \A u \in Ids : StatusStep(u)
BY BlockStep DEF StatusStep, Status, Blocking

(* Waking a thread on a channel or a semaphore is a legal change of status. *)
LEMMA WakeStatus ==
  ASSUME IInv, NEW ts \in SUBSET Ids, Wake(ts),
         \A u \in ts : status[u] \in {"send", "recv", "acquire"}
  PROVE  \A u \in Ids : StatusStep(u)
<1>1. \A u \in ts : status'[u] = "run"
  BY DEF Wake
<1>2. \A u \in Ids \ ts : status'[u] = status[u] /\ on'[u] = on[u]
  BY DEF Wake
<1> QED
  BY <1>1, <1>2 DEF StatusStep, Status, Blocking

(* A notified waiter asks for its mutex. *)
LEMMA NotifiedStatus ==
  ASSUME IInv, NEW cv \in Condvars, NEW ws \in SUBSET cvq[cv], Notified(ws)
  PROVE  \A u \in Ids : StatusStep(u)
<1> SUFFICES ASSUME NEW u \in Ids PROVE StatusStep(u)
  OBVIOUS
<1>1. CASE \E w \in ws : w[1] = u
  <2>1. PICK x : x = CHOOSE w \in ws : w[1] = u
    OBVIOUS
  <2>2. x \in ws /\ x[1] = u
    BY <1>1, <2>1
  <2>3. x \in Ids \X Mutexes /\ x \in cvq[cv]
    BY <2>2 DEF IInv, TypeOK
  <2>4. status[u] = "wait"
    <3>1. u \in Waiting("wait", cv)
      BY <2>2, <2>3 DEF IInv, WaitQueuesExact
    <3> QED
      BY <3>1 DEF Waiting
  <2>5. status'[u] = "lock" /\ on'[u] = x[2]
    BY <1>1, <2>1 DEF Notified
  <2> QED
    BY <2>3, <2>4, <2>5 DEF StatusStep
<1>2. CASE ~\E w \in ws : w[1] = u
  BY <1>2 DEF Notified, StatusStep
<1> QED
  BY <1>1, <1>2

(* Operations on mutexes, condvars and semaphores change statuses legally. *)
LEMMA SyncStatus ==
  ASSUME IInv, NEW t \in Ids, SyncStep(t)
  PROVE  \A u \in Ids : StatusStep(u)
<1>0. UNCHANGED threadVars => \A u \in Ids : StatusStep(u)
  BY DEF threadVars, StatusStep
<1>1. CASE MutexLock(t)
  <2>1. status[t] = "run" /\ Op(t).m \in Mutexes
    BY <1>1, Executing, OpFields DEF MutexLock, Executes
  <2>2. Block(t, "lock", Op(t).m) => \A u \in Ids : StatusStep(u)
    BY <2>1, BlockStatus DEF Blocking
  <2> QED
    BY <1>0, <1>1, <2>2 DEF MutexLock
<1>2. CASE MutexUnlock(t) \/ SemaphoreRelease(t)
  BY <1>0, <1>2 DEF MutexUnlock, SemaphoreRelease
<1>3. CASE CondvarWait(t)
  BY <1>3, BlockStatus DEF CondvarWait, Executes, Blocking
<1>4. CASE CondvarNotify(t)
  <2>1. Op(t).cv \in Condvars
    BY <1>4, Executing, OpFields DEF CondvarNotify, Executes
  <2>2. ASSUME NEW w \in cvq[Op(t).cv], Notified({w})
        PROVE  \A u \in Ids : StatusStep(u)
    <3>1. {w} \in SUBSET cvq[Op(t).cv]
      OBVIOUS
    <3> QED
      BY <2>1, <2>2, <3>1, NotifiedStatus
  <2> QED
    BY <1>0, <1>4, <2>2 DEF CondvarNotify
<1>5. CASE CondvarNotifyAll(t)
  <2>1. Op(t).cv \in Condvars
    BY <1>5, Executing, OpFields DEF CondvarNotifyAll, Executes
  <2> QED
    BY <1>5, <2>1, NotifiedStatus DEF CondvarNotifyAll
<1>6. CASE SemaphoreAcquire(t)
  <2>1. Block(t, "acquire", Op(t).s) => \A u \in Ids : StatusStep(u)
    BY <1>6, BlockStatus DEF SemaphoreAcquire, Executes, Blocking
  <2> QED
    BY <1>0, <1>6, <2>1 DEF SemaphoreAcquire
<1> QED
  BY <1>1, <1>2, <1>3, <1>4, <1>5, <1>6 DEF SyncStep

(* Operations on channels change statuses legally. *)
LEMMA ChannelStatus ==
  ASSUME IInv, NEW t \in Ids, ChannelStep(t)
  PROVE  \A u \in Ids : StatusStep(u)
<1> DEFINE c == Op(t).c
<1>0. UNCHANGED threadVars => \A u \in Ids : StatusStep(u)
  BY DEF threadVars, StatusStep
<1>1. status[t] = "run" /\ c \in Channels
  BY Executing, OpFields DEF ChannelStep, ChannelSend, ChannelRecv, Executes
<1>2. \A what : Block(t, "send", what) \/ Block(t, "recv", what) => \A u \in Ids : StatusStep(u)
  BY <1>1, BlockStatus DEF Blocking
<1>3. ASSUME NEW v, SendToReceiver(t, c, v)
      PROVE  \A u \in Ids : StatusStep(u)
  <2>1. PICK r \in recvq[c] : Wake({r})
    BY <1>3 DEF SendToReceiver
  <2>2. r \in Ids /\ status[r] = "recv"
    BY <1>1, <2>1 DEF IInv, WaitQueuesExact, Waiting
  <2> QED
    BY <2>1, <2>2, WakeStatus
<1>4. ASSUME RecvFromSender(t, c)
      PROVE  \A u \in Ids : StatusStep(u)
  <2>1. PICK w \in sendq[c] : Wake({w[1]})
    BY <1>4 DEF RecvFromSender
  <2>2. w[1] \in Ids /\ status[w[1]] = "send"
    <3>1. w[1] \in Waiting("send", c)
      BY <1>1, <2>1 DEF IInv, WaitQueuesExact
    <3> QED
      BY <3>1 DEF Waiting
  <2> QED
    BY <2>1, <2>2, WakeStatus
<1>5. CASE ChannelSend(t)
  BY <1>0, <1>2, <1>3, <1>5 DEF ChannelSend, SendBlocks, SendToBuffer, threadVars
<1>6. CASE ChannelRecv(t)
  BY <1>0, <1>2, <1>4, <1>6 DEF ChannelRecv, RecvBlocks, RecvFromBuffer, threadVars
<1> QED
  BY <1>5, <1>6 DEF ChannelStep

(* Spawns, scopes and joins change statuses legally. *)
LEMMA ThreadStatus ==
  ASSUME IInv, NEW t \in Ids, ThreadStep(t)
  PROVE  \A u \in Ids : StatusStep(u)
<1>1. AtStatement(t) /\ status[t] = "run" /\ Op(t) \in Operation
  BY Executing DEF ThreadStep, Spawn, ScopeStart, Join, Executes
<1>2. ASSUME NEW fs \in Seq(Functions), HasRoom(fs), next'.thread = next.thread + Len(fs),
             \A u \in Ids : u # t => status'[u] = BornStatus(fs)[u] /\ on'[u] = on[u],
             status'[t] \in {"run", "scope"}
      PROVE  \A u \in Ids : StatusStep(u)
  <2> SUFFICES ASSUME NEW u \in Ids PROVE StatusStep(u)
    OBVIOUS
  <2>1. CASE u = t
    BY <1>1, <1>2, <2>1 DEF StatusStep, Status
  <2>2. CASE u # t /\ u \in Created(fs)
    <3>1. status[u] = "absent" /\ u >= next.thread /\ u < next'.thread
      BY <1>2, <2>2, CreatedFresh
    <3>2. status'[u] # "lock"
      BY <1>2, <2>2 DEF BornStatus, Created
    <3> QED
      BY <3>1, <3>2 DEF StatusStep
  <2>3. CASE u # t /\ u \notin Created(fs)
    <3>1. Running(fs) \subseteq Created(fs)
      BY <1>2, CreatedFresh
    <3>2. status'[u] = status[u] /\ on'[u] = on[u]
      BY <1>2, <2>3, <3>1 DEF BornStatus, Created, Running
    <3> QED
      BY <3>2 DEF StatusStep
  <2> QED
    BY <2>1, <2>2, <2>3
<1>3. CASE Spawn(t)
  <2> DEFINE fs == <<Op(t).f>>
  <2>1. fs \in Seq(Functions) /\ Len(fs) = 1
    BY <1>1, <1>3, OpFields DEF Spawn, Executes
  <2>2. /\ status' = BornStatus(fs) /\ on' = on /\ CreateThreads(fs, None)
        /\ next' = [next EXCEPT !.thread = @ + 1, !.handle = @ + 1,
                                !.frame = @ + Cardinality(Born(fs))]
    BY <1>3 DEF Spawn
  <2>3. next'.thread = next.thread + 1
    BY <2>2 DEF IInv, TypeOK
  <2> HIDE DEF fs
  <2>4. HasRoom(fs) /\ t \notin Created(fs) /\ Running(fs) \subseteq Created(fs)
    BY <1>1, <2>1, <2>2, CreatedFresh DEF CreateThreads
  <2>5. status'[t] = "run"
    BY <1>1, <2>2, <2>4 DEF BornStatus, Created, Running
  <2> QED
    BY <1>2, <2>1, <2>2, <2>3, <2>4, <2>5
<1>4. CASE ScopeStart(t)
  <2> DEFINE fs == Op(t).fs
  <2>1. fs \in Seq(Functions)
    BY <1>1, <1>4, OpFields DEF ScopeStart, Executes
  <2>2. /\ CreateThreads(fs, next.scope)
        /\ next' = [next EXCEPT !.thread = @ + Len(fs), !.scope = @ + 1,
                                !.frame = @ + Cardinality(Born(fs))]
        /\ \/ status' = BornStatus(fs) /\ on' = on
           \/ /\ status' = [BornStatus(fs) EXCEPT ![t] = "scope"]
              /\ on' = [on EXCEPT ![t] = next.scope]
    BY <1>4 DEF ScopeStart
  <2>3. next'.thread = next.thread + Len(fs)
    BY <2>2 DEF IInv, TypeOK
  <2> HIDE DEF fs
  <2>4. HasRoom(fs) /\ t \notin Created(fs) /\ Running(fs) \subseteq Created(fs)
    BY <1>1, <2>1, <2>2, CreatedFresh DEF CreateThreads
  <2>5. BornStatus(fs)[t] = "run"
    BY <1>1, <2>4 DEF BornStatus, Created, Running
  <2>6. status'[t] \in {"run", "scope"}
    BY <2>2, <2>5 DEF BornStatus
  <2>7. \A u \in Ids : u # t => status'[u] = BornStatus(fs)[u] /\ on'[u] = on[u]
    BY <2>2 DEF BornStatus, IInv, TypeOK
  <2> QED
    BY <1>2, <2>1, <2>3, <2>4, <2>6, <2>7
<1>5. CASE Join(t)
  <2>1. PICK h, c : JoinFinished(t, h, c) \/ JoinBlocks(t, h, c)
    BY <1>5 DEF Join
  <2>2. CASE JoinFinished(t, h, c)
    <3>1. /\ c \in Ids /\ status[c] = "done" /\ status' = [status EXCEPT ![c] = "absent"]
          /\ on' = on /\ status \in [Ids -> Status]
      BY <2>2 DEF JoinFinished, IInv, TypeOK, FramesOwned
    <3>2. \A u \in Ids : /\ u = c => status'[u] = "absent" /\ status[u] = "done"
                         /\ u # c => status'[u] = status[u] /\ on'[u] = on[u]
      BY <3>1
    <3> QED
      BY <3>2 DEF StatusStep, Status
  <2>3. CASE JoinBlocks(t, h, c)
    BY <1>1, <2>3, BlockStatus DEF JoinBlocks, Blocking
  <2> QED
    BY <2>1, <2>2, <2>3
<1> QED
  BY <1>3, <1>4, <1>5 DEF ThreadStep

(* Waking a thread changes its status legally. *)
LEMMA ResumeStatus ==
  ASSUME IInv, NEW t \in Ids, Resume(t)
  PROVE  \A u \in Ids : StatusStep(u)
<1>1. CASE ResumeLock(t)
  <2>1. /\ status[t] = "lock" /\ mutex' = [mutex EXCEPT ![on[t]] = t]
        /\ \A u \in Ids : u # t => status'[u] = status[u] /\ on'[u] = on[u]
        /\ status'[t] = "run"
    BY <1>1 DEF ResumeLock, Wake
  <2> QED
    BY <2>1 DEF StatusStep
<1>2. CASE ResumeSemaphore(t) \/ ResumeSend(t) \/ ResumeRecv(t)
  <2>1. status[t] \in {"send", "recv", "acquire"} /\ Wake({t})
    BY <1>2 DEF ResumeSemaphore, ResumeSend, ResumeRecv
  <2> QED
    BY <2>1, WakeStatus
<1> QED
  BY <1>1, <1>2 DEF Resume

(* A return changes statuses legally. *)
LEMMA ReturnStatus ==
  ASSUME IInv, NEW t \in Ids, Return(t) \/ ImplicitReturn(t)
  PROVE  \A u \in Ids : StatusStep(u)
<1>1. status[t] = "run" /\ stack[t] # <<>>
  BY DEF Return, ImplicitReturn, Executes, AtStatement
<1>2. (\E v : PopFrame(t, v)) \/ FinishThread(t)
  BY DEF Return, ImplicitReturn
<1>3. ASSUME NEW v, PopFrame(t, v)
      PROVE  \A u \in Ids : StatusStep(u)
  BY <1>3 DEF PopFrame, OnlyStack, StatusStep
<1>4. CASE FinishThread(t)
  <2>1. \A u \in Ids : \/ status'[u] = status[u] /\ on'[u] = on[u]
                       \/ status[u] \in {"run", "done", "scope", "join"}
                          /\ status'[u] \in {"absent", "done", "run"}
    BY <1>1, <1>4, FinishStatus
  <2> QED
    BY <2>1 DEF StatusStep, Status, Blocking
<1> QED
  BY <1>2, <1>3, <1>4

(* Every step changes statuses legally. *)
LEMMA StatusSteps ==
  ASSUME IInv, NEW t \in Ids, Step(t)
  PROVE  \A u \in Ids : StatusStep(u)
<1>1. CASE DataStep(t)
  BY <1>1 DEF DataStep, Nop, AssignLocal, LoadShared, StoreShared, AtomicCas, Assign,
              OnlyData, threadVars, StatusStep
<1>2. CASE ControlStep(t)
  <2>1. CASE Goto(t) \/ Branch(t) \/ Switch(t) \/ CallTransparent(t) \/ CallBody(t)
    BY <2>1 DEF Goto, Branch, Switch, Jump, CallTransparent, CallBody,
                OnlyData, OnlyStack, threadVars, StatusStep
  <2> QED
    BY <1>2, <2>1, ReturnStatus DEF ControlStep
<1> QED
  BY <1>1, <1>2, SyncStatus, ChannelStatus, ThreadStatus, ResumeStatus DEF Step

(* A thread that waits for a mutex names one. *)
LockersNameMutex == \A t \in Ids : status[t] = "lock" => on[t] \in Mutexes

(* Whoever waits for a mutex names one, in every reachable state. *)
LEMMA LockersInvariant == Spec => []LockersNameMutex
<1>1. Init => LockersNameMutex
  BY DEF Init, LockersNameMutex
<1>2. IInv /\ LockersNameMutex /\ [Next]_vars => LockersNameMutex'
  <2>1. ASSUME IInv, LockersNameMutex, Next
        PROVE  LockersNameMutex'
    <3>1. \A u \in Ids : StatusStep(u)
      BY <2>1, StatusSteps DEF Next
    <3> QED
      BY <2>1, <3>1 DEF LockersNameMutex, StatusStep
  <2>2. ASSUME LockersNameMutex, UNCHANGED vars
        PROVE  LockersNameMutex'
    BY <2>2 DEF LockersNameMutex, vars, threadVars
  <2> QED
    BY <2>1, <2>2
<1> QED
  BY <1>1, <1>2, Invariant, PTL DEF Spec

(* Each action on a condvar's waiters: a thread runs again only once it has its
   mutex, whichever notify, unlock and lock happen in between. *)
THEOREM WaitersRegainLock == Spec => WaiterRegainsLock
<1> DEFINE A == \A t \in Ids :
                  /\ status[t] = "wait" => status'[t] \in {"wait", "lock"}
                  /\ status[t] = "lock" /\ status'[t] # "lock" =>
                       status'[t] = "run" /\ mutex'[on[t]] = t
<1>1. IInv /\ LockersNameMutex /\ [Next]_vars => [A]_vars
  <2> SUFFICES ASSUME IInv, LockersNameMutex, Next PROVE A
    OBVIOUS
  <2>1. \A u \in Ids : StatusStep(u)
    BY StatusSteps DEF Next
  <2>2. mutex \in [Mutexes -> Ids \union {None}]
    BY DEF IInv, TypeOK
  <2> QED
    BY <2>1, <2>2 DEF StatusStep, LockersNameMutex
<1> HIDE DEF A
<1>2. Spec => [][A]_vars
  BY <1>1, Invariant, LockersInvariant, PTL DEF Spec
<1> QED
  BY <1>2 DEF A, WaiterRegainsLock

(* An identity comes to life at most once: new threads take identities beyond
   every one handed out, so nothing (no mutex, in particular) still names them. *)
THEOREM FreshIdentities == Spec => IdentitiesFresh
<1> DEFINE A == \A t \in Ids : status[t] = "absent" /\ status'[t] # "absent" =>
                  /\ t >= next.thread /\ t < next'.thread
                  /\ t \notin {mutex[m] : m \in Mutexes}
<1>1. IInv /\ [Next]_vars => [A]_vars
  <2> SUFFICES ASSUME IInv, Next PROVE A
    OBVIOUS
  <2>1. \A u \in Ids : StatusStep(u)
    BY StatusSteps DEF Next
  <2>2. \A m \in Mutexes : mutex[m] < next.thread /\ mutex[m] \in Int
    BY LimitsAssumption DEF IInv, Fresh, TypeOK, Ids, None
  <2>3. next.thread \in Int /\ Ids \subseteq Int
    BY LimitsAssumption DEF IInv, TypeOK, Ids
  <2>4. \A t \in Ids : status[t] = "absent" /\ status'[t] # "absent" =>
          t >= next.thread /\ t < next'.thread
    BY <2>1 DEF StatusStep
  <2>5. \A t \in Ids : t >= next.thread => \A m \in Mutexes : mutex[m] # t
    BY <2>2, <2>3
  <2> QED
    BY <2>4, <2>5
<1> HIDE DEF A
<1>2. Spec => [][A]_vars
  BY <1>1, Invariant, PTL DEF Spec
<1> QED
  BY <1>2 DEF A, IdentitiesFresh

-----------------------------------------------------------------------------
(* Resources *)

(* The operations that touch a mutex, a semaphore or a channel are few. *)
LEMMA Touches ==
  ASSUME NEW t \in Ids, Step(t)
  PROVE  /\ \/ UNCHANGED mutex
            \/ MutexLock(t) \/ MutexUnlock(t) \/ CondvarWait(t) \/ ResumeLock(t)
         /\ \/ UNCHANGED <<sem, semq>>
            \/ SemaphoreAcquire(t) \/ SemaphoreRelease(t) \/ ResumeSemaphore(t)
         /\ \/ UNCHANGED chanVars
            \/ ChannelSend(t) \/ ChannelRecv(t) \/ ResumeSend(t) \/ ResumeRecv(t)
<1>1. CASE DataStep(t)
  BY <1>1 DEF DataStep, Nop, AssignLocal, LoadShared, StoreShared, AtomicCas, Assign,
              OnlyData, syncVars
<1>2. CASE ControlStep(t)
  <2>1. CASE Goto(t) \/ Branch(t) \/ Switch(t) \/ CallTransparent(t) \/ CallBody(t)
    BY <2>1 DEF Goto, Branch, Switch, Jump, CallTransparent, CallBody,
                OnlyData, OnlyStack, syncVars
  <2>2. CASE Return(t) \/ ImplicitReturn(t)
    <3>1. (\E v : PopFrame(t, v)) \/ FinishThread(t)
      BY <2>2 DEF Return, ImplicitReturn
    <3> QED
      BY <3>1 DEF PopFrame, FinishThread, OnlyStack, syncVars
  <2> QED
    BY <1>2, <2>1, <2>2 DEF ControlStep
<1>3. CASE SyncStep(t)
  BY <1>3 DEF SyncStep, MutexUnlock, MutexLock, CondvarWait, CondvarNotify, CondvarNotifyAll,
              SemaphoreAcquire, SemaphoreRelease, OnlySync
<1>4. CASE ChannelStep(t)
  BY <1>4 DEF ChannelStep, ChannelSend, ChannelRecv, OnlyChannels, syncVars
<1>5. CASE ThreadStep(t)
  BY <1>5 DEF ThreadStep, Spawn, ScopeStart, Join, OnlyThreads, syncVars
<1>6. CASE Resume(t)
  BY <1>6 DEF Resume, ResumeLock, ResumeSemaphore, ResumeSend, ResumeRecv,
              OnlySync, OnlyChannels, syncVars
<1> QED
  BY <1>1, <1>2, <1>3, <1>4, <1>5, <1>6 DEF Step

(* Unlocking and waiting fail (E510, E511) for a thread that does not hold the
   mutex, and locking takes only a free one: no mutex is passed directly. *)
THEOREM MutexesHandedOver == Spec => MutexHandover
<1> DEFINE A == \A m \in Mutexes : mutex'[m] # mutex[m] =>
                  \/ mutex[m] = None
                  \/ /\ mutex'[m] = None
                     /\ LET t == mutex[m] IN
                        status[t] = "run" /\ Op(t).op \in {"unlock", "wait"} /\ Op(t).m = m
<1>1. IInv /\ [Next]_vars => [A]_vars
  <2> SUFFICES ASSUME IInv, ~Faulted, NEW t \in Ids, Step(t), NEW m \in Mutexes,
                      mutex'[m] # mutex[m], mutex[m] # None
               PROVE  /\ mutex'[m] = None
                      /\ status[mutex[m]] = "run" /\ Op(mutex[m]).op \in {"unlock", "wait"}
                      /\ Op(mutex[m]).m = m
    BY DEF Next
  <2>1. mutex \in [Mutexes -> Ids \union {None}]
    BY DEF IInv, TypeOK
  <2>2. CASE MutexUnlock(t) \/ CondvarWait(t)
    <3>1. /\ status[t] = "run" /\ Op(t).op \in {"unlock", "wait"} /\ AtStatement(t)
          /\ mutex' = [mutex EXCEPT ![Op(t).m] = None]
      BY <2>2 DEF MutexUnlock, CondvarWait, Executes
    <3>2. mutex[Op(t).m] = t
      BY <3>1 DEF Faulted, Fails, OpFails
    <3>3. Op(t).m = m /\ mutex'[m] = None
      BY <2>1, <3>1
    <3> QED
      BY <3>1, <3>2, <3>3
  <2>3. CASE MutexLock(t) \/ ResumeLock(t)
    <3>1. PICK k : \/ mutex[k] = None /\ (mutex' = mutex \/ mutex' = [mutex EXCEPT ![k] = t])
                   \/ mutex' = mutex
      BY <2>3 DEF MutexLock, ResumeLock, IsFree
    <3> QED
      BY <2>1, <3>1
  <2> QED
    BY <2>2, <2>3, Touches
<1> HIDE DEF A
<1>2. Spec => [][A]_vars
  BY <1>1, Invariant, PTL DEF Spec
<1> QED
  BY <1>2 DEF A, MutexHandover

(* A channel of capacity 0 keeps nothing and never has senders and receivers
   waiting for each other; no buffer holds more than the capacity. *)
ChannelsFit ==
  \A c \in Channels : /\ Len(buf[c]) <= Capacity[c]
                      /\ Capacity[c] = 0 => sendq[c] = {} \/ recvq[c] = {}

(* Operations on channels respect the capacity. *)
LEMMA ChannelsFitStep ==
  ASSUME IInv, ChannelsFit, NEW t \in Ids,
         ChannelSend(t) \/ ChannelRecv(t) \/ ResumeSend(t) \/ ResumeRecv(t)
  PROVE  ChannelsFit'
<1>1. /\ buf \in [Channels -> Seq(Values)] /\ sendq \in [Channels -> SUBSET (Ids \X Values)]
      /\ recvq \in [Channels -> SUBSET Ids]
  BY DEF IInv, TypeOK
<1>2. \A c \in Channels : Capacity[c] \in Nat /\ Len(buf[c]) \in Nat
  BY <1>1, DeclarationsAssumption
<1> SUFFICES ASSUME NEW d \in Channels
             PROVE  /\ Len(buf'[d]) <= Capacity[d]
                    /\ Capacity[d] = 0 => sendq'[d] = {} \/ recvq'[d] = {}
  BY DEF ChannelsFit
<1>3. Len(buf[d]) <= Capacity[d] /\ (Capacity[d] = 0 => sendq[d] = {} \/ recvq[d] = {})
  BY DEF ChannelsFit
<1>4. ASSUME NEW c, NEW v, Len(buf[c]) < Capacity[c],
             buf' = [buf EXCEPT ![c] = Append(@, v)]
      PROVE  Len(buf'[d]) <= Capacity[d] /\ (d = c => Capacity[d] # 0)
  <2>1. CASE d = c
    <3>1. buf'[d] = Append(buf[d], v) /\ buf[d] \in Seq(Values)
      BY <1>1, <1>4, <2>1
    <3> DEFINE q == buf[d]
    <3>2. Len(Append(q, v)) = Len(q) + 1
      <4>1. q \in Seq(Values \union {v})
        BY <3>1
      <4> HIDE DEF q
      <4> QED
        BY <4>1
    <3>3. Len(buf'[d]) = Len(buf[d]) + 1 /\ Len(buf[d]) < Capacity[d]
      BY <1>4, <2>1, <3>1, <3>2
    <3> QED
      BY ONLY <1>2, <3>3, d \in Channels
  <2>2. CASE d # c
    BY <1>1, <1>3, <1>4, <2>2
  <2> QED
    BY <2>1, <2>2
<1>5. ASSUME NEW c, c \in Channels => buf[c] # <<>>, buf' = [buf EXCEPT ![c] = Tail(@)]
      PROVE  Len(buf'[d]) <= Capacity[d]
  <2>1. CASE d = c
    <3> DEFINE q == buf[d]
    <3>1. buf'[d] = Tail(q) /\ q \in Seq(Values) /\ q # <<>>
      BY <1>1, <1>5, <2>1
    <3>2. Len(Tail(q)) = Len(q) - 1
      <4> HIDE DEF q
      <4> QED
        BY <3>1
    <3> QED
      BY <1>2, <1>3, <3>1, <3>2
  <2>2. CASE d # c
    BY <1>1, <1>3, <1>5, <2>2
  <2> QED
    BY <2>1, <2>2
<1>6. CASE ChannelSend(t)
  <2> DEFINE c == Op(t).c
  <2>1. PICK v :
         \/ Capacity[c] = 0 /\ recvq[c] # {} /\ SendToReceiver(t, c, v)
         \/ Capacity[c] = 0 /\ recvq[c] = {} /\ SendBlocks(t, c, v)
         \/ Len(buf[c]) < Capacity[c] /\ SendToBuffer(t, c, v)
         \/ Capacity[c] > 0 /\ Len(buf[c]) >= Capacity[c] /\ SendBlocks(t, c, v)
    BY <1>6 DEF ChannelSend
  <2> HIDE DEF c
  <2>2. CASE Len(buf[c]) < Capacity[c] /\ SendToBuffer(t, c, v)
    BY <1>3, <1>4, <2>2 DEF SendToBuffer
  <2>3. CASE Capacity[c] = 0 /\ recvq[c] # {} /\ SendToReceiver(t, c, v)
    BY <1>1, <1>3, <2>3 DEF SendToReceiver
  <2>4. CASE SendBlocks(t, c, v) /\ (Capacity[c] = 0 => recvq[c] = {})
    BY <1>1, <1>3, <2>4 DEF SendBlocks
  <2>5. Capacity[c] > 0 => Capacity[c] # 0
    OBVIOUS
  <2> QED
    BY <2>1, <2>2, <2>3, <2>4, <2>5
<1>7. CASE ChannelRecv(t)
  <2> DEFINE c == Op(t).c
  <2>1. \/ Capacity[c] = 0 /\ AnySender(c) /\ RecvFromSender(t, c)
        \/ Capacity[c] = 0 /\ ~AnySender(c) /\ RecvBlocks(t, c)
        \/ Capacity[c] > 0 /\ buf[c] # <<>> /\ RecvFromBuffer(t, c)
        \/ Capacity[c] > 0 /\ buf[c] = <<>> /\ RecvBlocks(t, c)
    BY <1>7 DEF ChannelRecv
  <2> HIDE DEF c
  <2>2. CASE RecvFromSender(t, c) /\ Capacity[c] = 0 /\ AnySender(c)
    BY <1>1, <1>3, <2>2 DEF RecvFromSender, AnySender
  <2>3. CASE RecvBlocks(t, c) /\ (Capacity[c] = 0 => sendq[c] = {})
    BY <1>1, <1>3, <2>3 DEF RecvBlocks
  <2>4. CASE buf[c] # <<>> /\ RecvFromBuffer(t, c)
    BY <1>3, <1>5, <2>4 DEF RecvFromBuffer
  <2>5. Capacity[c] > 0 => Capacity[c] # 0
    OBVIOUS
  <2> QED
    BY <2>1, <2>2, <2>3, <2>4, <2>5 DEF AnySender
<1>8. CASE ResumeSend(t)
  <2> DEFINE c == on[t]
  <2>1. PICK v : Len(buf[c]) < Capacity[c] /\ buf' = [buf EXCEPT ![c] = Append(@, v)]
    BY <1>8 DEF ResumeSend
  <2>2. sendq' = [sendq EXCEPT ![c] = Without(@, t)] /\ recvq' = recvq
    BY <1>8 DEF ResumeSend
  <2> HIDE DEF c
  <2>3. Len(buf'[d]) <= Capacity[d] /\ (d = c => Capacity[d] # 0)
    BY <1>4, <2>1
  <2> QED
    BY <1>1, <1>3, <2>2, <2>3
<1>9. CASE ResumeRecv(t)
  <2> DEFINE c == on[t]
  <2>1. /\ Capacity[c] > 0 /\ buf[c] # <<>> /\ buf' = [buf EXCEPT ![c] = Tail(@)]
        /\ recvq' = [recvq EXCEPT ![c] = @ \ {t}] /\ sendq' = sendq
    BY <1>9 DEF ResumeRecv
  <2> HIDE DEF c
  <2>2. Len(buf'[d]) <= Capacity[d]
    BY <1>5, <2>1
  <2> QED
    BY <1>1, <1>3, <2>1, <2>2
<1> QED
  BY <1>6, <1>7, <1>8, <1>9

(* Buffers never exceed their capacity, and a rendezvous channel never has both
   sides waiting. *)
LEMMA ChannelsInvariant == Spec => []ChannelsFit
<1>1. Init => ChannelsFit
  <2> SUFFICES ASSUME Init, NEW c \in Channels
               PROVE  Len(buf[c]) <= Capacity[c] /\ sendq[c] = {}
    BY DEF ChannelsFit
  <2>1. buf[c] = <<>> /\ sendq[c] = {} /\ Capacity[c] \in Nat
    BY DeclarationsAssumption DEF Init
  <2> QED
    BY <2>1
<1>2. IInv /\ ChannelsFit /\ [Next]_vars => ChannelsFit'
  <2>1. ASSUME ChannelsFit, UNCHANGED chanVars
        PROVE  ChannelsFit'
    BY <2>1 DEF ChannelsFit, chanVars
  <2>2. ASSUME IInv, ChannelsFit, Next
        PROVE  ChannelsFit'
    BY <2>1, <2>2, Touches, ChannelsFitStep DEF Next
  <2>3. UNCHANGED vars => UNCHANGED chanVars
    BY DEF vars
  <2> QED
    BY <2>1, <2>2, <2>3
<1> QED
  BY <1>1, <1>2, Invariant, PTL DEF Spec

(* A rendezvous channel never has both sides waiting, so the pairing code of
   resume_thread for capacity 0 is indeed never needed. *)
THEOREM Rendezvous == Spec => []RendezvousExclusive
<1>1. IInv /\ ChannelsFit => RendezvousExclusive
  <2> SUFFICES ASSUME IInv, ChannelsFit, NEW c \in Channels, Capacity[c] = 0
               PROVE  buf[c] = <<>> /\ (sendq[c] = {} \/ recvq[c] = {})
    BY DEF RendezvousExclusive
  <2> DEFINE q == buf[c]
  <2>1. q \in Seq(Values) /\ Len(q) <= 0 /\ (sendq[c] = {} \/ recvq[c] = {})
    BY DEF IInv, TypeOK, ChannelsFit
  <2>2. q = <<>>
    <3> HIDE DEF q
    <3> QED
      BY <2>1
  <2> QED
    BY <2>1, <2>2
<1> QED
  BY <1>1, Invariant, ChannelsInvariant, PTL

(* What waits in a semaphore's queue was checked to be positive (E904), a
   release past the maximum fails (E905), so permits stay in their range. *)
SemaphoresFit ==
  \A s \in Semaphores : /\ Permits[s] >= 0 => sem[s] \in 0..MaxPermits
                        /\ \A w \in semq[s] : w[2] > 0

(* Operations on semaphores respect zero and the largest count. *)
LEMMA SemaphoresFitStep ==
  ASSUME IInv, ~Faulted, SemaphoresFit, NEW t \in Ids,
         SemaphoreAcquire(t) \/ SemaphoreRelease(t) \/ ResumeSemaphore(t)
  PROVE  SemaphoresFit'
<1>1. /\ sem \in [Semaphores -> Int] /\ semq \in [Semaphores -> SUBSET (Ids \X Int)]
      /\ MaxPermits \in Nat
  BY LimitsAssumption DEF IInv, TypeOK
<1> SUFFICES ASSUME NEW d \in Semaphores
             PROVE  /\ Permits[d] >= 0 => sem'[d] \in 0..MaxPermits
                    /\ \A w \in semq'[d] : w[2] > 0
  BY DEF SemaphoresFit
<1>2. (Permits[d] >= 0 => sem[d] \in 0..MaxPermits) /\ \A w \in semq[d] : w[2] > 0
  BY DEF SemaphoresFit
<1>3. ASSUME NEW s, NEW n, d = s => n \in Int /\ n > 0, sem[s] >= n, sem' = [sem EXCEPT ![s] = @ - n]
      PROVE  Permits[d] >= 0 => sem'[d] \in 0..MaxPermits
  <2>1. CASE d = s
    <3>1. sem'[d] = sem[d] - n /\ n \in Int /\ n > 0 /\ sem[d] >= n /\ sem[d] \in Int
      BY <1>1, <1>3, <2>1
    <3> QED
      BY <1>1, <1>2, <3>1
  <2>2. CASE d # s
    BY <1>1, <1>2, <1>3, <2>2
  <2> QED
    BY <2>1, <2>2
<1>4. CASE SemaphoreAcquire(t)
  <2> DEFINE s == Op(t).s
             n == Op(t).n
  <2>1. /\ Op(t).op = "acquire" /\ AtStatement(t) /\ status[t] = "run"
        /\ s \in Semaphores /\ n \in Int
    BY <1>4, Executing, OpFields DEF SemaphoreAcquire, Executes
  <2>2. n > 0
    BY <2>1 DEF Faulted, Fails, OpFails
  <2>3. \/ HasPermits(s, n) /\ sem' = [sem EXCEPT ![s] = @ - n] /\ semq' = semq
        \/ semq' = [semq EXCEPT ![s] = @ \union {<<t, n>>}] /\ sem' = sem
    BY <1>4 DEF SemaphoreAcquire
  <2> HIDE DEF s, n
  <2>4. CASE HasPermits(s, n) /\ sem' = [sem EXCEPT ![s] = @ - n] /\ semq' = semq
    BY <1>2, <1>3, <2>1, <2>2, <2>4 DEF HasPermits, n
  <2>5. CASE semq' = [semq EXCEPT ![s] = @ \union {<<t, n>>}] /\ sem' = sem
    BY <1>1, <1>2, <2>2, <2>5
  <2> QED
    BY <2>3, <2>4, <2>5
<1>5. CASE SemaphoreRelease(t)
  <2> DEFINE s == Op(t).s
             n == Op(t).n
  <2>1. /\ Op(t).op = "release" /\ AtStatement(t) /\ status[t] = "run"
        /\ s \in Semaphores /\ n \in Int
        /\ sem' = [sem EXCEPT ![s] = @ + n] /\ semq' = semq
    BY <1>5, Executing, OpFields DEF SemaphoreRelease, Executes
  <2>2. ~(n <= 0) /\ ~(sem[s] + n > MaxPermits)
    BY <2>1 DEF Faulted, Fails, OpFails
  <2> HIDE DEF s
  <2>3. Permits[d] >= 0 => sem'[d] \in 0..MaxPermits
    BY <1>1, <1>2, <2>1, <2>2
  <2> QED
    BY <1>2, <2>1, <2>3
<1>6. CASE ResumeSemaphore(t)
  <2> DEFINE s == on[t]
  <2>1. PICK w \in semq[s] : HasPermits(s, w[2]) /\ sem' = [sem EXCEPT ![s] = @ - w[2]]
    BY <1>6 DEF ResumeSemaphore
  <2>2. semq' = [semq EXCEPT ![s] = Without(@, t)]
    BY <1>6 DEF ResumeSemaphore
  <2> HIDE DEF s
  <2>3. d = s => w[2] \in Int /\ w[2] > 0
    BY <1>1, <1>2, <2>1
  <2>4. Permits[d] >= 0 => sem'[d] \in 0..MaxPermits
    BY <1>3, <2>1, <2>3 DEF HasPermits
  <2>5. \A x \in semq'[d] : x[2] > 0
    BY <1>1, <1>2, <2>2 DEF Without
  <2> QED
    BY <2>4, <2>5
<1> QED
  BY <1>4, <1>5, <1>6

(* Permits stay within zero and the largest count, and requests are positive. *)
LEMMA SemaphoresInvariant == Spec => []SemaphoresFit
<1>1. Init => SemaphoresFit
  BY LimitsAssumption, DeclarationsAssumption DEF Init, SemaphoresFit
<1>2. IInv /\ SemaphoresFit /\ [Next]_vars => SemaphoresFit'
  <2>1. ASSUME SemaphoresFit, UNCHANGED <<sem, semq>>
        PROVE  SemaphoresFit'
    BY <2>1 DEF SemaphoresFit
  <2>2. ASSUME IInv, SemaphoresFit, Next
        PROVE  SemaphoresFit'
    BY <2>1, <2>2, Touches, SemaphoresFitStep DEF Next
  <2>3. UNCHANGED vars => UNCHANGED <<sem, semq>>
    BY DEF vars, syncVars
  <2> QED
    BY <2>1, <2>2, <2>3
<1> QED
  BY <1>1, <1>2, Invariant, PTL DEF Spec

(* No buffer is overfilled and no semaphore overdrawn. *)
THEOREM Bounded == Spec => []ResourcesBounded
<1>1. ChannelsFit /\ SemaphoresFit => ResourcesBounded
  BY DEF ChannelsFit, SemaphoresFit, ResourcesBounded
<1> QED
  BY <1>1, ChannelsInvariant, SemaphoresInvariant, PTL

-----------------------------------------------------------------------------
(* Messages *)

(* What one operation may do to the senders and the buffer of channel d. *)
InOrder(d) ==
  /\ \A w \in sendq[d] \ sendq'[d] : buf'[d] = Append(buf[d], w[2])
  /\ \/ buf'[d] = buf[d]
     \/ buf[d] # <<>> /\ buf'[d] = Tail(buf[d])
     \/ \E v \in Values : buf'[d] = Append(buf[d], v)

(* Every operation on channels keeps the order of a buffered channel. *)
LEMMA ChannelOrder ==
  ASSUME IInv, NEW t \in Ids,
         ChannelSend(t) \/ ChannelRecv(t) \/ ResumeSend(t) \/ ResumeRecv(t),
         NEW d \in Channels, Capacity[d] > 0
  PROVE  InOrder(d)
<1>1. /\ buf \in [Channels -> Seq(Values)] /\ sendq \in [Channels -> SUBSET (Ids \X Values)]
      /\ FunctionIn(sendq[d])
  BY DEF IInv, TypeOK, WaitQueuesExact
<1>2. ~(Capacity[d] = 0)
  OBVIOUS
<1>3. CASE ChannelSend(t)
  <2> DEFINE c == Op(t).c
             v == Value(t, Op(t).e)
  <2>1. c \in Channels /\ v \in ChannelType[c]
    BY <1>3, Executing, OpFields DEF ChannelSend, Executes
  <2>2. v \in Values
    BY <2>1, DeclarationsAssumption
  <2>3. \/ Capacity[c] = 0 /\ SendToReceiver(t, c, v)
        \/ SendBlocks(t, c, v)
        \/ SendToBuffer(t, c, v)
    BY <1>3 DEF ChannelSend
  <2> HIDE DEF c, v
  <2>4. CASE SendToReceiver(t, c, v)
    BY <2>4 DEF SendToReceiver, InOrder
  <2>5. CASE SendBlocks(t, c, v)
    BY <1>1, <2>5 DEF SendBlocks, InOrder
  <2>6. CASE SendToBuffer(t, c, v)
    BY <1>1, <2>2, <2>6 DEF SendToBuffer, InOrder
  <2> QED
    BY <2>3, <2>4, <2>5, <2>6
<1>4. CASE ChannelRecv(t)
  <2> DEFINE c == Op(t).c
  <2>1. \/ Capacity[c] = 0 /\ RecvFromSender(t, c)
        \/ RecvBlocks(t, c)
        \/ buf[c] # <<>> /\ RecvFromBuffer(t, c)
    BY <1>4 DEF ChannelRecv
  <2> HIDE DEF c
  <2>2. CASE Capacity[c] = 0 /\ RecvFromSender(t, c)
    BY <1>1, <1>2, <2>2 DEF RecvFromSender, InOrder
  <2>3. CASE RecvBlocks(t, c)
    BY <2>3 DEF RecvBlocks, InOrder
  <2>4. CASE buf[c] # <<>> /\ RecvFromBuffer(t, c)
    BY <1>1, <2>4 DEF RecvFromBuffer, InOrder
  <2> QED
    BY <2>1, <2>2, <2>3, <2>4
<1>5. CASE ResumeSend(t)
  <2> DEFINE c == on[t]
  <2>1. PICK x \in sendq[c] : x[1] = t /\ buf' = [buf EXCEPT ![c] = Append(@, x[2])]
    BY <1>5 DEF ResumeSend, Captured
  <2>2. sendq' = [sendq EXCEPT ![c] = Without(@, t)]
    BY <1>5 DEF ResumeSend
  <2> HIDE DEF c
  <2>3. CASE d # c
    BY <1>1, <2>1, <2>2, <2>3 DEF InOrder
  <2>4. CASE d = c
    <3>1. buf'[d] = Append(buf[d], x[2]) /\ sendq'[d] = Without(sendq[d], t)
      BY <1>1, <2>1, <2>2, <2>4
    <3>2. x \in Ids \X Values /\ x \in sendq[d]
      BY <1>1, <2>1, <2>4
    <3>3. \A w \in sendq[d] \ sendq'[d] : w = x
      BY <1>1, <2>1, <3>1, <3>2 DEF Without, FunctionIn
    <3> QED
      BY <3>1, <3>2, <3>3 DEF InOrder
  <2> QED
    BY <2>3, <2>4
<1>6. CASE ResumeRecv(t)
  <2> DEFINE c == on[t]
  <2>1. buf[c] # <<>> /\ buf' = [buf EXCEPT ![c] = Tail(@)] /\ sendq' = sendq
    BY <1>6 DEF ResumeRecv
  <2> HIDE DEF c
  <2> QED
    BY <1>1, <2>1 DEF InOrder
<1> QED
  BY <1>3, <1>4, <1>5, <1>6

(* A message leaves a blocked sender with the value it had when the sender
   blocked, and a buffer loses messages at its head and gains them at its end:
   the resumption of a sender, which step_thread and resume_thread interleave
   with new sends, reorders nothing and changes no value. *)
THEOREM MessageOrder == Spec => MessagesInOrder
<1> DEFINE A == \A c \in Channels : Capacity[c] > 0 => InOrder(c)
<1>1. IInv /\ [Next]_vars => [A]_vars
  <2> SUFFICES ASSUME IInv, NEW t \in Ids, Step(t), NEW c \in Channels, Capacity[c] > 0
               PROVE  InOrder(c)
    BY DEF Next
  <2>1. CASE UNCHANGED chanVars
    BY <2>1 DEF chanVars, InOrder
  <2> QED
    BY <2>1, Touches, ChannelOrder
<1> HIDE DEF A
<1>2. Spec => [][A]_vars
  BY <1>1, Invariant, PTL DEF Spec
<1> QED
  BY <1>2 DEF A, InOrder, MessagesInOrder

-----------------------------------------------------------------------------
(* Steps that start, end and stack no thread *)

(* Of the frames, only the top frames of ts change, and no handle changes. *)
Moves(ts) ==
  \A f \in Ids :
    /\ (\A x \in ts : f # Top(x)) => frame'[f] = frame[f]
    /\ frame[f] # NoFrame => frame'[f].handles = frame[f].handles

(* write_dst and advance move the frames of the threads they are called for. *)
LEMMA AdvanceMoves ==
  ASSUME IInv, NEW ts \in SUBSET Ids, \A u \in ts : stack[u] # <<>>,
         NEW r \in ts, NEW dst, NEW v,
         frame' \in {Advance(frame, ts), Advance(Put(frame, Top(r), dst, v), ts)}
  PROVE  Moves(ts)
<1>1. frame \in FrameStore /\ Top(r) \in Ids /\ frame[Top(r)] \in FrameState
  BY TopAllocated DEF IInv, TypeOK, FrameStore, Fr
<1>2. PICK g : g \in {frame, Put(frame, Top(r), dst, v)} /\ frame' = Advance(g, ts)
  OBVIOUS
<1>3. \A f \in Ids : /\ f # Top(r) => g[f] = frame[f]
                     /\ frame[f] # NoFrame => g[f].handles = frame[f].handles
  <2>1. CASE g = frame
    BY <2>1
  <2>2. CASE g = Put(frame, Top(r), dst, v) /\ dst \in Locals
    <3> DEFINE y == [frame[Top(r)] EXCEPT !.locals[dst] = v]
    <3>1. y.handles = frame[Top(r)].handles
      BY <1>1 DEF FrameState
    <3>2. g = [frame EXCEPT ![Top(r)] = y]
      BY <2>2 DEF Put
    <3> HIDE DEF y
    <3> QED
      BY <1>1, <3>1, <3>2 DEF FrameStore
  <2>3. CASE g = Put(frame, Top(r), dst, v) /\ dst \notin Locals
    BY <2>3 DEF Put
  <2> QED
    BY <1>2, <2>1, <2>2, <2>3
<1> SUFFICES ASSUME NEW f \in Ids
             PROVE  /\ (\A x \in ts : f # Top(x)) => frame'[f] = frame[f]
                    /\ frame[f] # NoFrame => frame'[f].handles = frame[f].handles
  BY DEF Moves
<1>4. frame'[f] = IF \E x \in ts : f = Top(x) THEN [g[f] EXCEPT !.pc = @ + 1] ELSE g[f]
  BY <1>2 DEF Advance
<1>5. [g[f] EXCEPT !.pc = @ + 1].handles = g[f].handles
  OBVIOUS
<1> QED
  BY <1>3, <1>4, <1>5

(* A thread that waited before the step and still waits as it did. *)
Kept(u) ==
  /\ status'[u] = status[u] /\ on'[u] = on[u] /\ stack'[u] = stack[u]
  /\ frame'[Top(u)] = frame[Top(u)]
  /\ \A c \in Condvars, k \in Mutexes : <<u, k>> \in cvq[c] => <<u, k>> \in cvq'[c]
  /\ status[u] = "scope" =>
       \/ scope'[on[u]] = scope[on[u]]
       \/ scope'[on[u]] # NoScope /\ scope'[on[u]].owner = scope[on[u]].owner

(* A thread that begins to wait where it stands; its child, if it joins one,
   has not finished. *)
Begins(u) ==
  /\ Firm(u)'
  /\ status'[u] = "join" => UNCHANGED children /\ Live' = Live /\ children[u][on'[u]] \in Live

(* Who waits after a step waited so before, or begins to. *)
WaitsRightly == \A u \in Ids : status'[u] \in Blocking => Kept(u) \/ Begins(u)

(* The children, the handles and the threads that are alive stay. *)
Quiet ==
  /\ UNCHANGED <<children, parent, next>> /\ stack' = stack
  /\ \A f \in Ids : frame[f] # NoFrame => frame'[f].handles = frame[f].handles
  /\ \A u \in Ids : /\ status'[u] = "absent" <=> status[u] = "absent"
                    /\ status'[u] = "done" <=> status[u] = "done"

(* No entry but those of ts leaves a condvar. *)
KeepsWaiters(ts) ==
  \A u \in Ids \ ts : \A c \in Condvars, k \in Mutexes :
     <<u, k>> \in cvq[c] => <<u, k>> \in cvq'[c]

(* A step that moves some threads, runs them on and leaves the others alone. *)
LEMMA MoveQuiet ==
  ASSUME IInv, NEW ts \in SUBSET Ids, \A u \in ts : stack[u] # <<>>, Moves(ts),
         UNCHANGED <<stack, children, parent, next, scope>>,
         \A u \in ts : status'[u] = "run",
         \A u \in Ids \ ts : status'[u] = status[u] /\ on'[u] = on[u],
         KeepsWaiters(ts)
  PROVE  Quiet /\ WaitsRightly
<1>1. \A u \in ts : status[u] \notin Ended
  BY DEF IInv, FramesOwned, Live, Ended
<1>2. Quiet
  BY <1>1 DEF Quiet, Moves, Ended
<1>3. ASSUME NEW u \in Ids, status'[u] \in Blocking
      PROVE  Kept(u)
  <2>1. u \notin ts
    BY <1>3 DEF Blocking
  <2>2. stack[u] # <<>>
    BY <1>3, <2>1, BlockedHasFrame
  <2>3. \A x \in ts : Top(u) # Top(x)
    BY <2>1, <2>2, TopsDiffer DEF IInv
  <2>4. Top(u) \in Ids
    BY <2>2, TopAllocated DEF IInv
  <2> QED
    BY <2>1, <2>3, <2>4 DEF Kept, Moves, KeepsWaiters
<1> QED
  BY <1>2, <1>3 DEF WaitsRightly

(* A thread that blocks at its own statement, with nothing else changed for the
   others. *)
LEMMA BlockQuiet ==
  ASSUME IInv, NEW t \in Ids, status[t] = "run", AtStatement(t),
         NEW why \in Blocking \ {"scope"}, NEW what, Block(t, why, what),
         UNCHANGED <<prog, frame, next, scope>>, KeepsWaiters({t}),
         why = "lock" => Op(t).op = "lock" /\ Op(t).m = what,
         why = "send" => Op(t).op = "send" /\ Op(t).c = what,
         why = "recv" => Op(t).op = "recv" /\ Op(t).c = what,
         why = "acquire" => Op(t).op = "acquire" /\ Op(t).s = what,
         why = "wait" => Op(t).op = "wait" /\ Op(t).cv = what /\ <<t, Op(t).m>> \in cvq'[what],
         why = "join" => /\ Op(t).op = "join"
                         /\ Fr(t).handles[Op(t).h] = what /\ what \in Ids
                         /\ children[t][what] \in Live
  PROVE  Quiet /\ WaitsRightly
<1>1. /\ status'[t] = why /\ on'[t] = what
      /\ \A u \in Ids : u # t => status'[u] = status[u] /\ on'[u] = on[u]
      /\ stack' = stack /\ children' = children /\ parent' = parent
  BY BlockStep
<1>2. Quiet
  BY <1>1 DEF Quiet, Blocking
<1>3. Firm(t)'
  <2>1. Fr(t)' = Fr(t) /\ Op(t)' = Op(t) /\ AtStatement(t)'
    BY <1>1 DEF Fr, Op, Body, Top, AtStatement
  <2> QED
    BY <1>1, <2>1 DEF Firm, Stands, Blocking
<1>4. Begins(t)
  <2>1. Live' = Live
    BY <1>1 DEF Live, Blocking
  <2> QED
    BY <1>1, <1>3, <2>1 DEF Begins
<1>5. \A u \in Ids : u # t => Kept(u)
  BY <1>1 DEF Kept, KeepsWaiters
<1> QED
  BY <1>2, <1>4, <1>5 DEF WaitsRightly

(* The waiting threads of a step in which only t moves. *)
LEMMA OneMoves ==
  ASSUME IInv, NEW t \in Ids, AtStatement(t), status[t] = "run",
         frame' = Advance(frame, {t}) \/ \E dst, v : frame' = Advance(Put(frame, Top(t), dst, v), {t}),
         UNCHANGED <<threadVars, next, scope, cvq>>
  PROVE  Quiet /\ WaitsRightly
<1>1. Moves({t})
  <2>1. stack[t] # <<>>
    BY DEF AtStatement
  <2> DEFINE ts == {t}
  <2>2. ts \in SUBSET Ids /\ t \in ts /\ \A u \in ts : stack[u] # <<>>
    BY <2>1
  <2>3. PICK dst, v : frame' \in {Advance(frame, ts), Advance(Put(frame, Top(t), dst, v), ts)}
    OBVIOUS
  <2> HIDE DEF ts
  <2>4. Moves(ts)
    BY <2>2, <2>3, AdvanceMoves
  <2> QED
    BY <2>4 DEF ts
<1>2. stack[t] # <<>> /\ KeepsWaiters({t})
  BY DEF AtStatement, KeepsWaiters
<1> QED
  BY <1>1, <1>2, MoveQuiet DEF threadVars

(* Operations on data and jumps move their own thread. *)
LEMMA DataQuiet ==
  ASSUME IInv, NEW t \in Ids,
         DataStep(t) \/ Goto(t) \/ Branch(t) \/ Switch(t) \/ CallTransparent(t)
  PROVE  Quiet /\ WaitsRightly
<1>1. AtStatement(t) /\ status[t] = "run"
  BY DEF DataStep, Nop, AssignLocal, LoadShared, StoreShared, AtomicCas, Goto, Branch,
         Switch, CallTransparent, Executes
<1>2. UNCHANGED <<threadVars, next, scope, cvq>>
  BY DEF DataStep, Nop, AssignLocal, LoadShared, StoreShared, AtomicCas, Assign, Goto, Branch,
         Switch, Jump, CallTransparent, OnlyData, OnlyStack, threadVars, idVars, syncVars
<1>3. CASE DataStep(t) \/ CallTransparent(t)
  <2>1. frame' = Advance(frame, {t}) \/ \E dst, v : frame' = Advance(Put(frame, Top(t), dst, v), {t})
    BY <1>3 DEF DataStep, Nop, AssignLocal, LoadShared, StoreShared, AtomicCas, Assign,
                CallTransparent
  <2> QED
    BY <1>1, <1>2, <2>1, OneMoves
<1>4. CASE Goto(t) \/ Branch(t) \/ Switch(t)
  <2>1. PICK target : frame' = [frame EXCEPT ![Top(t)].pc = target]
    BY <1>4 DEF Goto, Branch, Switch, Jump
  <2>2. /\ frame \in FrameStore /\ Top(t) \in Ids /\ frame[Top(t)] \in FrameState
        /\ stack[t] # <<>>
    BY <1>1, TopAllocated DEF IInv, TypeOK, FrameStore, Fr, AtStatement
  <2> DEFINE y == [frame[Top(t)] EXCEPT !.pc = target]
  <2>3. y.handles = frame[Top(t)].handles
    BY <2>2 DEF FrameState
  <2>4. frame' = [frame EXCEPT ![Top(t)] = y]
    BY <2>1
  <2> HIDE DEF y
  <2>5. Moves({t})
    BY <2>2, <2>3, <2>4 DEF Moves, FrameStore
  <2> QED
    BY <1>1, <1>2, <2>2, <2>5, MoveQuiet DEF KeepsWaiters, threadVars
<1> QED
  BY <1>3, <1>4

-----------------------------------------------------------------------------
(* Mutexes, condition variables, semaphores *)

(* A notified waiter asks for the mutex its own `wait` names. *)
LEMMA NotifyQuiet ==
  ASSUME IInv, WaitersStand, NEW t \in Ids, CondvarNotify(t) \/ CondvarNotifyAll(t)
  PROVE  Quiet /\ WaitsRightly
<1> DEFINE cv == Op(t).cv
<1>1. /\ AtStatement(t) /\ status[t] = "run" /\ stack[t] # <<>> /\ cv \in Condvars
      /\ frame' = Advance(frame, {t}) /\ UNCHANGED <<prog, next, scope>>
  BY Executing, OpFields DEF CondvarNotify, CondvarNotifyAll, Executes, OnlySync, idVars
<1> HIDE DEF cv
<1>2. CASE UNCHANGED threadVars /\ cvq' = cvq
  BY <1>1, <1>2, OneMoves
<1>3. ASSUME NEW ws \in SUBSET cvq[cv], Notified(ws), cvq' = [cvq EXCEPT ![cv] = @ \ ws]
      PROVE  Quiet /\ WaitsRightly
  <2>1. /\ cvq \in [Condvars -> SUBSET (Ids \X Mutexes)] /\ FunctionIn(cvq[cv])
        /\ {w[1] : w \in cvq[cv]} = Waiting("wait", cv)
    BY <1>1 DEF IInv, TypeOK, WaitQueuesExact
  <2>2. Moves({t})
    <3> DEFINE ts == {t}
    <3>1. ts \in SUBSET Ids /\ t \in ts /\ \A u \in ts : stack[u] # <<>>
      BY <1>1
    <3>2. frame' = Advance(frame, ts)
      BY <1>1
    <3> HIDE DEF ts
    <3>3. Moves(ts)
      BY <3>1, <3>2, AdvanceMoves
    <3> QED
      BY <3>3 DEF ts
  <2>3. stack' = stack /\ children' = children /\ parent' = parent
    BY <1>3 DEF Notified
  <2>4. \A u \in Ids : u # t /\ stack[u] # <<>> => frame'[Top(u)] = frame[Top(u)]
    <3> SUFFICES ASSUME NEW u \in Ids, u # t, stack[u] # <<>>
                 PROVE  frame'[Top(u)] = frame[Top(u)]
      OBVIOUS
    <3>1. Top(u) \in Ids /\ Top(u) # Top(t)
      BY <1>1, TopAllocated, TopsDiffer DEF IInv
    <3> QED
      BY <2>2, <3>1 DEF Moves
  <2>5. ASSUME NEW u \in Ids, \E w \in ws : w[1] = u
        PROVE  status[u] = "wait" /\ status'[u] = "lock" /\ Firm(u)'
    <3> DEFINE x == CHOOSE w \in ws : w[1] = u
    <3>1. x \in ws /\ x[1] = u
      BY <2>5
    <3>2. status'[u] = "lock" /\ on'[u] = x[2]
      BY <1>3, <2>5 DEF Notified
    <3> HIDE DEF x
    <3>3. status[u] = "wait" /\ on[u] = cv /\ u # t
      BY <1>1, <2>1, <3>1 DEF Waiting
    <3>4. Stands(u) /\ stack[u] # <<>>
      BY <3>3, BlockedHasFrame DEF WaitersStand, Firm, Blocking
    <3>5. Op(u).op = "wait" /\ <<u, Op(u).m>> \in cvq[cv] /\ AtStatement(u)
      BY <3>3, <3>4 DEF Stands
    <3>6. x = <<u, Op(u).m>>
      <4> DEFINE y == <<u, Op(u).m>>
      <4>1. y[1] = u /\ y \in cvq[cv]
        BY <3>5
      <4> HIDE DEF y
      <4>2. x = y
        BY <2>1, <3>1, <4>1 DEF FunctionIn
      <4> QED
        BY <4>2 DEF y
    <3>7. Fr(u)' = Fr(u) /\ Op(u)' = Op(u) /\ AtStatement(u)'
      BY <1>1, <2>3, <2>4, <3>3, <3>4, <3>5 DEF Fr, Op, Body, Top, AtStatement
    <3> QED
      BY <3>2, <3>3, <3>5, <3>6, <3>7 DEF Firm, Stands
  <2>6. ASSUME NEW u \in Ids, ~\E w \in ws : w[1] = u
        PROVE  /\ status'[u] = status[u] /\ on'[u] = on[u]
               /\ \A c \in Condvars, k \in Mutexes : <<u, k>> \in cvq[c] => <<u, k>> \in cvq'[c]
    <3>1. status'[u] = status[u] /\ on'[u] = on[u]
      BY <1>3, <2>6 DEF Notified
    <3>2. ASSUME NEW c \in Condvars, NEW k \in Mutexes, <<u, k>> \in cvq[c]
          PROVE  <<u, k>> \in cvq'[c]
      <4>1. <<u, k>> \notin ws
        BY <2>6
      <4> QED
        BY <1>3, <2>1, <3>2, <4>1
    <3> QED
      BY <3>1, <3>2
  <2>7. Quiet
    BY <1>1, <2>2, <2>3, <2>5, <2>6 DEF Quiet, Moves
  <2>8. ASSUME NEW u \in Ids, status'[u] \in Blocking, ~\E w \in ws : w[1] = u
        PROVE  Kept(u)
    <3>1. status'[u] = status[u] /\ on'[u] = on[u]
      BY <2>6, <2>8
    <3>2. u # t /\ stack[u] # <<>>
      BY <1>1, <2>8, <3>1, BlockedHasFrame DEF Blocking
    <3> QED
      BY <1>1, <2>3, <2>4, <2>6, <2>8, <3>1, <3>2 DEF Kept
  <2> QED
    BY <2>5, <2>7, <2>8 DEF WaitsRightly, Begins
<1>4. CASE CondvarNotify(t)
  <2>1. \/ UNCHANGED threadVars /\ cvq' = cvq
        \/ \E w \in cvq[cv] : cvq' = [cvq EXCEPT ![cv] = @ \ {w}] /\ Notified({w})
    BY <1>4 DEF CondvarNotify, cv
  <2>2. ASSUME NEW w \in cvq[cv], cvq' = [cvq EXCEPT ![cv] = @ \ {w}], Notified({w})
        PROVE  Quiet /\ WaitsRightly
    <3>1. {w} \in SUBSET cvq[cv]
      OBVIOUS
    <3> QED
      BY <1>3, <2>2, <3>1
  <2> QED
    BY <1>2, <2>1, <2>2
<1>5. CASE CondvarNotifyAll(t)
  <2> DEFINE ws == cvq[cv]
  <2>1. Notified(ws) /\ cvq' = [cvq EXCEPT ![cv] = {}]
    BY <1>5 DEF CondvarNotifyAll, cv
  <2>2. cvq' = [cvq EXCEPT ![cv] = @ \ ws]
    BY <2>1
  <2> QED
    BY <1>3, <2>1, <2>2
<1> QED
  BY <1>4, <1>5

(* The other operations on mutexes, condvars and semaphores. *)
LEMMA SyncQuiet ==
  ASSUME IInv, WaitersStand, NEW t \in Ids, SyncStep(t)
  PROVE  Quiet /\ WaitsRightly
<1>1. CASE MutexUnlock(t) \/ SemaphoreRelease(t)
  BY <1>1, OneMoves DEF MutexUnlock, SemaphoreRelease, Executes, OnlySync, idVars
<1>2. CASE MutexLock(t)
  <2>1. /\ AtStatement(t) /\ status[t] = "run" /\ Op(t).op = "lock"
        /\ UNCHANGED <<prog, next, scope, cvq>>
    BY <1>2 DEF MutexLock, Executes, OnlySync, idVars
  <2>2. CASE UNCHANGED threadVars /\ frame' = Advance(frame, {t})
    BY <2>1, <2>2, OneMoves
  <2>3. CASE Block(t, "lock", Op(t).m) /\ frame' = frame
    BY <2>1, <2>3, BlockQuiet DEF KeepsWaiters, Blocking
  <2> QED
    BY <1>2, <2>2, <2>3 DEF MutexLock
<1>3. CASE CondvarWait(t)
  <2> DEFINE o == Op(t)
  <2>1. /\ AtStatement(t) /\ status[t] = "run" /\ o.op = "wait" /\ o.cv \in Condvars
        /\ UNCHANGED <<prog, next, scope, frame>> /\ Block(t, "wait", o.cv)
        /\ cvq' = [cvq EXCEPT ![o.cv] = @ \union {<<t, o.m>>}]
    BY <1>3, Executing, OpFields DEF CondvarWait, Executes, OnlySync, idVars
  <2>2. cvq \in [Condvars -> SUBSET (Ids \X Mutexes)]
    BY DEF IInv, TypeOK
  <2>3. <<t, o.m>> \in cvq'[o.cv] /\ KeepsWaiters({t})
    BY <2>1, <2>2 DEF KeepsWaiters
  <2> QED
    BY <2>1, <2>3, BlockQuiet DEF Blocking
<1>4. CASE SemaphoreAcquire(t)
  <2>1. /\ AtStatement(t) /\ status[t] = "run" /\ Op(t).op = "acquire"
        /\ UNCHANGED <<prog, next, scope, cvq>>
    BY <1>4 DEF SemaphoreAcquire, Executes, OnlySync, idVars
  <2>2. CASE UNCHANGED threadVars /\ frame' = Advance(frame, {t})
    BY <2>1, <2>2, OneMoves
  <2>3. CASE Block(t, "acquire", Op(t).s) /\ frame' = frame
    BY <2>1, <2>3, BlockQuiet DEF KeepsWaiters, Blocking
  <2> QED
    BY <1>4, <2>2, <2>3 DEF SemaphoreAcquire
<1> QED
  BY <1>1, <1>2, <1>3, <1>4, NotifyQuiet DEF SyncStep

-----------------------------------------------------------------------------
(* Channels and the resumption of blocked threads *)

(* A delivery to r that completes the operation of t; one of them may have been
   woken. *)
LEMMA DeliverQuiet ==
  ASSUME IInv, NEW r \in Ids, NEW t \in Ids, NEW v, Deliver(r, v, t),
         stack[r] # <<>>, stack[t] # <<>>, status'[r] = "run", status'[t] = "run",
         \A u \in Ids : u # r /\ u # t => status'[u] = status[u] /\ on'[u] = on[u],
         stack' = stack, children' = children, parent' = parent,
         next' = next, scope' = scope, cvq' = cvq
  PROVE  Quiet /\ WaitsRightly
<1> DEFINE ts == {r, t}
           dst == Op(r).dst
<1>1. /\ ts \in SUBSET Ids /\ r \in ts /\ \A u \in ts : stack[u] # <<>>
      /\ frame' = Advance(Put(frame, Top(r), dst, v), ts)
  BY DEF Deliver
<1>2. /\ \A u \in ts : status'[u] = "run"
      /\ \A u \in Ids \ ts : status'[u] = status[u] /\ on'[u] = on[u]
  OBVIOUS
<1> HIDE DEF ts, dst
<1>3. Moves(ts)
  BY <1>1, AdvanceMoves
<1> QED
  BY <1>1, <1>2, <1>3, MoveQuiet DEF KeepsWaiters

(* Who runs after a thread was woken. *)
LEMMA Woken ==
  ASSUME NEW w \in Ids, Wake({w})
  PROVE  /\ stack' = stack /\ children' = children /\ parent' = parent
         /\ status'[w] = "run"
         /\ \A u \in Ids : u # w => status'[u] = status[u] /\ on'[u] = on[u]
BY DEF Wake

(* Operations on channels move the thread and its partner, or block it. *)
LEMMA ChannelQuiet ==
  ASSUME IInv, NEW t \in Ids, ChannelStep(t)
  PROVE  Quiet /\ WaitsRightly
<1> DEFINE c == Op(t).c
<1>1. /\ AtStatement(t) /\ status[t] = "run" /\ stack[t] # <<>> /\ c \in Channels
      /\ prog' = prog /\ next' = next /\ scope' = scope /\ cvq' = cvq
  BY Executing, OpFields
     DEF ChannelStep, ChannelSend, ChannelRecv, Executes, OnlyChannels, idVars, syncVars
<1>2. CASE ChannelSend(t)
  <2> DEFINE v == Value(t, Op(t).e)
  <2>1. Op(t).op = "send"
    BY <1>2 DEF ChannelSend, Executes
  <2>2. SendToReceiver(t, c, v) \/ SendBlocks(t, c, v) \/ SendToBuffer(t, c, v)
    BY <1>2 DEF ChannelSend
  <2> HIDE DEF v
  <2>3. CASE SendToReceiver(t, c, v)
    <3>1. PICK r \in recvq[c] : Deliver(r, v, t) /\ Wake({r})
      BY <2>3 DEF SendToReceiver
    <3>2. r \in Ids /\ status[r] = "recv"
      BY <1>1, <3>1 DEF IInv, WaitQueuesExact, Waiting
    <3>3. stack[r] # <<>>
      BY <3>2, BlockedHasFrame DEF Blocking
    <3> QED
      BY <1>1, <3>1, <3>2, <3>3, Woken, DeliverQuiet
  <2>4. CASE SendBlocks(t, c, v)
    BY <1>1, <2>1, <2>4, BlockQuiet DEF SendBlocks, KeepsWaiters, Blocking
  <2>5. CASE SendToBuffer(t, c, v)
    BY <1>1, <2>5, OneMoves DEF SendToBuffer
  <2> QED
    BY <2>2, <2>3, <2>4, <2>5
<1>3. CASE ChannelRecv(t)
  <2>1. Op(t).op = "recv"
    BY <1>3 DEF ChannelRecv, Executes
  <2>2. RecvFromSender(t, c) \/ RecvBlocks(t, c) \/ RecvFromBuffer(t, c)
    BY <1>3 DEF ChannelRecv
  <2>3. CASE RecvFromSender(t, c)
    <3>1. PICK w \in sendq[c] : Deliver(t, w[2], w[1]) /\ Wake({w[1]})
      BY <2>3 DEF RecvFromSender
    <3>2. w[1] \in Ids /\ status[w[1]] = "send"
      <4>1. w[1] \in Waiting("send", c)
        BY <1>1, <3>1 DEF IInv, WaitQueuesExact
      <4> QED
        BY <4>1 DEF Waiting
    <3>3. stack[w[1]] # <<>>
      BY <3>2, BlockedHasFrame DEF Blocking
    <3> DEFINE u == w[1]
    <3>4. u \in Ids /\ Deliver(t, w[2], u) /\ Wake({u}) /\ stack[u] # <<>>
      BY <3>1, <3>2, <3>3
    <3> HIDE DEF u
    <3> QED
      BY <1>1, <3>4, Woken, DeliverQuiet
  <2>4. CASE RecvBlocks(t, c)
    BY <1>1, <2>1, <2>4, BlockQuiet DEF RecvBlocks, KeepsWaiters, Blocking
  <2>5. CASE RecvFromBuffer(t, c)
    <3>1. PICK v : Deliver(t, v, t) /\ UNCHANGED threadVars
      BY <2>5 DEF RecvFromBuffer
    <3> QED
      BY <1>1, <3>1, DeliverQuiet DEF threadVars
  <2> QED
    BY <2>2, <2>3, <2>4, <2>5
<1> QED
  BY <1>2, <1>3 DEF ChannelStep

(* A resumed thread moves on. *)
LEMMA ResumeQuiet ==
  ASSUME IInv, NEW t \in Ids, Resume(t)
  PROVE  Quiet /\ WaitsRightly
<1>1. /\ status[t] \in Blocking /\ Wake({t})
      /\ prog' = prog /\ next' = next /\ scope' = scope /\ cvq' = cvq
  BY DEF Resume, ResumeLock, ResumeSemaphore, ResumeSend, ResumeRecv, OnlySync,
         OnlyChannels, idVars, syncVars, Blocking
<1>2. stack[t] # <<>>
  BY <1>1, BlockedHasFrame
<1>3. CASE ResumeRecv(t)
  <2>1. PICK v : Deliver(t, v, t)
    BY <1>3 DEF ResumeRecv
  <2> QED
    BY <1>1, <1>2, <2>1, Woken, DeliverQuiet
<1>4. CASE ResumeLock(t) \/ ResumeSemaphore(t) \/ ResumeSend(t)
  <2> DEFINE ts == {t}
  <2>1. frame' = Advance(frame, ts)
    BY <1>4 DEF ResumeLock, ResumeSemaphore, ResumeSend
  <2>2. ts \in SUBSET Ids /\ t \in ts /\ \A u \in ts : stack[u] # <<>>
    BY <1>2
  <2>3. /\ stack' = stack /\ children' = children /\ parent' = parent
        /\ \A u \in ts : status'[u] = "run"
        /\ \A u \in Ids \ ts : status'[u] = status[u] /\ on'[u] = on[u]
    BY <1>1 DEF Wake
  <2> HIDE DEF ts
  <2>4. Moves(ts)
    BY <2>1, <2>2, AdvanceMoves
  <2> QED
    BY <1>1, <2>2, <2>3, <2>4, MoveQuiet DEF KeepsWaiters
<1> QED
  BY <1>3, <1>4 DEF Resume

-----------------------------------------------------------------------------
(* Calls, returns and the end of a thread *)

(* The frames of thread t and the free frames are none that a waiting thread
   stands in. *)
LEMMA NotItsFrame ==
  ASSUME IInv, NEW t \in Ids, status[t] = "run", NEW u \in Ids, status[u] \in Blocking
  PROVE  /\ Top(u) \in Ids /\ frame[Top(u)] # NoFrame
         /\ \A i \in DOMAIN stack[t] : stack[t][i] # Top(u)
         /\ Top(u) # next.frame
<1>1. stack[u] # <<>> /\ u # t
  BY BlockedHasFrame DEF Blocking
<1>2. Len(stack[u]) \in DOMAIN stack[u] /\ Top(u) \in Ids /\ frame[Top(u)] # NoFrame
  BY <1>1, TopAllocated DEF IInv, Fr
<1>3. \A i \in DOMAIN stack[t] : stack[t][i] # Top(u)
  BY <1>1, <1>2 DEF IInv, FramesOwned, Top
<1>4. next.frame \in Ids => frame[next.frame] = NoFrame
  <2>1. next.frame >= next.frame
    BY DEF IInv, TypeOK
  <2> QED
    BY <2>1 DEF IInv, Fresh
<1> QED
  BY <1>2, <1>3, <1>4

(* A call pushes a free frame, and leaves the waiting threads alone. *)
LEMMA CallWaits ==
  ASSUME IInv, NEW t \in Ids, CallBody(t)
  PROVE  WaitsRightly
<1>1. /\ status[t] = "run" /\ status' = status /\ on' = on /\ scope' = scope /\ cvq' = cvq
      /\ \E y : frame' = [frame EXCEPT ![next.frame] = y]
      /\ stack' = [stack EXCEPT ![t] = Append(@, next.frame)]
  BY DEF CallBody, Executes, OnlyStack, syncVars
<1>2. frame \in [Ids -> FrameState \union {NoFrame}] /\ stack \in [Ids -> Seq(Ids)]
  BY DEF IInv, TypeOK
<1> SUFFICES ASSUME NEW u \in Ids, status[u] \in Blocking
             PROVE  Kept(u)
  BY <1>1 DEF WaitsRightly
<1>3. u # t /\ Top(u) \in Ids /\ Top(u) # next.frame
  BY <1>1, NotItsFrame DEF Blocking
<1> QED
  BY <1>1, <1>2, <1>3 DEF Kept

(* A return to a caller changes two frames of its own thread. *)
LEMMA PopWaits ==
  ASSUME IInv, NEW t \in Ids, status[t] = "run", stack[t] # <<>>, NEW v, PopFrame(t, v)
  PROVE  WaitsRightly
<1>1. /\ status' = status /\ on' = on /\ scope' = scope /\ cvq' = cvq
      /\ \E y : stack' = [stack EXCEPT ![t] = y]
  BY DEF PopFrame, OnlyStack, syncVars
<1>2. frame \in [Ids -> FrameState \union {NoFrame}] /\ stack \in [Ids -> Seq(Ids)]
  BY DEF IInv, TypeOK
<1>3. Len(stack[t]) \in DOMAIN stack[t] /\ Len(stack[t]) - 1 \in DOMAIN stack[t]
  BY <1>2 DEF PopFrame, Nested
<1> SUFFICES ASSUME NEW u \in Ids, status[u] \in Blocking
             PROVE  Kept(u)
  BY <1>1 DEF WaitsRightly
<1>4. u # t /\ Top(u) \in Ids /\ Top(u) # Top(t) /\ Top(u) # Caller(t)
  BY <1>3, NotItsFrame DEF Blocking, Top, Caller
<1>5. frame'[Top(u)] = frame[Top(u)]
  <2> DEFINE ret == Fr(t).ret
             stored == IF v = NoValue THEN frame ELSE Put(frame, Caller(t), ret.dst, v)
  <2>1. frame' = [stored EXCEPT ![Caller(t)].pc = ret.pc, ![Top(t)] = NoFrame]
    BY DEF PopFrame
  <2>2. DOMAIN stored = Ids /\ stored[Top(u)] = frame[Top(u)]
    BY <1>2, <1>4 DEF Put
  <2> HIDE DEF stored, ret
  <2> QED
    BY <1>4, <2>1, <2>2
<1> QED
  BY <1>1, <1>2, <1>4, <1>5 DEF Kept

(* The end of a thread wakes whoever waited for it, and no other. *)
LEMMA FinishWaits ==
  ASSUME IInv, WaitersStand, NEW t \in Ids, status[t] = "run", stack[t] # <<>>, FinishThread(t)
  PROVE  WaitsRightly
<1> DEFINE J == Joiners(t)
           s == parent[t]
<1>1. /\ status' = [u \in Ids |-> IF u \in Gone(t) THEN "absent" ELSE IF u = t THEN "done"
                                  ELSE IF u \in Owners(t) \union J THEN "run" ELSE status[u]]
      /\ on' = [u \in Ids |-> IF u \in Owners(t) \union J \union Gone(t) THEN Nothing ELSE on[u]]
      /\ stack' = [stack EXCEPT ![t] = <<>>]
      /\ cvq' = cvq
  BY DEF FinishThread, Owners, Gone, syncVars
<1>2. frame' = [f \in Ids |->
              IF f = Top(t) THEN NoFrame
              ELSE IF \E u \in J : f = Top(u)
                   THEN AfterJoin(frame[f], Op(CHOOSE u \in J : f = Top(u)).h)
              ELSE IF \E u \in Owners(t) : f = Top(u)
                   THEN [frame[f] EXCEPT !.pc = @ + 1]
              ELSE frame[f]]
  BY DEF FinishThread, Owners
<1>3. scope' = [x \in Ids |->
              IF x # s \/ scope[x] = NoScope THEN scope[x]
              ELSE IF EmptiesScope(t) THEN NoScope
              ELSE [scope[x] EXCEPT !.remaining = @ \ {t}]]
  BY DEF FinishThread
<1>4. \A u \in J \union Owners(t) : u \in Ids /\ status[u] \in {"join", "scope"} /\ stack[u] # <<>>
  <2>1. \A u \in J : u \in Ids /\ status[u] = "join"
    BY DEF Joiners
  <2>2. \A u \in Owners(t) : u \in Ids /\ status[u] = "scope"
    BY LastMember
  <2> QED
    BY <2>1, <2>2 DEF IInv, FramesOwned, Live
<1>5. stack \in [Ids -> Seq(Ids)] /\ scope \in [Ids -> ScopeState \union {NoScope}]
  BY DEF IInv, TypeOK
<1> SUFFICES ASSUME NEW u \in Ids, status'[u] \in Blocking
             PROVE  Kept(u)
  BY DEF WaitsRightly
<1>6. /\ u \notin J \union Owners(t) /\ u # t /\ u \notin Gone(t)
      /\ status'[u] = status[u] /\ on'[u] = on[u] /\ status[u] \in Blocking
  BY <1>1 DEF Blocking
<1>7. stack'[u] = stack[u] /\ stack[u] # <<>> /\ Top(u) \in Ids
  BY <1>1, <1>5, <1>6, BlockedHasFrame, NotItsFrame
<1>8. frame'[Top(u)] = frame[Top(u)]
  <2>1. Top(u) # Top(t)
    BY <1>6, <1>7, TopsDiffer DEF IInv
  <2>2. \A x \in J \union Owners(t) : Top(u) # Top(x)
    BY <1>4, <1>6, <1>7, TopsDiffer DEF IInv
  <2> HIDE DEF J
  <2> QED
    BY <1>2, <1>7, <2>1, <2>2
<1>9. ASSUME status[u] = "scope"
      PROVE  \/ scope'[on[u]] = scope[on[u]]
             \/ scope'[on[u]] # NoScope /\ scope'[on[u]].owner = scope[on[u]].owner
  <2>1. on[u] \in Ids /\ scope[on[u]] # NoScope /\ scope[on[u]].owner = u
    BY <1>6, <1>9 DEF WaitersStand, Firm, Stands
  <2>2. CASE on[u] # s
    BY <1>3, <2>1, <2>2
  <2>3. CASE on[u] = s
    <3>1. ~EmptiesScope(t)
      BY <1>6, <2>1, <2>3 DEF Owners
    <3> DEFINE sc == scope[s]
               y == [sc EXCEPT !.remaining = @ \ {t}]
    <3>2. sc \in ScopeState
      BY <1>5, <2>1, <2>3
    <3>3. y \in ScopeState /\ y.owner = sc.owner
      BY <3>2 DEF ScopeState
    <3>4. scope'[s] = y
      BY <1>3, <2>1, <2>3, <3>1
    <3> HIDE DEF y
    <3> QED
      BY <2>3, <3>3, <3>4, LimitsAssumption
  <2> QED
    BY <2>2, <2>3
<1> QED
  BY <1>1, <1>6, <1>7, <1>8, <1>9 DEF Kept

-----------------------------------------------------------------------------
(* New threads and joins *)

(* Creating threads changes no frame that exists. *)
LEMMA NewFramesOnly ==
  ASSUME IInv, NEW fs \in Seq(Functions), HasRoom(fs), NEW g,
         NEW f \in Ids, frame[f] # NoFrame
  PROVE  WithNewFrames(fs, g)[f] = g[f]
<1>1. \A i \in Born(fs) : FrameOf(fs, i) \in Ids /\ FrameOf(fs, i) >= next.frame
  BY FramesFor
<1>2. \A i \in Born(fs) : f # FrameOf(fs, i)
  BY <1>1 DEF IInv, Fresh
<1> QED
  BY <1>2 DEF WithNewFrames

(* Creating threads leaves the waiting threads alone. *)
LEMMA CreationWaits ==
  ASSUME IInv, NEW t \in Ids, status[t] = "run",
         NEW fs \in Seq(Functions), NEW p, CreateThreads(fs, p), cvq' = cvq,
         NEW g, frame' = WithNewFrames(fs, g) \/ frame' = Advance(frame, {t}),
         \A f \in Ids : f # Top(t) => g[f] = frame[f],
         NEW u \in Ids, status[u] \in Blocking,
         status'[u] = status[u], on'[u] = on[u],
         status[u] = "scope" => scope'[on[u]] = scope[on[u]]
  PROVE  Kept(u)
<1>1. stack[t] # <<>> /\ Len(stack[t]) \in DOMAIN stack[t]
  BY TopAllocated DEF IInv, FramesOwned, Live
<1>2. Top(u) \in Ids /\ frame[Top(u)] # NoFrame /\ Top(u) # Top(t)
  BY <1>1, NotItsFrame DEF Top
<1>3. HasRoom(fs)
  BY DEF CreateThreads
<1>4. frame'[Top(u)] = frame[Top(u)]
  BY <1>2, <1>3, NewFramesOnly DEF Advance
<1>5. stack'[u] = stack[u]
  <2>1. u \notin Created(fs)
    BY <1>3, CreatedFresh DEF Blocking
  <2>2. Nth(u) \notin Born(fs)
    BY <1>3, <2>1, CreatedFresh DEF Running
  <2> QED
    BY <2>2 DEF CreateThreads
<1> QED
  BY <1>4, <1>5 DEF Kept

(* A spawn binds a handle of its own thread, and wakes nobody. *)
LEMMA SpawnWaits ==
  ASSUME IInv, NEW t \in Ids, Spawn(t)
  PROVE  WaitsRightly
<1> DEFINE o  == Op(t)
           fs == <<o.f>>
           g  == [frame EXCEPT ![Top(t)].handles[o.h] = next.handle, ![Top(t)].pc = @ + 1]
<1>0. status[t] = "run" /\ fs \in Seq(Functions)
  <2>1. status[t] = "run" /\ o.f \in Functions
    BY Executing, OpFields DEF Spawn, Executes
  <2> QED
    BY <2>1
<1>1. /\ status[t] = "run" /\ fs \in Seq(Functions) /\ CreateThreads(fs, None)
      /\ status' = BornStatus(fs) /\ on' = on /\ scope' = scope /\ cvq' = cvq
      /\ frame' = WithNewFrames(fs, g)
  BY <1>0 DEF Spawn, OnlyThreads, syncVars
<1>2. \A f \in Ids : f # Top(t) => g[f] = frame[f]
  BY DEF IInv, TypeOK
<1> HIDE DEF g, fs
<1>3. ASSUME NEW u \in Ids, status'[u] \in Blocking
      PROVE  status'[u] = status[u] /\ on'[u] = on[u]
  BY <1>1, <1>3 DEF BornStatus, Blocking
<1> QED
  BY <1>1, <1>2, <1>3, CreationWaits DEF WaitsRightly

(* The start of a scope blocks its owner on the new scope, or nobody. *)
LEMMA ScopeStartWaits ==
  ASSUME IInv, WaitersStand, NEW t \in Ids, ScopeStart(t)
  PROVE  WaitsRightly
<1> DEFINE fs == Op(t).fs
           s  == next.scope
           remaining == {u \in Ids : Nth(u) \in Born(fs)}
<1>1. /\ status[t] = "run" /\ AtStatement(t) /\ Op(t).op = "scope" /\ fs \in Seq(Functions)
      /\ CreateThreads(fs, s) /\ s \in Ids /\ cvq' = cvq /\ prog' = prog
  BY Executing, OpFields DEF ScopeStart, Executes, OnlyThreads, syncVars
<1>2. \/ /\ status' = BornStatus(fs) /\ frame' = Advance(frame, {t})
         /\ on' = on /\ scope' = scope
      \/ /\ scope' = [scope EXCEPT ![s] = [owner |-> t, frame |-> Top(t), remaining |-> remaining]]
         /\ status' = [BornStatus(fs) EXCEPT ![t] = "scope"] /\ on' = [on EXCEPT ![t] = s]
         /\ frame' = WithNewFrames(fs, frame)
  BY DEF ScopeStart
<1>3. /\ scope \in [Ids -> ScopeState \union {NoScope}] /\ scope[s] = NoScope
      /\ on \in [Ids -> Reason]
  <2>1. s >= s
    BY DEF IInv, TypeOK
  <2> QED
    BY <1>1, <2>1 DEF IInv, TypeOK, Fresh
<1> HIDE DEF fs
<1>4. ASSUME NEW u \in Ids, status'[u] \in Blocking, u # t
      PROVE  Kept(u)
  <2>1. status'[u] = status[u] /\ on'[u] = on[u]
    BY <1>2, <1>3, <1>4 DEF BornStatus, Blocking
  <2>2. ASSUME status[u] = "scope"
        PROVE  scope'[on[u]] = scope[on[u]]
    <3>1. on[u] \in Ids /\ on[u] # s
      BY <1>3, <2>2 DEF WaitersStand, Firm, Stands, Blocking
    <3> QED
      BY <1>2, <1>3, <3>1
  <2> QED
    BY <1>1, <1>2, <1>4, <2>1, <2>2, CreationWaits
<1>5. ASSUME status'[t] \in Blocking
      PROVE  Begins(t)
  <2>1. HasRoom(fs) /\ stack[t] # <<>>
    BY <1>1 DEF CreateThreads, AtStatement
  <2>2. Nth(t) \notin DOMAIN fs /\ Nth(t) \notin Born(fs)
    BY <1>1, <2>1, CreatedFresh DEF Created, Running
  <2>3. BornStatus(fs)[t] = "run"
    BY <1>1, <2>2 DEF BornStatus
  <2>4. /\ scope' = [scope EXCEPT ![s] = [owner |-> t, frame |-> Top(t), remaining |-> remaining]]
        /\ status' = [BornStatus(fs) EXCEPT ![t] = "scope"] /\ on' = [on EXCEPT ![t] = s]
        /\ frame' = WithNewFrames(fs, frame)
    BY <1>2, <1>5, <2>3 DEF Blocking
  <2>5. status'[t] = "scope" /\ on'[t] = s
    BY <1>3, <2>4 DEF BornStatus
  <2>6. stack'[t] = stack[t] /\ frame'[Top(t)] = frame[Top(t)]
    <3>1. Top(t) \in Ids /\ frame[Top(t)] # NoFrame
      BY <2>1, TopAllocated DEF IInv, Fr
    <3>2. frame'[Top(t)] = frame[Top(t)]
      BY <1>1, <2>1, <2>4, <3>1, NewFramesOnly
    <3> QED
      BY <1>1, <2>2, <3>2 DEF CreateThreads
  <2>7. Fr(t)' = Fr(t) /\ Op(t)' = Op(t) /\ AtStatement(t)'
    BY <1>1, <2>6 DEF Fr, Op, Body, Top, AtStatement
  <2>8. scope'[s] # NoScope /\ scope'[s].owner = t
    <3> DEFINE sc == [owner |-> t, frame |-> Top(t), remaining |-> remaining]
    <3>1. sc \in ScopeState /\ sc.owner = t
      <4>1. Top(t) \in Ids /\ remaining \in SUBSET Ids
        BY <2>1, TopAllocated DEF IInv
      <4> HIDE DEF remaining
      <4> QED
        BY <4>1 DEF ScopeState
    <3>2. scope'[s] = sc
      BY <1>1, <1>3, <2>4
    <3> HIDE DEF sc
    <3> QED
      BY <3>1, <3>2, LimitsAssumption
  <2> QED
    BY <1>1, <2>5, <2>7, <2>8 DEF Begins, Firm, Stands
<1> QED
  BY <1>4, <1>5 DEF WaitsRightly

(* A join that does not block reclaims a thread that does not wait; one that
   does blocks at its own statement. *)
LEMMA JoinFinishedWaits ==
  ASSUME IInv, NEW t \in Ids, Join(t), NEW h, NEW c, JoinFinished(t, h, c)
  PROVE  WaitsRightly
<1>1. /\ status[t] = "run" /\ AtStatement(t) /\ cvq' = cvq /\ scope' = scope
      /\ stack' = stack /\ on' = on /\ status' = [status EXCEPT ![c] = "absent"]
      /\ frame' = [frame EXCEPT ![Top(t)] = AfterJoin(@, Op(t).h)]
  BY DEF Join, JoinFinished, Executes, OnlyThreads, syncVars
<1>2. status \in [Ids -> Status] /\ frame \in [Ids -> FrameState \union {NoFrame}]
  BY DEF IInv, TypeOK
<1>3. Len(stack[t]) \in DOMAIN stack[t]
  BY <1>1, TopAllocated DEF IInv, AtStatement
<1> SUFFICES ASSUME NEW u \in Ids, status'[u] \in Blocking
             PROVE  Kept(u)
  BY DEF WaitsRightly
<1>4. status'[u] = status[u]
  BY <1>1, <1>2 DEF Blocking
<1>5. Top(u) \in Ids /\ Top(u) # Top(t)
  BY <1>1, <1>3, <1>4, NotItsFrame DEF Top
<1> QED
  BY <1>1, <1>2, <1>4, <1>5 DEF Kept

(* The handle a running `join` reads is bound (E402 stops the others). *)
LEMMA JoinedHandle ==
  ASSUME IInv, ~Faulted, NEW t \in Ids, Join(t)
  PROVE  /\ status[t] = "run" /\ AtStatement(t) /\ Op(t).op = "join" /\ Op(t).h \in HandleNames
         /\ Fr(t).handles[Op(t).h] \in Ids
         /\ children[t][Fr(t).handles[Op(t).h]] \in Ids
<1>1. /\ status[t] = "run" /\ AtStatement(t) /\ Op(t).op = "join" /\ Op(t).h \in HandleNames
      /\ stack[t] # <<>>
  BY Executing, OpFields DEF Join, Executes
<1>2. Fr(t).handles \in [HandleNames -> Ids \union {None}]
  BY <1>1, TopAllocated DEF IInv, FrameState
<1>3. Fr(t).handles[Op(t).h] # None /\ children[t][Fr(t).handles[Op(t).h]] # None
  BY <1>1 DEF Faulted, Fails, OpFails
<1>4. children[t] \in [Ids -> Ids \union {None}]
  BY DEF IInv, TypeOK
<1> QED
  BY <1>1, <1>2, <1>3, <1>4

(* A join that blocks changes nothing but the status of its thread, and waits
   for a child that has not finished. *)
LEMMA JoinBlocksQuiet ==
  ASSUME IInv, ChildrenExact, ~Faulted, NEW t \in Ids, Join(t),
         JoinBlocks(t, Fr(t).handles[Op(t).h], children[t][Fr(t).handles[Op(t).h]])
  PROVE  Quiet /\ WaitsRightly
<1> DEFINE h == Fr(t).handles[Op(t).h]
<1>1. /\ status[t] = "run" /\ AtStatement(t) /\ Op(t).op = "join" /\ h \in Ids
      /\ children[t][h] \in Ids
  BY JoinedHandle
<1>2. /\ Block(t, "join", h) /\ frame' = frame /\ prog' = prog /\ next' = next
      /\ scope' = scope /\ cvq' = cvq /\ children[t][h] \notin finished
  BY DEF JoinBlocks, Join, OnlyThreads, syncVars
<1>3. h = Fr(t).handles[Op(t).h]
  OBVIOUS
<1> HIDE DEF h
<1>4. children[t][h] \in Live
  <2>1. children[t][h] # None
    BY <1>1 DEF Ids, None
  <2>2. status[children[t][h]] # "absent"
    BY <1>1, <2>1 DEF ChildrenExact
  <2> QED
    BY <1>1, <1>2, <2>2 DEF IInv, FramesOwned, Live
<1> QED
  BY <1>1, <1>2, <1>3, <1>4, BlockQuiet DEF KeepsWaiters, Blocking

-----------------------------------------------------------------------------
(* Blocked threads stand where they blocked. *)

(* Steps that create, end or stack no thread, and reclaim none *)
QuietStep(t) ==
  \/ DataStep(t) \/ Goto(t) \/ Branch(t) \/ Switch(t) \/ CallTransparent(t)
  \/ SyncStep(t) \/ ChannelStep(t) \/ Resume(t)
  \/ /\ Join(t)
     /\ JoinBlocks(t, Fr(t).handles[Op(t).h], children[t][Fr(t).handles[Op(t).h]])

(* ... leave children, handles and live threads as they are. *)
LEMMA QuietSteps ==
  ASSUME IInv, WaitersStand, ChildrenExact, ~Faulted, NEW t \in Ids, QuietStep(t)
  PROVE  Quiet /\ WaitsRightly
BY DataQuiet, SyncQuiet, ChannelQuiet, ResumeQuiet, JoinBlocksQuiet DEF QuietStep

(* Every step is one of these, or one of six others. *)
LEMMA StepKinds ==
  ASSUME NEW t \in Ids, Step(t)
  PROVE  \/ QuietStep(t)
         \/ CallBody(t)
         \/ /\ status[t] = "run" /\ stack[t] # <<>>
            /\ (\E v : PopFrame(t, v)) \/ FinishThread(t)
         \/ Spawn(t)
         \/ ScopeStart(t)
         \/ /\ Join(t)
            /\ JoinFinished(t, Fr(t).handles[Op(t).h], children[t][Fr(t).handles[Op(t).h]])
BY DEF Step, QuietStep, ControlStep, ThreadStep, Return, ImplicitReturn, Join, Executes, AtStatement

(* Every step leaves the waiting threads alone, wakes them or makes its own
   thread wait. *)
LEMMA StepWaits ==
  ASSUME IInv, WaitersStand, ChildrenExact, ~Faulted, NEW t \in Ids, Step(t)
  PROVE  WaitsRightly
BY StepKinds, QuietSteps, CallWaits, PopWaits, FinishWaits, SpawnWaits, ScopeStartWaits,
   JoinFinishedWaits

(* No step changes the program. *)
LEMMA ProgramKept ==
  ASSUME NEW t \in Ids, Step(t)
  PROVE  prog' = prog
<1>1. CASE DataStep(t) \/ SyncStep(t) \/ ChannelStep(t) \/ ThreadStep(t) \/ Resume(t)
  BY <1>1 DEF DataStep, Nop, AssignLocal, LoadShared, StoreShared, AtomicCas, Assign, OnlyData,
              SyncStep, MutexUnlock, MutexLock, CondvarWait, CondvarNotify, CondvarNotifyAll,
              SemaphoreAcquire, SemaphoreRelease, OnlySync, ChannelStep, ChannelSend,
              ChannelRecv, OnlyChannels, ThreadStep, Spawn, ScopeStart, Join, OnlyThreads,
              Resume, ResumeLock, ResumeSemaphore, ResumeSend, ResumeRecv
<1>2. CASE Goto(t) \/ Branch(t) \/ Switch(t) \/ CallTransparent(t) \/ CallBody(t)
  BY <1>2 DEF Goto, Branch, Switch, Jump, CallTransparent, CallBody, OnlyData, OnlyStack
<1>3. CASE Return(t) \/ ImplicitReturn(t)
  <2>1. (\E v : PopFrame(t, v)) \/ FinishThread(t)
    BY <1>3 DEF Return, ImplicitReturn
  <2> QED
    BY <2>1 DEF PopFrame, FinishThread, OnlyStack
<1> QED
  BY <1>1, <1>2, <1>3 DEF Step, ControlStep

(* A thread that still waits as it did stands where it stood. *)
LEMMA KeptFirm ==
  ASSUME IInv, NEW u \in Ids, status[u] \in Blocking, Firm(u), Kept(u), prog' = prog
  PROVE  Firm(u)'
<1>1. Fr(u)' = Fr(u) /\ Op(u)' = Op(u) /\ AtStatement(u)'
  BY DEF Kept, Firm, Stands, Fr, Op, Body, Top, AtStatement
<1>2. status[u] = "wait" => <<u, Op(u).m>> \in cvq'[on[u]]
  <2> SUFFICES ASSUME status[u] = "wait" PROVE <<u, Op(u).m>> \in cvq'[on[u]]
    OBVIOUS
  <2>1. Op(u).op = "wait" /\ Op(u).cv = on[u] /\ <<u, Op(u).m>> \in cvq[on[u]] /\ AtStatement(u)
    BY DEF Firm, Stands
  <2>2. Op(u).cv \in Condvars /\ Op(u).m \in Mutexes
    BY <2>1, Executing, OpFields
  <2> QED
    BY <2>1, <2>2 DEF Kept
<1> QED
  BY <1>1, <1>2 DEF Kept, Firm, Stands

-----------------------------------------------------------------------------
(* Children *)

(* Handles that lose their child keep the rest in order. *)
LEMMA ChildrenFewer ==
  ASSUME IInv, ChildrenExact, next'.handle = next.handle,
         \A u, k \in Ids : children'[u][k] \in {None, children[u][k]},
         \A u, k \in Ids : children'[u][k] # None =>
            /\ status'[children[u][k]] # "absent"
            /\ parent'[children[u][k]] \in {None, parent[children[u][k]]}
  PROVE  ChildrenExact'
BY DEF ChildrenExact

(* The end of a thread takes its child entries out of the threads that joined
   it, and reclaims no thread that another can still name. *)
LEMMA FinishChildren ==
  ASSUME IInv, WaitersStand, ChildrenExact, NEW t \in Ids, status[t] = "run", FinishThread(t)
  PROVE  ChildrenExact'
<1>1. /\ children' = [u \in Ids |-> [h \in Ids |->
              IF u \in Gone(t) \/ (u \in Joiners(t) /\ children[u][h] = t)
              THEN None ELSE children[u][h]]]
      /\ parent' = [u \in Ids |-> IF u \in Gone(t) THEN None ELSE parent[u]]
      /\ next' = next
  BY DEF FinishThread, Gone
<1>2. /\ \A u, k \in Ids : children'[u][k] = IF u \in Gone(t) \/ (u \in Joiners(t) /\ children[u][k] = t)
                                             THEN None ELSE children[u][k]
      /\ \A u \in Ids : parent'[u] \in {None, parent[u]}
  BY <1>1
<1>3. ASSUME NEW u \in Ids, NEW k \in Ids, children'[u][k] # None
      PROVE  status'[children[u][k]] # "absent" /\ children[u][k] \in Ids
  <2> DEFINE c == children[u][k]
  <2>1. c # None /\ ~(u \in Joiners(t) /\ c = t)
    BY <1>2, <1>3
  <2>2. c \in Ids
    BY <2>1 DEF IInv, TypeOK
  <2>3. status[c] # "absent" /\ parent[c] = None
    BY <2>1 DEF ChildrenExact
  <2>4. status'[c] = "absent" <=> c \in Gone(t)
    BY <2>2, <2>3, FinishStatus
  <2>5. ASSUME c \in Gone(t)
        PROVE  FALSE
    <3>1. ~EmptiesScope(t)
      <4>1. EmptiesScope(t) => parent[t] \in Ids /\ parent[c] = parent[t]
        BY <2>5, LastMember DEF Members
      <4> QED
        BY <2>3, <4>1 DEF Ids, None
    <3>2. c = t /\ Joiners(t) # {}
      BY <2>5, <3>1, LastMember DEF Gone
    <3>3. PICK j \in Joiners(t) : j \in Ids /\ status[j] = "join" /\ children[j][on[j]] = t
      BY <3>2 DEF Joiners
    <3>4. on[j] \in Ids
      BY <3>3 DEF WaitersStand, Firm, Blocking
    <3>5. j = u
      BY <2>1, <3>2, <3>3, <3>4 DEF ChildrenExact
    <3> QED
      BY <2>1, <3>2, <3>5
  <2> QED
    BY <2>2, <2>4, <2>5
<1>4. next'.handle = next.handle
  BY <1>1
<1>5. \A u, k \in Ids : children'[u][k] \in {None, children[u][k]}
  BY <1>2
<1> QED
  BY <1>2, <1>3, <1>4, <1>5, ChildrenFewer

(* A spawn gives a fresh handle a child that no handle names. *)
LEMMA SpawnChildren ==
  ASSUME IInv, ChildrenExact, NEW t \in Ids, Spawn(t)
  PROVE  /\ ChildrenExact'
         /\ next.handle \in Ids /\ children' = [children EXCEPT ![t][next.handle] = next.thread]
         /\ next.thread \in Ids
<1> DEFINE h  == next.handle
           n  == next.thread
           fs == <<Op(t).f>>
<1>1. /\ fs \in Seq(Functions) /\ Len(fs) = 1 /\ DOMAIN fs = {1}
  <2>1. Op(t).f \in Functions
    BY Executing, OpFields DEF Spawn, Executes
  <2> QED
    BY <2>1
<1>2. /\ CreateThreads(fs, None) /\ h \in Ids /\ status' = BornStatus(fs)
      /\ children' = [children EXCEPT ![t][h] = n]
      /\ next' = [next EXCEPT !.thread = @ + 1, !.handle = @ + 1,
                              !.frame = @ + Cardinality(Born(fs))]
  BY DEF Spawn
<1> HIDE DEF fs
<1>3. HasRoom(fs)
  BY <1>2 DEF CreateThreads
<1>4. /\ n \in Ids /\ Nth(n) = 1 /\ n # None
  <2>1. n + Len(fs) - 1 <= MaxId /\ n \in Nat \ {0} /\ MaxId \in Nat
    BY <1>3, LimitsAssumption DEF HasRoom, IInv, TypeOK
  <2> QED
    BY <1>1, <2>1 DEF Nth, Ids, None
<1>5. next'.handle = h + 1 /\ h \in Nat
  BY <1>2 DEF IInv, TypeOK
<1>6. status'[n] # "absent" /\ parent'[n] = None
  BY <1>1, <1>2, <1>4 DEF CreateThreads, BornStatus
<1>7. \A u \in Ids : status[u] # "absent" =>
        /\ status'[u] # "absent" /\ parent'[u] = parent[u] /\ u # n
  <2> SUFFICES ASSUME NEW u \in Ids, status[u] # "absent"
               PROVE  status'[u] = status[u] /\ parent'[u] = parent[u] /\ u # n
    OBVIOUS
  <2>1. u \notin Created(fs)
    BY <1>1, <1>3, CreatedFresh
  <2>2. Nth(u) \notin DOMAIN fs /\ Nth(u) \notin Born(fs)
    BY <1>1, <1>3, <2>1, CreatedFresh DEF Created, Running
  <2> QED
    BY <1>1, <1>2, <1>4, <2>2 DEF CreateThreads, BornStatus
<1>8. children \in [Ids -> [Ids -> Ids \union {None}]]
  BY DEF IInv, TypeOK
<1>9. \A u, k \in Ids : children'[u][k] = IF u = t /\ k = h THEN n ELSE children[u][k]
  BY <1>2, <1>8
<1>10. \A u, k \in Ids : children[u][k] # None =>
          /\ k < h /\ children[u][k] \in Ids /\ status[children[u][k]] # "absent"
          /\ parent[children[u][k]] = None
  BY <1>8 DEF ChildrenExact
<1>11. \A u, k \in Ids : children[u][k] # n
  BY <1>4, <1>7, <1>10
<1>12. \A u, k \in Ids : children'[u][k] # None =>
        /\ k < next'.handle
        /\ status'[children'[u][k]] # "absent" /\ parent'[children'[u][k]] = None
  <2> SUFFICES ASSUME NEW u \in Ids, NEW k \in Ids, children'[u][k] # None
               PROVE  /\ k < h + 1
                      /\ status'[children'[u][k]] # "absent" /\ parent'[children'[u][k]] = None
    BY <1>5
  <2>1. CASE u = t /\ k = h
    BY <1>5, <1>6, <1>9, <2>1
  <2>2. CASE ~(u = t /\ k = h)
    <3>1. children'[u][k] = children[u][k] /\ k < h
      BY <1>9, <1>10, <2>2
    <3>2. k \in Int
      BY LimitsAssumption DEF Ids
    <3>3. k < h + 1
      <4> HIDE DEF h
      <4> QED
        BY <1>5, <3>1, <3>2
    <3>4. status'[children[u][k]] # "absent" /\ parent'[children[u][k]] = None
      <4>1. children[u][k] # None
        BY <3>1
      <4> QED
        BY <1>7, <1>10, <3>1, <4>1
    <3> QED
      BY <3>1, <3>3, <3>4
  <2> QED
    BY <2>1, <2>2
<1>13. \A u, k, x, y \in Ids : children'[u][k] # None /\ children'[x][y] = children'[u][k] =>
          x = u /\ y = k
  BY <1>9, <1>11 DEF ChildrenExact
<1>14. ChildrenExact'
  BY <1>12, <1>13 DEF ChildrenExact
<1> QED
  BY <1>2, <1>4, <1>14

(* The members of a scope are no children, and no child is reclaimed. *)
LEMMA ScopeStartChildren ==
  ASSUME IInv, ChildrenExact, NEW t \in Ids, ScopeStart(t)
  PROVE  ChildrenExact' /\ children' = children
<1> DEFINE fs == Op(t).fs
<1>1. /\ status[t] = "run" /\ fs \in Seq(Functions)
  BY Executing, OpFields DEF ScopeStart, Executes
<1>2. /\ CreateThreads(fs, next.scope) /\ children' = children
      /\ next' = [next EXCEPT !.thread = @ + Len(fs), !.scope = @ + 1,
                              !.frame = @ + Cardinality(Born(fs))]
      /\ \/ status' = BornStatus(fs)
         \/ status' = [BornStatus(fs) EXCEPT ![t] = "scope"]
  BY DEF ScopeStart
<1> HIDE DEF fs
<1>3. \A u \in Ids : status[u] # "absent" => status'[u] # "absent" /\ parent'[u] = parent[u]
  <2> SUFFICES ASSUME NEW u \in Ids, status[u] # "absent"
               PROVE  status'[u] # "absent" /\ parent'[u] = parent[u]
    OBVIOUS
  <2>1. HasRoom(fs)
    BY <1>2 DEF CreateThreads
  <2>2. u \notin Created(fs)
    BY <1>1, <2>1, CreatedFresh
  <2>3. Nth(u) \notin DOMAIN fs /\ Nth(u) \notin Born(fs)
    BY <1>1, <2>1, <2>2, CreatedFresh DEF Created, Running
  <2> QED
    BY <1>2, <2>3 DEF CreateThreads, BornStatus
<1>4. next'.handle = next.handle
  BY <1>2 DEF IInv, TypeOK
<1>5. \A u, k \in Ids : children[u][k] # None => children[u][k] \in Ids
  BY DEF IInv, TypeOK
<1>6. \A u, k \in Ids : children'[u][k] # None =>
            /\ status'[children[u][k]] # "absent"
            /\ parent'[children[u][k]] \in {None, parent[children[u][k]]}
  BY <1>2, <1>3, <1>5 DEF ChildrenExact
<1> QED
  BY <1>2, <1>4, <1>6, ChildrenFewer

(* A join takes the child it reclaims out of the one handle that names it. *)
LEMMA JoinChildren ==
  ASSUME IInv, ChildrenExact, ~Faulted, NEW t \in Ids, Join(t), NEW h, NEW c,
         h = Fr(t).handles[Op(t).h], c = children[t][h], JoinFinished(t, h, c)
  PROVE  /\ ChildrenExact'
         /\ \A u, k \in Ids : children'[u][k] = IF u = c \/ (u = t /\ k = h)
                                                THEN None ELSE children[u][k]
<1>1. h \in Ids /\ c \in Ids
  BY JoinedHandle
<1>2. /\ children' = [children EXCEPT ![t][h] = None, ![c] = [x \in Ids |-> None]]
      /\ status' = [status EXCEPT ![c] = "absent"]
      /\ parent' = [parent EXCEPT ![c] = None]
      /\ next' = next
  BY DEF JoinFinished, Join
<1>3. /\ children \in [Ids -> [Ids -> Ids \union {None}]] /\ status \in [Ids -> Status]
      /\ parent \in [Ids -> Ids \union {None}]
  BY DEF IInv, TypeOK
<1>4. \A u, k \in Ids : children'[u][k] = IF u = c \/ (u = t /\ k = h)
                                          THEN None ELSE children[u][k]
  BY <1>1, <1>2, <1>3
<1>5. ASSUME NEW u \in Ids, NEW k \in Ids, children'[u][k] # None
      PROVE  /\ status'[children[u][k]] # "absent"
             /\ parent'[children[u][k]] \in {None, parent[children[u][k]]}
  <2>1. children[u][k] # None /\ children[u][k] \in Ids /\ ~(u = t /\ k = h)
    BY <1>3, <1>4, <1>5
  <2>2. children[u][k] # c
    BY <1>1, <2>1 DEF ChildrenExact
  <2> QED
    BY <1>2, <1>3, <2>1, <2>2 DEF ChildrenExact
<1>6. next'.handle = next.handle
  BY <1>2
<1> QED
  BY <1>4, <1>5, <1>6, ChildrenFewer

(* Every step keeps the children exact. *)
LEMMA StepChildren ==
  ASSUME IInv, WaitersStand, ChildrenExact, ~Faulted, NEW t \in Ids, Step(t)
  PROVE  ChildrenExact'
<1>1. CASE QuietStep(t)
  <2>1. Quiet
    BY <1>1, QuietSteps
  <2>2. \A u, k \in Ids : children[u][k] # None => children[u][k] \in Ids
    BY DEF IInv, TypeOK
  <2> QED
    BY <2>1, <2>2, ChildrenFewer DEF Quiet, ChildrenExact
<1>2. CASE CallBody(t)
  <2>1. next'.handle = next.handle
    BY <1>2 DEF CallBody, IInv, TypeOK
  <2>2. children' = children /\ parent' = parent /\ status' = status
    BY <1>2 DEF CallBody, OnlyStack
  <2> QED
    BY <2>1, <2>2, ChildrenFewer DEF ChildrenExact
<1>3. ASSUME NEW v, PopFrame(t, v)
      PROVE  ChildrenExact'
  BY <1>3, ChildrenFewer DEF PopFrame, OnlyStack, ChildrenExact
<1> QED
  BY <1>1, <1>2, <1>3, StepKinds, FinishChildren, SpawnChildren, ScopeStartChildren, JoinChildren

-----------------------------------------------------------------------------
(* Handles and joiners *)

(* The frames on a stack are allocated, and their handles are typed. *)
LEMMA HandlesTyped ==
  ASSUME IInv, NEW t \in Ids, NEW i \in DOMAIN stack[t]
  PROVE  /\ stack[t][i] \in Ids /\ frame[stack[t][i]] \in FrameState
         /\ frame[stack[t][i]] # NoFrame
         /\ \A n \in HandleNames : HandleAt(t, i, n) \in Ids \union {None}
<1>1. stack[t][i] \in Ids
  BY DEF IInv, TypeOK
<1>2. frame[stack[t][i]] # NoFrame
  BY <1>1 DEF IInv, FramesOwned
<1>3. frame[stack[t][i]] \in FrameState
  BY <1>1, <1>2 DEF IInv, TypeOK
<1> QED
  BY <1>1, <1>2, <1>3 DEF FrameState, HandleAt

(* Handles that are dropped leave the others in order, as long as those keep
   their children. *)
LEMMA HandlesFewer ==
  ASSUME IInv, HandlesExact,
         \A u \in Ids : \A i \in DOMAIN stack'[u], n \in HandleNames :
            HandleAt(u, i, n)' # None =>
               /\ i \in DOMAIN stack[u] /\ HandleAt(u, i, n)' = HandleAt(u, i, n)
               /\ children'[u][HandleAt(u, i, n)] # None
  PROVE  HandlesExact'
BY DEF HandlesExact

(* Joiners that stay keep their child. *)
LEMMA JoinersStay ==
  ASSUME IInv, WaitersStand, JoinersFit, WaitsRightly,
         \A u \in Ids : status[u] = "join" /\ status'[u] = "join" =>
            /\ \A k \in Ids : children'[u][k] = children[u][k]
            /\ children[u][on[u]] \in Live'
  PROVE  JoinersFit'
<1> SUFFICES ASSUME NEW u \in Ids, status'[u] = "join"
             PROVE  children'[u][on'[u]] \in Live'
  BY DEF JoinersFit
<1>1. CASE Kept(u)
  <2>1. status[u] = "join" /\ on'[u] = on[u] /\ on[u] \in Ids
    BY <1>1 DEF Kept, WaitersStand, Firm, Blocking
  <2> QED
    BY <2>1
<1>2. CASE Begins(u)
  BY <1>2 DEF Begins
<1> QED
  BY <1>1, <1>2 DEF WaitsRightly, Blocking

(* Steps that start, end and stack no thread keep handles and joiners. *)
LEMMA QuietNamed ==
  ASSUME IInv, Named, ~Faulted, NEW t \in Ids, QuietStep(t)
  PROVE  HandlesExact' /\ JoinersFit'
<1>1. Quiet /\ WaitsRightly
  BY QuietSteps DEF Named
<1>2. HandlesExact'
  <2>1. ASSUME NEW u \in Ids, NEW i \in DOMAIN stack'[u], NEW n \in HandleNames
        PROVE  i \in DOMAIN stack[u] /\ HandleAt(u, i, n)' = HandleAt(u, i, n)
    BY <1>1, HandlesTyped DEF Quiet, HandleAt
  <2>2. children' = children
    BY <1>1 DEF Quiet
  <2>3. ASSUME NEW u \in Ids, NEW i \in DOMAIN stack'[u], NEW n \in HandleNames,
               HandleAt(u, i, n)' # None
        PROVE  children'[u][HandleAt(u, i, n)] # None
    BY <2>1, <2>2, <2>3 DEF Named, HandlesExact
  <2> QED
    BY <2>1, <2>3, HandlesFewer DEF Named
<1>3. JoinersFit'
  <2>1. children' = children /\ Live' = Live
    BY <1>1 DEF Quiet, Live
  <2> QED
    BY <1>1, <2>1, JoinersStay DEF Named, JoinersFit
<1> QED
  BY <1>2, <1>3

(* A called function binds no handle yet. *)
LEMMA CallNamed ==
  ASSUME IInv, Named, NEW t \in Ids, CallBody(t)
  PROVE  HandlesExact' /\ JoinersFit'
<1> DEFINE new == next.frame
<1>1. /\ status' = status /\ children' = children /\ new \in Ids
      /\ stack' = [stack EXCEPT ![t] = Append(@, new)]
      /\ \E ret, vals : frame' = [frame EXCEPT ![new] =
                          [Activation(Op(t).f, ret) EXCEPT !.locals = Bind(Op(t).f, vals)]]
  BY DEF CallBody, OnlyStack
<1>2. frame \in [Ids -> FrameState \union {NoFrame}] /\ stack \in [Ids -> Seq(Ids)]
  BY DEF IInv, TypeOK
<1>3. \A n \in HandleNames : frame'[new].handles[n] = None
  BY <1>1, <1>2 DEF Activation
<1>4. frame[new] = NoFrame
  <2>1. new >= new
    BY DEF IInv, TypeOK
  <2> QED
    BY <1>1, <2>1 DEF IInv, Fresh
<1>5. \A f \in Ids : f # new => frame'[f] = frame[f]
  BY <1>1, <1>2
<1>6. \A u \in Ids : \A i \in DOMAIN stack'[u] :
        \/ i \in DOMAIN stack[u] /\ stack'[u][i] = stack[u][i]
        \/ stack'[u][i] = new
  BY <1>1, <1>2
<1>7. ASSUME NEW u \in Ids, NEW i \in DOMAIN stack'[u], NEW n \in HandleNames,
             HandleAt(u, i, n)' # None
      PROVE  /\ i \in DOMAIN stack[u] /\ HandleAt(u, i, n)' = HandleAt(u, i, n)
             /\ children'[u][HandleAt(u, i, n)] # None
  <2>1. i \in DOMAIN stack[u] /\ stack'[u][i] = stack[u][i]
    BY <1>3, <1>6, <1>7 DEF HandleAt
  <2>2. stack[u][i] # new /\ stack[u][i] \in Ids
    BY <1>4, <2>1, HandlesTyped
  <2>3. HandleAt(u, i, n)' = HandleAt(u, i, n)
    BY <1>5, <2>1, <2>2 DEF HandleAt
  <2> QED
    BY <1>1, <1>7, <2>1, <2>3 DEF Named, HandlesExact
<1>8. HandlesExact'
  BY <1>7, HandlesFewer DEF Named
<1>9. JoinersFit'
  <2>1. Live' = Live
    BY <1>1 DEF Live
  <2> QED
    BY <1>1, <2>1, CallWaits, JoinersStay DEF Named, JoinersFit
<1> QED
  BY <1>8, <1>9

(* A return drops the handles of the frame it leaves. *)
LEMMA PopNamed ==
  ASSUME IInv, Named, NEW t \in Ids, status[t] = "run", stack[t] # <<>>, NEW v, PopFrame(t, v)
  PROVE  HandlesExact' /\ JoinersFit'
<1> DEFINE ret == Fr(t).ret
           stored == IF v = NoValue THEN frame ELSE Put(frame, Caller(t), ret.dst, v)
<1>1. /\ status' = status /\ children' = children
      /\ stack' = [stack EXCEPT ![t] = SubSeq(@, 1, Len(@) - 1)]
      /\ frame' = [stored EXCEPT ![Caller(t)].pc = ret.pc, ![Top(t)] = NoFrame]
      /\ Len(stack[t]) > 1
  BY DEF PopFrame, OnlyStack, Nested
<1>2. frame \in [Ids -> FrameState \union {NoFrame}] /\ stack \in [Ids -> Seq(Ids)]
  BY DEF IInv, TypeOK
<1>3. \A u \in Ids : \A i \in DOMAIN stack'[u] :
        /\ i \in DOMAIN stack[u] /\ stack'[u][i] = stack[u][i]
        /\ u = t => i < Len(stack[u])
  <2> DEFINE q == stack[t]
  <2>1. q \in Seq(Ids) /\ Len(q) > 1
    BY <1>1, <1>2
  <2>2. stack'[t] = SubSeq(q, 1, Len(q) - 1)
    BY <1>1, <1>2
  <2>3. \A i \in DOMAIN SubSeq(q, 1, Len(q) - 1) :
          i \in DOMAIN q /\ SubSeq(q, 1, Len(q) - 1)[i] = q[i] /\ i < Len(q)
    <3> HIDE DEF q
    <3> QED
      BY <2>1
  <2>4. \A u \in Ids : u # t => stack'[u] = stack[u]
    BY <1>1, <1>2
  <2> QED
    BY <2>2, <2>3, <2>4
<1>4. \A u \in Ids : \A i \in DOMAIN stack'[u] : stack[u][i] # Top(t)
  <2>1. Len(stack[t]) \in DOMAIN stack[t]
    BY <1>1, <1>2
  <2>2. \A i \in DOMAIN stack[t] : i < Len(stack[t]) => i # Len(stack[t])
    BY <1>2
  <2> QED
    BY <1>3, <2>1, <2>2 DEF IInv, FramesOwned, Top
<1>5. \A f \in Ids : frame[f] # NoFrame => stored[f].handles = frame[f].handles
  <2>1. CASE stored = frame
    BY <2>1
  <2>2. CASE stored = Put(frame, Caller(t), ret.dst, v) /\ ret.dst \in Locals
    <3> DEFINE y == [frame[Caller(t)] EXCEPT !.locals[ret.dst] = v]
    <3>1. frame[Caller(t)] # NoFrame /\ frame[Caller(t)] \in FrameState
      <4>1. Len(stack[t]) - 1 \in DOMAIN stack[t]
        BY <1>1, <1>2
      <4> QED
        BY <4>1, HandlesTyped DEF Caller
    <3>2. y.handles = frame[Caller(t)].handles
      BY <3>1 DEF FrameState
    <3>3. stored = [frame EXCEPT ![Caller(t)] = y]
      BY <2>2 DEF Put
    <3> HIDE DEF y, stored
    <3> QED
      BY <1>2, <3>2, <3>3
  <2>3. CASE stored = Put(frame, Caller(t), ret.dst, v) /\ ret.dst \notin Locals
    BY <2>3 DEF Put
  <2> QED
    BY <2>1, <2>2, <2>3
<1>6. DOMAIN stored = Ids
  BY <1>2 DEF Put
<1> HIDE DEF stored, ret
<1>7. \A f \in Ids : f # Top(t) => frame'[f].handles = stored[f].handles
  <2> DEFINE y == [stored[Caller(t)] EXCEPT !.pc = ret.pc]
  <2>1. y.handles = stored[Caller(t)].handles
    OBVIOUS
  <2>2. \A f \in Ids : f # Top(t) =>
          frame'[f] = IF f = Caller(t) THEN y ELSE stored[f]
    BY <1>1, <1>6
  <2> HIDE DEF y
  <2> QED
    BY <2>1, <2>2
<1>8. ASSUME NEW u \in Ids, NEW i \in DOMAIN stack'[u], NEW n \in HandleNames
      PROVE  i \in DOMAIN stack[u] /\ HandleAt(u, i, n)' = HandleAt(u, i, n)
  <2>1. i \in DOMAIN stack[u] /\ stack'[u][i] = stack[u][i] /\ stack[u][i] # Top(t)
    BY <1>3, <1>4
  <2>2. stack[u][i] \in Ids /\ frame[stack[u][i]] # NoFrame
    BY <2>1, HandlesTyped
  <2> QED
    BY <1>5, <1>7, <2>1, <2>2 DEF HandleAt
<1>9. HandlesExact'
  BY <1>1, <1>8, HandlesFewer DEF Named, HandlesExact
<1>10. JoinersFit'
  <2>1. Live' = Live
    BY <1>1 DEF Live
  <2> QED
    BY <1>1, <2>1, PopWaits, JoinersStay DEF Named, JoinersFit
<1> QED
  BY <1>9, <1>10

(* The end of a thread takes its own frames and the bindings of its joiners. *)
LEMMA FinishNamed ==
  ASSUME IInv, Named, NEW t \in Ids, status[t] = "run", stack[t] # <<>>, FinishThread(t)
  PROVE  HandlesExact' /\ JoinersFit'
<1> DEFINE J == Joiners(t)
<1>1. /\ stack' = [stack EXCEPT ![t] = <<>>]
      /\ children' = [u \in Ids |-> [h \in Ids |->
              IF u \in Gone(t) \/ (u \in J /\ children[u][h] = t)
              THEN None ELSE children[u][h]]]
      /\ frame' = [f \in Ids |->
              IF f = Top(t) THEN NoFrame
              ELSE IF \E u \in J : f = Top(u)
                   THEN AfterJoin(frame[f], Op(CHOOSE u \in J : f = Top(u)).h)
              ELSE IF \E u \in Owners(t) : f = Top(u)
                   THEN [frame[f] EXCEPT !.pc = @ + 1]
              ELSE frame[f]]
      /\ status' = [u \in Ids |-> IF u \in Gone(t) THEN "absent" ELSE IF u = t THEN "done"
                                  ELSE IF u \in Owners(t) \union J THEN "run" ELSE status[u]]
  BY DEF FinishThread, Owners, Gone
<1>2. \A u, k \in Ids : children'[u][k] = IF u \in Gone(t) \/ (u \in J /\ children[u][k] = t)
                                          THEN None ELSE children[u][k]
  BY <1>1
<1>3. stack \in [Ids -> Seq(Ids)] /\ frame \in [Ids -> FrameState \union {NoFrame}]
  BY DEF IInv, TypeOK
<1>4. ASSUME NEW u \in J
      PROVE  /\ u \in Ids /\ status[u] = "join" /\ children[u][on[u]] = t /\ stack[u] # <<>>
             /\ Op(u).h \in HandleNames /\ Fr(u).handles[Op(u).h] = on[u] /\ on[u] \in Ids
  <2>1. u \in Ids /\ status[u] = "join" /\ children[u][on[u]] = t
    BY DEF Joiners
  <2>2. Firm(u) /\ stack[u] # <<>>
    BY <2>1, BlockedHasFrame DEF Named, WaitersStand, Blocking
  <2>3. AtStatement(u) /\ Op(u).op = "join" /\ Fr(u).handles[Op(u).h] = on[u] /\ on[u] \in Ids
    BY <2>1, <2>2 DEF Firm, Stands
  <2>4. Op(u).h \in HandleNames
    BY <2>1, <2>3, Executing, OpFields
  <2> QED
    BY <2>1, <2>2, <2>3, <2>4
<1>5. ASSUME NEW u \in Ids, NEW i \in DOMAIN stack'[u], NEW n \in HandleNames,
             HandleAt(u, i, n)' # None
      PROVE  /\ i \in DOMAIN stack[u] /\ HandleAt(u, i, n)' = HandleAt(u, i, n)
             /\ children'[u][HandleAt(u, i, n)] # None
  <2> DEFINE f == stack[u][i]
  <2>1. u # t /\ stack'[u] = stack[u] /\ i \in DOMAIN stack[u]
    <3>1. stack'[t] = <<>>
      BY <1>1, <1>3
    <3> QED
      BY <1>1, <1>3, <3>1
  <2>2. f \in Ids /\ frame[f] \in FrameState /\ HandleAt(u, i, n) \in Ids \union {None}
    BY <2>1, HandlesTyped
  <2>3. stack[u] # <<>> /\ u \notin Gone(t)
    <3>1. stack[u] # <<>>
      BY <2>1
    <3>2. u \in Gone(t) => status[u] = "done"
      BY <2>1, LastMember
    <3> QED
      BY <3>1, <3>2 DEF IInv, FramesOwned, Live
  <2>4. f # Top(t)
    <3>1. Len(stack[t]) \in DOMAIN stack[t]
      BY TopAllocated DEF IInv
    <3> QED
      BY <2>1, <3>1 DEF IInv, FramesOwned, Top
  <2>5. \A x \in Ids : stack[x] # <<>> /\ f = Top(x) => x = u
    <3> SUFFICES ASSUME NEW x \in Ids, stack[x] # <<>>, f = Top(x) PROVE x = u
      OBVIOUS
    <3>1. Len(stack[x]) \in DOMAIN stack[x]
      BY TopAllocated DEF IInv
    <3> QED
      BY <2>1, <3>1 DEF IInv, FramesOwned, Top
  <2>6. ASSUME NEW x \in FrameState, NEW m
        PROVE  /\ AfterJoin(x, m).handles = [x.handles EXCEPT ![m] = None]
               /\ [x EXCEPT !.pc = @ + 1].handles = x.handles
    BY DEF AfterJoin, FrameState
  <2>7. ASSUME u \in J, f = Top(u)
        PROVE  frame'[f].handles = [frame[f].handles EXCEPT ![Op(u).h] = None]
    <3> DEFINE y == CHOOSE x \in J : f = Top(x)
    <3>1. y \in J /\ f = Top(y)
      BY <2>7
    <3>2. frame'[f] = AfterJoin(frame[f], Op(y).h)
      BY <1>1, <2>2, <2>4, <2>7
    <3>3. frame[f] \in FrameState
      BY <2>2
    <3> HIDE DEF y, J
    <3>4. y = u
      BY <1>4, <2>5, <3>1
    <3> HIDE DEF f
    <3>5. frame'[f] = AfterJoin(frame[f], Op(u).h)
      BY <3>2, <3>4
    <3>6. AfterJoin(frame[f], Op(u).h).handles = [frame[f].handles EXCEPT ![Op(u).h] = None]
      BY <2>6, <3>3
    <3> QED
      BY <3>5, <3>6
  <2>8. ASSUME ~(u \in J /\ f = Top(u))
        PROVE  frame'[f].handles = frame[f].handles
    <3>1. ~\E x \in J : f = Top(x)
      <4> HIDE DEF J
      <4> QED
        BY <1>4, <2>5, <2>8
    <3>2. frame'[f] \in {frame[f], [frame[f] EXCEPT !.pc = @ + 1]}
      BY <1>1, <2>2, <2>4, <3>1
    <3> QED
      BY <2>2, <2>6, <3>2
  <2>9. /\ HandleAt(u, i, n)' = frame'[f].handles[n] /\ HandleAt(u, i, n) = frame[f].handles[n]
        /\ frame[f].handles \in [HandleNames -> Ids \union {None}]
    BY <2>1, <2>2 DEF HandleAt, FrameState
  <2>10. HandleAt(u, i, n)' = HandleAt(u, i, n)
    BY <1>5, <2>7, <2>8, <2>9
  <2>11. children[u][HandleAt(u, i, n)] # None /\ HandleAt(u, i, n) \in Ids
    BY <1>5, <2>1, <2>2, <2>10 DEF Named, HandlesExact
  <2>12. ASSUME u \in J, children[u][HandleAt(u, i, n)] = t
         PROVE  FALSE
    <3> DEFINE top == Len(stack[u])
               m == Op(u).h
    <3>1. HandleAt(u, i, n) = on[u]
      BY <1>4, <2>11, <2>12 DEF Named, ChildrenExact
    <3>2. top \in DOMAIN stack[u] /\ HandleAt(u, top, m) = on[u] /\ m \in HandleNames
      BY <1>4, <2>12, TopAllocated DEF IInv, HandleAt, Fr, Top
    <3>3. top = i /\ m = n
      BY <1>5, <2>1, <2>10, <3>1, <3>2 DEF Named, HandlesExact
    <3>4. f = Top(u)
      BY <3>3 DEF Top
    <3>5. frame'[f].handles[n] = None
      BY <2>7, <2>9, <2>12, <3>2, <3>3, <3>4
    <3> QED
      BY <1>5, <2>9, <3>5
  <2>13. children'[u][HandleAt(u, i, n)] # None
    BY <1>2, <2>3, <2>11, <2>12
  <2> QED
    BY <2>1, <2>10, <2>13
<1>6. HandlesExact'
  BY <1>5, HandlesFewer DEF Named
<1>7. ASSUME NEW u \in Ids, status[u] = "join", status'[u] = "join"
      PROVE  /\ \A k \in Ids : children'[u][k] = children[u][k]
             /\ children[u][on[u]] \in Live'
  <2>1. u \notin J /\ u \notin Gone(t)
    BY <1>1, <1>7
  <2>2. children[u][on[u]] # t
    BY <1>7, <2>1 DEF Joiners
  <2> QED
    BY <1>2, <1>7, <2>1, <2>2, FinishStatus DEF Named, JoinersFit
<1>8. JoinersFit'
  BY <1>7, FinishWaits, JoinersStay DEF Named
<1> QED
  BY <1>6, <1>8

(* Creating threads changes the status of new identities only. *)
LEMMA BornKeeps ==
  ASSUME IInv, NEW fs \in Seq(Functions), HasRoom(fs)
  PROVE  /\ \A u \in Ids : status[u] # "absent" => BornStatus(fs)[u] = status[u]
         /\ \A u \in Ids : u \in Live => BornStatus(fs)[u] \notin {"absent", "done"}
<1>1. ASSUME NEW u \in Ids, status[u] # "absent"
      PROVE  BornStatus(fs)[u] = status[u]
  <2>1. u \notin Created(fs)
    BY <1>1, CreatedFresh
  <2>2. Nth(u) \notin DOMAIN fs /\ Nth(u) \notin Born(fs)
    BY <2>1, CreatedFresh DEF Created, Running
  <2> QED
    BY <2>2 DEF BornStatus
<1> QED
  BY <1>1 DEF Live

(* Threads are created with no handle; the frames that were there are those of
   g. *)
LEMMA CreationHandles ==
  ASSUME IInv, NEW fs \in Seq(Functions), NEW p, CreateThreads(fs, p), NEW g,
         frame' = WithNewFrames(fs, g) \/ (frame' = g /\ Running(fs) = {}),
         NEW u \in Ids, NEW i \in DOMAIN stack'[u], NEW n \in HandleNames,
         HandleAt(u, i, n)' # None
  PROVE  /\ i \in DOMAIN stack[u] /\ stack'[u] = stack[u]
         /\ stack[u][i] \in Ids /\ frame'[stack[u][i]] = g[stack[u][i]]
<1>1. HasRoom(fs)
  BY DEF CreateThreads
<1>2. CASE u \in Running(fs)
  <2>1. Nth(u) \in Born(fs)
    BY <1>2 DEF Running
  <2>2. stack'[u] = <<FrameOf(fs, Nth(u))>>
    BY <2>1 DEF CreateThreads
  <2>3. stack'[u][i] = FrameOf(fs, Nth(u))
    BY <2>2
  <2>4. FrameOf(fs, Nth(u)) \in Ids
    BY <1>1, <2>1, FramesFor
  <2>5. \E f : frame'[FrameOf(fs, Nth(u))] = Activation(f, NoReturn)
    BY <1>2, <2>1, <2>4 DEF WithNewFrames
  <2>6. HandleAt(u, i, n)' = None
    BY <2>3, <2>5 DEF HandleAt, Activation
  <2> QED
    BY <2>6
<1>3. CASE u \notin Running(fs)
  <2>1. stack'[u] = stack[u]
    BY <1>3 DEF CreateThreads, Running
  <2>2. stack[u][i] \in Ids /\ frame[stack[u][i]] # NoFrame
    BY <2>1, HandlesTyped
  <2> QED
    BY <1>1, <2>1, <2>2, NewFramesOnly
<1> QED
  BY <1>2, <1>3

(* A spawn binds one handle, which names the new child and nothing else. *)
LEMMA SpawnNamed ==
  ASSUME IInv, Named, NEW t \in Ids, Spawn(t)
  PROVE  HandlesExact' /\ JoinersFit'
<1> DEFINE o  == Op(t)
           h  == next.handle
           fs == <<o.f>>
           g  == [frame EXCEPT ![Top(t)].handles[o.h] = h, ![Top(t)].pc = @ + 1]
           New(u, i, n) == u = t /\ i = Len(stack[t]) /\ n = o.h
<1>1. /\ status[t] = "run" /\ AtStatement(t) /\ stack[t] # <<>> /\ o.h \in HandleNames
      /\ fs \in Seq(Functions)
  <2>1. /\ status[t] = "run" /\ AtStatement(t) /\ stack[t] # <<>> /\ o.h \in HandleNames
        /\ o.f \in Functions
    BY Executing, OpFields DEF Spawn, Executes
  <2> QED
    BY <2>1
<1>2. CreateThreads(fs, None) /\ status' = BornStatus(fs) /\ frame' = WithNewFrames(fs, g)
  BY DEF Spawn
<1>3. /\ ChildrenExact' /\ h \in Ids /\ next.thread \in Ids
      /\ children' = [children EXCEPT ![t][h] = next.thread]
  BY SpawnChildren DEF Named
<1>4. /\ children \in [Ids -> [Ids -> Ids \union {None}]]
      /\ frame \in [Ids -> FrameState \union {NoFrame}]
  BY DEF IInv, TypeOK
<1>5. \A u, k \in Ids : children'[u][k] = IF u = t /\ k = h THEN next.thread ELSE children[u][k]
  BY <1>3, <1>4
<1>6. \A f \in Ids : frame[f] # NoFrame =>
        g[f].handles = IF f = Top(t) THEN [frame[f].handles EXCEPT ![o.h] = h]
                                     ELSE frame[f].handles
  <2> DEFINE y == [[frame[Top(t)] EXCEPT !.handles[o.h] = h] EXCEPT !.pc = @ + 1]
  <2>1. Top(t) \in Ids /\ frame[Top(t)] \in FrameState
    BY <1>1, TopAllocated DEF IInv, Fr
  <2>2. y.handles = [frame[Top(t)].handles EXCEPT ![o.h] = h]
    BY <2>1 DEF FrameState
  <2>3. \A f \in Ids : g[f] = IF f = Top(t) THEN y ELSE frame[f]
    BY <1>4, <2>1
  <2> HIDE DEF y, g
  <2> QED
    BY <2>2, <2>3
<1> HIDE DEF g, fs
<1>7. ASSUME NEW u \in Ids, NEW i \in DOMAIN stack'[u], NEW n \in HandleNames,
             HandleAt(u, i, n)' # None
      PROVE  /\ i \in DOMAIN stack[u]
             /\ New(u, i, n) => HandleAt(u, i, n)' = h
             /\ ~New(u, i, n) => HandleAt(u, i, n)' = HandleAt(u, i, n)
  <2> DEFINE f == stack[u][i]
  <2>1. i \in DOMAIN stack[u] /\ stack'[u] = stack[u] /\ f \in Ids /\ frame'[f] = g[f]
    <3> HIDE DEF o, h, New
    <3>1. /\ CreateThreads(fs, None) /\ fs \in Seq(Functions)
          /\ frame' = WithNewFrames(fs, g) \/ (frame' = g /\ Running(fs) = {})
      BY <1>1, <1>2
    <3> QED
      BY <1>7, <3>1, CreationHandles
  <2>2. frame[f] # NoFrame /\ frame[f] \in FrameState
    BY <2>1, HandlesTyped
  <2>3. f = Top(t) <=> u = t /\ i = Len(stack[t])
    <3>1. Len(stack[t]) \in DOMAIN stack[t]
      BY <1>1, TopAllocated DEF IInv
    <3> QED
      BY <2>1, <3>1 DEF IInv, FramesOwned, Top
  <2>4. HandleAt(u, i, n)' = g[f].handles[n] /\ HandleAt(u, i, n) = frame[f].handles[n]
    BY <2>1 DEF HandleAt
  <2>5. frame[f].handles \in [HandleNames -> Ids \union {None}]
    BY <2>2 DEF FrameState
  <2>6. g[f].handles[n] = IF f = Top(t) /\ n = o.h THEN h ELSE frame[f].handles[n]
    <3>1. CASE f = Top(t)
      <4>1. g[f].handles = [frame[f].handles EXCEPT ![o.h] = h]
        BY <1>6, <2>1, <2>2, <3>1
      <4> QED
        BY <2>5, <3>1, <4>1
    <3>2. CASE f # Top(t)
      BY <1>6, <2>1, <2>2, <3>2
    <3> QED
      BY <3>1, <3>2
  <2> HIDE DEF f, o, h
  <2> QED
    BY <2>1, <2>3, <2>4, <2>6 DEF o, h
<1>8. ASSUME NEW u \in Ids, NEW i \in DOMAIN stack[u], NEW n \in HandleNames,
             HandleAt(u, i, n) # None
      PROVE  HandleAt(u, i, n) \in Ids /\ HandleAt(u, i, n) # h
  <2>1. HandleAt(u, i, n) \in Ids /\ children[u][HandleAt(u, i, n)] # None
    BY <1>8, HandlesTyped DEF Named, HandlesExact
  <2>2. HandleAt(u, i, n) < h
    BY <2>1 DEF Named, ChildrenExact
  <2>3. h \in Nat
    BY DEF IInv, TypeOK
  <2>4. HandleAt(u, i, n) \in Nat
    BY <2>1, LimitsAssumption DEF Ids
  <2> HIDE DEF h
  <2> QED
    BY <2>1, <2>2, <2>3, <2>4
<1>9. HandlesExact'
  <2> SUFFICES ASSUME NEW u \in Ids, NEW i \in DOMAIN stack'[u], NEW n \in HandleNames,
                      HandleAt(u, i, n)' # None
               PROVE  /\ children'[u][HandleAt(u, i, n)'] # None
                      /\ \A j \in DOMAIN stack'[u], m \in HandleNames :
                           HandleAt(u, j, m)' = HandleAt(u, i, n)' => j = i /\ m = n
    BY DEF HandlesExact
  <2> HIDE DEF o, h
  <2>1. children'[u][HandleAt(u, i, n)'] # None
    <3>1. CASE New(u, i, n)
      <4>1. next.thread # None
        BY <1>3 DEF Ids, None
      <4> QED
        BY <1>3, <1>5, <1>7, <3>1, <4>1
    <3>2. CASE ~New(u, i, n)
      <4>1. i \in DOMAIN stack[u] /\ HandleAt(u, i, n)' = HandleAt(u, i, n)
        BY <1>7, <3>2
      <4>2. HandleAt(u, i, n) \in Ids /\ HandleAt(u, i, n) # h
        BY <1>8, <4>1
      <4> QED
        BY <1>5, <4>1, <4>2 DEF Named, HandlesExact
    <3> QED
      BY <3>1, <3>2
  <2>2. ASSUME NEW j \in DOMAIN stack'[u], NEW m \in HandleNames,
               HandleAt(u, j, m)' = HandleAt(u, i, n)'
        PROVE  j = i /\ m = n
    <3>1. i \in DOMAIN stack[u] /\ j \in DOMAIN stack[u] /\ HandleAt(u, j, m)' # None
      BY <1>7, <2>2
    <3>2. CASE New(u, i, n) \/ New(u, j, m)
      BY <1>7, <1>8, <2>2, <3>1, <3>2
    <3>3. CASE ~New(u, i, n) /\ ~New(u, j, m)
      BY <1>7, <2>2, <3>1, <3>3 DEF Named, HandlesExact
    <3> QED
      BY <3>2, <3>3
  <2> QED
    BY <2>1, <2>2
<1>10. JoinersFit'
  <2> SUFFICES ASSUME NEW u \in Ids, status[u] = "join", status'[u] = "join"
               PROVE  /\ \A k \in Ids : children'[u][k] = children[u][k]
                      /\ children[u][on[u]] \in Live'
    BY SpawnWaits, JoinersStay DEF Named
  <2>1. children[u][on[u]] \in Live
    BY DEF Named, JoinersFit
  <2>2. HasRoom(fs)
    BY <1>2 DEF CreateThreads
  <2>3. Live \subseteq Live'
    BY <1>1, <1>2, <2>2, BornKeeps DEF Live
  <2> QED
    BY <1>1, <1>5, <2>1, <2>3
<1> QED
  BY <1>9, <1>10

(* A scope binds no handle and reclaims no child. *)
LEMMA ScopeStartNamed ==
  ASSUME IInv, Named, NEW t \in Ids, ScopeStart(t)
  PROVE  HandlesExact' /\ JoinersFit'
<1> DEFINE fs == Op(t).fs
           a  == Advance(frame, {t})
           remaining == {u \in Ids : Nth(u) \in Born(fs)}
<1>1. /\ status[t] = "run" /\ AtStatement(t) /\ fs \in Seq(Functions) /\ CreateThreads(fs, next.scope)
  BY Executing, OpFields DEF ScopeStart, Executes
<1>2. ChildrenExact' /\ children' = children
  BY ScopeStartChildren DEF Named
<1>3. \/ remaining = {} /\ status' = BornStatus(fs) /\ frame' = a
      \/ status' = [BornStatus(fs) EXCEPT ![t] = "scope"] /\ frame' = WithNewFrames(fs, frame)
  BY DEF ScopeStart
<1>4. remaining = {} => Running(fs) = {}
  BY DEF Running
<1>5. \A f \in Ids : a[f].handles = frame[f].handles
  <2> SUFFICES ASSUME NEW f \in Ids PROVE a[f].handles = frame[f].handles
    OBVIOUS
  <2>1. a[f] = [frame[f] EXCEPT !.pc = @ + 1] \/ a[f] = frame[f]
    BY DEF Advance
  <2>2. [frame[f] EXCEPT !.pc = @ + 1].handles = frame[f].handles
    OBVIOUS
  <2> HIDE DEF a
  <2> QED
    BY <2>1, <2>2
<1> HIDE DEF fs, a, remaining
<1>6. ASSUME NEW u \in Ids, NEW i \in DOMAIN stack'[u], NEW n \in HandleNames,
             HandleAt(u, i, n)' # None
      PROVE  /\ i \in DOMAIN stack[u] /\ HandleAt(u, i, n)' = HandleAt(u, i, n)
             /\ children'[u][HandleAt(u, i, n)] # None
  <2>1. /\ i \in DOMAIN stack[u] /\ stack'[u] = stack[u] /\ stack[u][i] \in Ids
        /\ frame'[stack[u][i]].handles = frame[stack[u][i]].handles
    <3>1. CASE frame' = WithNewFrames(fs, frame)
      BY <1>1, <1>6, <3>1, CreationHandles
    <3>2. CASE frame' = a /\ Running(fs) = {}
      <4>1. frame' = WithNewFrames(fs, a) \/ (frame' = a /\ Running(fs) = {})
        BY <3>2
      <4>2. /\ i \in DOMAIN stack[u] /\ stack'[u] = stack[u] /\ stack[u][i] \in Ids
            /\ frame'[stack[u][i]] = a[stack[u][i]]
        BY <1>1, <1>6, <4>1, CreationHandles
      <4> QED
        BY <1>5, <4>2
    <3> QED
      BY <1>3, <1>4, <3>1, <3>2
  <2>2. HandleAt(u, i, n)' = HandleAt(u, i, n)
    BY <2>1 DEF HandleAt
  <2> QED
    BY <1>2, <1>6, <2>1, <2>2 DEF Named, HandlesExact
<1>7. HandlesExact'
  BY <1>6, HandlesFewer DEF Named
<1>8. Live \subseteq Live'
  <2>1. HasRoom(fs)
    BY <1>1 DEF CreateThreads
  <2>2. ASSUME NEW u \in Ids, u \in Live
        PROVE  status'[u] \notin {"absent", "done"}
    BY <1>1, <1>3, <2>1, <2>2, BornKeeps DEF BornStatus
  <2> QED
    BY <2>2 DEF Live
<1>9. JoinersFit'
  BY <1>2, <1>8, ScopeStartWaits, JoinersStay DEF Named, JoinersFit
<1> QED
  BY <1>7, <1>9

(* A join that does not block drops the one handle that names the child it
   reclaims, and that child had no handle left. *)
LEMMA JoinNamed ==
  ASSUME IInv, Named, ~Faulted, NEW t \in Ids, Join(t), NEW h, NEW c,
         h = Fr(t).handles[Op(t).h], c = children[t][h], JoinFinished(t, h, c)
  PROVE  HandlesExact' /\ JoinersFit'
<1> DEFINE m   == Op(t).h
           top == Len(stack[t])
           Cut(u, i, n) == u = t /\ i = top /\ n = m
<1>1. /\ status[t] = "run" /\ AtStatement(t) /\ m \in HandleNames /\ h \in Ids /\ c \in Ids
      /\ stack[t] # <<>>
  BY JoinedHandle DEF AtStatement
<1>2. \A u, k \in Ids : children'[u][k] = IF u = c \/ (u = t /\ k = h)
                                          THEN None ELSE children[u][k]
  BY JoinChildren DEF Named
<1>3. /\ stack' = stack /\ status' = [status EXCEPT ![c] = "absent"] /\ c \in finished
      /\ frame' = [frame EXCEPT ![Top(t)] = AfterJoin(@, m)]
  BY DEF JoinFinished
<1>4. status[c] = "done" /\ stack[c] = <<>> /\ c # t
  BY <1>1, <1>3 DEF IInv, FramesOwned, Live
<1>5. top \in DOMAIN stack[t] /\ Top(t) = stack[t][top] /\ HandleAt(t, top, m) = h
  BY <1>1, TopAllocated DEF IInv, Top, HandleAt, Fr
<1>6. ASSUME NEW u \in Ids, NEW i \in DOMAIN stack[u], NEW n \in HandleNames
      PROVE  HandleAt(u, i, n)' = IF Cut(u, i, n) THEN None ELSE HandleAt(u, i, n)
  <2> DEFINE f == stack[u][i]
  <2>1. f \in Ids /\ frame[f] \in FrameState
    BY HandlesTyped
  <2>2. f = Top(t) <=> u = t /\ i = top
    BY <1>5 DEF IInv, FramesOwned
  <2>3. HandleAt(u, i, n) = frame[f].handles[n] /\ HandleAt(u, i, n)' = frame'[f].handles[n]
    BY <1>3 DEF HandleAt
  <2>4. frame \in [Ids -> FrameState \union {NoFrame}]
    BY DEF IInv, TypeOK
  <2>5. frame'[f] = IF f = Top(t) THEN AfterJoin(frame[f], m) ELSE frame[f]
    BY <1>3, <2>1, <2>4
  <2>6. AfterJoin(frame[f], m).handles[n] = IF n = m THEN None ELSE frame[f].handles[n]
    BY <2>1 DEF AfterJoin, FrameState
  <2> HIDE DEF f, m, top
  <2> QED
    BY <2>2, <2>3, <2>5, <2>6
<1>7. ASSUME NEW u \in Ids, NEW i \in DOMAIN stack'[u], NEW n \in HandleNames,
             HandleAt(u, i, n)' # None
      PROVE  /\ i \in DOMAIN stack[u] /\ HandleAt(u, i, n)' = HandleAt(u, i, n)
             /\ children'[u][HandleAt(u, i, n)] # None
  <2>1. i \in DOMAIN stack[u] /\ ~Cut(u, i, n) /\ HandleAt(u, i, n)' = HandleAt(u, i, n)
    BY <1>3, <1>6, <1>7
  <2>2. HandleAt(u, i, n) \in Ids /\ HandleAt(u, i, n) # None
    BY <1>7, <2>1, HandlesTyped
  <2>3. children[u][HandleAt(u, i, n)] # None
    BY <2>1, <2>2 DEF Named, HandlesExact
  <2>4. u # c
    BY <1>4, <2>1
  <2>5. ~(u = t /\ HandleAt(u, i, n) = h)
    BY <1>1, <1>5, <2>1, <2>2 DEF Named, HandlesExact
  <2> QED
    BY <1>2, <2>1, <2>2, <2>3, <2>4, <2>5
<1>8. HandlesExact'
  BY <1>7, HandlesFewer DEF Named
<1>9. Live' = Live
  BY <1>1, <1>3, <1>4 DEF Live, IInv, TypeOK
<1>10. ASSUME NEW u \in Ids, status[u] = "join", status'[u] = "join"
       PROVE  /\ \A k \in Ids : children'[u][k] = children[u][k]
              /\ children[u][on[u]] \in Live'
  <2>1. u # t /\ u # c
    BY <1>1, <1>4, <1>10
  <2> QED
    BY <1>2, <1>9, <1>10, <2>1 DEF Named, JoinersFit
<1>11. JoinersFit'
  BY <1>10, JoinFinishedWaits, JoinersStay DEF Named
<1> QED
  BY <1>8, <1>11

-----------------------------------------------------------------------------
(* The invariant and the theorems *)

(* Every step keeps handles and joiners. *)
LEMMA StepNamed ==
  ASSUME IInv, Named, ~Faulted, NEW t \in Ids, Step(t)
  PROVE  HandlesExact' /\ JoinersFit'
BY StepKinds, QuietNamed, CallNamed, PopNamed, FinishNamed, SpawnNamed, ScopeStartNamed, JoinNamed

(* Every step leaves each waiting thread at its statement. *)
LEMMA StepStands ==
  ASSUME IInv, Named, ~Faulted, NEW t \in Ids, Step(t)
  PROVE  WaitersStand'
<1>1. WaitsRightly /\ prog' = prog
  BY StepWaits, ProgramKept DEF Named
<1> SUFFICES ASSUME NEW u \in Ids, status'[u] \in Blocking
             PROVE  Firm(u)'
  BY DEF WaitersStand
<1>2. CASE Kept(u)
  <2>1. status[u] \in Blocking /\ Firm(u)
    BY <1>2 DEF Kept, Named, WaitersStand
  <2> QED
    BY <1>1, <1>2, <2>1, KeptFirm
<1> QED
  BY <1>1, <1>2 DEF WaitsRightly, Begins

(* The invariant holds at first ... *)
LEMMA InitNamed == Init => Named
<1> SUFFICES ASSUME Init PROVE Named
  OBVIOUS
<1>1. \A u \in Ids : status[u] \notin Blocking
  BY DEF Init, Blocking
<1>2. WaitersStand /\ JoinersFit
  BY <1>1 DEF WaitersStand, JoinersFit, Blocking
<1>3. ChildrenExact
  BY DEF Init, ChildrenExact
<1>4. \A u \in Ids : \A i \in DOMAIN stack[u], n \in HandleNames : HandleAt(u, i, n) = None
  BY LimitsAssumption DEF Init, HandleAt, Activation, Ids
<1>5. HandlesExact
  BY <1>4 DEF HandlesExact
<1> QED
  BY <1>2, <1>3, <1>5 DEF Named

(* ... and in every step, whose waiting threads it needs at their statements
   and whose bound handles it needs to name a child of their own. Neither is
   inductive without the other: a join blocks on the child its handle names,
   and it is the blocked joiner's handle that a finishing child unbinds. *)
LEMMA NextNamed == IInv /\ Named /\ [Next]_vars => Named'
<1>1. ASSUME IInv, Named, ~Faulted, NEW t \in Ids, Step(t)
      PROVE  Named'
  BY <1>1, StepStands, StepChildren, StepNamed DEF Named
<1>2. ASSUME IInv, Named, UNCHANGED vars
      PROVE  Named'
  <2>1. /\ prog' = prog /\ status' = status /\ on' = on /\ stack' = stack /\ frame' = frame
        /\ cvq' = cvq /\ scope' = scope /\ children' = children /\ parent' = parent
        /\ next' = next
    BY <1>2 DEF vars, threadVars, syncVars, idVars
  <2>2. ASSUME NEW u \in Ids
        PROVE  Firm(u)' <=> Firm(u)
    BY <2>1 DEF Firm, Stands, Fr, Op, Body, Top, AtStatement
  <2>3. WaitersStand'
    BY <1>2, <2>1, <2>2 DEF Named, WaitersStand
  <2>4. ChildrenExact' /\ JoinersFit'
    BY <1>2, <2>1 DEF Named, ChildrenExact, JoinersFit, Live
  <2>5. HandlesExact'
    BY <1>2, <2>1 DEF Named, HandlesExact, HandleAt
  <2> QED
    BY <2>3, <2>4, <2>5 DEF Named
<1> QED
  BY <1>1, <1>2 DEF Next

LEMMA NamedInvariant == Spec => []Named
  BY InitNamed, NextNamed, Invariant, PTL DEF Spec

(* Whoever completes the operation of a blocked thread (a sender, a receiver, a
   notify, the end of a child or of the last scope member) finds it at the very
   statement it blocked in: advance skips that statement and no other. *)
THEOREM BlockedStand == Spec => []BlockedAtItsStatement
<1>1. Named => BlockedAtItsStatement
  BY DEF Named, WaitersStand, Firm, BlockedAtItsStatement
<1> QED
  BY <1>1, NamedInvariant, PTL

(* finish_thread wakes joiners once, at the finish: no thread ever waits in
   `join` for a child that has finished or was reclaimed, whatever the order
   of the join and the finish. *)
THEOREM JoinersWait == Spec => []JoinersWaitForLiveChild
<1>1. Named => JoinersWaitForLiveChild
  BY DEF Named, JoinersFit, JoinersWaitForLiveChild
<1> QED
  BY <1>1, NamedInvariant, PTL

(* A bound handle always resolves to a thread that was spawned and not yet
   reclaimed, and no two bindings of any two threads resolve to the same one:
   the E402 "has no child" of the interpreter is unreachable. *)
THEOREM Handles == Spec => []HandlesResolve
<1>1. IInv /\ Named => HandlesResolve
  <2> SUFFICES ASSUME IInv, Named, NEW b \in Bindings, NEW d \in Bindings
               PROVE  LET child(x) == children[x[1]][frame[x[2]].handles[x[3]]] IN
                      /\ child(b) # None /\ status[child(b)] # "absent"
                      /\ child(b) = child(d) => b = d
    BY DEF HandlesResolve
  <2> DEFINE handle(x) == frame[x[2]].handles[x[3]]
             child(x)  == children[x[1]][handle(x)]
  <2>1. ASSUME NEW x \in Bindings
        PROVE  /\ x = <<x[1], x[2], x[3]>> /\ x[1] \in Ids /\ x[3] \in HandleNames
               /\ handle(x) \in Ids /\ handle(x) # None
               /\ \E i \in DOMAIN stack[x[1]] :
                    stack[x[1]][i] = x[2] /\ handle(x) = HandleAt(x[1], i, x[3])
    <3>1. /\ x = <<x[1], x[2], x[3]>> /\ x[1] \in Ids /\ x[3] \in HandleNames
          /\ handle(x) # None
      BY DEF Bindings, Live
    <3>2. PICK i \in DOMAIN stack[x[1]] : stack[x[1]][i] = x[2]
      BY DEF Bindings
    <3>3. handle(x) = HandleAt(x[1], i, x[3])
      BY <3>2 DEF HandleAt
    <3>4. handle(x) \in Ids
      BY <3>1, <3>3, HandlesTyped
    <3> QED
      BY <3>1, <3>2, <3>3, <3>4
  <2>2. ASSUME NEW x \in Bindings
        PROVE  child(x) # None /\ status[child(x)] # "absent"
    <3>1. child(x) # None
      BY <2>1 DEF Named, HandlesExact
    <3>2. PICK u, h : u = x[1] /\ h = handle(x)
      OBVIOUS
    <3>3. u \in Ids /\ h \in Ids /\ children[u][h] # None
      BY <2>1, <3>1, <3>2
    <3>4. status[children[u][h]] # "absent"
      BY <3>3 DEF Named, ChildrenExact
    <3> QED
      BY <3>1, <3>2, <3>4
  <2>3. ASSUME child(b) = child(d)
        PROVE  b = d
    <3>1. b[1] = d[1] /\ handle(b) = handle(d)
      <4>1. /\ b[1] \in Ids /\ d[1] \in Ids /\ handle(b) \in Ids /\ handle(d) \in Ids
            /\ child(b) # None
        BY <2>1, <2>2
      <4>2. \A t, h, u, k \in Ids : children[t][h] # None /\ children[u][k] = children[t][h] =>
              u = t /\ k = h
        BY DEF Named, ChildrenExact
      <4>3. /\ children[b[1]][handle(b)] # None
            /\ children[d[1]][handle(d)] = children[b[1]][handle(b)]
        BY <2>3, <4>1
      <4> HIDE DEF handle, child
      <4> QED
        BY <4>1, <4>2, <4>3
    <3>2. PICK i \in DOMAIN stack[b[1]] :
             stack[b[1]][i] = b[2] /\ handle(b) = HandleAt(b[1], i, b[3])
      BY <2>1
    <3>3. PICK j \in DOMAIN stack[d[1]] :
             stack[d[1]][j] = d[2] /\ handle(d) = HandleAt(d[1], j, d[3])
      BY <2>1
    <3>4. i = j /\ b[3] = d[3]
      <4>1. /\ b[1] \in Ids /\ b[3] \in HandleNames /\ d[3] \in HandleNames
            /\ j \in DOMAIN stack[b[1]]
            /\ HandleAt(b[1], i, b[3]) # None
            /\ HandleAt(b[1], j, d[3]) = HandleAt(b[1], i, b[3])
        BY <2>1, <3>1, <3>2, <3>3
      <4>2. \A t \in Ids : \A x, y \in DOMAIN stack[t], n, m \in HandleNames :
              HandleAt(t, x, n) # None /\ HandleAt(t, y, m) = HandleAt(t, x, n) => y = x /\ m = n
        BY DEF Named, HandlesExact
      <4> QED
        BY <4>1, <4>2
    <3> QED
      BY <2>1, <3>1, <3>2, <3>3, <3>4
  <2> QED
    BY <2>2, <2>3
<1> QED
  BY <1>1, NamedInvariant, Invariant, PTL

-----------------------------------------------------------------------------
(* Domains *)

(* A frame with the function and the locals of a typed frame is typed. *)
LEMMA StoreFollows ==
  ASSUME NEW g, NEW h, StoreTyped(g),
         \A f \in Ids : h[f] # NoFrame =>
            \/ SlotsTyped(h[f])
            \/ g[f] # NoFrame /\ h[f].fn = g[f].fn /\ h[f].locals = g[f].locals
  PROVE  StoreTyped(h)
BY DEF StoreTyped, SlotsTyped

(* write_dst to a slot whose domain holds the value *)
LEMMA PutTyped ==
  ASSUME NEW g \in FrameStore, StoreTyped(g), NEW h \in Ids, g[h] # NoFrame,
         NEW dst, NEW v, v \in DomainOf(g[h].fn, dst)
  PROVE  StoreTyped(Put(g, h, dst, v))
<1>1. CASE dst \in Locals
  <2> DEFINE x == [g[h] EXCEPT !.locals[dst] = v]
  <2>1. g[h] \in FrameState /\ v \in SlotType[g[h].fn][dst]
    BY <1>1 DEF FrameStore, DomainOf
  <2>2. x.fn = g[h].fn /\ \A y \in Locals : x.locals[y] = IF y = dst THEN v ELSE g[h].locals[y]
    BY <2>1 DEF FrameState
  <2>3. SlotsTyped(x)
    BY <2>1, <2>2 DEF SlotsTyped, StoreTyped
  <2>4. \A f \in Ids : Put(g, h, dst, v)[f] = IF f = h THEN x ELSE g[f]
    BY <1>1 DEF Put, FrameStore
  <2> HIDE DEF x
  <2> QED
    BY <2>3, <2>4 DEF StoreTyped
<1>2. CASE dst \notin Locals
  BY <1>2 DEF Put
<1> QED
  BY <1>1, <1>2

(* advance touches no value *)
LEMMA AdvanceTyped ==
  ASSUME NEW g \in FrameStore, StoreTyped(g), NEW ts \in SUBSET Ids,
         \A u \in ts : g[Top(u)] # NoFrame
  PROVE  StoreTyped(Advance(g, ts))
<1> SUFFICES ASSUME NEW f \in Ids, Advance(g, ts)[f] # NoFrame
             PROVE  SlotsTyped(Advance(g, ts)[f])
  BY DEF StoreTyped
<1>1. CASE \E u \in ts : f = Top(u)
  <2> DEFINE x == [g[f] EXCEPT !.pc = @ + 1]
  <2>1. g[f] # NoFrame /\ g[f] \in FrameState
    BY <1>1 DEF FrameStore
  <2>2. x.fn = g[f].fn /\ x.locals = g[f].locals
    BY <2>1 DEF FrameState
  <2>3. Advance(g, ts)[f] = x
    BY <1>1 DEF Advance
  <2> HIDE DEF x
  <2> QED
    BY <2>1, <2>2, <2>3 DEF SlotsTyped, StoreTyped
<1>2. CASE ~\E u \in ts : f = Top(u)
  BY <1>2 DEF Advance, StoreTyped
<1> QED
  BY <1>1, <1>2

(* write_dst to a shared variable whose domain holds the value *)
LEMMA PutSharedInDomain ==
  ASSUME TypeOK, SharedTyped(shared), NEW f, NEW dst, NEW v, v \in DomainOf(f, dst)
  PROVE  SharedTyped(PutShared(dst, v))
BY ValuesAssumption DEF TypeOK, SharedTyped, PutShared, DomainOf

(* The frames of running threads move on. *)
LEMMA MoveTyped ==
  ASSUME IInv, StoreTyped(frame), NEW ts \in SUBSET Ids, \A u \in ts : stack[u] # <<>>,
         frame' = Advance(frame, ts)
  PROVE  StoreTyped(frame')
<1>1. frame \in FrameStore
  BY DEF IInv, TypeOK, FrameStore
<1>2. \A u \in ts : frame[Top(u)] # NoFrame
  BY TopAllocated DEF IInv, Fr
<1> QED
  BY <1>1, <1>2, AdvanceTyped

(* The steps that only move frames or change nothing of them. *)
LEMMA PlainTyped ==
  ASSUME IInv, InDomains, shared' = shared, NEW t \in Ids, stack[t] # <<>>,
         frame' = frame \/ frame' = Advance(frame, {t})
  PROVE  StoreTyped(frame') /\ SharedTyped(shared')
<1>1. StoreTyped(frame')
  BY MoveTyped DEF InDomains
<1> QED
  BY <1>1 DEF InDomains

(* A value that the destination of r accepts is written, and ts move on. *)
LEMMA AcceptTyped ==
  ASSUME IInv, StoreTyped(frame), NEW ts \in SUBSET Ids, \A u \in ts : stack[u] # <<>>,
         NEW r \in Ids, stack[r] # <<>>, NEW dst, NEW v, Accepts(r, dst, v),
         frame' = Advance(Put(frame, Top(r), dst, v), ts)
  PROVE  StoreTyped(frame')
<1> DEFINE g == Put(frame, Top(r), dst, v)
<1>1. frame \in FrameStore /\ Top(r) \in Ids /\ frame[Top(r)] \in FrameState
      /\ frame[Top(r)] # NoFrame /\ v \in DomainOf(frame[Top(r)].fn, dst)
  BY TopAllocated DEF IInv, TypeOK, FrameStore, Fr, Accepts
<1>2. dst \in Locals => v \in Values
  BY <1>1, DeclarationsAssumption DEF DomainOf, FrameState
<1>3. g \in FrameStore /\ \A f \in Ids : g[f] = NoFrame <=> frame[f] = NoFrame
  BY <1>1, <1>2, PutSimilar DEF Similar
<1>4. StoreTyped(g)
  BY <1>1, PutTyped
<1>5. \A u \in ts : g[Top(u)] # NoFrame
  BY <1>3, TopAllocated DEF IInv, Fr
<1> HIDE DEF g
<1>6. StoreTyped(Advance(g, ts))
  BY <1>3, <1>4, <1>5, AdvanceTyped
<1> QED
  BY <1>6 DEF g

(* The value a receiver's destination accepts is delivered to it. *)
LEMMA DeliverTyped ==
  ASSUME IInv, InDomains, NEW r \in Ids, NEW t \in Ids, NEW v, Deliver(r, v, t),
         stack[r] # <<>>, stack[t] # <<>>
  PROVE  StoreTyped(frame') /\ SharedTyped(shared')
<1> DEFINE dst == Op(r).dst
<1>1. /\ Accepts(r, dst, v) /\ shared' = PutShared(dst, v)
      /\ frame' = Advance(Put(frame, Top(r), dst, v), {r, t})
  BY DEF Deliver
<1> HIDE DEF dst
<1>2. StoreTyped(frame')
  BY <1>1, AcceptTyped DEF InDomains
<1>3. SharedTyped(shared')
  BY <1>1, PutSharedInDomain DEF Accepts, IInv, InDomains
<1> QED
  BY <1>2, <1>3

-----------------------------------------------------------------------------
(* Data and control *)

(* Loads, stores and assignments check the destination; a compare-and-swap
   checks both of its writes before either. *)
LEMMA DataTyped ==
  ASSUME IInv, InDomains, NEW t \in Ids, DataStep(t)
  PROVE  StoreTyped(frame') /\ SharedTyped(shared')
<1>1. stack[t] # <<>>
  BY DEF DataStep, Nop, AssignLocal, LoadShared, StoreShared, AtomicCas, Executes, AtStatement
<1>2. CASE Nop(t)
  <2>1. frame' = Advance(frame, {t}) /\ shared' = shared
    BY <1>2 DEF Nop
  <2> QED
    BY <1>1, <2>1, PlainTyped
<1>3. ASSUME NEW dst, NEW v, Assign(t, dst, v)
      PROVE  StoreTyped(frame') /\ SharedTyped(shared')
  <2>1. StoreTyped(frame')
    BY <1>1, <1>3, AcceptTyped DEF Assign, InDomains
  <2>2. SharedTyped(shared')
    BY <1>3, PutSharedInDomain DEF Assign, Accepts, IInv, InDomains
  <2> QED
    BY <2>1, <2>2
<1>4. CASE AtomicCas(t)
  <2> DEFINE o   == Op(t)
             old == shared[o.r]
             new == Value(t, o.desired)
             s   == PutShared(o.dst, old)
  <2>1. /\ new \in SharedType[o.r] /\ Accepts(t, o.dst, old)
        /\ frame' = Advance(Put(frame, Top(t), o.dst, old), {t})
        /\ shared' \in {s, [s EXCEPT ![o.r] = new]}
    BY <1>4 DEF AtomicCas
  <2>2. SharedTyped(s) /\ s \in [Shared -> Values]
    <3>1. SharedTyped(s)
      BY <2>1, PutSharedInDomain DEF Accepts, IInv, InDomains
    <3>2. DOMAIN s = Shared
      BY DEF PutShared, IInv, TypeOK
    <3>3. s \in [Shared -> Values]
      <4>1. o.r \in Shared /\ old \in Values
        BY <1>4, Executing, OpFields DEF AtomicCas, Executes, IInv, TypeOK
      <4> QED
        BY <4>1, PutSharedTyped DEF IInv
    <3> QED
      BY <3>1, <3>3
  <2>3. StoreTyped(frame')
    BY <1>1, <2>1, AcceptTyped DEF InDomains
  <2> HIDE DEF s, o, new
  <2>4. SharedTyped([s EXCEPT ![o.r] = new])
    BY <2>1, <2>2 DEF SharedTyped
  <2> QED
    BY <2>1, <2>2, <2>3, <2>4
<1> QED
  BY <1>2, <1>3, <1>4 DEF DataStep, AssignLocal, LoadShared, StoreShared

(* A jump changes no value. *)
LEMMA JumpTyped ==
  ASSUME IInv, InDomains, NEW t \in Ids, stack[t] # <<>>, NEW target, Jump(t, target)
  PROVE  StoreTyped(frame') /\ SharedTyped(shared')
<1> DEFINE y == [frame[Top(t)] EXCEPT !.pc = target]
<1>1. /\ frame \in FrameStore /\ Top(t) \in Ids /\ frame[Top(t)] \in FrameState
      /\ frame[Top(t)] # NoFrame
  BY TopAllocated DEF IInv, TypeOK, FrameStore, Fr
<1>2. y.fn = frame[Top(t)].fn /\ y.locals = frame[Top(t)].locals
  BY <1>1 DEF FrameState
<1>3. frame' = [frame EXCEPT ![Top(t)] = y] /\ shared' = shared
  BY DEF Jump
<1> HIDE DEF y
<1>4. \A f \in Ids : frame'[f] = IF f = Top(t) THEN y ELSE frame[f]
  BY <1>1, <1>3 DEF FrameStore
<1>5. StoreTyped(frame')
  BY <1>1, <1>2, <1>4 DEF InDomains, StoreTyped, SlotsTyped
<1> QED
  BY <1>3, <1>5 DEF InDomains

(* A parameter takes an argument of its type, any other slot its initial
   value. *)
LEMMA BindInDomain ==
  ASSUME NEW f \in Functions, NEW vals, InitialValuesTyped,
         \A i \in DOMAIN vals : i <= Len(Params[f]) => vals[i] \in SlotType[f][Params[f][i]],
         NEW x \in Locals
  PROVE  Bind(f, vals)[x] \in SlotType[f][x]
<1> DEFINE P(i) == i <= Len(Params[f]) /\ Params[f][i] = x
<1>1. CASE \E i \in DOMAIN vals : P(i)
  <2> DEFINE k == CHOOSE i \in DOMAIN vals : P(i)
  <2>1. k \in DOMAIN vals /\ P(k)
    BY <1>1
  <2>2. Bind(f, vals)[x] = vals[k]
    BY <1>1 DEF Bind
  <2> QED
    BY <2>1, <2>2
<1>2. CASE ~\E i \in DOMAIN vals : P(i)
  BY <1>2 DEF Bind, InitialValuesTyped
<1> QED
  BY <1>1, <1>2

(* A call checks every argument against its parameter. *)
LEMMA CallTyped ==
  ASSUME IInv, InDomains, InitialValuesTyped, NEW t \in Ids, CallBody(t)
  PROVE  StoreTyped(frame') /\ SharedTyped(shared')
<1> DEFINE o    == Op(t)
           vals == [i \in DOMAIN o.args |-> Value(t, o.args[i])]
           ret  == [pc |-> Fr(t).pc + 1, dst |-> o.dst]
           y    == [Activation(o.f, ret) EXCEPT !.locals = Bind(o.f, vals)]
<1>1. /\ frame' = [frame EXCEPT ![next.frame] = y] /\ shared' = shared
      /\ \A i \in DOMAIN vals : i <= Len(Params[o.f]) =>
           vals[i] \in SlotType[o.f][Params[o.f][i]]
  BY DEF CallBody
<1>2. o.f \in Functions
  BY Executing, OpFields DEF CallBody, Executes
<1>3. y.fn = o.f /\ y.locals = Bind(o.f, vals)
  BY DEF Activation
<1>4. SlotsTyped(y)
  <2> HIDE DEF y, vals, o
  <2> QED
    BY <1>1, <1>2, <1>3, BindInDomain DEF SlotsTyped
<1>5. frame \in FrameStore
  BY DEF IInv, TypeOK, FrameStore
<1> HIDE DEF y
<1>6. \A f \in Ids : frame'[f] \in {y, frame[f]}
  BY <1>1, <1>5 DEF FrameStore
<1>7. StoreTyped(frame')
  BY <1>4, <1>6 DEF StoreTyped, InDomains
<1> QED
  BY <1>1, <1>7 DEF InDomains

(* A return checks the value against the callee's type and the caller's
   destination before anything changes. *)
LEMMA ReturnTyped ==
  ASSUME IInv, InDomains, NEW t \in Ids, stack[t] # <<>>, NEW v,
         ReturnAccepted(t, v), PopFrame(t, v)
  PROVE  StoreTyped(frame') /\ SharedTyped(shared')
<1> DEFINE c   == Caller(t)
           dst == Fr(t).ret.dst
           g   == IF v = NoValue THEN frame ELSE Put(frame, c, dst, v)
           y   == [g[c] EXCEPT !.pc = Fr(t).ret.pc]
<1>1. /\ frame' = [g EXCEPT ![c].pc = Fr(t).ret.pc, ![Top(t)] = NoFrame]
      /\ shared' = IF v = NoValue THEN shared ELSE PutShared(dst, v)
      /\ Len(stack[t]) > 1
  BY DEF PopFrame, Nested
<1>2. frame \in FrameStore /\ c \in Ids /\ frame[c] # NoFrame /\ frame[c] \in FrameState
  <2>1. Len(stack[t]) - 1 \in DOMAIN stack[t] /\ stack[t] \in Seq(Ids)
    BY <1>1 DEF IInv, TypeOK
  <2>2. c \in Ids
    BY <2>1 DEF Caller
  <2> QED
    BY <2>1, <2>2 DEF Caller, IInv, FramesOwned, TypeOK, FrameStore
<1>3. v # NoValue => v \in DomainOf(frame[c].fn, dst)
  BY <1>1 DEF ReturnAccepted, Nested
<1>4. SharedTyped(shared')
  BY <1>1, <1>3, PutSharedInDomain DEF IInv, InDomains
<1>5. g \in FrameStore /\ (\A f \in Ids : g[f] = NoFrame <=> frame[f] = NoFrame) /\ StoreTyped(g)
  <2>1. CASE v = NoValue
    BY <1>2, <2>1 DEF InDomains
  <2>2. CASE v # NoValue
    <3> DEFINE h == Put(frame, c, dst, v)
    <3> HIDE DEF c, dst
    <3>1. dst \in Locals => v \in Values
      BY <1>2, <1>3, <2>2, DeclarationsAssumption DEF DomainOf, FrameState
    <3>2. h \in FrameStore /\ \A f \in Ids : h[f] = NoFrame <=> frame[f] = NoFrame
      BY <1>2, <3>1, PutSimilar DEF Similar
    <3>3. StoreTyped(h)
      BY <1>2, <1>3, <2>2, PutTyped DEF InDomains
    <3> QED
      BY <2>2, <3>2, <3>3
  <2> QED
    BY <2>1, <2>2
<1> HIDE DEF g, c
<1>6. g[c] \in FrameState /\ g[c] # NoFrame
  BY <1>2, <1>5 DEF FrameStore
<1>7. y.fn = g[c].fn /\ y.locals = g[c].locals
  BY <1>6 DEF FrameState
<1>8. \A f \in Ids : frame'[f] = IF f = Top(t) THEN NoFrame ELSE IF f = c THEN y ELSE g[f]
  BY <1>1, <1>2, <1>5 DEF FrameStore
<1> HIDE DEF y
<1>9. StoreTyped(frame')
  BY <1>5, <1>6, <1>7, <1>8 DEF StoreTyped, SlotsTyped
<1> QED
  BY <1>4, <1>9

-----------------------------------------------------------------------------
(* Threads *)

(* The frames that end or move with a thread change no value. *)
LEMMA FinishTyped ==
  ASSUME IInv, InDomains, NEW t \in Ids, status[t] = "run", stack[t] # <<>>, FinishThread(t)
  PROVE  StoreTyped(frame') /\ SharedTyped(shared')
<1> DEFINE J == Joiners(t)
<1>1. /\ frame' = [f \in Ids |->
              IF f = Top(t) THEN NoFrame
              ELSE IF \E u \in J : f = Top(u)
                   THEN AfterJoin(frame[f], Op(CHOOSE u \in J : f = Top(u)).h)
              ELSE IF \E u \in Owners(t) : f = Top(u)
                   THEN [frame[f] EXCEPT !.pc = @ + 1]
              ELSE frame[f]]
      /\ shared' = shared
  BY DEF FinishThread, Owners
<1>2. \A u \in J \union Owners(t) : frame[Top(u)] # NoFrame
  <2>1. \A u \in Owners(t) : u \in Ids /\ status[u] = "scope"
    BY LastMember
  <2>2. \A u \in J : u \in Ids /\ status[u] = "join"
    BY DEF Joiners
  <2> QED
    BY <2>1, <2>2, BlockedHasFrame, TopAllocated DEF IInv, Blocking, Fr
<1> SUFFICES ASSUME NEW f \in Ids, frame'[f] # NoFrame
             PROVE  SlotsTyped(frame'[f])
  BY <1>1 DEF StoreTyped, InDomains
<1> HIDE DEF J
<1>3. ASSUME NEW x \in FrameState, NEW h, SlotsTyped(x)
      PROVE  SlotsTyped(AfterJoin(x, h)) /\ SlotsTyped([x EXCEPT !.pc = @ + 1])
  BY <1>3 DEF SlotsTyped, AfterJoin, FrameState
<1>4. \/ frame'[f] = frame[f]
      \/ frame[f] # NoFrame /\ \E h : frame'[f] = AfterJoin(frame[f], h)
      \/ frame[f] # NoFrame /\ frame'[f] = [frame[f] EXCEPT !.pc = @ + 1]
  BY <1>1, <1>2
<1>5. frame[f] # NoFrame => frame[f] \in FrameState /\ SlotsTyped(frame[f])
  BY DEF IInv, TypeOK, InDomains, StoreTyped
<1> QED
  BY <1>3, <1>4, <1>5

(* New threads start with the initial values of their slots. *)
LEMMA BornTyped ==
  ASSUME InitialValuesTyped, NEW fs \in Seq(Functions), NEW g, StoreTyped(g)
  PROVE  StoreTyped(WithNewFrames(fs, g))
<1> SUFFICES ASSUME NEW f \in Ids, WithNewFrames(fs, g)[f] # NoFrame
             PROVE  SlotsTyped(WithNewFrames(fs, g)[f])
  BY DEF StoreTyped
<1>1. CASE \E i \in Born(fs) : f = FrameOf(fs, i)
  <2> DEFINE k == CHOOSE i \in Born(fs) : f = FrameOf(fs, i)
  <2>1. k \in Born(fs)
    BY <1>1
  <2>2. WithNewFrames(fs, g)[f] = Activation(fs[k], NoReturn)
    BY <1>1 DEF WithNewFrames
  <2> HIDE DEF k
  <2>3. fs[k] \in Functions
    BY <2>1 DEF Born
  <2> QED
    BY <2>2, <2>3 DEF Activation, SlotsTyped, InitialValuesTyped
<1>2. CASE ~\E i \in Born(fs) : f = FrameOf(fs, i)
  BY <1>2 DEF WithNewFrames, StoreTyped
<1> QED
  BY <1>1, <1>2

(* A spawn, a scope and a join change no value but those of new frames. *)
LEMMA ThreadTyped ==
  ASSUME IInv, InDomains, InitialValuesTyped, NEW t \in Ids, ThreadStep(t)
  PROVE  StoreTyped(frame') /\ SharedTyped(shared')
<1>1. shared' = shared /\ stack[t] # <<>> /\ AtStatement(t)
  BY DEF ThreadStep, Spawn, ScopeStart, Join, OnlyThreads, Executes, AtStatement
<1>2. frame \in FrameStore /\ Top(t) \in Ids /\ Fr(t) \in FrameState /\ Fr(t) # NoFrame
  BY <1>1, TopAllocated DEF IInv, TypeOK, FrameStore
<1>3. ASSUME NEW g, NEW x, g = [frame EXCEPT ![Top(t)] = x],
             x.fn = Fr(t).fn, x.locals = Fr(t).locals
      PROVE  StoreTyped(g)
  <2>1. \A f \in Ids : g[f] = IF f = Top(t) THEN x ELSE frame[f]
    BY <1>2, <1>3 DEF FrameStore
  <2> QED
    BY <1>2, <1>3, <2>1 DEF StoreTyped, SlotsTyped, InDomains, Fr
<1>4. CASE Spawn(t)
  <2> DEFINE fs == <<Op(t).f>>
             x  == [Fr(t) EXCEPT !.handles[Op(t).h] = next.handle, !.pc = @ + 1]
             g  == [frame EXCEPT ![Top(t)].handles[Op(t).h] = next.handle, ![Top(t)].pc = @ + 1]
  <2>1. frame' = WithNewFrames(fs, g)
    BY <1>4 DEF Spawn
  <2>2. fs \in Seq(Functions)
    <3>1. Op(t).f \in Functions
      BY <1>4, Executing, OpFields DEF Spawn, Executes
    <3> QED
      BY <3>1
  <2>3. x.fn = Fr(t).fn /\ x.locals = Fr(t).locals
    BY <1>2 DEF FrameState
  <2>4. g = [frame EXCEPT ![Top(t)] = x]
    BY <1>2 DEF FrameStore, Fr
  <2> HIDE DEF x, g, fs
  <2>5. StoreTyped(g)
    BY <1>3, <2>3, <2>4
  <2> QED
    BY <1>1, <2>1, <2>2, <2>5, BornTyped DEF InDomains
<1>5. CASE ScopeStart(t)
  <2> DEFINE fs == Op(t).fs
  <2>1. frame' = WithNewFrames(fs, frame) \/ frame' = Advance(frame, {t})
    BY <1>5 DEF ScopeStart
  <2>2. fs \in Seq(Functions)
    BY <1>5, Executing, OpFields DEF ScopeStart, Executes
  <2>3. CASE frame' = WithNewFrames(fs, frame)
    <3> HIDE DEF fs
    <3>1. StoreTyped(WithNewFrames(fs, frame))
      BY <2>2, BornTyped DEF InDomains
    <3> QED
      BY <1>1, <2>3, <3>1 DEF InDomains
  <2>4. CASE frame' = Advance(frame, {t})
    BY <1>1, <2>4, PlainTyped
  <2> QED
    BY <2>1, <2>3, <2>4
<1>6. CASE Join(t)
  <2> DEFINE x == AfterJoin(Fr(t), Op(t).h)
  <2>1. frame' = frame \/ frame' = [frame EXCEPT ![Top(t)] = x]
    BY <1>6 DEF Join, JoinFinished, JoinBlocks, Fr
  <2>2. x.fn = Fr(t).fn /\ x.locals = Fr(t).locals
    BY <1>2 DEF FrameState, AfterJoin
  <2> HIDE DEF x
  <2> QED
    BY <1>1, <1>3, <2>1, <2>2 DEF InDomains
<1> QED
  BY <1>4, <1>5, <1>6 DEF ThreadStep

-----------------------------------------------------------------------------
(* Synchronisation and messages *)

(* Operations on locks, condition variables and permits move frames only. *)
LEMMA SyncTyped ==
  ASSUME IInv, InDomains, NEW t \in Ids, SyncStep(t) \/ ResumeLock(t) \/ ResumeSemaphore(t)
  PROVE  StoreTyped(frame') /\ SharedTyped(shared')
<1>1. stack[t] # <<>>
  BY BlockedHasFrame
     DEF SyncStep, MutexLock, MutexUnlock, CondvarWait, CondvarNotify, CondvarNotifyAll,
         SemaphoreAcquire, SemaphoreRelease, Executes, AtStatement, ResumeLock,
         ResumeSemaphore, Blocking
<1>2. shared' = shared /\ (frame' = frame \/ frame' = Advance(frame, {t}))
  BY DEF SyncStep, MutexLock, MutexUnlock, CondvarWait, CondvarNotify, CondvarNotifyAll,
         SemaphoreAcquire, SemaphoreRelease, OnlySync, ResumeLock, ResumeSemaphore
<1> QED
  BY <1>1, <1>2, PlainTyped

(* A message is checked against the channel's type when it is sent, against
   the receiver's destination when it arrives. *)
LEMMA ChannelTyped ==
  ASSUME IInv, InDomains, NEW t \in Ids,
         ChannelSend(t) \/ ChannelRecv(t) \/ ResumeSend(t) \/ ResumeRecv(t)
  PROVE  InDomains'
<1>1. /\ buf \in [Channels -> Seq(Values)] /\ sendq \in [Channels -> SUBSET (Ids \X Values)]
  BY DEF IInv, TypeOK
<1> SUFFICES (StoreTyped(frame') /\ SharedTyped(shared')) /\ MessagesTyped'
  BY DEF InDomains, StoreTyped, SharedTyped
<1>2. ASSUME NEW c \in Channels, NEW v, v \in ChannelType[c],
             buf' = [buf EXCEPT ![c] = Append(@, v)],
             \A d \in Channels : sendq'[d] \subseteq sendq[d]
      PROVE  MessagesTyped'
  <2>1. \A i \in DOMAIN Append(buf[c], v) : Append(buf[c], v)[i] \in ChannelType[c]
    BY <1>1, <1>2 DEF InDomains, MessagesTyped
  <2>2. \A d \in Channels : buf'[d] = IF d = c THEN Append(buf[c], v) ELSE buf[d]
    BY <1>1, <1>2
  <2> QED
    BY <1>2, <2>1, <2>2 DEF InDomains, MessagesTyped
<1>3. ASSUME NEW c \in Channels, buf[c] # <<>>, buf' = [buf EXCEPT ![c] = Tail(@)],
             \A d \in Channels : sendq'[d] \subseteq sendq[d]
      PROVE  MessagesTyped'
  <2>1. \A i \in DOMAIN Tail(buf[c]) : Tail(buf[c])[i] \in ChannelType[c]
    BY <1>1, <1>3 DEF InDomains, MessagesTyped
  <2>2. \A d \in Channels : buf'[d] = IF d = c THEN Tail(buf[c]) ELSE buf[d]
    BY <1>1, <1>3
  <2> QED
    BY <1>3, <2>1, <2>2 DEF InDomains, MessagesTyped
<1>4. ASSUME buf' = buf, \A d \in Channels : sendq'[d] \subseteq sendq[d]
      PROVE  MessagesTyped'
  BY <1>4 DEF InDomains, MessagesTyped
<1>5. CASE ChannelSend(t)
  <2> DEFINE c == Op(t).c
             v == Value(t, Op(t).e)
  <2>1. c \in Channels /\ v \in ChannelType[c] /\ stack[t] # <<>>
    BY <1>5, Executing, OpFields DEF ChannelSend, Executes
  <2>2. SendToReceiver(t, c, v) \/ SendBlocks(t, c, v) \/ SendToBuffer(t, c, v)
    BY <1>5 DEF ChannelSend
  <2> HIDE DEF c, v
  <2>3. CASE SendToReceiver(t, c, v)
    <3>1. PICK r \in recvq[c] : Deliver(r, v, t)
      BY <2>3 DEF SendToReceiver
    <3>2. r \in Ids /\ stack[r] # <<>>
      <4>1. r \in Ids /\ status[r] = "recv"
        BY <2>1, <3>1 DEF IInv, WaitQueuesExact, Waiting
      <4> QED
        BY <4>1, BlockedHasFrame DEF Blocking
    <3>3. MessagesTyped'
      BY <1>4, <2>3 DEF SendToReceiver
    <3> QED
      BY <2>1, <3>1, <3>2, <3>3, DeliverTyped
  <2>4. CASE SendBlocks(t, c, v)
    <3>1. /\ frame' = frame /\ shared' = shared /\ buf' = buf
          /\ \A d \in Channels : \A w \in sendq'[d] :
               w \in sendq[d] \/ (d = c /\ w = <<t, v>>)
      BY <1>1, <2>4 DEF SendBlocks
    <3>2. MessagesTyped'
      BY <2>1, <3>1 DEF InDomains, MessagesTyped
    <3> QED
      BY <3>1, <3>2 DEF InDomains
  <2>5. CASE SendToBuffer(t, c, v)
    <3>1. /\ frame' = Advance(frame, {t}) /\ shared' = shared /\ sendq' = sendq
          /\ buf' = [buf EXCEPT ![c] = Append(@, v)]
      BY <2>5 DEF SendToBuffer
    <3>2. MessagesTyped'
      BY <1>2, <2>1, <3>1
    <3> QED
      BY <2>1, <3>1, <3>2, PlainTyped
  <2> QED
    BY <2>2, <2>3, <2>4, <2>5
<1>6. CASE ChannelRecv(t)
  <2> DEFINE c == Op(t).c
  <2>1. c \in Channels /\ stack[t] # <<>>
    BY <1>6, Executing, OpFields DEF ChannelRecv, Executes
  <2>2. \/ RecvFromSender(t, c) \/ RecvBlocks(t, c)
        \/ buf[c] # <<>> /\ RecvFromBuffer(t, c)
    BY <1>6 DEF ChannelRecv
  <2> HIDE DEF c
  <2>3. CASE RecvFromSender(t, c)
    <3>1. PICK w \in sendq[c] : /\ Deliver(t, w[2], w[1]) /\ buf' = buf
                                /\ sendq' = [sendq EXCEPT ![c] = Without(@, w[1])]
      BY <2>3 DEF RecvFromSender
    <3>2. w[1] \in Ids /\ stack[w[1]] # <<>>
      <4>1. w[1] \in Waiting("send", c)
        BY <2>1, <3>1 DEF IInv, WaitQueuesExact
      <4> QED
        BY <4>1, BlockedHasFrame DEF Waiting, Blocking
    <3>3. \A d \in Channels : sendq'[d] \subseteq sendq[d]
      BY <1>1, <3>1 DEF Without
    <3>4. MessagesTyped'
      BY <1>4, <3>1, <3>3
    <3>5. StoreTyped(frame') /\ SharedTyped(shared')
      BY <2>1, <3>1, <3>2, DeliverTyped
    <3> QED
      BY <3>4, <3>5
  <2>4. CASE RecvBlocks(t, c)
    <3>1. frame' = frame /\ shared' = shared /\ buf' = buf /\ sendq' = sendq
      BY <2>4 DEF RecvBlocks
    <3>2. MessagesTyped'
      BY <1>4, <3>1
    <3> QED
      BY <3>1, <3>2 DEF InDomains
  <2>5. CASE buf[c] # <<>> /\ RecvFromBuffer(t, c)
    <3>1. /\ Deliver(t, Head(buf[c]), t) /\ sendq' = sendq
          /\ buf' = [buf EXCEPT ![c] = Tail(@)]
      BY <2>5 DEF RecvFromBuffer
    <3>2. MessagesTyped'
      BY <1>3, <2>1, <2>5, <3>1
    <3> QED
      BY <2>1, <3>1, <3>2, DeliverTyped
  <2> QED
    BY <2>2, <2>3, <2>4, <2>5
<1>7. CASE ResumeSend(t)
  <2> DEFINE c == on[t]
  <2>1. /\ frame' = Advance(frame, {t}) /\ shared' = shared
        /\ sendq' = [sendq EXCEPT ![c] = Without(@, t)]
        /\ \E v \in Captured(t, c) : buf' = [buf EXCEPT ![c] = Append(@, v)]
        /\ status[t] = "send"
    BY <1>7 DEF ResumeSend
  <2>2. stack[t] # <<>>
    BY <2>1, BlockedHasFrame DEF Blocking
  <2> HIDE DEF c
  <2>3. PICK w \in sendq[c] : buf' = [buf EXCEPT ![c] = Append(@, w[2])]
    BY <2>1 DEF Captured
  <2>4. \A d \in Channels : sendq'[d] \subseteq sendq[d]
    BY <1>1, <2>1 DEF Without
  <2>5. c \in Channels => w[2] \in ChannelType[c]
    BY <2>3 DEF InDomains, MessagesTyped
  <2>6. c \notin Channels => buf' = buf
    BY <1>1, <2>3
  <2>7. MessagesTyped'
    BY <1>2, <1>4, <2>3, <2>4, <2>5, <2>6
  <2> QED
    BY <2>1, <2>2, <2>7, PlainTyped
<1>8. CASE ResumeRecv(t)
  <2> DEFINE c == on[t]
  <2>1. /\ Deliver(t, Head(buf[c]), t) /\ buf' = [buf EXCEPT ![c] = Tail(@)]
        /\ buf[c] # <<>> /\ sendq' = sendq /\ status[t] = "recv"
    BY <1>8 DEF ResumeRecv
  <2>2. stack[t] # <<>>
    BY <2>1, BlockedHasFrame DEF Blocking
  <2> HIDE DEF c
  <2>3. c \notin Channels => buf' = buf
    BY <1>1, <2>1
  <2>4. MessagesTyped'
    BY <1>3, <1>4, <2>1, <2>3
  <2> QED
    BY <2>1, <2>2, <2>4, DeliverTyped
<1> QED
  BY <1>5, <1>6, <1>7, <1>8

-----------------------------------------------------------------------------
(* The invariant *)

(* Every step keeps every value in its domain. *)
LEMMA StepTyped ==
  ASSUME IInv, InDomains, InitialValuesTyped, NEW t \in Ids, Step(t)
  PROVE  InDomains'
<1>1. CASE ChannelSend(t) \/ ChannelRecv(t) \/ ResumeSend(t) \/ ResumeRecv(t)
  BY <1>1, ChannelTyped
<1>2. CASE ~(ChannelSend(t) \/ ChannelRecv(t) \/ ResumeSend(t) \/ ResumeRecv(t))
  <2>1. MessagesTyped'
    <3>1. buf' = buf /\ sendq' = sendq
      BY <1>2, Touches DEF chanVars
    <3> QED
      BY <3>1 DEF InDomains, MessagesTyped
  <2>2. StoreTyped(frame') /\ SharedTyped(shared')
    <3>1. CASE DataStep(t)
      BY <3>1, DataTyped
    <3>2. CASE SyncStep(t) \/ ResumeLock(t) \/ ResumeSemaphore(t)
      BY <3>2, SyncTyped
    <3>3. CASE ThreadStep(t)
      BY <3>3, ThreadTyped
    <3>4. CASE Goto(t) \/ Branch(t) \/ Switch(t)
      <4>1. stack[t] # <<>> /\ \E target : Jump(t, target)
        BY <3>4 DEF Goto, Branch, Switch, Executes, AtStatement
      <4> QED
        BY <4>1, JumpTyped
    <3>5. CASE CallTransparent(t)
      <4>1. stack[t] # <<>> /\ frame' = Advance(frame, {t}) /\ shared' = shared
        BY <3>5 DEF CallTransparent, Executes, AtStatement
      <4> QED
        BY <4>1, PlainTyped
    <3>6. CASE CallBody(t)
      BY <3>6, CallTyped
    <3>7. CASE Return(t) \/ ImplicitReturn(t)
      <4>1. /\ status[t] = "run" /\ stack[t] # <<>>
            /\ \E v : ReturnAccepted(t, v) /\ (PopFrame(t, v) \/ FinishThread(t))
        BY <3>7 DEF Return, ImplicitReturn, Executes, AtStatement, ReturnAccepted
      <4> QED
        BY <4>1, ReturnTyped, FinishTyped
    <3> QED
      BY <1>2, <3>1, <3>2, <3>3, <3>4, <3>5, <3>6, <3>7
         DEF Step, ControlStep, ChannelStep, Resume
  <2> QED
    BY <2>1, <2>2 DEF InDomains, StoreTyped, SharedTyped
<1> QED
  BY <1>1, <1>2

(* Every value is in its domain at first. *)
LEMMA InitTyped == Init /\ InitialValuesTyped => InDomains
<1> SUFFICES ASSUME Init, InitialValuesTyped PROVE InDomains
  OBVIOUS
<1>1. StoreTyped(frame)
  <2>1. \A f \in Ids : frame[f] # NoFrame => frame[f] = Activation(Entry, NoReturn)
    BY DEF Init
  <2>2. SlotsTyped(Activation(Entry, NoReturn))
    BY FunctionsAssumption DEF SlotsTyped, Activation, InitialValuesTyped
  <2> QED
    BY <2>1, <2>2 DEF StoreTyped
<1>2. SharedTyped(shared) /\ MessagesTyped
  BY DEF Init, SharedTyped, InitialValuesTyped, MessagesTyped
<1> QED
  BY <1>1, <1>2 DEF InDomains

(* Every step keeps every value in its domain, as does none. *)
LEMMA NextTyped == IInv /\ InDomains /\ InitialValuesTyped /\ [Next]_vars => InDomains'
<1>1. ASSUME InDomains, UNCHANGED vars
      PROVE  InDomains'
  BY <1>1 DEF vars, chanVars, InDomains, StoreTyped, SharedTyped, MessagesTyped
<1> QED
  BY <1>1, StepTyped DEF Next

(* "This is checked for *every* value-entry path, not only explicit
   assignments" (the value check of exec.rs): as long as the declarations give
   initial values of the declared types, no load, store, swap, message, call or
   return puts a value outside the domain of the slot, shared variable or
   buffer it lands in, in any program and any interleaving. *)
THEOREM Domains == Spec => []DomainsRespected
<1> DEFINE I == InitialValuesTyped => InDomains
<1>1. Init => I
  BY InitTyped
<1>2. IInv /\ I /\ [Next]_vars => I'
  <2>1. InitialValuesTyped' <=> InitialValuesTyped
    BY DEF InitialValuesTyped
  <2> QED
    BY <2>1, NextTyped
<1>3. I => DomainsRespected
  BY DEF InDomains, StoreTyped, SlotsTyped, SharedTyped, MessagesTyped, DomainsRespected
<1> HIDE DEF I
<1> QED
  BY <1>1, <1>2, <1>3, Invariant, PTL DEF Spec

(* ... and all of it, of whatever system runs the machine. *)
LEMMA InitSound == Init /\ InitialValuesTyped => Sound
BY InitInv, InitNamed, InitTyped DEF Sound

LEMMA NextSound == Sound /\ InitialValuesTyped /\ [Next]_vars => Sound'
BY NextInv, NextNamed, NextTyped DEF Sound

-----------------------------------------------------------------------------
(* Limits *)

(* Threads come to life only from what was created for fs. *)
BornOf(fs) == Live' \subseteq Live \union Running(fs)

(* No stack grows past the limit. *)
StacksFit(st) == \A u \in Ids : Len(st[u]) <= MaxFrames

-----------------------------------------------------------------------------
(* The last of the threads created at once *)

(* One of the threads being born comes after all the others. *)
LEMMA LastBorn ==
  ASSUME NEW fs \in Seq(Functions), Born(fs) # {}
  PROVE  \E i \in Born(fs) : Cardinality({j \in Born(fs) : j < i}) >= Cardinality(Born(fs)) - 1
<1> DEFINE n == Cardinality(Born(fs))
           Before(i) == {j \in Born(fs) : j < i}
           c == [i \in Born(fs) |-> Cardinality(Before(i))]
<1>1. IsFiniteSet(Born(fs)) /\ Born(fs) \subseteq Nat
  <2>1. Born(fs) \subseteq 1..Len(fs) /\ Len(fs) \in Nat
    BY DEF Born
  <2>2. IsFiniteSet(1..Len(fs))
    BY <2>1, FS_Interval
  <2>3. IsFiniteSet(Born(fs))
    BY ONLY <2>1, <2>2, FS_Subset
  <2> QED
    BY <2>1, <2>3
<1>2. n \in Nat /\ n >= 1
  BY <1>1, FS_CardinalityType, FS_EmptySet
<1>3. ASSUME NEW i \in Born(fs)
      PROVE  IsFiniteSet(Before(i)) /\ Cardinality(Before(i)) \in Nat
  BY <1>1, FS_Subset, FS_CardinalityType
<1>4. ASSUME NEW i \in Born(fs), NEW k \in Born(fs), i < k
      PROVE  c[i] < c[k]
  <2>1. Before(i) \union {i} \subseteq Before(k) /\ i \notin Before(i)
    BY <1>1, <1>4
  <2>2. Cardinality(Before(i) \union {i}) = Cardinality(Before(i)) + 1
    BY <1>3, <2>1, FS_AddElement
  <2>3. Cardinality(Before(i) \union {i}) <= Cardinality(Before(k))
    BY <1>3, <2>1, FS_Subset
  <2>4. c[i] = Cardinality(Before(i)) /\ c[k] = Cardinality(Before(k))
    OBVIOUS
  <2> HIDE DEF Before, c
  <2> QED
    BY <1>3, <2>2, <2>3, <2>4
<1> SUFFICES ASSUME \A i \in Born(fs) : ~(c[i] >= n - 1)
             PROVE  FALSE
  OBVIOUS
<1>5. \A i \in Born(fs) : c[i] \in Nat
  BY <1>3
<1>6. c \in [Born(fs) -> 0..(n - 2)]
  <2>1. \A i \in Born(fs) : c[i] \in 0..(n - 2)
    BY <1>2, <1>5
  <2> QED
    BY <2>1
<1> HIDE DEF c, n
<1>7. IsFiniteSet(0..(n - 2)) /\ Cardinality(0..(n - 2)) < n
  <2>1. n - 2 \in Int /\ 0 \in Int
    BY <1>2
  <2>2. /\ IsFiniteSet(0..(n - 2))
        /\ Cardinality(0..(n - 2)) = IF 0 > n - 2 THEN 0 ELSE n - 2 - 0 + 1
    BY <2>1, FS_Interval
  <2> QED
    BY <1>2, <2>2
<1>8. PICK x \in Born(fs), y \in Born(fs) : x # y /\ c[x] = c[y]
  BY <1>1, <1>6, <1>7, FS_PigeonHole DEF n
<1>9. x < y \/ y < x
  BY <1>1, <1>8
<1> QED
  BY <1>4, <1>5, <1>8, <1>9

(* The threads created at once, together with those alive, stay within the
   limit that was tested before each of them. *)
LEMMA BirthsFit ==
  ASSUME IInv, Cardinality(Live) <= MaxThreads,
         NEW fs \in Seq(Functions), ~HitsThreadLimit(fs), HasRoom(fs), BornOf(fs)
  PROVE  Cardinality(Live') <= MaxThreads
<1>1. /\ IsFiniteSet(Live) /\ Cardinality(Live) \in Nat /\ MaxThreads \in Nat
      /\ IsFiniteSet(Born(fs)) /\ Cardinality(Born(fs)) \in Nat
  <2>1. Born(fs) \subseteq 1..Len(fs) /\ Len(fs) \in Nat /\ Live \subseteq 1..MaxId
    BY DEF Born, Live, Ids
  <2>2. MaxId \in Nat /\ MaxThreads \in Nat
    BY LimitsAssumption
  <2>3. IsFiniteSet(1..MaxId) /\ IsFiniteSet(1..Len(fs))
    BY <2>1, <2>2, FS_Interval
  <2>4. IsFiniteSet(Live) /\ IsFiniteSet(Born(fs))
    BY ONLY <2>1, <2>3, FS_Subset
  <2> QED
    BY <2>2, <2>4, FS_CardinalityType
<1>2. IsFiniteSet(Running(fs)) /\ Cardinality(Running(fs)) <= Cardinality(Born(fs))
  <2> DEFINE f == [u \in Running(fs) |-> Nth(u)]
  <2>1. f \in Injection(Running(fs), Born(fs))
    <3>1. f \in [Running(fs) -> Born(fs)]
      BY DEF Running
    <3>2. \A u, v \in Running(fs) : f[u] = f[v] => u = v
      BY CreatedFresh DEF Running
    <3> QED
      BY <3>1, <3>2 DEF Injection, IsInjective
  <2> QED
    BY <1>1, <2>1, FS_Injection
<1>3. Cardinality(Live \union Running(fs)) <= Cardinality(Live) + Cardinality(Born(fs))
  <2>1. /\ IsFiniteSet(Live \union Running(fs))
        /\ Cardinality(Live \union Running(fs))
             = Cardinality(Live) + Cardinality(Running(fs)) - Cardinality(Live \cap Running(fs))
    BY <1>1, <1>2, FS_Union
  <2>2. Cardinality(Live \cap Running(fs)) \in Nat /\ Cardinality(Running(fs)) \in Nat
    BY <1>1, <1>2, FS_Intersection, FS_CardinalityType
  <2> QED
    BY <1>1, <1>2, <2>1, <2>2
<1>4. IsFiniteSet(Live \union Running(fs)) /\ Cardinality(Live \union Running(fs)) \in Nat
  BY <1>1, <1>2, FS_Union, FS_CardinalityType
<1>5. IsFiniteSet(Live') /\ Cardinality(Live') <= Cardinality(Live \union Running(fs))
  BY <1>4, FS_Subset DEF BornOf
<1>6. Cardinality(Live') \in Nat
  BY <1>5, FS_CardinalityType
<1>7. CASE Born(fs) = {}
  <2>1. Live \union Running(fs) = Live
    BY <1>7 DEF Running
  <2>2. Cardinality(Live') <= Cardinality(Live)
    BY <1>5, <2>1
  <2> QED
    BY <1>1, <1>6, <2>2
<1>8. CASE Born(fs) # {}
  <2>1. PICK i \in Born(fs) : Cardinality({j \in Born(fs) : j < i}) >= Cardinality(Born(fs)) - 1
    BY <1>8, LastBorn
  <2>2. i \in 1..Len(fs)
    BY DEF Born
  <2>3. ~(Cardinality(Live) + Cardinality({j \in Born(fs) : j < i}) >= MaxThreads)
    BY <2>2 DEF HitsThreadLimit
  <2>4. Cardinality({j \in Born(fs) : j < i}) \in Nat
    BY <1>1, FS_Subset, FS_CardinalityType
  <2> QED
    BY <1>1, <1>3, <1>4, <1>5, <1>6, <2>1, <2>3, <2>4
<1> QED
  BY <1>7, <1>8

(* A step after which no other thread is alive keeps the limit. *)
LEMMA NoBirthFits ==
  ASSUME IInv, Cardinality(Live) <= MaxThreads, Live' \subseteq Live
  PROVE  Cardinality(Live') <= MaxThreads
<1>1. IsFiniteSet(Live)
  <2>1. Live \subseteq 1..MaxId /\ MaxId \in Nat
    BY LimitsAssumption DEF Live, Ids
  <2>2. IsFiniteSet(1..MaxId)
    BY <2>1, FS_Interval
  <2> QED
    BY ONLY <2>1, <2>2, FS_Subset
<1>2. /\ IsFiniteSet(Live') /\ Cardinality(Live') <= Cardinality(Live)
      /\ Cardinality(Live') \in Nat /\ Cardinality(Live) \in Nat
  BY <1>1, FS_Subset, FS_CardinalityType
<1> QED
  BY <1>2, LimitsAssumption

-----------------------------------------------------------------------------
(* The steps *)

(* What the creation of threads does to the limits *)
LEMMA CreationFits ==
  ASSUME IInv, WithinLimits, MaxFrames > 0, NEW t \in Ids, status[t] = "run",
         NEW fs \in Seq(Functions), NEW p, CreateThreads(fs, p),
         \A u \in Ids : u # t => status'[u] = BornStatus(fs)[u]
  PROVE  WithinLimits'
<1>1. ~HitsThreadLimit(fs) /\ HasRoom(fs)
  BY DEF CreateThreads
<1>2. BornOf(fs)
  BY DEF BornOf, Live, Running, BornStatus
<1>3. Cardinality(Live') <= MaxThreads
  BY <1>1, <1>2, BirthsFit DEF WithinLimits
<1>4. ASSUME NEW u \in Ids
      PROVE  Len(stack'[u]) <= MaxFrames
  <2>1. \A f : Len(<<f>>) = 1
    OBVIOUS
  <2>2. 1 <= MaxFrames
    BY LimitsAssumption
  <2>3. stack'[u] = stack[u] \/ \E f : stack'[u] = <<f>>
    BY DEF CreateThreads
  <2> QED
    BY <2>1, <2>2, <2>3 DEF WithinLimits
<1> QED
  BY <1>3, <1>4 DEF WithinLimits

(* Every step keeps the limits. *)
LEMMA StepInLimits ==
  ASSUME IInv, WaitersStand, ChildrenExact, WithinLimits, MaxFrames > 0, ~Faulted,
         NEW t \in Ids, Step(t)
  PROVE  WithinLimits'
<1>0. stack \in [Ids -> Seq(Ids)] /\ status \in [Ids -> Status]
  BY DEF IInv, TypeOK
<1>1. ASSUME Live' \subseteq Live, StacksFit(stack')
      PROVE  WithinLimits'
  BY <1>1, NoBirthFits DEF WithinLimits, StacksFit
<1>2. ASSUME QuietStep(t)
      PROVE  WithinLimits'
  <2>1. Quiet
    BY <1>2, QuietSteps
  <2> QED
    BY <1>1, <2>1 DEF Quiet, Live, StacksFit, WithinLimits
<1>3. ASSUME CallBody(t)
      PROVE  WithinLimits'
  <2>1. /\ status' = status /\ stack' = [stack EXCEPT ![t] = Append(@, next.frame)]
        /\ next.frame \in Ids /\ ~(Len(stack[t]) >= MaxFrames)
    BY <1>3 DEF CallBody, OnlyStack, HitsFrameLimit
  <2>2. Len(stack'[t]) = Len(stack[t]) + 1 /\ Len(stack[t]) \in Nat
    BY <1>0, <2>1
  <2>3. Len(stack'[t]) <= MaxFrames
    BY <2>1, <2>2, LimitsAssumption
  <2>4. \A u \in Ids : u # t => stack'[u] = stack[u]
    BY <1>0, <2>1
  <2>5. StacksFit(stack')
    BY <2>3, <2>4 DEF StacksFit, WithinLimits
  <2>6. Live' = Live
    BY <2>1 DEF Live
  <2> QED
    BY <1>1, <2>5, <2>6
<1>4. ASSUME NEW v, PopFrame(t, v)
      PROVE  WithinLimits'
  <2>1. /\ status' = status /\ stack' = [stack EXCEPT ![t] = SubSeq(@, 1, Len(@) - 1)]
        /\ Len(stack[t]) > 1
    BY <1>4 DEF PopFrame, OnlyStack, Nested
  <2>2. Len(stack'[t]) = Len(stack[t]) - 1 /\ Len(stack[t]) \in Nat
    BY <1>0, <2>1
  <2>3. Len(stack'[t]) <= MaxFrames
    BY <2>2, LimitsAssumption DEF WithinLimits
  <2>4. \A u \in Ids : u # t => stack'[u] = stack[u]
    BY <1>0, <2>1
  <2>5. StacksFit(stack')
    BY <2>3, <2>4 DEF StacksFit, WithinLimits
  <2>6. Live' = Live
    BY <2>1 DEF Live
  <2> QED
    BY <1>1, <2>5, <2>6
<1>5. ASSUME status[t] = "run", FinishThread(t)
      PROVE  WithinLimits'
  <2>1. stack' = [stack EXCEPT ![t] = <<>>] /\ Live' = Live \ {t}
    BY <1>5, FinishStatus DEF FinishThread
  <2>2. \A u \in Ids : stack'[u] = stack[u] \/ stack'[u] = <<>>
    BY <1>0, <2>1
  <2>3. 0 <= MaxFrames
    BY LimitsAssumption
  <2>4. StacksFit(stack')
    BY <2>2, <2>3 DEF StacksFit, WithinLimits
  <2> QED
    BY <1>1, <2>1, <2>4
<1>6. ASSUME Spawn(t)
      PROVE  WithinLimits'
  <2> DEFINE fs == <<Op(t).f>>
  <2>1. status[t] = "run" /\ Op(t).f \in Functions
    BY <1>6, Executing, OpFields DEF Spawn, Executes
  <2>2. CreateThreads(fs, None) /\ status' = BornStatus(fs) /\ fs \in Seq(Functions)
    BY <1>6, <2>1 DEF Spawn
  <2> HIDE DEF fs
  <2> QED
    BY <2>1, <2>2, CreationFits
<1>7. ASSUME ScopeStart(t)
      PROVE  WithinLimits'
  <2> DEFINE fs == Op(t).fs
  <2>1. status[t] = "run" /\ fs \in Seq(Functions)
    BY <1>7, Executing, OpFields DEF ScopeStart, Executes
  <2>2. /\ CreateThreads(fs, next.scope)
        /\ status' \in {BornStatus(fs), [BornStatus(fs) EXCEPT ![t] = "scope"]}
    BY <1>7 DEF ScopeStart
  <2> HIDE DEF fs
  <2>3. \A u \in Ids : u # t => status'[u] = BornStatus(fs)[u]
    BY <2>2 DEF BornStatus
  <2> QED
    BY <2>1, <2>2, <2>3, CreationFits
<1>8. ASSUME NEW h, NEW c, JoinFinished(t, h, c)
      PROVE  WithinLimits'
  <2>1. status' = [status EXCEPT ![c] = "absent"] /\ stack' = stack
    BY <1>8 DEF JoinFinished
  <2>2. Live' \subseteq Live
    BY <1>0, <2>1 DEF Live
  <2> QED
    BY <1>1, <2>1, <2>2 DEF StacksFit, WithinLimits
<1> QED
  BY <1>2, <1>3, <1>4, <1>5, <1>6, <1>7, <1>8, StepKinds

(* "max_threads" and "max_frames_per_thread" hold in every state, whichever
   threads spawn, open scopes or call, and however many threads one scope
   creates; the initial thread and frame take one of each. *)
THEOREM Limits ==
  ASSUME MaxThreads > 0, MaxFrames > 0
  PROVE  Spec => []WithinLimits
<1>1. Init => WithinLimits
  <2> SUFFICES ASSUME Init PROVE WithinLimits
    OBVIOUS
  <2>1. Live \subseteq {1}
    BY DEF Init, Live
  <2>2. Cardinality(Live) <= 1 /\ Cardinality(Live) \in Nat
    <3>1. IsFiniteSet({1}) /\ Cardinality({1}) = 1
      BY FS_Singleton
    <3>2. IsFiniteSet(Live) /\ Cardinality(Live) <= Cardinality({1})
      BY ONLY <2>1, <3>1, FS_Subset
    <3> QED
      BY <3>1, <3>2, FS_CardinalityType
  <2>3. \A u \in Ids : stack[u] = <<1>> \/ stack[u] = <<>>
    BY DEF Init
  <2>4. Len(<<1>>) = 1 /\ Len(<<>>) = 0
    OBVIOUS
  <2>5. 1 <= MaxFrames /\ 0 <= MaxFrames /\ 1 <= MaxThreads
    BY LimitsAssumption
  <2>6. \A u \in Ids : Len(stack[u]) <= MaxFrames
    BY <2>3, <2>4, <2>5
  <2>7. Cardinality(Live) <= MaxThreads
    BY <2>2, <2>5, LimitsAssumption
  <2> QED
    BY <2>6, <2>7 DEF WithinLimits
<1>2. IInv /\ Named /\ WithinLimits /\ [Next]_vars => WithinLimits'
  <2> SUFFICES ASSUME IInv, Named, WithinLimits, [Next]_vars PROVE WithinLimits'
    OBVIOUS
  <2>1. CASE Next
    BY <2>1, StepInLimits DEF Next, Named
  <2>2. CASE UNCHANGED vars
    BY <2>2 DEF vars, threadVars, WithinLimits, Live
  <2> QED
    BY <2>1, <2>2
<1> QED
  BY <1>1, <1>2, Invariant, NamedInvariant, PTL DEF Spec
=============================================================================
