------------------------------- MODULE Interp -------------------------------
(***************************************************************************)
(* The reference interpreter (src/interp): the machine state of state.rs   *)
(* and one action per operation step_thread executes, per way              *)
(* resume_thread wakes a blocked thread, and per way a function returns.   *)
(*                                                                         *)
(* Identity maps of the code (threads, store.frames, scopes, handles) are  *)
(* functions over Ids with a value that stands for a missing key.  The     *)
(* queues of waiting threads are sets: no transition depends on their      *)
(* order (every waiter is a legal match).  Buffers keep their order.       *)
(***************************************************************************)
EXTENDS ConcIR

CONSTANTS
  MaxThreads,     \* ExecBounds.max_threads
  MaxFrames,      \* ExecBounds.max_frames_per_thread
  MaxPermits,     \* stands for i64::MAX
  MonitorMax,     \* MonitorConfig::max_for: how far completions are counted
  MaxId,          \* model bound on the identity counters of Alloc
  NoFrame, NoScope, Nothing

Ids == 1..MaxId
None == 0

VARIABLES
  prog,        \* the program under analysis; it never changes
  status,      \* ThreadState.status, "absent" when the thread is not in threads
  on,          \* the resource, handle or scope of a BlockReason
  stack,       \* ThreadState.stack
  children,    \* ThreadState.handle_children
  parent,      \* ThreadState.parent_scope
  frame,       \* Store.frames
  scope,       \* MachineState.scopes
  shared,      \* Store.vars and Store.atomics
  mutex,       \* Store.mutexes: the holder, or None when Free
  sem,         \* Store.semaphores
  semq,        \* MachineState.sem_waiters
  cvq,         \* Store.condvars: waiters, each with the mutex to re-acquire
  buf,         \* ChannelState.buffer
  sendq,       \* ChannelState.pending_send
  recvq,       \* ChannelState.pending_recv
  finished,    \* MachineState.finished
  completed,   \* MachineState.completed_functions
  scopesDone,  \* MachineState.completed_scopes
  reached,     \* MachineState.reached
  next         \* Alloc: the next identity of each kind

threadVars == <<status, on, stack, children, parent>>
syncVars   == <<mutex, sem, semq, cvq>>
chanVars   == <<buf, sendq, recvq>>
idVars     == <<scope, finished, scopesDone, next>>
vars == <<prog, threadVars, frame, shared, syncVars, chanVars, idVars,
          completed, reached>>

-----------------------------------------------------------------------------
(* Types *)

Blocking == {"lock", "send", "recv", "wait", "acquire", "join", "scope"}
Status   == {"absent", "run", "done"} \union Blocking
Reason   == Mutexes \union Channels \union Condvars \union Semaphores
            \union Ids \union {Nothing}

RetAddr    == [pc : Nat, dst : Destinations]
FrameState == [fn : Functions, pc : Nat \ {0}, locals : [Locals -> Values],
               handles : [HandleNames -> Ids \union {None}], ret : RetAddr]
ScopeState == [owner : Ids, frame : Ids, remaining : SUBSET Ids]

(* The limits are numbers, and what stands for a missing frame or scope is
   none. *)
ASSUME LimitsAssumption ==
  /\ MaxId \in Nat \ {0}
  /\ MaxThreads \in Nat /\ MaxFrames \in Nat /\ MaxPermits \in Nat
  /\ MonitorMax \in [Functions -> Nat]
  /\ \A s \in Semaphores : Permits[s] <= MaxPermits
  /\ NoFrame \notin FrameState /\ NoScope \notin ScopeState

TypeOK ==
  /\ prog \in Programs
  /\ status \in [Ids -> Status]
  /\ on \in [Ids -> Reason]
  /\ stack \in [Ids -> Seq(Ids)]
  /\ children \in [Ids -> [Ids -> Ids \union {None}]]
  /\ parent \in [Ids -> Ids \union {None}]
  /\ frame \in [Ids -> FrameState \union {NoFrame}]
  /\ scope \in [Ids -> ScopeState \union {NoScope}]
  /\ shared \in [Shared -> Values]
  /\ mutex \in [Mutexes -> Ids \union {None}]
  /\ sem \in [Semaphores -> Int]
  /\ semq \in [Semaphores -> SUBSET (Ids \X Int)]
  /\ cvq \in [Condvars -> SUBSET (Ids \X Mutexes)]
  /\ buf \in [Channels -> Seq(Values)]
  /\ sendq \in [Channels -> SUBSET (Ids \X Values)]
  /\ recvq \in [Channels -> SUBSET Ids]
  /\ finished \subseteq Ids
  /\ completed \in [Functions -> Nat]
  /\ scopesDone \subseteq Functions \X (Nat \ {0})
  /\ reached \subseteq Functions \X (Nat \ {0})
  /\ next \in [thread : Nat \ {0}, frame : Nat \ {0},
               scope : Nat \ {0}, handle : Nat \ {0}]

-----------------------------------------------------------------------------
(* Reading the state *)

Top(t)  == stack[t][Len(stack[t])]
Fr(t)   == frame[Top(t)]
Body(t) == prog[Fr(t).fn]
Op(t)   == Body(t)[Fr(t).pc]
AtStatement(t) == stack[t] # <<>> /\ Fr(t).pc \in DOMAIN Body(t)

Executes(t, k) == status[t] = "run" /\ AtStatement(t) /\ Op(t).op = k
Value(t, e)    == Eval(e, Fr(t).locals, shared)

Live == {t \in Ids : status[t] \notin {"absent", "done"}}
Members(s) == {t \in Ids : status[t] # "absent" /\ parent[t] = s}

Finished == Live = {}

(* within_function_bound: threads running f as their first frame. *)
Active(f) == {t \in Live : stack[t] # <<>> /\ frame[stack[t][1]].fn = f}
WithinFunctionBound(f) ==
  IF Bound[f] = NoBound THEN TRUE ELSE Cardinality(Active(f)) < Bound[f]

(* create_thread, called for fs[1], fs[2], ... in turn: each call counts the
   threads that are live by then, and Nobody threads are born finished. *)
Born(fs) == {i \in 1..Len(fs) : fs[i] \notin Nobody}
LimitCheckedOnce(fs) == Cardinality(Live) >= MaxThreads             \* mutant
HitsThreadLimit(fs) ==
  \E i \in 1..Len(fs) :
     Cardinality(Live) + Cardinality({j \in Born(fs) : j < i}) >= MaxThreads
HitsFrameLimit(t) == Len(stack[t]) >= MaxFrames

-----------------------------------------------------------------------------
(* Changing the state *)

Reach(t) == reached' = reached \union {<<Fr(t).fn, Fr(t).pc>>}

(* write_dst: a destination is a slot of the frame, shared, or nothing. *)
Put(frames, f, dst, v) ==
  IF dst \in Locals THEN [frames EXCEPT ![f].locals[dst] = v] ELSE frames
PutShared(dst, v) ==
  IF dst \in Shared THEN [shared EXCEPT ![dst] = v] ELSE shared

(* advance, for every thread of a set *)
Advance(frames, ts) ==
  [f \in Ids |-> IF \E t \in ts : f = Top(t)
                 THEN [frames[f] EXCEPT !.pc = @ + 1] ELSE frames[f]]

AcceptsUnlessShared(t, dst, v) ==                                   \* mutant
  dst \in Shared \/ v \in DomainOf(Fr(t).fn, dst)
Accepts(t, dst, v) == v \in DomainOf(Fr(t).fn, dst)

Block(t, why, what) ==
  /\ status' = [status EXCEPT ![t] = why]
  /\ on' = [on EXCEPT ![t] = what]
  /\ UNCHANGED <<stack, children, parent>>

Wake(ts) ==
  /\ status' = [t \in Ids |-> IF t \in ts THEN "run" ELSE status[t]]
  /\ on' = [t \in Ids |-> IF t \in ts THEN Nothing ELSE on[t]]
  /\ UNCHANGED <<stack, children, parent>>

(* A queue without the entry of t *)
KeepsWaiter(q, t) == q                                              \* mutant
Without(q, t) == {w \in q : w[1] # t}

(* record_completion saturates at what the monitor can observe, and counts
   nothing when it observes nothing. *)
Completed(f, n) == IF completed[f] + n > MonitorMax[f] THEN MonitorMax[f]
                                                       ELSE completed[f] + n
Complete(f) == completed' = [completed EXCEPT ![f] = Completed(f, 1)]

NoReturn == [pc |-> 0, dst |-> Discard]
ActivationAtZero(f, ret) ==                                         \* mutant
  [fn |-> f, pc |-> 0, locals |-> SlotInit[f],
   handles |-> [h \in HandleNames |-> None], ret |-> ret]
Activation(f, ret) ==
  [fn |-> f, pc |-> 1, locals |-> SlotInit[f],
   handles |-> [h \in HandleNames |-> None], ret |-> ret]

-----------------------------------------------------------------------------
(* MachineState::initial: one thread on the entry function, already finished
   if the entry is transparent. *)
Init ==
  LET born == Entry \in Nobody IN
  /\ prog \in Programs
  /\ status = [t \in Ids |-> IF t # 1 THEN "absent"
                             ELSE IF born THEN "done" ELSE "run"]
  /\ on = [t \in Ids |-> Nothing]
  /\ stack = [t \in Ids |-> IF t = 1 /\ ~born THEN <<1>> ELSE <<>>]
  /\ children = [t \in Ids |-> [h \in Ids |-> None]]
  /\ parent = [t \in Ids |-> None]
  /\ frame = [f \in Ids |-> IF f = 1 /\ ~born THEN Activation(Entry, NoReturn)
                                              ELSE NoFrame]
  /\ scope = [s \in Ids |-> NoScope]
  /\ shared = SharedInit
  /\ mutex = [m \in Mutexes |-> None]
  /\ sem = Permits
  /\ semq = [s \in Semaphores |-> {}]
  /\ cvq = [c \in Condvars |-> {}]
  /\ buf = [c \in Channels |-> <<>>]
  /\ sendq = [c \in Channels |-> {}]
  /\ recvq = [c \in Channels |-> {}]
  /\ finished = IF born THEN {1} ELSE {}
  /\ completed = [f \in Functions |->
                    IF born /\ f = Entry /\ MonitorMax[f] > 0 THEN 1 ELSE 0]
  /\ scopesDone = {}
  /\ reached = {}
  /\ next = [thread |-> 2, frame |-> IF born THEN 1 ELSE 2,
             scope |-> 1, handle |-> 1]

-----------------------------------------------------------------------------
(* Errors. successors() returns an error, and no step at all, as soon as any
   thread's step is one. *)

EvalFails(t, o) ==
  \/ /\ o.op \in {"assign", "store", "send", "branch", "switch"}
     /\ Value(t, o.e) = EvalError
  \/ /\ o.op = "cas"
     /\ EvalError \in {Value(t, o.expected), Value(t, o.desired)}
  \/ /\ o.op = "return" /\ o.e # NoExpr
     /\ Value(t, o.e) = EvalError
  \/ /\ o.op = "call" /\ o.f \notin Nobody /\ ~HitsFrameLimit(t)
     /\ \E i \in DOMAIN o.args : Value(t, o.args[i]) = EvalError
  \/ /\ o.op = "branch"                                             \* E201
     /\ Value(t, o.e) \notin {True, False}
  \/ /\ o.op = "switch"                                             \* E202
     /\ Value(t, o.e) \notin Scrutinees

OpFails(t, o) ==
  \/ o.op = "unlock" /\ mutex[o.m] # t                              \* E510
  \/ o.op = "wait" /\ mutex[o.m] # t                                \* E511
  \/ o.op \in {"acquire", "release"} /\ o.n <= 0                    \* E904
  \/ o.op = "release" /\ sem[o.s] + o.n > MaxPermits                \* E905
  \/ o.op = "scope" /\ o.fs = <<>>                                  \* E410
  \/ /\ o.op = "join"                                               \* E402
     /\ \/ Fr(t).handles[o.h] = None
        \/ children[t][Fr(t).handles[o.h]] = None
  \/ o.op = "unsupported"

Fails(t) ==
  /\ status[t] = "run" /\ AtStatement(t)
  /\ EvalFails(t, Op(t)) \/ OpFails(t, Op(t))

Faulted == \E t \in Ids : Fails(t)

-----------------------------------------------------------------------------
(* Operations on data *)

OnlyData ==
  UNCHANGED <<prog, threadVars, syncVars, chanVars, idVars, completed>>

Nop(t) ==
  /\ Executes(t, "nop")
  /\ Reach(t)
  /\ frame' = Advance(frame, {t})
  /\ UNCHANGED shared /\ OnlyData

(* Write v to dst and move on; a value outside the destination's domain
   disables the step. *)
Assign(t, dst, v) ==
  /\ Accepts(t, dst, v)
  /\ Reach(t)
  /\ frame' = Advance(Put(frame, Top(t), dst, v), {t})
  /\ shared' = PutShared(dst, v)
  /\ OnlyData

AssignLocal(t) ==
  /\ Executes(t, "assign")
  /\ Assign(t, Op(t).dst, Value(t, Op(t).e))

LoadShared(t) ==
  /\ Executes(t, "load")
  /\ Assign(t, Op(t).dst, shared[Op(t).r])

StoreShared(t) ==
  /\ Executes(t, "store")
  /\ Assign(t, Op(t).r, Value(t, Op(t).e))

(* The old value is written before the swap, and the swap compares the value
   read before that write. *)
AtomicCas(t) ==
  /\ Executes(t, "cas")
  /\ LET o   == Op(t)
         old == shared[o.r]
         new == Value(t, o.desired)
     IN  /\ new \in SharedType[o.r]
         /\ Accepts(t, o.dst, old)
         /\ frame' = Advance(Put(frame, Top(t), o.dst, old), {t})
         /\ shared' = IF old = Value(t, o.expected)
                      THEN [PutShared(o.dst, old) EXCEPT ![o.r] = new]
                      ELSE PutShared(o.dst, old)
  /\ Reach(t)
  /\ OnlyData

-----------------------------------------------------------------------------
(* Mutexes, condition variables, semaphores *)

OnlySync ==
  UNCHANGED <<prog, shared, chanVars, idVars, completed>>

IsFreeUnchecked(m) == TRUE                                          \* mutant
IsFree(m) == mutex[m] = None

TakesOneTooMany(s, n) == sem[s] + 1 >= n                            \* mutant
HasPermits(s, n) == sem[s] >= n

(* A thread that asks for a mutex it holds itself blocks like any other. *)
MutexLock(t) ==
  /\ Executes(t, "lock")
  /\ LET m == Op(t).m IN
     \/ /\ IsFree(m)
        /\ mutex' = [mutex EXCEPT ![m] = t]
        /\ frame' = Advance(frame, {t})
        /\ UNCHANGED threadVars
     \/ /\ ~IsFree(m)
        /\ Block(t, "lock", m)
        /\ UNCHANGED <<mutex, frame>>
  /\ Reach(t)
  /\ UNCHANGED <<sem, semq, cvq>> /\ OnlySync

MutexUnlock(t) ==
  /\ Executes(t, "unlock")
  /\ mutex' = [mutex EXCEPT ![Op(t).m] = None]
  /\ frame' = Advance(frame, {t})
  /\ Reach(t)
  /\ UNCHANGED <<threadVars, sem, semq, cvq>> /\ OnlySync

CondvarWait(t) ==
  /\ Executes(t, "wait")
  /\ LET o == Op(t) IN
     /\ mutex' = [mutex EXCEPT ![o.m] = None]
     /\ cvq' = [cvq EXCEPT ![o.cv] = @ \union {<<t, o.m>>}]
     /\ Block(t, "wait", o.cv)
  /\ Reach(t)
  /\ UNCHANGED <<frame, sem, semq>> /\ OnlySync

NotifiedRuns(ws) ==                                                 \* mutant
  /\ status' = [u \in Ids |-> IF \E w \in ws : w[1] = u THEN "run" ELSE status[u]]
  /\ UNCHANGED <<on, stack, children, parent>>
NotifiedKeepsReason(ws) ==                                          \* mutant
  /\ status' = [u \in Ids |-> IF \E w \in ws : w[1] = u THEN "lock" ELSE status[u]]
  /\ UNCHANGED <<on, stack, children, parent>>
(* Every waiter in ws leaves for the queue of its own mutex. *)
Notified(ws) ==
  /\ status' = [u \in Ids |-> IF \E w \in ws : w[1] = u THEN "lock" ELSE status[u]]
  /\ on' = [u \in Ids |-> IF \E w \in ws : w[1] = u
                          THEN (CHOOSE w \in ws : w[1] = u)[2] ELSE on[u]]
  /\ UNCHANGED <<stack, children, parent>>

CondvarNotify(t) ==
  /\ Executes(t, "notify")
  /\ LET cv == Op(t).cv IN
     \/ cvq[cv] = {} /\ UNCHANGED <<cvq, threadVars>>
     \/ \E w \in cvq[cv] :
           /\ cvq' = [cvq EXCEPT ![cv] = @ \ {w}]
           /\ Notified({w})
  /\ frame' = Advance(frame, {t})
  /\ Reach(t)
  /\ UNCHANGED <<mutex, sem, semq>> /\ OnlySync

CondvarNotifyAll(t) ==
  /\ Executes(t, "notify_all")
  /\ cvq' = [cvq EXCEPT ![Op(t).cv] = {}]
  /\ Notified(cvq[Op(t).cv])
  /\ frame' = Advance(frame, {t})
  /\ Reach(t)
  /\ UNCHANGED <<mutex, sem, semq>> /\ OnlySync

(* The request is captured in the queue when the thread has to wait. *)
SemaphoreAcquire(t) ==
  /\ Executes(t, "acquire")
  /\ LET o == Op(t) IN
     \/ /\ HasPermits(o.s, o.n)
        /\ sem' = [sem EXCEPT ![o.s] = @ - o.n]
        /\ frame' = Advance(frame, {t})
        /\ UNCHANGED <<threadVars, semq>>
     \/ /\ ~HasPermits(o.s, o.n)
        /\ semq' = [semq EXCEPT ![o.s] = @ \union {<<t, o.n>>}]
        /\ Block(t, "acquire", o.s)
        /\ UNCHANGED <<sem, frame>>
  /\ Reach(t)
  /\ UNCHANGED <<mutex, cvq>> /\ OnlySync

SemaphoreRelease(t) ==
  /\ Executes(t, "release")
  /\ sem' = [sem EXCEPT ![Op(t).s] = @ + Op(t).n]
  /\ frame' = Advance(frame, {t})
  /\ Reach(t)
  /\ UNCHANGED <<threadVars, mutex, semq, cvq>> /\ OnlySync

ResumeLock(t) ==
  /\ status[t] = "lock" /\ IsFree(on[t])
  /\ mutex' = [mutex EXCEPT ![on[t]] = t]
  /\ Wake({t})
  /\ frame' = Advance(frame, {t})
  /\ UNCHANGED <<sem, semq, cvq, reached>> /\ OnlySync

ResumeSemaphore(t) ==
  /\ status[t] = "acquire"
  /\ \E n \in {w[2] : w \in {w \in semq[on[t]] : w[1] = t}} :
        /\ HasPermits(on[t], n)
        /\ sem' = [sem EXCEPT ![on[t]] = @ - n]
  /\ semq' = [semq EXCEPT ![on[t]] = Without(@, t)]
  /\ Wake({t})
  /\ frame' = Advance(frame, {t})
  /\ UNCHANGED <<mutex, cvq, reached>> /\ OnlySync

-----------------------------------------------------------------------------
(* Channels *)

OnlyChannels == UNCHANGED <<prog, syncVars, idVars, completed>>

(* The value a blocked sender captured. *)
EvaluatedLate(t, c) == {Value(t, Op(t).e)}                          \* mutant
Captured(t, c) == {w[2] : w \in {w \in sendq[c] : w[1] = t}}

AnySenderBuffered(c) == buf[c] # <<>>                               \* mutant
AnySender(c) == sendq[c] # {}

(* r takes v at its `recv`, and both r and t move on. *)
Deliver(r, v, t) ==
  /\ Accepts(r, Op(r).dst, v)
  /\ frame' = Advance(Put(frame, Top(r), Op(r).dst, v), {r, t})
  /\ shared' = PutShared(Op(r).dst, v)

(* Rendezvous: any waiting receiver whose destination accepts the value. *)
SendToReceiver(t, c, v) ==
  \E r \in recvq[c] :
    /\ Deliver(r, v, t)
    /\ recvq' = [recvq EXCEPT ![c] = @ \ {r}]
    /\ Wake({r})
    /\ UNCHANGED <<buf, sendq>>

SendToBuffer(t, c, v) ==
  /\ buf' = [buf EXCEPT ![c] = Append(@, v)]
  /\ frame' = Advance(frame, {t})
  /\ UNCHANGED <<shared, threadVars, sendq, recvq>>

SendBlocks(t, c, v) ==
  /\ sendq' = [sendq EXCEPT ![c] = @ \union {<<t, v>>}]
  /\ Block(t, "send", c)
  /\ UNCHANGED <<frame, shared, buf, recvq>>

ChannelSend(t) ==
  /\ Executes(t, "send")
  /\ LET c == Op(t).c
         v == Value(t, Op(t).e)
     IN  /\ v \in ChannelType[c]
         /\ \/ Capacity[c] = 0 /\ recvq[c] # {} /\ SendToReceiver(t, c, v)
            \/ Capacity[c] = 0 /\ recvq[c] = {} /\ SendBlocks(t, c, v)
            \/ Len(buf[c]) < Capacity[c] /\ SendToBuffer(t, c, v)
            \/ Capacity[c] > 0 /\ Len(buf[c]) >= Capacity[c] /\ SendBlocks(t, c, v)
  /\ Reach(t)
  /\ OnlyChannels

(* Rendezvous: any waiting sender whose value the destination accepts. *)
RecvFromSender(t, c) ==
  \E w \in sendq[c] :
    /\ Deliver(t, w[2], w[1])
    /\ sendq' = [sendq EXCEPT ![c] = Without(@, w[1])]
    /\ Wake({w[1]})
    /\ UNCHANGED <<buf, recvq>>

RecvFromBuffer(t, c) ==
  /\ Deliver(t, Head(buf[c]), t)
  /\ buf' = [buf EXCEPT ![c] = Tail(@)]
  /\ UNCHANGED <<threadVars, sendq, recvq>>

RecvBlocks(t, c) ==
  /\ recvq' = [recvq EXCEPT ![c] = @ \union {t}]
  /\ Block(t, "recv", c)
  /\ UNCHANGED <<frame, shared, buf, sendq>>

ChannelRecv(t) ==
  /\ Executes(t, "recv")
  /\ LET c == Op(t).c IN
     \/ Capacity[c] = 0 /\ AnySender(c) /\ RecvFromSender(t, c)
     \/ Capacity[c] = 0 /\ ~AnySender(c) /\ RecvBlocks(t, c)
     \/ Capacity[c] > 0 /\ buf[c] # <<>> /\ RecvFromBuffer(t, c)
     \/ Capacity[c] > 0 /\ buf[c] = <<>> /\ RecvBlocks(t, c)
  /\ Reach(t)
  /\ OnlyChannels

(* The value is the one captured when the sender blocked. *)
ResumeSend(t) ==
  /\ status[t] = "send"
  /\ LET c == on[t] IN
     /\ Len(buf[c]) < Capacity[c]
     /\ \E v \in Captured(t, c) : buf' = [buf EXCEPT ![c] = Append(@, v)]
     /\ sendq' = [sendq EXCEPT ![c] = Without(@, t)]
  /\ Wake({t})
  /\ frame' = Advance(frame, {t})
  /\ UNCHANGED <<shared, recvq, reached>> /\ OnlyChannels

ResumeRecv(t) ==
  /\ status[t] = "recv"
  /\ LET c == on[t] IN
     /\ Capacity[c] > 0 /\ buf[c] # <<>>
     /\ Deliver(t, Head(buf[c]), t)
     /\ buf' = [buf EXCEPT ![c] = Tail(@)]
     /\ recvq' = [recvq EXCEPT ![c] = @ \ {t}]
  /\ Wake({t})
  /\ UNCHANGED <<sendq, reached>> /\ OnlyChannels

(* The rendezvous branches of resume_thread need a sender and a receiver that
   both wait. RendezvousExclusive (InterpProps) says that no state has both,
   so those branches, which the code calls defensive, are no action here. *)

-----------------------------------------------------------------------------
(* Control *)

Jump(t, target) ==
  /\ frame' = [frame EXCEPT ![Top(t)].pc = target]
  /\ Reach(t)
  /\ UNCHANGED shared /\ OnlyData

Goto(t) == Executes(t, "goto") /\ Jump(t, Op(t).to)

Branch(t) ==
  /\ Executes(t, "branch")
  /\ Jump(t, IF Value(t, Op(t).e) = True THEN Op(t).yes ELSE Op(t).no)

Switch(t) ==
  /\ Executes(t, "switch")
  /\ Jump(t, Op(t).to[Value(t, Op(t).e)])

(* Parameter slots take the arguments, zipped in order. *)
Bind(f, vals) ==
  [x \in Locals |->
     IF \E i \in DOMAIN vals : i <= Len(Params[f]) /\ Params[f][i] = x
     THEN vals[CHOOSE i \in DOMAIN vals : i <= Len(Params[f]) /\ Params[f][i] = x]
     ELSE SlotInit[f][x]]

OnlyStack ==
  UNCHANGED <<prog, status, on, children, parent, syncVars, chanVars,
              scope, finished, scopesDone>>

(* A call of a transparent function completes at once; otherwise the callee's
   frame is pushed and the caller keeps its pc until the return. *)
CallTransparent(t) ==
  /\ Executes(t, "call") /\ Op(t).f \in Nobody
  /\ Complete(Op(t).f)
  /\ frame' = Advance(frame, {t})
  /\ Reach(t)
  /\ UNCHANGED <<shared, stack, next>> /\ OnlyStack

CallBody(t) ==
  /\ Executes(t, "call") /\ Op(t).f \notin Nobody
  /\ ~HitsFrameLimit(t)
  /\ next.frame \in Ids                                        \* model bound
  /\ LET o    == Op(t)
         vals == [i \in DOMAIN o.args |-> Value(t, o.args[i])]
         ret  == [pc |-> Fr(t).pc + 1, dst |-> o.dst]
     IN  /\ \A i \in DOMAIN vals : i <= Len(Params[o.f]) =>
              vals[i] \in SlotType[o.f][Params[o.f][i]]
         /\ frame' = [frame EXCEPT ![next.frame] =
                        [Activation(o.f, ret) EXCEPT !.locals = Bind(o.f, vals)]]
  /\ stack' = [stack EXCEPT ![t] = Append(@, next.frame)]
  /\ next' = [next EXCEPT !.frame = @ + 1]
  /\ Reach(t)
  /\ UNCHANGED <<shared, completed>> /\ OnlyStack

(* apply_return: the callee's return type and the caller's destination are
   both checked before anything changes. *)
Caller(t) == stack[t][Len(stack[t]) - 1]
Nested(t) == Len(stack[t]) > 1

ReturnAccepted(t, v) ==
  v = NoValue \/ /\ v \in ReturnType[Fr(t).fn]
                 /\ Nested(t) => v \in DomainOf(frame[Caller(t)].fn, Fr(t).ret.dst)

PopFrame(t, v) ==
  /\ Nested(t)
  /\ LET ret    == Fr(t).ret
         stored == IF v = NoValue THEN frame ELSE Put(frame, Caller(t), ret.dst, v)
     IN  /\ frame' = [stored EXCEPT ![Caller(t)].pc = ret.pc, ![Top(t)] = NoFrame]
         /\ shared' = IF v = NoValue THEN shared ELSE PutShared(ret.dst, v)
  /\ stack' = [stack EXCEPT ![t] = SubSeq(@, 1, Len(@) - 1)]
  /\ Complete(Fr(t).fn)
  /\ UNCHANGED next /\ OnlyStack

-----------------------------------------------------------------------------
(* finish_thread: leave the scope, complete it when it was the last member,
   wake the joiners, and reclaim the identities nobody can name any more. *)

JoinersForgotten(t) == {}                                           \* mutant
Joiners(t) == {j \in Ids : status[j] = "join" /\ children[j][on[j]] = t}

EmptyBeforeLeaving(t) ==                                            \* mutant
  /\ parent[t] # None /\ scope[parent[t]] # NoScope
  /\ scope[parent[t]].remaining = {}
EmptiesScope(t) ==
  /\ parent[t] # None /\ scope[parent[t]] # NoScope
  /\ scope[parent[t]].remaining \ {t} = {}

(* A join consumes the binding of its handle name. *)
KeepsBinding(fr, h) == [fr EXCEPT !.pc = @ + 1]                     \* mutant
AfterJoin(fr, h) == [fr EXCEPT !.pc = @ + 1, !.handles[h] = None]

FinishThread(t) ==
  /\ ~Nested(t)
  /\ LET s      == parent[t]
         last   == EmptiesScope(t)
         owners == IF last THEN {scope[s].owner} ELSE {}
         woken  == owners \union Joiners(t)
         gone   == (IF last THEN Members(s) ELSE {})
                   \union (IF Joiners(t) = {} THEN {} ELSE {t})
     IN  /\ status' = [u \in Ids |-> IF u \in gone THEN "absent"
                                     ELSE IF u = t THEN "done"
                                     ELSE IF u \in woken THEN "run" ELSE status[u]]
         /\ on' = [u \in Ids |-> IF u \in woken \union gone THEN Nothing ELSE on[u]]
         /\ stack' = [stack EXCEPT ![t] = <<>>]
         /\ children' = [u \in Ids |-> [h \in Ids |->
              IF u \in gone \/ (u \in Joiners(t) /\ children[u][h] = t)
              THEN None ELSE children[u][h]]]
         /\ parent' = [u \in Ids |-> IF u \in gone THEN None ELSE parent[u]]
         /\ frame' = [f \in Ids |->
              IF f = Top(t) THEN NoFrame
              ELSE IF \E u \in Joiners(t) : f = Top(u)
                   THEN LET u == CHOOSE u \in Joiners(t) : f = Top(u) IN
                        AfterJoin(frame[f], Op(u).h)
              ELSE IF \E u \in owners : f = Top(u)
                   THEN [frame[f] EXCEPT !.pc = @ + 1]
              ELSE frame[f]]
         /\ scope' = [x \in Ids |->
              IF x # s \/ scope[x] = NoScope THEN scope[x]
              ELSE IF last THEN NoScope
              ELSE [scope[x] EXCEPT !.remaining = @ \ {t}]]
         /\ scopesDone' = IF last
              THEN scopesDone \union
                   {<<frame[scope[s].frame].fn, frame[scope[s].frame].pc>>}
              ELSE scopesDone
         /\ finished' = (finished \union {t}) \ gone
  /\ Complete(Fr(t).fn)
  /\ UNCHANGED <<prog, shared, syncVars, chanVars, next>>

Return(t) ==
  /\ Executes(t, "return")
  /\ LET v == IF Op(t).e = NoExpr THEN NoValue ELSE Value(t, Op(t).e) IN
     /\ ReturnAccepted(t, v)
     /\ PopFrame(t, v) \/ FinishThread(t)
  /\ Reach(t)

ImplicitReturn(t) ==
  /\ status[t] = "run" /\ stack[t] # <<>> /\ ~AtStatement(t)
  /\ PopFrame(t, NoValue) \/ FinishThread(t)
  /\ UNCHANGED reached

-----------------------------------------------------------------------------
(* Threads *)

OnlyThreads == UNCHANGED <<prog, shared, syncVars, chanVars>>

(* create_thread for fs[1], fs[2], ...: identities are taken in order, frames
   only by the functions that have a body. *)
NthPresent(u)  == u - Cardinality({t \in Ids : status[t] # "absent"})   \* mutant
Nth(u)         == u - next.thread + 1
SameFrame(fs, i) == next.frame                                      \* mutant
FrameOf(fs, i) == next.frame + Cardinality({j \in Born(fs) : j < i})

HasRoom(fs) ==                                                \* model bound
  /\ next.thread + Len(fs) - 1 <= MaxId
  /\ next.frame + Cardinality(Born(fs)) - 1 <= MaxId

BornStatus(fs) ==
  [u \in Ids |-> IF Nth(u) \in Born(fs) THEN "run"
                 ELSE IF Nth(u) \in DOMAIN fs THEN "done" ELSE status[u]]

CreateThreads(fs, inScope) ==
  /\ ~HitsThreadLimit(fs) /\ HasRoom(fs)
  /\ stack' = [u \in Ids |-> IF Nth(u) \in Born(fs) THEN <<FrameOf(fs, Nth(u))>>
                                                    ELSE stack[u]]
  /\ parent' = [u \in Ids |-> IF Nth(u) \in DOMAIN fs THEN inScope ELSE parent[u]]
  /\ finished' = finished \union {u \in Ids : Nth(u) \in DOMAIN fs \ Born(fs)}
  /\ completed' = [f \in Functions |-> IF f \notin Nobody THEN completed[f]
       ELSE Completed(f, Cardinality({i \in DOMAIN fs : fs[i] = f}))]

(* The frames of the new threads, beside what the creator does to its own. *)
WithNewFrames(fs, frames) ==
  [f \in Ids |->
     IF \E i \in Born(fs) : f = FrameOf(fs, i)
     THEN Activation(fs[CHOOSE i \in Born(fs) : f = FrameOf(fs, i)], NoReturn)
     ELSE frames[f]]

(* The handle name is bound in the current frame, to a fresh handle that
   stands for the child; a name bound before is rebound. *)
Spawn(t) ==
  /\ Executes(t, "spawn")
  /\ LET o  == Op(t)
         fs == <<o.f>>
         h  == next.handle
     IN  /\ WithinFunctionBound(o.f)
         /\ CreateThreads(fs, None)
         /\ h \in Ids                                         \* model bound
         /\ status' = BornStatus(fs)
         /\ children' = [children EXCEPT ![t][h] = next.thread]
         /\ frame' = WithNewFrames(fs,
              [frame EXCEPT ![Top(t)].handles[o.h] = h, ![Top(t)].pc = @ + 1])
         /\ next' = [next EXCEPT !.thread = @ + 1, !.handle = @ + 1,
                                 !.frame = @ + Cardinality(Born(fs))]
  /\ Reach(t)
  /\ UNCHANGED <<on, scope, scopesDone>> /\ OnlyThreads

(* Every bound is checked before any member is created. A scope whose members
   are all transparent completes at once; its members stay. *)
ScopeStart(t) ==
  /\ Executes(t, "scope")
  /\ LET fs == Op(t).fs
         s  == next.scope
         remaining == {u \in Ids : Nth(u) \in Born(fs)}
     IN  /\ \A i \in DOMAIN fs : WithinFunctionBound(fs[i])
         /\ CreateThreads(fs, s)
         /\ s \in Ids                                         \* model bound
         /\ next' = [next EXCEPT !.thread = @ + Len(fs), !.scope = @ + 1,
                                 !.frame = @ + Cardinality(Born(fs))]
         /\ \/ /\ remaining = {}
               /\ scopesDone' = scopesDone \union {<<Fr(t).fn, Fr(t).pc>>}
               /\ status' = BornStatus(fs)
               /\ frame' = Advance(frame, {t})
               /\ UNCHANGED <<on, scope>>
            \/ /\ remaining # {}
               /\ scope' = [scope EXCEPT ![s] =
                    [owner |-> t, frame |-> Top(t), remaining |-> remaining]]
               /\ status' = [BornStatus(fs) EXCEPT ![t] = "scope"]
               /\ on' = [on EXCEPT ![t] = s]
               /\ frame' = WithNewFrames(fs, frame)
               /\ UNCHANGED scopesDone
  /\ Reach(t)
  /\ UNCHANGED children /\ OnlyThreads

(* Joining a finished child consumes the binding and reclaims the child. *)
JoinFinished(t, h, c) ==
  /\ c \in finished
  /\ frame' = [frame EXCEPT ![Top(t)] = AfterJoin(@, Op(t).h)]
  /\ children' = [children EXCEPT ![t][h] = None, ![c] = [x \in Ids |-> None]]
  /\ status' = [status EXCEPT ![c] = "absent"]
  /\ parent' = [parent EXCEPT ![c] = None]
  /\ finished' = finished \ {c}
  /\ UNCHANGED <<on, stack>>

JoinBlocks(t, h, c) ==
  /\ c \notin finished
  /\ Block(t, "join", h)
  /\ UNCHANGED <<frame, finished>>

Join(t) ==
  /\ Executes(t, "join")
  /\ LET h == Fr(t).handles[Op(t).h]
         c == children[t][h]
     IN  JoinFinished(t, h, c) \/ JoinBlocks(t, h, c)
  /\ Reach(t)
  /\ UNCHANGED <<scope, scopesDone, next, completed>> /\ OnlyThreads

-----------------------------------------------------------------------------
(* step_thread and resume_thread *)

DataStep(t) ==
  Nop(t) \/ AssignLocal(t) \/ LoadShared(t) \/ StoreShared(t) \/ AtomicCas(t)
ControlStep(t) ==
  \/ Goto(t) \/ Branch(t) \/ Switch(t)
  \/ CallTransparent(t) \/ CallBody(t) \/ Return(t) \/ ImplicitReturn(t)
SyncStep(t) ==
  \/ MutexLock(t) \/ MutexUnlock(t)
  \/ CondvarWait(t) \/ CondvarNotify(t) \/ CondvarNotifyAll(t)
  \/ SemaphoreAcquire(t) \/ SemaphoreRelease(t)
ChannelStep(t) == ChannelSend(t) \/ ChannelRecv(t)
ThreadStep(t)  == Spawn(t) \/ ScopeStart(t) \/ Join(t)
Resume(t) ==
  ResumeLock(t) \/ ResumeSemaphore(t) \/ ResumeSend(t) \/ ResumeRecv(t)

Step(t) ==
  \/ DataStep(t) \/ ControlStep(t) \/ SyncStep(t) \/ ChannelStep(t)
  \/ ThreadStep(t) \/ Resume(t)

Next == ~Faulted /\ \E t \in Ids : Step(t)

Spec == Init /\ [][Next]_vars

(* No fairness: the analysis promises none, and a run may stop anywhere. *)
=============================================================================
