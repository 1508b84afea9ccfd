------------------------------- MODULE Petri -------------------------------
(***************************************************************************)
(* The Petri-net backend (src/petri): the net build() makes of a program   *)
(* (net.rs) and the firing rule of PetriEngine (exec.rs).                  *)
(*                                                                         *)
(* The marking is the set of control and wait tokens, each with the place  *)
(* it lies in; the places that always hold one data token (Var, Atomic,    *)
(* Mutex, Semaphore, Channel) are variables of their own.  Each NetOp is   *)
(* an action; fire() takes the input token, puts the output tokens, and    *)
(* moves the pc of a frame only when it places a control token for it.     *)
(*                                                                         *)
(* ReadVar and AtomicLoad, and WriteVar and AtomicStore, fire alike and    *)
(* are merged; `Rendezvous` and Binding::Pair are never built.             *)
(***************************************************************************)
EXTENDS ConcIR

CONSTANTS
  MaxThreads,     \* bounds.max_threads
  MaxFrames,      \* bounds.max_frames_per_thread
  MaxPermits,     \* stands for i64::MAX
  MonitorMax,     \* MonitorConfig::max_for
  MaxId,          \* model bound on the identity counters of NetAlloc
  NoFrame, NoScope, NoThread, Nothing

Ids == 1..MaxId
None == 0

VARIABLES
  prog,         \* the program the net was built from; it never changes
  marking,      \* NetState.marking: the control and wait tokens
  data,         \* the tokens of the Var and Atomic places
  mutex,        \* ... of the Mutex places: the holder, or None when Free
  sem,          \* ... of the Semaphore places
  buf,          \* ... of the Channel places
  frames,       \* NetStore.frames
  threads,      \* NetStore.threads
  scopes,       \* NetStore.scopes
  finished,     \* NetStore.finished
  completed,    \* NetStore.completed_functions
  scopesDone,   \* NetStore.completed_scopes
  reached,      \* NetStore.reached
  alloc         \* NetAlloc: the next identity of each kind

dataVars  == <<data, sem, buf>>
storeVars == <<scopes, finished, completed, scopesDone, alloc>>
vars == <<prog, marking, dataVars, mutex, frames, threads, storeVars, reached>>

-----------------------------------------------------------------------------
(* PlaceKey *)

Control(f, sid)   == <<"control", f, sid>>
JoinWait(f, sid)  == <<"join", f, sid>>
ScopeWait(f, sid) == <<"scope", f, sid>>
LockWait(m)       == <<"lock", m>>
Condvar(c)        == <<"wait", c>>
SemWait(s)        == <<"acquire", s>>
ChannelSend(c)    == <<"send", c>>
ChannelRecv(c)    == <<"recv", c>>

StatementPlace == {"control", "join", "scope"} \X Functions \X (Nat \ {0})

Place == StatementPlace \union ({"lock"} \X Mutexes) \union ({"wait"} \X Condvars)
         \union ({"acquire"} \X Semaphores) \union ({"send", "recv"} \X Channels)

(* FrameRec, ThreadRec and ScopeRec *)
FrameState  == [fn : Functions, pc : Nat \ {0}, locals : [Locals -> Values],
                handles : [HandleNames -> Ids \union {None}],
                ret : [pc : Nat, dst : Destinations]]
ThreadState == [entry : Functions, stack : Seq(Ids), children : [Ids -> Ids \union {None}],
                parent : Ids \union {None}, blocked : Place \union {Nothing}]
ScopeState  == [owner : Ids, frame : Ids, sid : Nat \ {0}, remaining : SUBSET Ids]

(* The limits are numbers, and what stands for a missing frame, thread or
   scope is none. *)
ASSUME NetAssumption ==
  /\ MaxId \in Nat \ {0}
  /\ MaxThreads \in Nat /\ MaxFrames \in Nat /\ MaxPermits \in Nat
  /\ MonitorMax \in [Functions -> Nat]
  /\ \A s \in Semaphores : Permits[s] <= MaxPermits
  /\ NoFrame \notin FrameState /\ NoThread \notin ThreadState /\ NoScope \notin ScopeState

-----------------------------------------------------------------------------
(* Tokens and frames *)

In(place) == {k \in marking : k.at = place}
FrameOfToken(k) == frames[k.frame]
StandsAt(fr) == prog[fr.fn][fr.pc]      \* current_stmt

(* A control token in the input place of a transition of kind o. *)
Statement(k) == prog[k.at[2]][k.at[3]]
Enables(k, o) ==
  /\ k \in marking /\ k.at[1] = "control"
  /\ k.at[3] \in DOMAIN prog[k.at[2]] /\ Statement(k).op = o

Value(k, e) == Eval(e, FrameOfToken(k).locals, data)

(* Output tokens: of the statement itself, and of a token woken past it. *)
ControlToken(t, f, fn, sid) == [at |-> Control(fn, sid), thread |-> t, frame |-> f]
Goes(k, sid) == [k EXCEPT !.at = Control(k.at[2], sid)]
Falls(k)     == Goes(k, k.at[3] + 1)
WakesWhereItStands(w) ==                                            \* mutant
  ControlToken(w.thread, w.frame, FrameOfToken(w).fn, FrameOfToken(w).pc)
Wakes(w) ==
  ControlToken(w.thread, w.frame, FrameOfToken(w).fn, FrameOfToken(w).pc + 1)

(* place_control: the frame's pc follows its control token. *)
Placed(frs, ks) ==
  [f \in Ids |-> IF \E k \in ks : k.frame = f
                 THEN [frs[f] EXCEPT !.pc = (CHOOSE k \in ks : k.frame = f).at[3]]
                 ELSE frs[f]]

StaysBlocked(ths, ts) == ths                                        \* mutant
Blocked(ths, t, place) == [ths EXCEPT ![t].blocked = place]
Unblocked(ths, ts) ==
  [t \in Ids |-> IF t \in ts THEN [ths[t] EXCEPT !.blocked = Nothing] ELSE ths[t]]

(* fire records where the control token's frame stands. *)
Reach(k) == reached' = reached \union {<<FrameOfToken(k).fn, FrameOfToken(k).pc>>}

(* Control moves from token k to token out, with no other token. *)
Moves(k, out, frs) ==
  /\ marking' = (marking \ {k}) \union {out}
  /\ frames' = Placed(frs, {out})
  /\ UNCHANGED threads

(* The tokens ws are woken past their statements; none if ws is empty. *)
Woken(ws) == {Wakes(w) : w \in ws}
Threads(ws) == {w.thread : w \in ws}

(* Token k leaves its control place for a wait place. *)
Waits(k, token) ==
  /\ marking' = (marking \ {k}) \union {token}
  /\ threads' = Blocked(threads, k.thread, token.at)
  /\ UNCHANGED frames
WaitsAt(k, place) == Waits(k, [k EXCEPT !.at = place])

(* write_dst *)
Accepts(f, dst, v) == v \in DomainOf(frames[f].fn, dst)
Put(frs, f, dst, v) ==
  IF dst \in Locals THEN [frs EXCEPT ![f].locals[dst] = v] ELSE frs
PutData(dst, v) == IF dst \in Shared THEN [data EXCEPT ![dst] = v] ELSE data

(* The wait token of a thread that goes on to another wait place. *)
LockToken(w) == [at |-> LockWait(w.lock), thread |-> w.thread, frame |-> w.frame]

-----------------------------------------------------------------------------
(* record_completion, default_locals and new frames *)

Counted(f, n) == IF completed[f] + n > MonitorMax[f] THEN MonitorMax[f]
                                                     ELSE completed[f] + n
Complete(f) == completed' = [completed EXCEPT ![f] = Counted(f, 1)]

NoReturn == [pc |-> 0, dst |-> Discard]
NewFrame(f, locals, ret) ==
  [fn |-> f, pc |-> 1, locals |-> locals,
   handles |-> [h \in HandleNames |-> None], ret |-> ret]
NewThread(f, stack, parent) ==
  [entry |-> f, stack |-> stack, children |-> [h \in Ids |-> None],
   parent |-> parent, blocked |-> Nothing]

(* PetriEngine::initial *)
Init ==
  LET born == Entry \in Nobody IN
  /\ prog \in Programs
  /\ marking = IF born THEN {} ELSE {ControlToken(1, 1, Entry, 1)}
  /\ data = SharedInit
  /\ mutex = [m \in Mutexes |-> None]
  /\ sem = Permits
  /\ buf = [c \in Channels |-> <<>>]
  /\ frames = [f \in Ids |-> IF f = 1 /\ ~born
                             THEN NewFrame(Entry, SlotInit[Entry], NoReturn)
                             ELSE NoFrame]
  /\ threads = [t \in Ids |-> IF t # 1 THEN NoThread
                              ELSE NewThread(Entry, IF born THEN <<>> ELSE <<1>>, None)]
  /\ scopes = [s \in Ids |-> NoScope]
  /\ finished = IF born THEN {1} ELSE {}
  /\ completed = [f \in Functions |->
                    IF born /\ f = Entry /\ MonitorMax[f] > 0 THEN 1 ELSE 0]
  /\ scopesDone = {}
  /\ reached = {}
  /\ alloc = [thread |-> 2, frame |-> IF born THEN 1 ELSE 2,
              scope |-> 1, handle |-> 1]

-----------------------------------------------------------------------------
(* Errors. successors() fires every transition at every token, and returns an
   error, and no step at all, as soon as one firing is an error. *)

EvalFails(k, o) ==
  \/ /\ o.op \in {"assign", "store", "send", "branch", "switch"}
     /\ Value(k, o.e) = EvalError
  \/ /\ o.op = "cas"
     /\ EvalError \in {Value(k, o.expected), Value(k, o.desired)}
  \/ /\ o.op = "return" /\ o.e # NoExpr
     /\ Value(k, o.e) = EvalError
  \/ /\ o.op = "call" /\ Len(threads[k.thread].stack) < MaxFrames
     /\ \E i \in DOMAIN o.args : Value(k, o.args[i]) = EvalError
  \/ /\ o.op = "branch"                                             \* E201
     /\ Value(k, o.e) \notin {True, False}

OpFails(k, o) ==
  \/ o.op = "unlock" /\ mutex[o.m] # k.thread                       \* E510
  \/ o.op = "wait" /\ mutex[o.m] # k.thread                         \* E511
  \/ o.op \in {"acquire", "release"} /\ o.n <= 0                    \* E904
  \/ o.op = "release" /\ sem[o.s] + o.n > MaxPermits                \* E905
  \/ o.op = "scope" /\ o.fs = <<>>                                  \* E410
  \/ o.op = "join" /\ FrameOfToken(k).handles[o.h] = None           \* E402

Fails(k) ==
  /\ k.at[1] = "control" /\ k.at[3] \in DOMAIN prog[k.at[2]]
  /\ EvalFails(k, Statement(k)) \/ OpFails(k, Statement(k))

Faulted == \E k \in marking : Fails(k)

-----------------------------------------------------------------------------
(* Operations on data *)

OnlyControl == UNCHANGED <<prog, dataVars, mutex, storeVars>>

Nop(k) ==
  /\ Enables(k, "nop")
  /\ Moves(k, Falls(k), frames)
  /\ Reach(k)
  /\ OnlyControl

(* A value outside the destination's domain disables the firing. *)
Assign(k, dst, v) ==
  /\ Accepts(k.frame, dst, v)
  /\ Moves(k, Falls(k), Put(frames, k.frame, dst, v))
  /\ data' = PutData(dst, v)
  /\ Reach(k)
  /\ UNCHANGED <<prog, sem, buf, mutex, storeVars>>

AssignLocal(k) ==
  Enables(k, "assign") /\ Assign(k, Statement(k).dst, Value(k, Statement(k).e))
ReadVar(k) ==
  Enables(k, "load") /\ Assign(k, Statement(k).dst, data[Statement(k).r])
WriteVar(k) ==
  Enables(k, "store") /\ Assign(k, Statement(k).r, Value(k, Statement(k).e))

AtomicCas(k) ==
  /\ Enables(k, "cas")
  /\ LET o   == Statement(k)
         old == data[o.r]
         des == Value(k, o.desired)
     IN  /\ des \in SharedType[o.r]
         /\ Accepts(k.frame, o.dst, old)
         /\ Moves(k, Falls(k), Put(frames, k.frame, o.dst, old))
         /\ data' = IF old = Value(k, o.expected)
                    THEN [PutData(o.dst, old) EXCEPT ![o.r] = des]
                    ELSE PutData(o.dst, old)
  /\ Reach(k)
  /\ UNCHANGED <<prog, sem, buf, mutex, storeVars>>

-----------------------------------------------------------------------------
(* Mutexes, condition variables, semaphores *)

OnlySync == UNCHANGED <<prog, data, buf, storeVars>>

(* A token that waits goes on past its statement (put_control_next). *)
Resumes(k, frs) ==
  /\ marking' = (marking \ {k}) \union {Wakes(k)}
  /\ frames' = Placed(frs, {Wakes(k)})
  /\ threads' = Unblocked(threads, {k.thread})
  /\ UNCHANGED reached

MutexLockGrant(k) ==
  /\ Enables(k, "lock") /\ mutex[Statement(k).m] = None
  /\ mutex' = [mutex EXCEPT ![Statement(k).m] = k.thread]
  /\ Moves(k, Falls(k), frames)
  /\ Reach(k)
  /\ UNCHANGED sem /\ OnlySync

MutexLockBlock(k) ==
  /\ Enables(k, "lock") /\ mutex[Statement(k).m] # None
  /\ WaitsAt(k, LockWait(Statement(k).m))
  /\ Reach(k)
  /\ UNCHANGED <<mutex, sem>> /\ OnlySync

MutexUnlock(k) ==
  /\ Enables(k, "unlock")
  /\ mutex' = [mutex EXCEPT ![Statement(k).m] = None]
  /\ Moves(k, Falls(k), frames)
  /\ Reach(k)
  /\ UNCHANGED sem /\ OnlySync

LockWaitAcquire(k) ==
  /\ k.at[1] = "lock" /\ mutex[k.at[2]] = None
  /\ mutex' = [mutex EXCEPT ![k.at[2]] = k.thread]
  /\ Resumes(k, frames)
  /\ UNCHANGED sem /\ OnlySync

CondvarWait(k) ==
  /\ Enables(k, "wait")
  /\ mutex' = [mutex EXCEPT ![Statement(k).m] = None]
  /\ Waits(k, [at |-> Condvar(Statement(k).cv), thread |-> k.thread,
               frame |-> k.frame, lock |-> Statement(k).m])
  /\ Reach(k)
  /\ UNCHANGED sem /\ OnlySync

(* The waiters ws go to the queues of the locks they carry; k falls through. *)
Requeued(ws) ==
  [t \in Ids |-> IF \E w \in ws : w.thread = t
                 THEN [threads[t] EXCEPT !.blocked =
                         LockWait((CHOOSE w \in ws : w.thread = t).lock)]
                 ELSE threads[t]]
Notifies(k, ws) ==
  /\ marking' = (marking \ ({k} \union ws)) \union {Falls(k)}
                \union {LockToken(w) : w \in ws}
  /\ frames' = Placed(frames, {Falls(k)})
  /\ threads' = Requeued(ws)
  /\ Reach(k)
  /\ UNCHANGED <<mutex, sem>> /\ OnlySync

CondvarNotifyHit(k) ==
  /\ Enables(k, "notify")
  /\ \E w \in In(Condvar(Statement(k).cv)) : Notifies(k, {w})
CondvarNotifyMiss(k) ==
  /\ Enables(k, "notify") /\ In(Condvar(Statement(k).cv)) = {}
  /\ Notifies(k, {})
CondvarNotifyAll(k) ==
  /\ Enables(k, "notify_all")
  /\ Notifies(k, In(Condvar(Statement(k).cv)))

SemAcquire(k) ==
  /\ Enables(k, "acquire") /\ sem[Statement(k).s] >= Statement(k).n
  /\ sem' = [sem EXCEPT ![Statement(k).s] = @ - Statement(k).n]
  /\ Moves(k, Falls(k), frames)
  /\ Reach(k)
  /\ UNCHANGED mutex /\ OnlySync

SemAcquireBlock(k) ==
  /\ Enables(k, "acquire") /\ sem[Statement(k).s] < Statement(k).n
  /\ Waits(k, [at |-> SemWait(Statement(k).s), thread |-> k.thread,
               frame |-> k.frame, count |-> Statement(k).n])
  /\ Reach(k)
  /\ UNCHANGED <<mutex, sem>> /\ OnlySync

SemRelease(k) ==
  /\ Enables(k, "release")
  /\ sem' = [sem EXCEPT ![Statement(k).s] = @ + Statement(k).n]
  /\ Moves(k, Falls(k), frames)
  /\ Reach(k)
  /\ UNCHANGED mutex /\ OnlySync

(* Every waiting token is a choice, whatever order the requests came in. *)
SemGrant(k) ==
  /\ k.at[1] = "acquire" /\ sem[k.at[2]] >= k.count
  /\ sem' = [sem EXCEPT ![k.at[2]] = @ - k.count]
  /\ Resumes(k, frames)
  /\ UNCHANGED mutex /\ OnlySync

-----------------------------------------------------------------------------
(* Channels. payload_ok is the channel's own type. *)

OnlyChannels == UNCHANGED <<prog, sem, mutex, storeVars>>

Sends(k) == Enables(k, "send") /\ Value(k, Statement(k).e) \in ChannelType[Statement(k).c]
SendToken(k) ==
  [at |-> ChannelSend(Statement(k).c), thread |-> k.thread, frame |-> k.frame,
   value |-> Value(k, Statement(k).e)]

(* v goes to where the `recv` of frame f says; the control token k falls
   through and the waiting token w, at the other end, is woken. *)
Pairs(k, w, f, v) ==
  LET out == {Falls(k), Wakes(w)}
      dst == StandsAt(frames[f]).dst
  IN  /\ Accepts(f, dst, v)
      /\ marking' = (marking \ {k, w}) \union out
      /\ frames' = Placed(Put(frames, f, dst, v), out)
      /\ data' = PutData(dst, v)
      /\ threads' = Unblocked(threads, {w.thread})
      /\ Reach(k)
      /\ UNCHANGED buf /\ OnlyChannels

SendRegister(k) ==
  /\ Sends(k) /\ Capacity[Statement(k).c] = 0
  /\ In(ChannelRecv(Statement(k).c)) = {}
  /\ Waits(k, SendToken(k))
  /\ Reach(k)
  /\ UNCHANGED <<data, buf>> /\ OnlyChannels

SendPair(k) ==
  /\ Sends(k) /\ Capacity[Statement(k).c] = 0
  /\ \E w \in In(ChannelRecv(Statement(k).c)) :
        Pairs(k, w, w.frame, Value(k, Statement(k).e))

RecvRegister(k) ==
  /\ Enables(k, "recv") /\ Capacity[Statement(k).c] = 0
  /\ In(ChannelSend(Statement(k).c)) = {}
  /\ WaitsAt(k, ChannelRecv(Statement(k).c))
  /\ Reach(k)
  /\ UNCHANGED <<data, buf>> /\ OnlyChannels

RecvPair(k) ==
  /\ Enables(k, "recv") /\ Capacity[Statement(k).c] = 0
  /\ \E w \in In(ChannelSend(Statement(k).c)) :
        /\ w.value \in ChannelType[Statement(k).c]
        /\ Pairs(k, w, k.frame, w.value)

HasSpace(c) == Len(buf[c]) < Capacity[c]

SendBuf(k) ==
  /\ Sends(k) /\ Capacity[Statement(k).c] > 0 /\ HasSpace(Statement(k).c)
  /\ buf' = [buf EXCEPT ![Statement(k).c] = Append(@, Value(k, Statement(k).e))]
  /\ Moves(k, Falls(k), frames)
  /\ Reach(k)
  /\ UNCHANGED data /\ OnlyChannels

SendBufBlock(k) ==
  /\ Sends(k) /\ Capacity[Statement(k).c] > 0 /\ ~HasSpace(Statement(k).c)
  /\ Waits(k, SendToken(k))
  /\ Reach(k)
  /\ UNCHANGED <<data, buf>> /\ OnlyChannels

(* The head of the buffer goes to where the `recv` of frame f says. *)
Pops(c, f) ==
  /\ Capacity[c] > 0 /\ buf[c] # <<>>
  /\ Accepts(f, StandsAt(frames[f]).dst, Head(buf[c]))
  /\ buf' = [buf EXCEPT ![c] = Tail(@)]
  /\ data' = PutData(StandsAt(frames[f]).dst, Head(buf[c]))
Popped(c, f) == Put(frames, f, StandsAt(frames[f]).dst, Head(buf[c]))

RecvBuf(k) ==
  /\ Enables(k, "recv")
  /\ Pops(Statement(k).c, k.frame)
  /\ Moves(k, Falls(k), Popped(Statement(k).c, k.frame))
  /\ Reach(k)
  /\ OnlyChannels

RecvBufBlock(k) ==
  /\ Enables(k, "recv") /\ Capacity[Statement(k).c] > 0
  /\ buf[Statement(k).c] = <<>>
  /\ WaitsAt(k, ChannelRecv(Statement(k).c))
  /\ Reach(k)
  /\ UNCHANGED <<data, buf>> /\ OnlyChannels

BufferDeliver(k) ==
  /\ k.at[1] = "send" /\ Capacity[k.at[2]] > 0 /\ HasSpace(k.at[2])
  /\ k.value \in ChannelType[k.at[2]]
  /\ buf' = [buf EXCEPT ![k.at[2]] = Append(@, k.value)]
  /\ Resumes(k, frames)
  /\ UNCHANGED data /\ OnlyChannels

BufferRecvWait(k) ==
  /\ k.at[1] = "recv"
  /\ Pops(k.at[2], k.frame)
  /\ Resumes(k, Popped(k.at[2], k.frame))
  /\ OnlyChannels

-----------------------------------------------------------------------------
(* Control *)

Jump(k, sid) ==
  /\ Moves(k, Goes(k, sid), frames)
  /\ Reach(k)
  /\ OnlyControl

Goto(k) == Enables(k, "goto") /\ Jump(k, Statement(k).to)

BranchThen(k) ==
  /\ Enables(k, "branch") /\ Value(k, Statement(k).e) = True
  /\ Jump(k, Statement(k).yes)
BranchElse(k) ==
  /\ Enables(k, "branch") /\ Value(k, Statement(k).e) = False
  /\ Jump(k, Statement(k).no)

(* SwitchCase or SwitchDefault: a value no label matches takes the default,
   even one that is neither Int nor Enum. *)
Switch(k) ==
  /\ Enables(k, "switch") /\ Value(k, Statement(k).e) # EvalError
  /\ Jump(k, Statement(k).to[Value(k, Statement(k).e)])

(* The arguments fill the modelled parameters, zipped in order. *)
Bind(f, vals) ==
  [x \in Locals |->
     IF \E i \in DOMAIN vals : i <= Len(Params[f]) /\ Params[f][i] = x
     THEN vals[CHOOSE i \in DOMAIN vals : i <= Len(Params[f]) /\ Params[f][i] = x]
     ELSE SlotInit[f][x]]

(* The caller's control token goes to the callee's first place, with the new
   frame; the caller's pc stays. A transparent callee gets a frame too. *)
Call(k) ==
  /\ Enables(k, "call")
  /\ Len(threads[k.thread].stack) < MaxFrames
  /\ alloc.frame \in Ids                                       \* model bound
  /\ LET o    == Statement(k)
         vals == [i \in DOMAIN o.args |-> Value(k, o.args[i])]
         ret  == [pc |-> FrameOfToken(k).pc + 1, dst |-> o.dst]
         out  == ControlToken(k.thread, alloc.frame, o.f, 1)
     IN  /\ \A i \in DOMAIN vals : i <= Len(Params[o.f]) =>
              vals[i] \in SlotType[o.f][Params[o.f][i]]
         /\ frames' = [frames EXCEPT ![alloc.frame] = NewFrame(o.f, Bind(o.f, vals), ret)]
         /\ marking' = (marking \ {k}) \union {out}
  /\ threads' = [threads EXCEPT ![k.thread].stack = Append(@, alloc.frame)]
  /\ alloc' = [alloc EXCEPT !.frame = @ + 1]
  /\ Reach(k)
  /\ UNCHANGED <<prog, dataVars, mutex, scopes, finished, completed, scopesDone>>

(* A `return`, or the return transitions of the fall-through place. *)
ReturnsValue(k, v) ==
  \/ /\ Enables(k, "return")
     /\ v = IF Statement(k).e = NoExpr THEN NoValue ELSE Value(k, Statement(k).e)
     /\ v # NoValue => v \in ReturnType[FrameOfToken(k).fn]
  \/ /\ k.at[1] = "control" /\ k.at[3] = Len(prog[k.at[2]]) + 1
     /\ v = NoValue

ReturnInner(k) ==
  /\ k \in marking /\ k.at[1] = "control"
  /\ Len(threads[k.thread].stack) > 1
  /\ LET stack  == threads[k.thread].stack
         caller == stack[Len(stack) - 1]
         ret    == FrameOfToken(k).ret
         out    == ControlToken(k.thread, caller, frames[caller].fn, ret.pc)
     IN  /\ \E v \in Values \union {NoValue} :
              /\ ReturnsValue(k, v)
              /\ v # NoValue => Accepts(caller, ret.dst, v)
              /\ frames' = [Placed(IF v = NoValue THEN frames
                                   ELSE Put(frames, caller, ret.dst, v), {out})
                              EXCEPT ![k.frame] = NoFrame]
              /\ data' = IF v = NoValue THEN data ELSE PutData(ret.dst, v)
         /\ marking' = (marking \ {k}) \union {out}
         /\ threads' = [threads EXCEPT ![k.thread].stack = SubSeq(stack, 1, Len(stack) - 1)]
  /\ Complete(FrameOfToken(k).fn)
  /\ Reach(k)
  /\ UNCHANGED <<prog, mutex, sem, buf, scopes, finished, scopesDone, alloc>>

-----------------------------------------------------------------------------
(* finish_thread *)

EmptiesScope(t) ==
  /\ threads[t].parent # None /\ scopes[threads[t].parent] # NoScope
  /\ scopes[threads[t].parent].remaining \ {t} = {}

(* The wait token of the owner of scope s, at the `scope` it stands at. *)
OwnerPlace(s) == ScopeWait(frames[scopes[s].frame].fn, scopes[s].sid)
OwnerTokens(s) ==
  {k \in In(OwnerPlace(s)) : k.thread = scopes[s].owner /\ k.frame = scopes[s].frame}

(* The tokens, in any JoinWait place, that wait to join t. *)
JoinersForgotten(t) == {}                                           \* mutant
Joiners(t) ==
  {k \in marking : k.at[1] = "join"
     /\ LET h == FrameOfToken(k).handles[Statement(k).h] IN
        h # None /\ threads[k.thread].children[h] = t}

Members(s) == {u \in Ids : threads[u] # NoThread /\ threads[u].parent = s}

(* A woken joiner consumes its binding and its handle. *)
Unbound(frs, ks) ==
  [f \in Ids |-> IF \E k \in ks : k.frame = f
                 THEN LET k == CHOOSE k \in ks : k.frame = f IN
                      [frs[f] EXCEPT !.handles[Statement(k).h] = None]
                 ELSE frs[f]]
Childless(ths, ks, t) ==
  [u \in Ids |-> IF \E k \in ks : k.thread = u
                 THEN [ths[u] EXCEPT !.children =
                         [h \in Ids |-> IF @[h] = t THEN None ELSE @[h]]]
                 ELSE ths[u]]

ReturnFinal(k) ==
  /\ k \in marking /\ k.at[1] = "control"
  /\ Len(threads[k.thread].stack) = 1
  /\ \E v \in Values \union {NoValue} : ReturnsValue(k, v)
  /\ LET t       == k.thread
         s       == threads[t].parent
         last    == EmptiesScope(t)
         owners  == IF last THEN OwnerTokens(s) ELSE {}
         joiners == Joiners(t)
         woken   == owners \union joiners
         out     == {Falls(w) : w \in woken}
         gone    == (IF last THEN Members(s) ELSE {})
                    \union (IF joiners = {} THEN {} ELSE {t})
         popped  == [threads EXCEPT ![t].stack = <<>>]
         left    == Childless(Unblocked(popped, Threads(woken)), joiners, t)
     IN  /\ marking' = (marking \ ({k} \union woken)) \union out
         /\ frames' = [Unbound(Placed(frames, out), joiners) EXCEPT ![k.frame] = NoFrame]
         /\ threads' = [u \in Ids |-> IF u \in gone THEN NoThread ELSE left[u]]
         /\ finished' = (finished \union {t}) \ gone
         /\ scopes' = [x \in Ids |->
              IF x # s \/ scopes[x] = NoScope THEN scopes[x]
              ELSE IF last THEN NoScope
              ELSE [scopes[x] EXCEPT !.remaining = @ \ {t}]]
         /\ scopesDone' = IF last
              THEN scopesDone \union {<<frames[scopes[s].frame].fn, scopes[s].sid>>}
              ELSE scopesDone
  /\ Complete(FrameOfToken(k).fn)
  /\ Reach(k)
  /\ UNCHANGED <<prog, dataVars, mutex, alloc>>

-----------------------------------------------------------------------------
(* Threads *)

Live == {t \in Ids : threads[t] # NoThread /\ t \notin finished}
WithinBound(f) ==
  IF Bound[f] = NoBound THEN TRUE
  ELSE Cardinality({t \in Live : threads[t].entry = f}) < Bound[f]

(* create_thread for fs[1], fs[2], ... *)
Born(fs) == {i \in 1..Len(fs) : fs[i] \notin Nobody}
HitsThreadLimit(fs) ==
  \E i \in 1..Len(fs) :
     Cardinality(Live) + Cardinality({j \in Born(fs) : j < i}) >= MaxThreads
HasRoom(fs) ==                                                \* model bound
  /\ alloc.thread + Len(fs) - 1 <= MaxId
  /\ alloc.frame + Cardinality(Born(fs)) - 1 <= MaxId

NthThread(i) == alloc.thread + i - 1
NthFrame(fs, i) == alloc.frame + Cardinality({j \in Born(fs) : j < i})
StartTokens(fs) == {ControlToken(NthThread(i), NthFrame(fs, i), fs[i], 1) : i \in Born(fs)}

WithNewThreads(ths, fs, parent) ==
  [t \in Ids |->
     IF \E i \in DOMAIN fs : t = NthThread(i)
     THEN LET i == t - alloc.thread + 1 IN
          NewThread(fs[i], IF i \in Born(fs) THEN <<NthFrame(fs, i)>> ELSE <<>>, parent)
     ELSE ths[t]]
WithNewFrames(frs, fs) ==
  [f \in Ids |->
     IF \E i \in Born(fs) : f = NthFrame(fs, i)
     THEN LET g == fs[CHOOSE i \in Born(fs) : f = NthFrame(fs, i)] IN
          NewFrame(g, SlotInit[g], NoReturn)
     ELSE frs[f]]

CreateThreads(fs) ==
  /\ \A i \in DOMAIN fs : WithinBound(fs[i])
  /\ ~HitsThreadLimit(fs) /\ HasRoom(fs)
  /\ finished' = finished \union {NthThread(i) : i \in DOMAIN fs \ Born(fs)}
  /\ completed' = [f \in Functions |-> IF f \notin Nobody THEN completed[f]
       ELSE Counted(f, Cardinality({i \in DOMAIN fs : fs[i] = f}))]

OnlyThreads == UNCHANGED <<prog, dataVars, mutex>>

Spawn(k) ==
  /\ Enables(k, "spawn")
  /\ LET o   == Statement(k)
         fs  == <<o.f>>
         hid == alloc.handle
         out == {Falls(k)} \union StartTokens(fs)
     IN  /\ CreateThreads(fs)
         /\ hid \in Ids                                       \* model bound
         /\ marking' = (marking \ {k}) \union out
         /\ frames' = [Placed(WithNewFrames(frames, fs), {Falls(k)})
                         EXCEPT ![k.frame].handles[o.h] = hid]
         /\ threads' = [WithNewThreads(threads, fs, None)
                          EXCEPT ![k.thread].children[hid] = alloc.thread]
         /\ alloc' = [alloc EXCEPT !.thread = @ + 1, !.handle = @ + 1,
                                   !.frame = @ + Cardinality(Born(fs))]
  /\ Reach(k)
  /\ UNCHANGED <<scopes, scopesDone>> /\ OnlyThreads

(* The bounds of all members are checked first. With no live member the scope
   is complete at once, and its finished members stay in threads. *)
Scope(k) ==
  /\ Enables(k, "scope")
  /\ LET fs        == Statement(k).fs
         s         == alloc.scope
         fn        == FrameOfToken(k).fn
         sid       == FrameOfToken(k).pc
         remaining == {NthThread(i) : i \in Born(fs)}
     IN  /\ CreateThreads(fs)
         /\ s \in Ids                                         \* model bound
         /\ alloc' = [alloc EXCEPT !.thread = @ + Len(fs), !.scope = @ + 1,
                                   !.frame = @ + Cardinality(Born(fs))]
         /\ \/ /\ remaining = {}
               /\ scopesDone' = scopesDone \union {<<fn, sid>>}
               /\ marking' = (marking \ {k}) \union {Falls(k)}
               /\ frames' = Placed(frames, {Falls(k)})
               /\ threads' = WithNewThreads(threads, fs, s)
               /\ UNCHANGED scopes
            \/ /\ remaining # {}
               /\ scopes' = [scopes EXCEPT ![s] =
                    [owner |-> k.thread, frame |-> k.frame, sid |-> sid,
                     remaining |-> remaining]]
               /\ marking' = (marking \ {k}) \union StartTokens(fs)
                             \union {[k EXCEPT !.at = ScopeWait(fn, sid)]}
               /\ frames' = WithNewFrames(frames, fs)
               /\ threads' = Blocked(WithNewThreads(threads, fs, s), k.thread,
                                     ScopeWait(fn, sid))
               /\ UNCHANGED scopesDone
  /\ Reach(k)
  /\ OnlyThreads

Child(k) == threads[k.thread].children[FrameOfToken(k).handles[Statement(k).h]]

(* A finished child is reclaimed together with its binding. *)
JoinReady(k) ==
  /\ Enables(k, "join")
  /\ Child(k) # None /\ Child(k) \in finished
  /\ marking' = (marking \ {k}) \union {Falls(k)}
  /\ frames' = [Placed(frames, {Falls(k)})
                  EXCEPT ![k.frame].handles[Statement(k).h] = None]
  /\ threads' = [threads EXCEPT ![Child(k)] = NoThread,
        ![k.thread].children[FrameOfToken(k).handles[Statement(k).h]] = None]
  /\ finished' = finished \ {Child(k)}
  /\ Reach(k)
  /\ UNCHANGED <<scopes, completed, scopesDone, alloc>> /\ OnlyThreads

JoinBlock(k) ==
  /\ Enables(k, "join")
  /\ Child(k) # None /\ Child(k) \notin finished
  /\ WaitsAt(k, JoinWait(FrameOfToken(k).fn, FrameOfToken(k).pc))
  /\ Reach(k)
  /\ UNCHANGED storeVars /\ OnlyThreads

-----------------------------------------------------------------------------
(* successors: every transition at every token of its binding *)

FireData(k) == Nop(k) \/ AssignLocal(k) \/ ReadVar(k) \/ WriteVar(k) \/ AtomicCas(k)
FireLock(k) ==
  \/ MutexLockGrant(k) \/ MutexLockBlock(k) \/ MutexUnlock(k) \/ LockWaitAcquire(k)
  \/ CondvarWait(k) \/ CondvarNotifyHit(k) \/ CondvarNotifyMiss(k)
  \/ CondvarNotifyAll(k)
FireSemaphore(k) ==
  SemAcquire(k) \/ SemAcquireBlock(k) \/ SemRelease(k) \/ SemGrant(k)
FireChannel(k) ==
  \/ SendRegister(k) \/ SendPair(k) \/ RecvRegister(k) \/ RecvPair(k)
  \/ SendBuf(k) \/ SendBufBlock(k) \/ RecvBuf(k) \/ RecvBufBlock(k)
  \/ BufferDeliver(k) \/ BufferRecvWait(k)
FireControl(k) ==
  \/ Goto(k) \/ BranchThen(k) \/ BranchElse(k) \/ Switch(k)
  \/ Call(k) \/ ReturnInner(k) \/ ReturnFinal(k)
FireThread(k) == Spawn(k) \/ Scope(k) \/ JoinReady(k) \/ JoinBlock(k)

Fire(k) ==
  \/ FireData(k) \/ FireLock(k) \/ FireSemaphore(k) \/ FireChannel(k)
  \/ FireControl(k) \/ FireThread(k)

Next == ~Faulted /\ \E k \in marking : Fire(k)

Spec == Init /\ [][Next]_vars
=============================================================================
