---------------------------- MODULE Refine_proofs ----------------------------
(***************************************************************************)
(* Proof that the Petri engine implements the reference interpreter, for   *)
(* every program both engines run alike: what the net does on its marking  *)
(* and its store is what the interpreter does on its machine state.        *)
(***************************************************************************)
EXTENDS Petri_proofs

-----------------------------------------------------------------------------
(* The definitions the two modules share *)

LEMMA SameIds == I!Ids = Ids /\ I!None = None
BY DEF I!Ids, I!None, Ids, None

LEMMA SameProgram == I!Operation = Operation
BY DEF I!Operation, I!DataOp, I!SyncOp, I!ChannelOp, I!ThreadOp, I!ControlOp, I!Target, I!Destinations,
       Operation, DataOp, SyncOp, ChannelOp, ThreadOp, ControlOp, Target, Destinations

LEMMA SameFrames == I!FrameState = FrameState
BY SameIds DEF I!FrameState, I!RetAddr, I!Destinations, FrameState, Destinations

LEMMA SameLimits ==
  /\ MaxId \in Nat \ {0}
  /\ MaxThreads \in Nat /\ MaxFrames \in Nat /\ MaxPermits \in Nat
  /\ MonitorMax \in [Functions -> Nat]
  /\ \A s \in Semaphores : Permits[s] <= MaxPermits
  /\ NoFrame \notin I!FrameState /\ NoScope \notin I!ScopeState
<1>1. NoScope \notin I!ScopeState
  BY SameIds, MappingAssumption DEF I!ScopeState
<1> QED
  BY <1>1, SameFrames, NetAssumption

-----------------------------------------------------------------------------
(* Tokens and the threads they stand for *)

LEMMA TokenIs ==
  ASSUME NetInv, NEW k \in marking
  PROVE  TokenOf(k.thread) = k
BY DEF TokenOf, NetInv, OneToken

LEMMA TokenIn ==
  ASSUME NetInv, NEW t \in Live
  PROVE  TokenOf(t) \in marking /\ TokenOf(t).thread = t
BY DEF TokenOf, NetInv, OneToken

(* What the machine state says of the thread of token k *)
Says(k) ==
  /\ k.thread \in Ids /\ k.thread \in Live
  /\ k.at[1] \in {"control", "join", "scope", "lock", "wait", "acquire", "send", "recv"}
  /\ Statuses[k.thread] = (IF k.at[1] = "control" THEN "run" ELSE k.at[1])
  /\ k.at[1] = "control" => Reasons[k.thread] = Nothing
  /\ k.at[1] \notin {"control", "join", "scope"} => Reasons[k.thread] = k.at[2]
  /\ k.at[1] = "join" => Reasons[k.thread] = FrameOfToken(k).handles[Statement(k).h]
  /\ k.at[1] = "scope" => Reasons[k.thread] =
       CHOOSE s \in Ids : scopes[s] # NoScope /\ scopes[s].owner = k.thread
  /\ Stacks[k.thread] = threads[k.thread].stack /\ I!Top(k.thread) = k.frame
  /\ ChildMaps[k.thread] = threads[k.thread].children /\ Parents[k.thread] = threads[k.thread].parent

LEMMA TokensSay == NetInv => \A k \in marking : Says(k)
<1> SUFFICES ASSUME NetInv, NEW k \in marking
             PROVE  Says(k)
  OBVIOUS
<1>1. k.thread \in Ids /\ k.thread \in Live /\ threads[k.thread] # NoThread
  BY TokenFrame
<1>0. k.at[1] \in {"control", "join", "scope", "lock", "wait", "acquire", "send", "recv"}
  BY TokenFrame, TokenFields DEF Place, StatementPlace
<1>2. TokenOf(k.thread) = k
  BY TokenIs
<1>3. k.thread \notin finished
  BY <1>1 DEF Live
<1>4. StatusOf(k.thread) = (IF k.at[1] = "control" THEN "run" ELSE k.at[1])
  BY <1>1, <1>2, <1>3 DEF StatusOf
<1>5. /\ k.at[1] = "control" => ReasonOf(k.thread) = Nothing
      /\ k.at[1] \notin {"control", "join", "scope"} => ReasonOf(k.thread) = k.at[2]
      /\ k.at[1] = "join" => ReasonOf(k.thread) = FrameOfToken(k).handles[Statement(k).h]
      /\ k.at[1] = "scope" => ReasonOf(k.thread) =
           CHOOSE s \in Ids : scopes[s] # NoScope /\ scopes[s].owner = k.thread
  BY <1>1, <1>2 DEF ReasonOf
<1>6. I!Top(k.thread) = k.frame /\ Stacks[k.thread] = threads[k.thread].stack
  BY <1>1, TokenFrame DEF Stacks, TopOf, I!Top
<1>7. /\ ChildMaps[k.thread] = threads[k.thread].children
      /\ Parents[k.thread] = threads[k.thread].parent
  BY <1>1 DEF ChildMaps, Parents, ChildrenOf, ParentOf
<1> QED
  BY <1>0, <1>1, <1>4, <1>5, <1>6, <1>7 DEF Says, Statuses, Reasons

LEMMA TokensSayLater == NetInv' => (\A k \in marking : Says(k))'
BY TokensSay, PTL

(* A token's thread is where the token is, for the interpreter as well. *)
LEMMA Position ==
  ASSUME NetInv, NEW k \in marking
  PROVE  /\ I!Top(k.thread) = k.frame /\ I!Fr(k.thread) = frames[k.frame]
         /\ I!Op(k.thread) = StandsAt(frames[k.frame])
         /\ \A e : I!Value(k.thread, e) = Value(k, e)
         /\ Stacks[k.thread] # <<>> /\ Stacks[k.thread] = threads[k.thread].stack
<1>1. I!Top(k.thread) = k.frame /\ Stacks[k.thread] = threads[k.thread].stack
  BY TokensSay DEF Says
<1>2. threads[k.thread].stack # <<>>
  BY TokenFrame
<1> QED
  BY <1>1, <1>2 DEF I!Fr, I!Op, I!Body, I!Value, StandsAt, Value, FrameOfToken

LEMMA AtControl ==
  ASSUME NetInv, NEW k \in marking, k.at[1] = "control"
  PROVE  /\ Statuses[k.thread] = "run" /\ Statement(k) = I!Op(k.thread)
         /\ k.at[2] = frames[k.frame].fn /\ k.at[3] = frames[k.frame].pc
         /\ I!AtStatement(k.thread) <=> k.at[3] \in DOMAIN prog[k.at[2]]
         /\ \A o : Enables(k, o) => I!Executes(k.thread, o)
<1>1. Statuses[k.thread] = "run"
  BY TokensSay DEF Says
<1>2. k.at[2] = frames[k.frame].fn /\ k.at[3] = frames[k.frame].pc
  BY ControlStands
<1>3. Statement(k) = I!Op(k.thread)
  BY <1>2, Position DEF Statement, StandsAt
<1>4. I!AtStatement(k.thread) <=> k.at[3] \in DOMAIN prog[k.at[2]]
  BY <1>2, Position DEF I!AtStatement, I!Body
<1> QED
  BY <1>1, <1>2, <1>3, <1>4 DEF Enables, I!Executes

-----------------------------------------------------------------------------
(* Errors *)

(* The interpreter stops nowhere the net goes on: the handles of a join have a
   child, and a `switch` of a program that both run reads an Int or an Enum. *)
LEMMA Faults ==
  ASSUME NetInv, I!Sound, Comparable(prog), ~Faulted
  PROVE  ~I!Faulted
<1> SUFFICES ASSUME NEW t \in Ids, I!Fails(t)
             PROVE  FALSE
  BY SameIds DEF I!Faulted
<1> DEFINE k == TokenOf(t)
           o == Statement(k)
<1>1. t \in Live
  BY DEF I!Fails, Statuses, StatusOf, Live
<1>2. k \in marking /\ k.thread = t
  BY <1>1, TokenIn
<1>3. k.at[1] = "control"
  BY <1>1, <1>2, TokensSay DEF I!Fails, Says
<1>4. k.at[3] \in DOMAIN prog[k.at[2]] /\ o = I!Op(t) /\ k.at[2] = frames[k.frame].fn
  BY <1>2, <1>3, AtControl DEF I!Fails
<1>5. /\ I!Fr(t) = frames[k.frame] /\ Stacks[t] = threads[t].stack /\ Stacks[t] # <<>>
      /\ I!Top(t) = k.frame /\ \A e : I!Value(t, e) = Value(k, e)
  BY <1>2, Position
<1>6. ~EvalFails(k, o) /\ ~OpFails(k, o)
  BY <1>2, <1>3, <1>4 DEF Faulted, Fails
<1>7. /\ k.at[2] \in Functions /\ o.op # "unsupported"
      /\ frames[k.frame] \in FrameState /\ frames[k.frame] # NoFrame /\ k.frame \in Ids
  <2>1. /\ frames[k.frame] \in FrameState /\ frames[k.frame] # NoFrame /\ k.frame \in Ids
        /\ k.at[2] \in Functions
    BY <1>2, <1>4, TokenFrame DEF FrameState
  <2> QED
    BY <1>4, <2>1 DEF Comparable, Statement
<1>8. ~I!EvalFails(t, o)
  <2>1. o.op = "switch" /\ Value(k, o.e) # EvalError => Value(k, o.e) \in Scrutinees
    <3> SUFFICES ASSUME o.op = "switch", Value(k, o.e) # EvalError
                 PROVE  Value(k, o.e) \in Scrutinees
      OBVIOUS
    <3>1. \A x \in Locals : frames[k.frame].locals[x] \in SlotType[k.at[2]][x]
      BY <1>4, <1>7, SameIds DEF I!Sound, I!InDomains, I!StoreTyped, I!SlotsTyped
    <3>2. \A r \in Shared : data[r] \in SharedType[r]
      BY DEF I!Sound, I!InDomains, I!SharedTyped
    <3>3. frames[k.frame].locals \in [Locals -> Values] /\ data \in [Shared -> Values]
      BY <1>7 DEF FrameState, NetInv, NetTypes
    <3> HIDE DEF k
    <3>4. Eval(o.e, frames[k.frame].locals, data) \in Scrutinees \union {EvalError}
      BY <1>4, <1>7, <3>1, <3>2, <3>3 DEF Comparable, Statement
    <3> QED
      BY <3>4 DEF Value, FrameOfToken
  <2>2. I!HitsFrameLimit(t) <=> ~(Len(threads[k.thread].stack) < MaxFrames)
    <3>1. Len(threads[k.thread].stack) \in Nat
      BY <1>2, TokenFrame
    <3> QED
      BY <1>2, <1>5, <3>1, NetAssumption DEF I!HitsFrameLimit
  <2> HIDE DEF k, o
  <2> QED
    BY <1>5, <1>6, <2>1, <2>2 DEF I!EvalFails, EvalFails
<1>9. ~I!OpFails(t, o)
  <2>1. ASSUME o.op = "join", frames[k.frame].handles[o.h] # None
        PROVE  ChildMaps[t][frames[k.frame].handles[o.h]] # None
    <3>1. o.h \in HandleNames
      <4>1. o \in Operation
        BY <1>4, <1>7, ProgramsAssumption DEF Statement, NetInv, NetTypes
      <4> QED
        BY <2>1, <4>1, OpFields
    <3>2. Len(Stacks[t]) \in DOMAIN Stacks[t]
      BY <1>2, <1>5, TokenFrame
    <3>3. I!HandleAt(t, Len(Stacks[t]), o.h) = frames[k.frame].handles[o.h]
      BY <1>5 DEF I!HandleAt, I!Top
    <3> QED
      BY <2>1, <3>1, <3>2, <3>3, SameIds DEF I!Sound, I!Named, I!HandlesExact
  <2> HIDE DEF k, o
  <2> QED
    BY <1>2, <1>5, <1>6, <1>7, <2>1, SameIds DEF I!OpFails, OpFails, FrameOfToken
<1> QED
  BY <1>4, <1>8, <1>9 DEF I!Fails

-----------------------------------------------------------------------------
(* What a step of the net changes of the machine state *)

(* A thread that is not told anything new *)
Untold(u) ==
  /\ threads'[u] = NoThread <=> threads[u] = NoThread
  /\ u \in finished' <=> u \in finished
  /\ u \in Live =>
       /\ TokenOf(u) \in marking'
       /\ TokenOf(u).at[1] = "join" =>
            frames'[TokenOf(u).frame].handles = frames[TokenOf(u).frame].handles
       /\ TokenOf(u).at[1] = "scope" =>
            \A s \in Ids : scopes'[s] # NoScope /\ scopes'[s].owner = u
                           <=> scopes[s] # NoScope /\ scopes[s].owner = u

(* Tokens that stay are the tokens of their threads. *)
LEMMA TokenStays ==
  ASSUME NetInv', NEW k \in marking'
  PROVE  (CHOOSE l \in marking' : l.thread = k.thread) = k
BY DEF NetInv, OneToken

LEMMA UntoldSame ==
  ASSUME NetInv, NetInv', prog' = prog, NEW u \in Ids, Untold(u)
  PROVE  Statuses'[u] = Statuses[u] /\ Reasons'[u] = Reasons[u]
<1>1. u \in Live' <=> u \in Live
  BY DEF Untold, Live
<1>2. CASE u \notin Live
  <2>1. StatusOf(u)' = StatusOf(u)
    BY <1>1, <1>2 DEF Untold, Live, StatusOf
  <2>2. ReasonOf(u)' = ReasonOf(u)
    BY <1>1, <1>2 DEF ReasonOf
  <2> QED
    BY <2>1, <2>2 DEF Statuses, Reasons
<1>3. CASE u \in Live
  <2>1. PICK k \in marking : k.thread = u /\ TokenOf(u) = k
    BY <1>3, TokenIn
  <2>2. k \in marking'
    BY <1>3, <2>1 DEF Untold
  <2>3. /\ Says(k) /\ Says(k)'
    BY <2>2, TokensSay, TokensSayLater
  <2>4. Statuses'[u] = Statuses[u]
    BY <2>1, <2>3 DEF Says
  <2>5. CASE k.at[1] \notin {"join", "scope"}
    BY <2>1, <2>3, <2>4, <2>5 DEF Says
  <2>6. CASE k.at[1] = "join"
    <3>1. frames'[k.frame].handles = frames[k.frame].handles
      BY <1>3, <2>1, <2>6 DEF Untold
    <3>2. Reasons[u] = frames[k.frame].handles[prog[k.at[2]][k.at[3]].h]
      BY <2>1, <2>3, <2>6 DEF Says, FrameOfToken, Statement
    <3>3. Reasons'[u] = frames'[k.frame].handles[prog'[k.at[2]][k.at[3]].h]
      BY <2>1, <2>3, <2>6 DEF Says, FrameOfToken, Statement
    <3> QED
      BY <2>4, <3>1, <3>2, <3>3
  <2>7. CASE k.at[1] = "scope"
    <3>1. \A s \in Ids : scopes'[s] # NoScope /\ scopes'[s].owner = u
                         <=> scopes[s] # NoScope /\ scopes[s].owner = u
      BY <1>3, <2>1, <2>7 DEF Untold
    <3>2. (CHOOSE s \in Ids : scopes'[s] # NoScope /\ scopes'[s].owner = u)
          = (CHOOSE s \in Ids : scopes[s] # NoScope /\ scopes[s].owner = u)
      BY <3>1
    <3>3. Reasons'[u] = CHOOSE s \in Ids : scopes'[s] # NoScope /\ scopes'[s].owner = u
      BY <2>1, <2>3, <2>7 DEF Says
    <3>4. Reasons[u] = CHOOSE s \in Ids : scopes[s] # NoScope /\ scopes[s].owner = u
      BY <2>1, <2>3, <2>7 DEF Says
    <3> QED
      BY <2>4, <3>2, <3>3, <3>4
  <2> QED
    BY <2>4, <2>5, <2>6, <2>7
<1> QED
  BY <1>2, <1>3

(* The places of kind K keep their tokens. *)
SameIn(K) == \A k : k.at[1] = K => (k \in marking' <=> k \in marking)

LEMMA QueuesSame ==
  /\ SameIn("acquire") => Acquirers' = Acquirers
  /\ SameIn("wait")    => Waiters' = Waiters
  /\ SameIn("send")    => Senders' = Senders
  /\ SameIn("recv")    => Receivers' = Receivers
<1>1. ASSUME NEW s \in Semaphores, SameIn("acquire")
      PROVE  In(SemWait(s))' = In(SemWait(s))
  BY <1>1 DEF SameIn, In, SemWait
<1>2. ASSUME NEW c \in Condvars, SameIn("wait")
      PROVE  In(Condvar(c))' = In(Condvar(c))
  BY <1>2 DEF SameIn, In, Condvar
<1>3. ASSUME NEW c \in Channels, SameIn("send")
      PROVE  In(ChannelSend(c))' = In(ChannelSend(c))
  BY <1>3 DEF SameIn, In, ChannelSend
<1>4. ASSUME NEW c \in Channels, SameIn("recv")
      PROVE  In(ChannelRecv(c))' = In(ChannelRecv(c))
  BY <1>4 DEF SameIn, In, ChannelRecv
<1> QED
  BY <1>1, <1>2, <1>3, <1>4 DEF Acquirers, Waiters, Senders, Receivers, Threads

(* Threads whose records keep what the mapping reads *)
LEMMA RecordsSame ==
  ASSUME \A u \in Ids : /\ threads'[u] = NoThread <=> threads[u] = NoThread
                        /\ threads[u] # NoThread => /\ threads'[u].stack = threads[u].stack
                                                    /\ threads'[u].children = threads[u].children
                                                    /\ threads'[u].parent = threads[u].parent
  PROVE  UNCHANGED <<Stacks, ChildMaps, Parents>>
BY DEF Stacks, ChildMaps, Parents, StackOf, ChildrenOf, ParentOf

LEMMA ScopesSame == UNCHANGED scopes => UNCHANGED ScopesOpen
BY DEF ScopesOpen, ScopeOf

(* fire records a statement of the program, as the interpreter does. *)
LEMMA PastGrows ==
  ASSUME NetInv, prog' = prog, NEW k \in marking, k.at[1] = "control", Reach(k),
         k.at[3] \in DOMAIN prog[k.at[2]]
  PROVE  I!Reach(k.thread)
<1>1. I!Fr(k.thread) = frames[k.frame] /\ k.at[2] = frames[k.frame].fn /\ k.at[3] = frames[k.frame].pc
  BY Position, AtControl
<1>2. k.at[2] \in Functions
  BY ControlStands DEF StatementPlace
<1>3. prog[k.at[2]] \in Seq(Operation)
  BY <1>2, ProgramsAssumption DEF NetInv, NetTypes
<1>4. k.at[3] <= Len(prog[k.at[2]])
  BY <1>3
<1>5. reached' = reached \union {<<k.at[2], k.at[3]>>}
  BY <1>1 DEF Reach, FrameOfToken
<1>6. Past' = Past \union {<<k.at[2], k.at[3]>>}
  BY <1>4, <1>5 DEF Past, StatementsOf
<1> QED
  BY <1>1, <1>6 DEF I!Reach

LEMMA PastSame ==
  ASSUME prog' = prog, reached' = reached
  PROVE  Past' = Past
BY DEF Past, StatementsOf

(* place_control past a statement is an advance. *)
LEMMA PlacedAdvances ==
  ASSUME NetInv, NEW k \in marking, NEW out, out.frame = k.frame,
         NEW frs, out.at[3] = frs[k.frame].pc + 1
  PROVE  Placed(frs, {out}) = I!Advance(frs, {k.thread})
<1>1. I!Top(k.thread) = k.frame
  BY Position
<1>2. ASSUME NEW f \in Ids
      PROVE  Placed(frs, {out})[f] = I!Advance(frs, {k.thread})[f]
  <2>1. CASE f = k.frame
    <3>1. (CHOOSE l \in {out} : l.frame = f) = out
      BY <2>1
    <3> QED
      BY <1>1, <2>1, <3>1, SameIds DEF Placed, I!Advance
  <2>2. CASE f # k.frame
    BY <1>1, <2>2, SameIds DEF Placed, I!Advance
  <2> QED
    BY <2>1, <2>2
<1> QED
  BY <1>2, SameIds DEF Placed, I!Advance

(* The step takes the tokens ws; other threads are told nothing. *)
LEMMA UntoldIf ==
  ASSUME NetInv, NEW ws \in SUBSET marking, marking \ ws \subseteq marking',
         \A f \in Ids : frames[f] # NoFrame /\ (\A w \in ws : w.frame # f) =>
                          frames'[f].handles = frames[f].handles,
         NEW u \in Ids, \A w \in ws : w.thread # u,
         threads'[u] = NoThread <=> threads[u] = NoThread,
         u \in finished' <=> u \in finished,
         \A s \in Ids : scopes'[s] # NoScope /\ scopes'[s].owner = u
                        <=> scopes[s] # NoScope /\ scopes[s].owner = u
  PROVE  Untold(u)
<1>1. CASE u \in Live
  <2>1. PICK k \in marking : k.thread = u /\ TokenOf(u) = k
    BY <1>1, TokenIn
  <2>2. k \notin ws /\ k.frame \in Ids /\ frames[k.frame] # NoFrame
    BY <2>1, TokenFrame
  <2>3. \A w \in ws : w.frame # k.frame
    BY <2>1, <2>2, FramesApart
  <2>4. k \in marking' /\ frames'[k.frame].handles = frames[k.frame].handles
    BY <2>1, <2>2, <2>3
  <2> QED
    BY <2>1, <2>4 DEF Untold
<1> QED
  BY <1>1 DEF Untold

LEMMA UntoldBy ==
  ASSUME NetInv, NEW ws \in SUBSET marking, marking \ ws \subseteq marking',
         finished' = finished, scopes' = scopes,
         \A f \in Ids : (\A w \in ws : w.frame # f) => frames'[f].handles = frames[f].handles,
         NEW u \in Ids, \A w \in ws : w.thread # u,
         threads'[u] = NoThread <=> threads[u] = NoThread
  PROVE  Untold(u)
<1>1. \A f \in Ids : frames[f] # NoFrame /\ (\A w \in ws : w.frame # f) =>
                       frames'[f].handles = frames[f].handles
  OBVIOUS
<1> QED
  BY <1>1, UntoldIf

(* Control moves on, and nothing else is to be seen of it in the threads. *)
Threads0 == <<Statuses, Reasons, Stacks, ChildMaps, Parents, ScopesOpen>>
Queues0  == <<Acquirers, Waiters, Senders, Receivers>>

LEMMA MoveTold ==
  ASSUME NetInv, NetInv', prog' = prog, finished' = finished, scopes' = scopes, threads' = threads,
         NEW k \in marking, k.at[1] = "control", NEW out, out.at[1] = "control",
         out.thread = k.thread, marking' = (marking \ {k}) \union {out},
         \A f \in Ids : f # k.frame => frames'[f] = frames[f]
  PROVE  UNCHANGED Threads0 /\ UNCHANGED Queues0
<1>1. ASSUME NEW u \in Ids, u # k.thread
      PROVE  Statuses'[u] = Statuses[u] /\ Reasons'[u] = Reasons[u]
  <2>1. Untold(u)
    BY <1>1, UntoldBy, {k} \in SUBSET marking
  <2> QED
    BY <2>1, UntoldSame
<1>2. Says(k) /\ Says(out)'
  BY TokensSay, TokensSayLater
<1>3. Statuses'[k.thread] = Statuses[k.thread] /\ Reasons'[k.thread] = Reasons[k.thread]
  BY <1>2 DEF Says
<1>4. UNCHANGED <<Statuses, Reasons>>
  <2>1. \A u \in Ids : Statuses'[u] = Statuses[u] /\ Reasons'[u] = Reasons[u]
    BY <1>1, <1>3
  <2> QED
    BY <2>1 DEF Statuses, Reasons
<1>5. UNCHANGED <<Stacks, ChildMaps, Parents, ScopesOpen>>
  BY RecordsSame, ScopesSame
<1>6. SameIn("acquire") /\ SameIn("wait") /\ SameIn("send") /\ SameIn("recv")
  BY DEF SameIn
<1> QED
  BY <1>4, <1>5, <1>6, QueuesSame DEF Threads0, Queues0

(* What a thread waits for at a token that is no scope's *)
Reason(k) == IF k.at[1] = "join" THEN FrameOfToken(k).handles[Statement(k).h] ELSE k.at[2]

(* The thread of token k blocks at the new token, which is no scope's. *)
LEMMA WaitTold ==
  ASSUME NetInv, NetInv', prog' = prog, finished' = finished, scopes' = scopes,
         NEW k \in marking, k.at[1] = "control", NEW token, token.at[1] \notin {"control", "scope"},
         token.thread = k.thread, Waits(k, token)
  PROVE  I!Block(k.thread, token.at[1], Reason(token)) /\ UNCHANGED ScopesOpen
<1>1. /\ marking' = (marking \ {k}) \union {token} /\ frames' = frames
      /\ threads' = Blocked(threads, k.thread, token.at)
  BY DEF Waits
<1>2. k.thread \in Ids /\ threads[k.thread] # NoThread /\ threads[k.thread] \in ThreadState
  BY TokenFrame
<1>3. \A u \in Ids : u # k.thread => threads'[u] = threads[u]
  BY <1>1 DEF Blocked, NetInv, NetTypes, ThreadStore
<1>4. token \in marking'
  BY <1>1
<1>5. /\ threads'[k.thread] # NoThread
      /\ threads'[k.thread].stack = threads[k.thread].stack
      /\ threads'[k.thread].children = threads[k.thread].children
      /\ threads'[k.thread].parent = threads[k.thread].parent
  <2> DEFINE x == threads[k.thread]
             b == token.at
             y == [x EXCEPT !.blocked = b]
  <2>1. threads'[k.thread] = y
    BY <1>1, <1>2 DEF Blocked, NetInv, NetTypes, ThreadStore
  <2> HIDE DEF x, b
  <2>2. x \in ThreadState
    BY <1>2 DEF x
  <2>3. y.stack = x.stack /\ y.children = x.children /\ y.parent = x.parent
    BY <2>2 DEF ThreadState
  <2>4. threads'[k.thread] # NoThread
    BY <1>4, TokensSayLater DEF Says, Live
  <2> QED
    BY <2>1, <2>3, <2>4 DEF x
<1>6. ASSUME NEW u \in Ids, u # k.thread
      PROVE  Statuses'[u] = Statuses[u] /\ Reasons'[u] = Reasons[u]
  <2>1. Untold(u)
    BY <1>1, <1>3, <1>6, UntoldBy, {k} \in SUBSET marking
  <2> QED
    BY <2>1, UntoldSame
<1>7. Statuses'[k.thread] = token.at[1] /\ Reasons'[k.thread] = Reason(token)
  <2>1. Says(token)'
    BY <1>4, TokensSayLater
  <2>2. CASE token.at[1] = "join"
    BY <1>1, <2>1, <2>2 DEF Says, Reason, FrameOfToken, Statement
  <2>3. CASE token.at[1] # "join"
    BY <1>1, <2>1, <2>3 DEF Says, Reason
  <2> QED
    BY <2>2, <2>3
<1>8. /\ Statuses' = [Statuses EXCEPT ![k.thread] = token.at[1]]
      /\ Reasons' = [Reasons EXCEPT ![k.thread] = Reason(token)]
  BY <1>2, <1>6, <1>7 DEF Statuses, Reasons
<1>9. UNCHANGED <<Stacks, ChildMaps, Parents>>
  BY <1>2, <1>3, <1>5, RecordsSame
<1> QED
  BY <1>8, <1>9, ScopesSame DEF I!Block

(* Waiting tokens ws are taken and their threads run on, with control; other
   threads may move with control in the same step. *)
LEMMA WakeTold ==
  ASSUME NetInv, NetInv', prog' = prog, finished' = finished, scopes' = scopes,
         NEW ws \in SUBSET marking, NEW new, marking' = (marking \ ws) \union new,
         \A n \in new : n.at[1] = "control",
         \A w \in ws : \E n \in new : n.thread = w.thread,
         NEW ts \in SUBSET Ids, \A w \in ws : w.at[1] = "control" \/ w.thread \in ts,
         \A t \in ts : \E w \in ws : w.thread = t,
         threads' = Unblocked(threads, ts),
         \A f \in Ids : (\A w \in ws : w.frame # f) => frames'[f].handles = frames[f].handles
  PROVE  I!Wake(ts) /\ UNCHANGED ScopesOpen
<1>1. ASSUME NEW t \in ts
      PROVE  threads[t] # NoThread
  BY TokenFrame
<1>2. ASSUME NEW u \in Ids
      PROVE  /\ threads'[u] = NoThread <=> threads[u] = NoThread
             /\ threads[u] # NoThread => /\ threads'[u].stack = threads[u].stack
                                         /\ threads'[u].children = threads[u].children
                                         /\ threads'[u].parent = threads[u].parent
  <2>1. threads'[u] = NoThread <=> threads[u] = NoThread
    BY <1>1, UnblockedSame
  <2>2. CASE u \notin ts
    BY <2>1, <2>2 DEF Unblocked
  <2>3. CASE u \in ts
    <3> DEFINE x == threads[u]
               y == [x EXCEPT !.blocked = Nothing]
    <3>1. threads'[u] = y
      BY <2>3 DEF Unblocked
    <3>2. x \in ThreadState
      BY <1>1, <2>3 DEF NetInv, NetTypes, ThreadStore
    <3> HIDE DEF x
    <3>3. y.stack = x.stack /\ y.children = x.children /\ y.parent = x.parent
      BY <3>2 DEF ThreadState
    <3> QED
      BY <2>1, <3>1, <3>3 DEF x
  <2> QED
    BY <2>2, <2>3
<1>3. ASSUME NEW u \in Ids
      PROVE  /\ Statuses'[u] = IF u \in ts THEN "run" ELSE Statuses[u]
             /\ Reasons'[u] = IF u \in ts THEN Nothing ELSE Reasons[u]
  <2>1. CASE \A w \in ws : w.thread # u
    <3>1. Untold(u)
      BY <1>2, <2>1, UntoldBy
    <3> QED
      BY <2>1, <3>1, UntoldSame
  <2>2. CASE \E w \in ws : w.thread = u
    <3>1. PICK w \in ws : w.thread = u
      BY <2>2
    <3>2. PICK n \in new : n.thread = u
      BY <3>1
    <3>3. Says(w) /\ Says(n)'
      BY <3>1, <3>2, TokensSay, TokensSayLater
    <3>4. Statuses'[u] = "run" /\ Reasons'[u] = Nothing
      BY <3>2, <3>3 DEF Says
    <3>5. u \notin ts => Statuses[u] = "run" /\ Reasons[u] = Nothing
      BY <3>1, <3>3 DEF Says
    <3> QED
      BY <3>4, <3>5
  <2> QED
    BY <2>1, <2>2
<1>4. /\ Statuses' = [u \in Ids |-> IF u \in ts THEN "run" ELSE Statuses[u]]
      /\ Reasons' = [u \in Ids |-> IF u \in ts THEN Nothing ELSE Reasons[u]]
  BY <1>3 DEF Statuses, Reasons
<1>5. UNCHANGED <<Stacks, ChildMaps, Parents>>
  BY <1>2, RecordsSame
<1> QED
  BY <1>4, <1>5, ScopesSame, SameIds DEF I!Wake

-----------------------------------------------------------------------------
(* Operations on data *)

LEMMA SamePut ==
  \A frs, f, dst, v : /\ I!Put(frs, f, dst, v) = Put(frs, f, dst, v)
                      /\ I!PutShared(dst, v) = PutData(dst, v)
                      /\ I!DomainOf(f, dst) = DomainOf(f, dst)
BY DEF I!Put, I!PutShared, Put, PutData, I!DomainOf, DomainOf

LEMMA SameAccepts ==
  ASSUME NetInv, NEW k \in marking
  PROVE  \A dst, v : I!Accepts(k.thread, dst, v) <=> Accepts(k.frame, dst, v)
BY Position, SamePut DEF I!Accepts, Accepts

(* Writing a local leaves the other frames, and the pc of its own. *)
LEMMA PutStays ==
  ASSUME NetInv, NEW f \in Ids, frames[f] # NoFrame, NEW dst, NEW v, Accepts(f, dst, v)
  PROVE  /\ Put(frames, f, dst, v)[f].pc = frames[f].pc
         /\ \A g \in Ids : g # f => Put(frames, f, dst, v)[g] = frames[g]
         /\ \A g \in Ids : Put(frames, f, dst, v)[g].handles = frames[g].handles
<1>1. v \in Values
  BY AcceptsValues
<1>2. StandAlike(Put(frames, f, dst, v))
  BY <1>1, PutAlike
<1>3. \A g \in Ids : g # f => Put(frames, f, dst, v)[g] = frames[g]
  BY DEF Put, NetInv, NetTypes, FrameStore
<1>4. Put(frames, f, dst, v)[f].handles = frames[f].handles
  <2> DEFINE x == frames[f]
             ls == [x.locals EXCEPT ![dst] = v]
             y == [x EXCEPT !.locals = ls]
  <2>1. frames \in FrameStore /\ x \in FrameState
    BY DEF NetInv, NetTypes, FrameStore
  <2>2. CASE dst \in Locals
    <3>1. Put(frames, f, dst, v)[f] = y
      BY <2>1, <2>2 DEF Put, FrameStore
    <3> HIDE DEF ls, x
    <3>2. y.handles = x.handles
      BY <2>1 DEF FrameState
    <3> QED
      BY <3>1, <3>2 DEF x
  <2>3. CASE dst \notin Locals
    BY <2>3 DEF Put
  <2> QED
    BY <2>2, <2>3
<1> QED
  BY <1>2, <1>3, <1>4 DEF StandAlike

(* Control falls through to the next statement. *)
LEMMA FallTold ==
  ASSUME NetInv, NetInv', prog' = prog, finished' = finished, scopes' = scopes,
         NEW k \in marking, k.at[1] = "control", NEW frs, Moves(k, Falls(k), frs),
         frs[k.frame].pc = frames[k.frame].pc, \A f \in Ids : f # k.frame => frs[f] = frames[f]
  PROVE  /\ frames' = I!Advance(frs, {k.thread})
         /\ UNCHANGED Threads0 /\ UNCHANGED Queues0
<1>1. /\ Falls(k).at[1] = "control" /\ Falls(k).thread = k.thread /\ Falls(k).frame = k.frame
      /\ Falls(k).at[3] = frames[k.frame].pc + 1
  BY ControlStands, FallPlaced
<1>2. /\ marking' = (marking \ {k}) \union {Falls(k)} /\ frames' = Placed(frs, {Falls(k)})
      /\ threads' = threads
  BY DEF Moves
<1>3. \A f \in Ids : f # k.frame => frames'[f] = frames[f]
  BY <1>1, <1>2 DEF Placed
<1>4. frames' = I!Advance(frs, {k.thread})
  BY <1>1, <1>2, PlacedAdvances
<1> QED
  BY <1>1, <1>2, <1>3, <1>4, MoveTold

LEMMA AssignTold ==
  ASSUME NetInv, NetInv', NEW k \in marking, k.at[1] = "control",
         k.at[3] \in DOMAIN prog[k.at[2]], NEW dst, NEW v, Assign(k, dst, v)
  PROVE  I!Assign(k.thread, dst, v)
<1>1. /\ Accepts(k.frame, dst, v) /\ Moves(k, Falls(k), Put(frames, k.frame, dst, v))
      /\ data' = PutData(dst, v) /\ Reach(k)
      /\ UNCHANGED <<prog, sem, buf, mutex, scopes, finished, completed, scopesDone, alloc>>
  BY DEF Assign, storeVars
<1>2. k.frame \in Ids /\ frames[k.frame] # NoFrame
  BY TokenFrame
<1>3. /\ frames' = I!Advance(Put(frames, k.frame, dst, v), {k.thread})
      /\ UNCHANGED Threads0 /\ UNCHANGED Queues0
  BY <1>1, <1>2, PutStays, FallTold
<1>4. I!Reach(k.thread)
  BY <1>1, PastGrows
<1>5. I!OnlyData
  BY <1>1, <1>3 DEF I!OnlyData, I!threadVars, I!syncVars, I!chanVars, I!idVars, Threads0, Queues0
<1> QED
  BY <1>1, <1>3, <1>4, <1>5, SamePut, SameAccepts, Position DEF I!Assign

LEMMA DataTold ==
  ASSUME NetInv, NetInv', NEW k \in marking, FireData(k)
  PROVE  I!DataStep(k.thread)
<1> DEFINE t == k.thread
           o == Statement(k)
<1>1. ASSUME NEW op, Enables(k, op)
      PROVE  /\ I!Executes(t, op) /\ I!Op(t) = o /\ k.at[1] = "control"
             /\ k.at[3] \in DOMAIN prog[k.at[2]] /\ \A e : I!Value(t, e) = Value(k, e)
  BY <1>1, AtControl, Position DEF Enables
<1>2. ASSUME Nop(k)
      PROVE  I!Nop(t)
  <2>1. /\ Enables(k, "nop") /\ Moves(k, Falls(k), frames) /\ Reach(k)
        /\ UNCHANGED <<prog, data, sem, buf, mutex, scopes, finished, completed, scopesDone, alloc>>
    BY <1>2 DEF Nop, OnlyControl, dataVars, storeVars
  <2>2. /\ frames' = I!Advance(frames, {t}) /\ UNCHANGED Threads0 /\ UNCHANGED Queues0
    BY <1>1, <2>1, FallTold
  <2>3. I!Reach(t)
    BY <1>1, <2>1, PastGrows
  <2>4. I!OnlyData
    BY <2>1, <2>2 DEF I!OnlyData, I!threadVars, I!syncVars, I!chanVars, I!idVars, Threads0, Queues0
  <2> QED
    BY <1>1, <2>1, <2>2, <2>3, <2>4 DEF I!Nop
<1>3. ASSUME AssignLocal(k)
      PROVE  I!AssignLocal(t)
  BY <1>1, <1>3, AssignTold DEF AssignLocal, I!AssignLocal
<1>4. ASSUME ReadVar(k)
      PROVE  I!LoadShared(t)
  BY <1>1, <1>4, AssignTold DEF ReadVar, I!LoadShared
<1>5. ASSUME WriteVar(k)
      PROVE  I!StoreShared(t)
  BY <1>1, <1>5, AssignTold DEF WriteVar, I!StoreShared
<1>6. ASSUME AtomicCas(k)
      PROVE  I!AtomicCas(t)
  <2> DEFINE old == data[o.r]
             des == Value(k, o.desired)
  <2>1. /\ Enables(k, "cas") /\ des \in SharedType[o.r] /\ Accepts(k.frame, o.dst, old)
        /\ Moves(k, Falls(k), Put(frames, k.frame, o.dst, old)) /\ Reach(k)
        /\ data' = IF old = Value(k, o.expected)
                   THEN [PutData(o.dst, old) EXCEPT ![o.r] = des]
                   ELSE PutData(o.dst, old)
        /\ UNCHANGED <<prog, sem, buf, mutex, scopes, finished, completed, scopesDone, alloc>>
    BY <1>6 DEF AtomicCas, storeVars
  <2>2. k.frame \in Ids /\ frames[k.frame] # NoFrame
    BY TokenFrame
  <2>3. /\ frames' = I!Advance(Put(frames, k.frame, o.dst, old), {t})
        /\ UNCHANGED Threads0 /\ UNCHANGED Queues0
    BY <1>1, <2>1, <2>2, PutStays, FallTold
  <2>4. I!Reach(t)
    BY <1>1, <2>1, PastGrows
  <2>5. I!OnlyData
    BY <2>1, <2>3 DEF I!OnlyData, I!threadVars, I!syncVars, I!chanVars, I!idVars, Threads0, Queues0
  <2>6. I!Executes(t, "cas") /\ I!Op(t) = o /\ I!Top(t) = k.frame
        /\ \A e : I!Value(t, e) = Value(k, e)
    BY <1>1, <2>1, Position
  <2>7. I!Accepts(t, o.dst, old)
    BY <2>1, SameAccepts
  <2> HIDE DEF o, old, des
  <2>8. /\ frames' = I!Advance(I!Put(frames, k.frame, o.dst, old), {t})
        /\ data' = IF old = Value(k, o.expected)
                   THEN [I!PutShared(o.dst, old) EXCEPT ![o.r] = des]
                   ELSE I!PutShared(o.dst, old)
    BY <2>1, <2>3, SamePut
  <2> QED
    BY <2>1, <2>4, <2>5, <2>6, <2>7, <2>8 DEF I!AtomicCas, old, des
<1> QED
  BY <1>2, <1>3, <1>4, <1>5, <1>6 DEF FireData, I!DataStep

-----------------------------------------------------------------------------
(* Mutexes, condition variables, semaphores *)

LEMMA SyncFalls ==
  ASSUME NetInv, NetInv', NEW k \in marking, k.at[1] = "control",
         k.at[3] \in DOMAIN prog[k.at[2]], Moves(k, Falls(k), frames), Reach(k), OnlySync
  PROVE  /\ frames' = I!Advance(frames, {k.thread}) /\ I!Reach(k.thread) /\ I!OnlySync
         /\ UNCHANGED I!threadVars /\ UNCHANGED <<Acquirers, Waiters>>
<1>1. UNCHANGED <<prog, data, buf, scopes, finished, completed, scopesDone, alloc>>
  BY DEF OnlySync, storeVars
<1>2. frames' = I!Advance(frames, {k.thread}) /\ UNCHANGED Threads0 /\ UNCHANGED Queues0
  BY <1>1, FallTold
<1>3. I!Reach(k.thread)
  BY <1>1, PastGrows
<1> QED
  BY <1>1, <1>2, <1>3 DEF I!OnlySync, I!threadVars, I!chanVars, I!idVars, Threads0, Queues0


LEMMA SyncWaits ==
  ASSUME NetInv, NetInv', NEW k \in marking, k.at[1] = "control",
         k.at[3] \in DOMAIN prog[k.at[2]], NEW token, token.thread = k.thread,
         token.at[1] \in {"lock", "wait", "acquire"}, Waits(k, token), Reach(k), OnlySync
  PROVE  /\ I!Block(k.thread, token.at[1], token.at[2]) /\ frames' = frames
         /\ I!Reach(k.thread) /\ I!OnlySync
         /\ \A p : p[1] # "control" => In(p)' = IF p = token.at THEN In(p) \union {token} ELSE In(p)
         /\ token.at[1] # "acquire" => Acquirers' = Acquirers
         /\ token.at[1] # "wait" => Waiters' = Waiters
<1>1. UNCHANGED <<prog, data, buf, scopes, finished, completed, scopesDone, alloc>>
  BY DEF OnlySync, storeVars
<1>2. /\ marking' = (marking \ {k}) \union {token} /\ frames' = frames
  BY DEF Waits
<1>3. I!Block(k.thread, token.at[1], token.at[2]) /\ UNCHANGED ScopesOpen
  BY <1>1, WaitTold DEF Reason
<1>4. I!Reach(k.thread)
  BY <1>1, PastGrows
<1>5. \A K : K \notin {"control", token.at[1]} => SameIn(K)
  BY <1>2 DEF SameIn
<1>6. ASSUME NEW p, p[1] # "control"
      PROVE  In(p)' = IF p = token.at THEN In(p) \union {token} ELSE In(p)
  BY <1>2, <1>6 DEF In
<1>7. Senders' = Senders /\ Receivers' = Receivers
  BY <1>5, QueuesSame
<1>8. /\ token.at[1] # "acquire" => Acquirers' = Acquirers
      /\ token.at[1] # "wait" => Waiters' = Waiters
  BY <1>5, QueuesSame
<1>9. I!OnlySync
  BY <1>1, <1>3, <1>7 DEF I!OnlySync, I!chanVars, I!idVars
<1> QED
  BY <1>2, <1>3, <1>4, <1>6, <1>8, <1>9

LEMMA SyncResumes ==
  ASSUME NetInv, NetInv', NEW k \in marking, k.at[1] \in {"lock", "acquire"},
         Resumes(k, frames), OnlySync
  PROVE  /\ I!Wake({k.thread}) /\ frames' = I!Advance(frames, {k.thread})
         /\ Past' = Past /\ I!OnlySync
         /\ \A p : p[1] # "control" => In(p)' = In(p) \ {k}
         /\ k.at[1] # "acquire" => Acquirers' = Acquirers
         /\ Waiters' = Waiters
<1>1. UNCHANGED <<prog, data, buf, scopes, finished, completed, scopesDone, alloc>>
  BY DEF OnlySync, storeVars
<1>2. /\ marking' = (marking \ {k}) \union {Wakes(k)} /\ frames' = Placed(frames, {Wakes(k)})
      /\ threads' = Unblocked(threads, {k.thread}) /\ reached' = reached
  BY DEF Resumes
<1>3. /\ Wakes(k).at[1] = "control" /\ Wakes(k).thread = k.thread /\ Wakes(k).frame = k.frame
      /\ Wakes(k).at[3] = frames[k.frame].pc + 1
  BY DEF Wakes, ControlToken, Control, FrameOfToken
<1>4. \A f \in Ids : f # k.frame => frames'[f] = frames[f]
  BY <1>2, <1>3 DEF Placed
<1>5. frames' = I!Advance(frames, {k.thread})
  BY <1>2, <1>3, PlacedAdvances
<1>6. I!Wake({k.thread}) /\ UNCHANGED ScopesOpen
  <2> DEFINE ws == {k}  new == {Wakes(k)}  ts == {k.thread}
  <2>1. ws \in SUBSET marking /\ ts \in SUBSET Ids
    BY TokenFrame
  <2>2. /\ \A n \in new : n.at[1] = "control"
        /\ \A w \in ws : \E n \in new : n.thread = w.thread
        /\ \A w \in ws : w.at[1] = "control" \/ w.thread \in ts
        /\ \A t \in ts : \E w \in ws : w.thread = t
        /\ \A f \in Ids : (\A w \in ws : w.frame # f) => frames'[f].handles = frames[f].handles
    BY <1>3, <1>4
  <2>3. marking' = (marking \ ws) \union new /\ threads' = Unblocked(threads, ts)
    BY <1>2
  <2> HIDE DEF ws, new, ts
  <2>4. I!Wake(ts) /\ UNCHANGED ScopesOpen
    BY <1>1, <2>1, <2>2, <2>3, WakeTold
  <2> QED
    BY <2>4 DEF ts
<1>7. \A K : K \notin {"control", k.at[1]} => SameIn(K)
  BY <1>2, <1>3 DEF SameIn
<1>8. ASSUME NEW p, p[1] # "control"
      PROVE  In(p)' = In(p) \ {k}
  BY <1>2, <1>3, <1>8 DEF In
<1>9. Senders' = Senders /\ Receivers' = Receivers /\ Waiters' = Waiters
      /\ (k.at[1] # "acquire" => Acquirers' = Acquirers)
  BY <1>7, QueuesSame
<1>10. I!OnlySync
  BY <1>1, <1>6, <1>9 DEF I!OnlySync, I!chanVars, I!idVars
<1> QED
  BY <1>1, <1>2, <1>5, <1>6, <1>8, <1>9, <1>10, PastSame

(* What the waiters ws are for the interpreter *)
Entries(ws) == {<<w.thread, w.lock>> : w \in ws}

LEMMA RequeuedSame ==
  ASSUME NetInv, NEW ws \in SUBSET marking, \A w \in ws : w.at[1] = "wait",
         threads' = Requeued(ws), NEW u \in Ids
  PROVE  /\ threads'[u] = NoThread <=> threads[u] = NoThread
         /\ threads[u] # NoThread => /\ threads'[u].stack = threads[u].stack
                                     /\ threads'[u].children = threads[u].children
                                     /\ threads'[u].parent = threads[u].parent
<1>1. CASE \E w \in ws : w.thread = u
  <2> DEFINE x == threads[u]
             v == CHOOSE w \in ws : w.thread = u
             b == LockWait(v.lock)
             y == [x EXCEPT !.blocked = b]
  <2>1. v \in ws /\ v.thread = u
    BY <1>1
  <2>2. x \in ThreadState
    BY <2>1, TokenFrame
  <2>3. b \in Place
    BY <2>1, TokenFrame, TokenFields DEF LockWait, Place
  <2>4. threads'[u] = y
    BY <1>1 DEF Requeued
  <2> HIDE DEF v, x, b
  <2>5. y.stack = x.stack /\ y.children = x.children /\ y.parent = x.parent /\ y \in ThreadState
    BY <2>2, <2>3 DEF ThreadState
  <2> QED
    BY <2>2, <2>4, <2>5, NetAssumption DEF x
<1>2. CASE ~\E w \in ws : w.thread = u
  BY <1>2 DEF Requeued
<1> QED
  BY <1>1, <1>2

LEMMA NotifiesTold ==
  ASSUME NetInv, NetInv', NEW k \in marking, k.at[1] = "control",
         k.at[3] \in DOMAIN prog[k.at[2]],
         NEW ws \in SUBSET marking, \A w \in ws : w.at[1] = "wait", Notifies(k, ws)
  PROVE  /\ I!Notified(Entries(ws)) /\ frames' = I!Advance(frames, {k.thread})
         /\ I!Reach(k.thread) /\ I!OnlySync /\ UNCHANGED <<mutex, sem, Acquirers>>
         /\ \A c : In(Condvar(c))' = In(Condvar(c)) \ ws
         /\ ws = {} => UNCHANGED I!threadVars
<1>1. UNCHANGED <<prog, data, buf, scopes, finished, completed, scopesDone, alloc, mutex, sem>>
  BY DEF Notifies, OnlySync, storeVars
<1>2. /\ marking' = (marking \ ({k} \union ws)) \union {Falls(k)} \union {LockToken(w) : w \in ws}
      /\ frames' = Placed(frames, {Falls(k)}) /\ threads' = Requeued(ws) /\ Reach(k)
  BY DEF Notifies
<1>3. /\ Falls(k).at[1] = "control" /\ Falls(k).thread = k.thread /\ Falls(k).frame = k.frame
      /\ Falls(k).at[3] = frames[k.frame].pc + 1
  BY ControlStands, FallPlaced
<1>4. \A f \in Ids : f # k.frame => frames'[f] = frames[f]
  BY <1>2, <1>3 DEF Placed
<1>5. frames' = I!Advance(frames, {k.thread})
  BY <1>2, <1>3, PlacedAdvances
<1>6. \A w \in ws : LockToken(w).at = <<"lock", w.lock>> /\ LockToken(w).thread = w.thread
                    /\ LockToken(w) \in marking'
  <2> SUFFICES ASSUME NEW w \in ws
               PROVE  /\ LockToken(w).at = <<"lock", w.lock>> /\ LockToken(w).thread = w.thread
                      /\ LockToken(w) \in marking'
    OBVIOUS
  <2>1. LockToken(w) \in {LockToken(v) : v \in ws}
    OBVIOUS
  <2>2. LockToken(w).at = <<"lock", w.lock>> /\ LockToken(w).thread = w.thread
    BY DEF LockToken, LockWait
  <2> QED
    BY <1>2, <2>1, <2>2
<1>7. ASSUME NEW u \in Ids
      PROVE  /\ threads'[u] = NoThread <=> threads[u] = NoThread
             /\ threads[u] # NoThread => /\ threads'[u].stack = threads[u].stack
                                         /\ threads'[u].children = threads[u].children
                                         /\ threads'[u].parent = threads[u].parent
  BY <1>2, RequeuedSame
<1>8. UNCHANGED <<Stacks, ChildMaps, Parents, ScopesOpen>>
  BY <1>1, <1>7, RecordsSame, ScopesSame
<1>9. ASSUME NEW u \in Ids, \A w \in ws : w.thread # u
      PROVE  Statuses'[u] = Statuses[u] /\ Reasons'[u] = Reasons[u]
  <2>1. CASE u = k.thread
    <3>1. Falls(k) \in marking'
      BY <1>2
    <3>2. Says(k) /\ Says(Falls(k))'
      BY <3>1, TokensSay, TokensSayLater
    <3> QED
      BY <1>3, <2>1, <3>2 DEF Says
  <2>2. CASE u # k.thread
    <3> DEFINE taken == {k} \union ws
    <3>1. taken \in SUBSET marking /\ marking \ taken \subseteq marking' /\ \A w \in taken : w.thread # u
      BY <1>2, <1>9, <2>2
    <3>2. \A f \in Ids : (\A w \in taken : w.frame # f) => frames'[f].handles = frames[f].handles
      BY <1>4
    <3> HIDE DEF taken
    <3>3. Untold(u)
      BY <1>1, <1>7, <3>1, <3>2, UntoldBy
    <3> QED
      BY <1>1, <3>3, UntoldSame
  <2> QED
    BY <2>1, <2>2
<1>10. ASSUME NEW w \in ws
       PROVE  Statuses'[w.thread] = "lock" /\ Reasons'[w.thread] = w.lock
  <2>1. Says(LockToken(w))'
    BY <1>6, TokensSayLater
  <2> QED
    BY <1>6, <2>1 DEF Says
<1>11. ASSUME NEW u \in Ids
       PROVE  /\ (\E e \in Entries(ws) : e[1] = u) <=> (\E w \in ws : w.thread = u)
              /\ \A w \in ws : w.thread = u => (CHOOSE e \in Entries(ws) : e[1] = u) = <<u, w.lock>>
  <2>1. \A w, v \in ws : w.thread = v.thread => w = v
    BY DEF NetInv, OneToken
  <2>2. (\E e \in Entries(ws) : e[1] = u) <=> (\E w \in ws : w.thread = u)
    <3>1. ASSUME NEW w \in ws, w.thread = u
          PROVE  \E e \in Entries(ws) : e[1] = u
      <4>1. <<u, w.lock>> \in Entries(ws) /\ <<u, w.lock>>[1] = u
        BY <3>1 DEF Entries
      <4> QED
        BY <4>1
    <3>2. ASSUME NEW e \in Entries(ws), e[1] = u
          PROVE  \E w \in ws : w.thread = u
      BY <3>2 DEF Entries
    <3> QED
      BY <3>1, <3>2
  <2>3. ASSUME NEW w \in ws, w.thread = u
        PROVE  (CHOOSE e \in Entries(ws) : e[1] = u) = <<u, w.lock>>
    <3>1. <<u, w.lock>> \in Entries(ws) /\ <<u, w.lock>>[1] = u
      BY <2>3 DEF Entries
    <3>2. \A e \in Entries(ws) : e[1] = u => e = <<u, w.lock>>
      BY <2>1, <2>3 DEF Entries
    <3> QED
      BY <3>1, <3>2
  <2> QED
    BY <2>2, <2>3
<1>12. ASSUME NEW u \in Ids
       PROVE  /\ Statuses'[u] = IF \E e \in Entries(ws) : e[1] = u THEN "lock" ELSE Statuses[u]
              /\ Reasons'[u] = IF \E e \in Entries(ws) : e[1] = u
                               THEN (CHOOSE e \in Entries(ws) : e[1] = u)[2] ELSE Reasons[u]
  <2>1. CASE \A w \in ws : w.thread # u
    BY <1>9, <1>11, <2>1
  <2>2. CASE \E w \in ws : w.thread = u
    <3>1. PICK w \in ws : w.thread = u
      BY <2>2
    <3>2. (CHOOSE e \in Entries(ws) : e[1] = u) = <<u, w.lock>> /\ \E e \in Entries(ws) : e[1] = u
      BY <1>11, <3>1
    <3>3. (CHOOSE e \in Entries(ws) : e[1] = u)[2] = w.lock
      <4> DEFINE e0 == CHOOSE e \in Entries(ws) : e[1] = u
      <4>1. e0 = <<u, w.lock>>
        BY <3>2
      <4> HIDE DEF e0
      <4>2. e0[2] = w.lock
        BY <4>1
      <4> QED
        BY <4>2 DEF e0
    <3>4. Statuses'[u] = "lock" /\ Reasons'[u] = w.lock
      BY <1>10, <3>1
    <3> QED
      BY <3>2, <3>3, <3>4
  <2> QED
    BY <2>1, <2>2
<1>13. I!Notified(Entries(ws))
  BY <1>8, <1>12, SameIds DEF I!Notified, Statuses, Reasons
<1>14. SameIn("acquire") /\ SameIn("send") /\ SameIn("recv")
  BY <1>2, <1>3, <1>6 DEF SameIn
<1>15. UNCHANGED <<Acquirers, Senders, Receivers>>
  BY <1>14, QueuesSame
<1>16. ASSUME NEW c
       PROVE  In(Condvar(c))' = In(Condvar(c)) \ ws
  BY <1>2, <1>3, <1>6 DEF In, Condvar
<1>17. I!Reach(k.thread)
  BY <1>1, <1>2, PastGrows
<1>18. I!OnlySync
  BY <1>1, <1>8, <1>15 DEF I!OnlySync, I!chanVars, I!idVars
<1>19. ws = {} => UNCHANGED I!threadVars
  <2>1. ASSUME ws = {}
        PROVE  UNCHANGED <<Statuses, Reasons>>
    <3>1. \A u \in Ids : Statuses'[u] = Statuses[u] /\ Reasons'[u] = Reasons[u]
      BY <1>9, <2>1
    <3> QED
      BY <3>1 DEF Statuses, Reasons
  <2> QED
    BY <1>8, <2>1 DEF I!threadVars
<1> QED
  BY <1>1, <1>5, <1>13, <1>15, <1>16, <1>17, <1>18, <1>19

(* A queue gains the entry of the token put into its place, and loses that of
   the token taken out of it. *)
LEMMA AcquirersGain ==
  ASSUME NEW s \in Semaphores, NEW token, token.at = SemWait(s),
         \A p : p[1] # "control" => In(p)' = IF p = token.at THEN In(p) \union {token} ELSE In(p)
  PROVE  Acquirers' = [Acquirers EXCEPT ![s] = @ \union {<<token.thread, token.count>>}]
<1>1. ASSUME NEW q \in Semaphores
      PROVE  Acquirers'[q] = IF q = s THEN Acquirers[q] \union {<<token.thread, token.count>>}
                             ELSE Acquirers[q]
  <2>1. In(SemWait(q))' = IF q = s THEN In(SemWait(q)) \union {token} ELSE In(SemWait(q))
    BY DEF SemWait
  <2> QED
    BY <2>1 DEF Acquirers
<1> QED
  BY <1>1 DEF Acquirers

LEMMA WaitersGain ==
  ASSUME NEW c \in Condvars, NEW token, token.at = Condvar(c),
         \A p : p[1] # "control" => In(p)' = IF p = token.at THEN In(p) \union {token} ELSE In(p)
  PROVE  Waiters' = [Waiters EXCEPT ![c] = @ \union {<<token.thread, token.lock>>}]
<1>1. ASSUME NEW q \in Condvars
      PROVE  Waiters'[q] = IF q = c THEN Waiters[q] \union {<<token.thread, token.lock>>}
                           ELSE Waiters[q]
  <2>1. In(Condvar(q))' = IF q = c THEN In(Condvar(q)) \union {token} ELSE In(Condvar(q))
    BY DEF Condvar
  <2> QED
    BY <2>1 DEF Waiters
<1> QED
  BY <1>1 DEF Waiters

LEMMA AcquirersLose ==
  ASSUME NetInv, NEW k \in marking, NEW s \in Semaphores, k.at = SemWait(s),
         \A p : p[1] # "control" => In(p)' = In(p) \ {k}
  PROVE  Acquirers' = [Acquirers EXCEPT ![s] = I!Without(@, k.thread)]
<1>1. ASSUME NEW q \in Semaphores
      PROVE  Acquirers'[q] = IF q = s THEN I!Without(Acquirers[q], k.thread) ELSE Acquirers[q]
  <2>1. In(SemWait(q))' = In(SemWait(q)) \ {k}
    BY DEF SemWait
  <2>2. q # s => k \notin In(SemWait(q))
    BY DEF In, SemWait
  <2>3. CASE q # s
    BY <2>1, <2>2, <2>3 DEF Acquirers
  <2>4. CASE q = s
    <3>1. \A l \in In(SemWait(q)) : l.thread = k.thread <=> l = k
      BY DEF In, NetInv, OneToken
    <3>2. {<<l.thread, l.count>> : l \in In(SemWait(q)) \ {k}}
          = {e \in {<<l.thread, l.count>> : l \in In(SemWait(q))} : e[1] # k.thread}
      BY <3>1
    <3> QED
      BY <2>1, <2>4, <3>2 DEF Acquirers, I!Without
  <2> QED
    BY <2>3, <2>4
<1> QED
  BY <1>1 DEF Acquirers

LEMMA WaitersLose ==
  ASSUME NetInv, NEW c \in Condvars, NEW ws \in SUBSET In(Condvar(c)),
         \A d : In(Condvar(d))' = In(Condvar(d)) \ ws
  PROVE  Waiters' = [Waiters EXCEPT ![c] = @ \ Entries(ws)]
<1>1. ASSUME NEW q \in Condvars
      PROVE  Waiters'[q] = IF q = c THEN Waiters[q] \ Entries(ws) ELSE Waiters[q]
  <2>1. In(Condvar(q))' = In(Condvar(q)) \ ws
    OBVIOUS
  <2>2. q # c => In(Condvar(q)) \cap ws = {}
    BY DEF In, Condvar
  <2>3. CASE q # c
    BY <2>1, <2>2, <2>3 DEF Waiters
  <2>4. CASE q = c
    <3>1. \A l, w \in In(Condvar(q)) : l.thread = w.thread => l = w
      BY DEF In, NetInv, OneToken
    <3>2. {<<l.thread, l.lock>> : l \in In(Condvar(q)) \ ws}
          = {<<l.thread, l.lock>> : l \in In(Condvar(q))} \ {<<w.thread, w.lock>> : w \in ws}
      BY <2>4, <3>1
    <3> QED
      BY <2>1, <2>4, <3>2 DEF Waiters, Entries
  <2> QED
    BY <2>3, <2>4
<1> QED
  BY <1>1 DEF Waiters

LEMMA StandsAs ==
  ASSUME NetInv, NEW k \in marking, NEW op, Enables(k, op)
  PROVE  /\ I!Executes(k.thread, op) /\ I!Op(k.thread) = Statement(k) /\ k.at[1] = "control"
         /\ k.at[3] \in DOMAIN prog[k.at[2]] /\ \A e : I!Value(k.thread, e) = Value(k, e)
         /\ Statement(k) \in Operation /\ Statement(k).op = op
BY AtControl, Position, Enabled DEF Enables

(* A token that waits for a resource, and the reason its thread has *)
LEMMA WaitsFor ==
  ASSUME NetInv, NEW k \in marking, k.at[1] \in {"lock", "wait", "acquire", "send", "recv"}
  PROVE  /\ Statuses[k.thread] = k.at[1] /\ Reasons[k.thread] = k.at[2] /\ k.at = <<k.at[1], k.at[2]>>
         /\ k.at[1] = "lock" => k.at[2] \in Mutexes
         /\ k.at[1] = "wait" => k.at[2] \in Condvars
         /\ k.at[1] = "acquire" => k.at[2] \in Semaphores
         /\ k.at[1] \in {"send", "recv"} => k.at[2] \in Channels
<1>1. Statuses[k.thread] = k.at[1] /\ Reasons[k.thread] = k.at[2]
  BY TokensSay DEF Says
<1>2. k.at \in Place
  BY TokenFrame, TokenFields
<1> QED
  BY <1>1, <1>2 DEF Place, StatementPlace

LEMMA LockTold ==
  ASSUME NetInv, NetInv', NEW k \in marking, FireLock(k)
  PROVE  I!SyncStep(k.thread) \/ I!Resume(k.thread)
<1> DEFINE t == k.thread
           o == Statement(k)
<1>1. ASSUME MutexLockGrant(k)
      PROVE  I!MutexLock(t)
  <2>1. /\ Enables(k, "lock") /\ mutex[o.m] = None /\ mutex' = [mutex EXCEPT ![o.m] = t]
        /\ Moves(k, Falls(k), frames) /\ Reach(k) /\ UNCHANGED sem /\ OnlySync
    BY <1>1 DEF MutexLockGrant
  <2>2. I!Executes(t, "lock") /\ I!Op(t) = o
    BY <2>1, StandsAs
  <2>3. /\ frames' = I!Advance(frames, {t}) /\ I!Reach(t) /\ I!OnlySync
        /\ UNCHANGED I!threadVars /\ UNCHANGED <<Acquirers, Waiters>>
    BY <2>1, StandsAs, SyncFalls
  <2> HIDE DEF o
  <2> QED
    BY <2>1, <2>2, <2>3, SameIds DEF I!MutexLock, I!IsFree
<1>2. ASSUME MutexLockBlock(k)
      PROVE  I!MutexLock(t)
  <2> DEFINE token == [k EXCEPT !.at = LockWait(o.m)]
  <2>1. /\ Enables(k, "lock") /\ mutex[o.m] # None /\ Waits(k, token) /\ Reach(k)
        /\ UNCHANGED <<mutex, sem>> /\ OnlySync
    BY <1>2 DEF MutexLockBlock, WaitsAt
  <2>2. I!Executes(t, "lock") /\ I!Op(t) = o /\ k.at[1] = "control" /\ k.at[3] \in DOMAIN prog[k.at[2]]
    BY <2>1, StandsAs
  <2>3. token.thread = t /\ token.at = <<"lock", o.m>>
    <3>1. o.m \in Mutexes
      BY <2>1, StandsAs, OpFields
    <3>2. LockWait(o.m) \in {"lock"} \X Mutexes
      BY <3>1 DEF LockWait
    <3> QED
      BY <2>2, <3>2, ControlStands, TokenMoves DEF LockWait
  <2> HIDE DEF token
  <2>4. /\ I!Block(t, "lock", o.m) /\ frames' = frames /\ I!Reach(t) /\ I!OnlySync
        /\ UNCHANGED <<Acquirers, Waiters>>
    BY <2>1, <2>2, <2>3, SyncWaits
  <2> HIDE DEF o
  <2> QED
    BY <2>1, <2>2, <2>4, SameIds DEF I!MutexLock, I!IsFree
<1>3. ASSUME MutexUnlock(k)
      PROVE  I!MutexUnlock(t)
  <2>1. /\ Enables(k, "unlock") /\ mutex' = [mutex EXCEPT ![o.m] = None]
        /\ Moves(k, Falls(k), frames) /\ Reach(k) /\ UNCHANGED sem /\ OnlySync
    BY <1>3 DEF MutexUnlock
  <2>2. I!Executes(t, "unlock") /\ I!Op(t) = o
    BY <2>1, StandsAs
  <2>3. /\ frames' = I!Advance(frames, {t}) /\ I!Reach(t) /\ I!OnlySync
        /\ UNCHANGED I!threadVars /\ UNCHANGED <<Acquirers, Waiters>>
    BY <2>1, StandsAs, SyncFalls
  <2> HIDE DEF o
  <2> QED
    BY <2>1, <2>2, <2>3, SameIds DEF I!MutexUnlock
<1>4. ASSUME LockWaitAcquire(k)
      PROVE  I!ResumeLock(t)
  <2>1. /\ k.at[1] = "lock" /\ mutex[k.at[2]] = None /\ mutex' = [mutex EXCEPT ![k.at[2]] = t]
        /\ Resumes(k, frames) /\ UNCHANGED sem /\ OnlySync
    BY <1>4 DEF LockWaitAcquire
  <2>2. Statuses[t] = "lock" /\ Reasons[t] = k.at[2]
    BY <2>1, WaitsFor
  <2>3. /\ I!Wake({t}) /\ frames' = I!Advance(frames, {t}) /\ Past' = Past /\ I!OnlySync
        /\ Acquirers' = Acquirers /\ Waiters' = Waiters
    BY <2>1, SyncResumes
  <2> QED
    BY <2>1, <2>2, <2>3, SameIds DEF I!ResumeLock, I!IsFree
<1>5. ASSUME CondvarWait(k)
      PROVE  I!CondvarWait(t)
  <2> DEFINE token == [at |-> Condvar(o.cv), thread |-> k.thread, frame |-> k.frame, lock |-> o.m]
  <2>1. /\ Enables(k, "wait") /\ mutex' = [mutex EXCEPT ![o.m] = None] /\ Waits(k, token) /\ Reach(k)
        /\ UNCHANGED sem /\ OnlySync
    BY <1>5 DEF CondvarWait
  <2>2. I!Executes(t, "wait") /\ I!Op(t) = o /\ k.at[1] = "control" /\ k.at[3] \in DOMAIN prog[k.at[2]]
    BY <2>1, StandsAs
  <2>3. token.thread = t /\ token.at = Condvar(o.cv) /\ token.lock = o.m /\ o.cv \in Condvars
    BY <2>1, StandsAs, OpFields
  <2> HIDE DEF token
  <2>4. token.at[1] = "wait" /\ token.at[2] = o.cv
    BY <2>3 DEF Condvar
  <2>5. /\ I!Block(t, "wait", o.cv) /\ frames' = frames /\ I!Reach(t) /\ I!OnlySync
        /\ Acquirers' = Acquirers
        /\ \A p : p[1] # "control" => In(p)' = IF p = token.at THEN In(p) \union {token} ELSE In(p)
    BY <2>1, <2>2, <2>3, <2>4, SyncWaits
  <2>6. Waiters' = [Waiters EXCEPT ![o.cv] = @ \union {<<t, o.m>>}]
    BY <2>3, <2>5, WaitersGain
  <2> HIDE DEF o
  <2> QED
    BY <2>1, <2>2, <2>5, <2>6, SameIds DEF I!CondvarWait
<1>6. ASSUME CondvarNotifyHit(k) \/ CondvarNotifyMiss(k)
      PROVE  I!CondvarNotify(t)
  <2>1. Enables(k, "notify")
    BY <1>6 DEF CondvarNotifyHit, CondvarNotifyMiss
  <2>2. /\ I!Executes(t, "notify") /\ I!Op(t) = o /\ k.at[1] = "control" /\ k.at[3] \in DOMAIN prog[k.at[2]]
        /\ o.cv \in Condvars
    BY <2>1, StandsAs, OpFields
  <2> DEFINE q == In(Condvar(o.cv))
  <2>3. q \in SUBSET marking /\ \A w \in q : w.at[1] = "wait"
    BY DEF In, Condvar
  <2>4. ASSUME NEW ws \in SUBSET q, Notifies(k, ws)
        PROVE  /\ I!Notified(Entries(ws)) /\ frames' = I!Advance(frames, {t})
               /\ I!Reach(t) /\ I!OnlySync /\ UNCHANGED <<mutex, sem, Acquirers>>
               /\ Waiters' = [Waiters EXCEPT ![o.cv] = @ \ Entries(ws)]
               /\ ws = {} => UNCHANGED I!threadVars
    <3> HIDE DEF q
    <3>1. ws \in SUBSET marking /\ \A w \in ws : w.at[1] = "wait"
      BY <2>3
    <3>2. /\ I!Notified(Entries(ws)) /\ frames' = I!Advance(frames, {t})
          /\ I!Reach(t) /\ I!OnlySync /\ UNCHANGED <<mutex, sem, Acquirers>>
          /\ \A c : In(Condvar(c))' = In(Condvar(c)) \ ws
          /\ ws = {} => UNCHANGED I!threadVars
      BY <2>2, <2>4, <3>1, NotifiesTold
    <3>3. Waiters' = [Waiters EXCEPT ![o.cv] = @ \ Entries(ws)]
      BY <2>2, <3>2, WaitersLose DEF q
    <3> QED
      BY <3>2, <3>3
  <2>5. CASE CondvarNotifyMiss(k)
    <3>1. q = {} /\ Notifies(k, {})
      BY <2>5 DEF CondvarNotifyMiss
    <3>2. Waiters[o.cv] = {}
      BY <2>2, <3>1 DEF Waiters
    <3>3. {} \in SUBSET q /\ Entries({}) = {}
      BY DEF Entries
    <3>4. Waiters' = Waiters
      BY <2>4, <3>1, <3>3 DEF Waiters
    <3> HIDE DEF o, q
    <3> QED
      BY <2>2, <2>4, <3>1, <3>2, <3>3, <3>4 DEF I!CondvarNotify
  <2>6. CASE CondvarNotifyHit(k)
    <3>1. PICK w \in q : Notifies(k, {w})
      BY <2>6 DEF CondvarNotifyHit
    <3> DEFINE e == <<w.thread, w.lock>>
    <3>2. Entries({w}) = {e} /\ {w} \in SUBSET q
      BY DEF Entries
    <3>3. e \in Waiters[o.cv]
      BY <2>2 DEF Waiters
    <3>4. /\ I!Notified({e}) /\ frames' = I!Advance(frames, {t})
          /\ I!Reach(t) /\ I!OnlySync /\ UNCHANGED <<mutex, sem, Acquirers>>
          /\ Waiters' = [Waiters EXCEPT ![o.cv] = @ \ {e}]
      BY <2>4, <3>1, <3>2
    <3> HIDE DEF e, o, q
    <3> QED
      BY <2>2, <3>3, <3>4 DEF I!CondvarNotify
  <2> QED
    BY <1>6, <2>5, <2>6
<1>7. ASSUME CondvarNotifyAll(k)
      PROVE  I!CondvarNotifyAll(t)
  <2> DEFINE q == In(Condvar(o.cv))
  <2>1. Enables(k, "notify_all") /\ Notifies(k, q)
    BY <1>7 DEF CondvarNotifyAll
  <2>2. /\ I!Executes(t, "notify_all") /\ I!Op(t) = o /\ k.at[1] = "control"
        /\ k.at[3] \in DOMAIN prog[k.at[2]] /\ o.cv \in Condvars
    BY <2>1, StandsAs, OpFields
  <2>3. q \in SUBSET marking /\ (\A w \in q : w.at[1] = "wait") /\ Entries(q) = Waiters[o.cv]
    BY <2>2 DEF In, Condvar, Waiters, Entries
  <2>4. /\ I!Notified(Entries(q)) /\ frames' = I!Advance(frames, {t})
        /\ I!Reach(t) /\ I!OnlySync /\ UNCHANGED <<mutex, sem, Acquirers>>
        /\ \A c : In(Condvar(c))' = In(Condvar(c)) \ q
    BY <2>1, <2>2, <2>3, NotifiesTold
  <2>5. Waiters' = [Waiters EXCEPT ![o.cv] = @ \ Entries(q)]
    BY <2>2, <2>4, WaitersLose
  <2>6. Waiters' = [Waiters EXCEPT ![o.cv] = {}]
    BY <2>2, <2>3, <2>5 DEF Waiters
  <2> HIDE DEF q, o
  <2> QED
    BY <2>2, <2>3, <2>4, <2>6 DEF I!CondvarNotifyAll
<1> QED
  BY <1>1, <1>2, <1>3, <1>4, <1>5, <1>6, <1>7 DEF FireLock, I!SyncStep, I!Resume

LEMMA SemaphoreTold ==
  ASSUME NetInv, NetInv', I!Sound, NEW k \in marking, FireSemaphore(k)
  PROVE  I!SyncStep(k.thread) \/ I!Resume(k.thread)
<1> DEFINE t == k.thread
           o == Statement(k)
<1>1. ASSUME SemAcquire(k)
      PROVE  I!SemaphoreAcquire(t)
  <2>1. /\ Enables(k, "acquire") /\ sem[o.s] >= o.n /\ sem' = [sem EXCEPT ![o.s] = @ - o.n]
        /\ Moves(k, Falls(k), frames) /\ Reach(k) /\ UNCHANGED mutex /\ OnlySync
    BY <1>1 DEF SemAcquire
  <2>2. I!Executes(t, "acquire") /\ I!Op(t) = o
    BY <2>1, StandsAs
  <2>3. /\ frames' = I!Advance(frames, {t}) /\ I!Reach(t) /\ I!OnlySync
        /\ UNCHANGED I!threadVars /\ UNCHANGED <<Acquirers, Waiters>>
    BY <2>1, StandsAs, SyncFalls
  <2> HIDE DEF o
  <2> QED
    BY <2>1, <2>2, <2>3 DEF I!SemaphoreAcquire, I!HasPermits
<1>2. ASSUME SemAcquireBlock(k)
      PROVE  I!SemaphoreAcquire(t)
  <2> DEFINE token == [at |-> SemWait(o.s), thread |-> k.thread, frame |-> k.frame, count |-> o.n]
  <2>1. /\ Enables(k, "acquire") /\ sem[o.s] < o.n /\ Waits(k, token) /\ Reach(k)
        /\ UNCHANGED <<mutex, sem>> /\ OnlySync
    BY <1>2 DEF SemAcquireBlock
  <2>2. /\ I!Executes(t, "acquire") /\ I!Op(t) = o /\ k.at[1] = "control" /\ k.at[3] \in DOMAIN prog[k.at[2]]
        /\ o.s \in Semaphores /\ o.n \in Int
    BY <2>1, StandsAs, OpFields
  <2>3. token.thread = t /\ token.at = SemWait(o.s) /\ token.count = o.n
    OBVIOUS
  <2> HIDE DEF token
  <2>4. token.at[1] = "acquire" /\ token.at[2] = o.s
    BY <2>3 DEF SemWait
  <2>5. /\ I!Block(t, "acquire", o.s) /\ frames' = frames /\ I!Reach(t) /\ I!OnlySync
        /\ Waiters' = Waiters
        /\ \A p : p[1] # "control" => In(p)' = IF p = token.at THEN In(p) \union {token} ELSE In(p)
    BY <2>1, <2>2, <2>3, <2>4, SyncWaits
  <2>6. Acquirers' = [Acquirers EXCEPT ![o.s] = @ \union {<<t, o.n>>}]
    BY <2>2, <2>3, <2>5, AcquirersGain
  <2>7. sem[o.s] \in Int
    BY <2>2 DEF I!Sound, I!IInv, I!TypeOK
  <2>8. ~(sem[o.s] >= o.n)
    BY <2>1, <2>2, <2>7
  <2> HIDE DEF o
  <2> QED
    BY <2>1, <2>2, <2>5, <2>6, <2>8 DEF I!SemaphoreAcquire, I!HasPermits
<1>3. ASSUME SemRelease(k)
      PROVE  I!SemaphoreRelease(t)
  <2>1. /\ Enables(k, "release") /\ sem' = [sem EXCEPT ![o.s] = @ + o.n]
        /\ Moves(k, Falls(k), frames) /\ Reach(k) /\ UNCHANGED mutex /\ OnlySync
    BY <1>3 DEF SemRelease
  <2>2. I!Executes(t, "release") /\ I!Op(t) = o
    BY <2>1, StandsAs
  <2>3. /\ frames' = I!Advance(frames, {t}) /\ I!Reach(t) /\ I!OnlySync
        /\ UNCHANGED I!threadVars /\ UNCHANGED <<Acquirers, Waiters>>
    BY <2>1, StandsAs, SyncFalls
  <2> HIDE DEF o
  <2> QED
    BY <2>1, <2>2, <2>3 DEF I!SemaphoreRelease
<1>4. ASSUME SemGrant(k)
      PROVE  I!ResumeSemaphore(t)
  <2> DEFINE s == k.at[2]
             n == k.count
  <2>1. /\ k.at[1] = "acquire" /\ sem[s] >= n /\ sem' = [sem EXCEPT ![s] = @ - n]
        /\ Resumes(k, frames) /\ UNCHANGED mutex /\ OnlySync
    BY <1>4 DEF SemGrant
  <2>2. Statuses[t] = "acquire" /\ Reasons[t] = s /\ s \in Semaphores /\ k.at = SemWait(s)
    BY <2>1, WaitsFor DEF SemWait
  <2>3. /\ I!Wake({t}) /\ frames' = I!Advance(frames, {t}) /\ Past' = Past /\ I!OnlySync
        /\ Waiters' = Waiters /\ \A p : p[1] # "control" => In(p)' = In(p) \ {k}
    BY <2>1, SyncResumes
  <2>4. Acquirers' = [Acquirers EXCEPT ![s] = I!Without(@, t)]
    BY <2>2, <2>3, AcquirersLose
  <2>5. <<t, n>> \in Acquirers[s]
    BY <2>2 DEF Acquirers, In
  <2>6. n \in {w[2] : w \in {w \in Acquirers[s] : w[1] = t}}
    <3>1. <<t, n>> \in {w \in Acquirers[s] : w[1] = t} /\ <<t, n>>[2] = n
      BY <2>5
    <3> QED
      BY <3>1
  <2> HIDE DEF s, n
  <2> QED
    BY <2>1, <2>2, <2>3, <2>4, <2>6 DEF I!ResumeSemaphore, I!HasPermits
<1> QED
  BY <1>1, <1>2, <1>3, <1>4 DEF FireSemaphore, I!SyncStep, I!Resume

-----------------------------------------------------------------------------
(* Channels *)

LEMMA SendersGain ==
  ASSUME NEW c \in Channels, NEW token, token.at = ChannelSend(c),
         \A p : p[1] # "control" => In(p)' = IF p = token.at THEN In(p) \union {token} ELSE In(p)
  PROVE  Senders' = [Senders EXCEPT ![c] = @ \union {<<token.thread, token.value>>}]
<1>1. ASSUME NEW q \in Channels
      PROVE  Senders'[q] = IF q = c THEN Senders[q] \union {<<token.thread, token.value>>}
                           ELSE Senders[q]
  <2>1. In(ChannelSend(q))' = IF q = c THEN In(ChannelSend(q)) \union {token} ELSE In(ChannelSend(q))
    BY DEF ChannelSend
  <2> QED
    BY <2>1 DEF Senders
<1> QED
  BY <1>1 DEF Senders

LEMMA ReceiversGain ==
  ASSUME NEW c \in Channels, NEW token, token.at = ChannelRecv(c),
         \A p : p[1] # "control" => In(p)' = IF p = token.at THEN In(p) \union {token} ELSE In(p)
  PROVE  Receivers' = [Receivers EXCEPT ![c] = @ \union {token.thread}]
<1>1. ASSUME NEW q \in Channels
      PROVE  Receivers'[q] = IF q = c THEN Receivers[q] \union {token.thread} ELSE Receivers[q]
  <2>1. In(ChannelRecv(q))' = IF q = c THEN In(ChannelRecv(q)) \union {token} ELSE In(ChannelRecv(q))
    BY DEF ChannelRecv
  <2> QED
    BY <2>1 DEF Receivers, Threads
<1> QED
  BY <1>1 DEF Receivers

LEMMA SendersLose ==
  ASSUME NetInv, NEW w \in marking, NEW c \in Channels, w.at = ChannelSend(c),
         \A p : p[1] # "control" => In(p)' = In(p) \ {w}
  PROVE  Senders' = [Senders EXCEPT ![c] = I!Without(@, w.thread)]
<1>1. ASSUME NEW q \in Channels
      PROVE  Senders'[q] = IF q = c THEN I!Without(Senders[q], w.thread) ELSE Senders[q]
  <2>1. In(ChannelSend(q))' = In(ChannelSend(q)) \ {w}
    BY DEF ChannelSend
  <2>2. q # c => w \notin In(ChannelSend(q))
    BY DEF In, ChannelSend
  <2>3. CASE q # c
    BY <2>1, <2>2, <2>3 DEF Senders
  <2>4. CASE q = c
    <3>1. \A l \in In(ChannelSend(q)) : l.thread = w.thread <=> l = w
      BY DEF In, NetInv, OneToken
    <3>2. {<<l.thread, l.value>> : l \in In(ChannelSend(q)) \ {w}}
          = {e \in {<<l.thread, l.value>> : l \in In(ChannelSend(q))} : e[1] # w.thread}
      BY <3>1
    <3> QED
      BY <2>1, <2>4, <3>2 DEF Senders, I!Without
  <2> QED
    BY <2>3, <2>4
<1> QED
  BY <1>1 DEF Senders

LEMMA ReceiversLose ==
  ASSUME NetInv, NEW w \in marking, NEW c \in Channels, w.at = ChannelRecv(c),
         \A p : p[1] # "control" => In(p)' = In(p) \ {w}
  PROVE  Receivers' = [Receivers EXCEPT ![c] = @ \ {w.thread}]
<1>1. ASSUME NEW q \in Channels
      PROVE  Receivers'[q] = IF q = c THEN Receivers[q] \ {w.thread} ELSE Receivers[q]
  <2>1. In(ChannelRecv(q))' = In(ChannelRecv(q)) \ {w}
    BY DEF ChannelRecv
  <2>2. q # c => w \notin In(ChannelRecv(q))
    BY DEF In, ChannelRecv
  <2>3. CASE q # c
    BY <2>1, <2>2, <2>3 DEF Receivers
  <2>4. CASE q = c
    <3>1. \A l \in In(ChannelRecv(q)) : l.thread = w.thread <=> l = w
      BY DEF In, NetInv, OneToken
    <3>2. {l.thread : l \in In(ChannelRecv(q)) \ {w}} = {l.thread : l \in In(ChannelRecv(q))} \ {w.thread}
      BY <3>1
    <3> QED
      BY <2>1, <2>4, <3>2 DEF Receivers, Threads
  <2> QED
    BY <2>3, <2>4
<1> QED
  BY <1>1 DEF Receivers

LEMMA ChannelWaits ==
  ASSUME NetInv, NetInv', NEW k \in marking, k.at[1] = "control",
         k.at[3] \in DOMAIN prog[k.at[2]], NEW token, token.thread = k.thread,
         token.at[1] \in {"send", "recv"}, Waits(k, token), Reach(k), OnlyChannels
  PROVE  /\ I!Block(k.thread, token.at[1], token.at[2]) /\ frames' = frames
         /\ I!Reach(k.thread) /\ I!OnlyChannels
         /\ \A p : p[1] # "control" => In(p)' = IF p = token.at THEN In(p) \union {token} ELSE In(p)
         /\ token.at[1] # "send" => Senders' = Senders
         /\ token.at[1] # "recv" => Receivers' = Receivers
<1>1. UNCHANGED <<prog, mutex, sem, scopes, finished, completed, scopesDone, alloc>>
  BY DEF OnlyChannels, storeVars
<1>2. /\ marking' = (marking \ {k}) \union {token} /\ frames' = frames
  BY DEF Waits
<1>3. I!Block(k.thread, token.at[1], token.at[2]) /\ UNCHANGED ScopesOpen
  BY <1>1, WaitTold DEF Reason
<1>4. I!Reach(k.thread)
  BY <1>1, PastGrows
<1>5. \A K : K \notin {"control", token.at[1]} => SameIn(K)
  BY <1>2 DEF SameIn
<1>6. ASSUME NEW p, p[1] # "control"
      PROVE  In(p)' = IF p = token.at THEN In(p) \union {token} ELSE In(p)
  BY <1>2, <1>6 DEF In
<1>7. Acquirers' = Acquirers /\ Waiters' = Waiters
  BY <1>5, QueuesSame
<1>8. /\ token.at[1] # "send" => Senders' = Senders
      /\ token.at[1] # "recv" => Receivers' = Receivers
  BY <1>5, QueuesSame
<1>9. I!OnlyChannels
  BY <1>1, <1>3, <1>7 DEF I!OnlyChannels, I!syncVars, I!idVars
<1> QED
  BY <1>2, <1>3, <1>4, <1>6, <1>8, <1>9

LEMMA ChannelResumes ==
  ASSUME NetInv, NetInv', NEW k \in marking, k.at[1] \in {"send", "recv"},
         NEW frs, frs[k.frame].pc = frames[k.frame].pc,
         \A f \in Ids : f # k.frame => frs[f] = frames[f],
         Resumes(k, frs), OnlyChannels
  PROVE  /\ I!Wake({k.thread}) /\ frames' = I!Advance(frs, {k.thread})
         /\ Past' = Past /\ I!OnlyChannels
         /\ \A p : p[1] # "control" => In(p)' = In(p) \ {k}
         /\ k.at[1] # "send" => Senders' = Senders
         /\ k.at[1] # "recv" => Receivers' = Receivers
<1>1. UNCHANGED <<prog, mutex, sem, scopes, finished, completed, scopesDone, alloc>>
  BY DEF OnlyChannels, storeVars
<1>2. /\ marking' = (marking \ {k}) \union {Wakes(k)} /\ frames' = Placed(frs, {Wakes(k)})
      /\ threads' = Unblocked(threads, {k.thread}) /\ reached' = reached
  BY DEF Resumes
<1>3. /\ Wakes(k).at[1] = "control" /\ Wakes(k).thread = k.thread /\ Wakes(k).frame = k.frame
      /\ Wakes(k).at[3] = frs[k.frame].pc + 1
  BY DEF Wakes, ControlToken, Control, FrameOfToken
<1>4. \A f \in Ids : f # k.frame => frames'[f] = frames[f]
  BY <1>2, <1>3 DEF Placed
<1>5. frames' = I!Advance(frs, {k.thread})
  BY <1>2, <1>3, PlacedAdvances
<1>6. I!Wake({k.thread}) /\ UNCHANGED ScopesOpen
  <2> DEFINE ws == {k}  new == {Wakes(k)}  ts == {k.thread}
  <2>1. ws \in SUBSET marking /\ ts \in SUBSET Ids
    BY TokenFrame
  <2>2. /\ \A n \in new : n.at[1] = "control"
        /\ \A w \in ws : \E n \in new : n.thread = w.thread
        /\ \A w \in ws : w.at[1] = "control" \/ w.thread \in ts
        /\ \A t \in ts : \E w \in ws : w.thread = t
        /\ \A f \in Ids : (\A w \in ws : w.frame # f) => frames'[f].handles = frames[f].handles
    BY <1>3, <1>4
  <2>3. marking' = (marking \ ws) \union new /\ threads' = Unblocked(threads, ts)
    BY <1>2
  <2> HIDE DEF ws, new, ts
  <2>4. I!Wake(ts) /\ UNCHANGED ScopesOpen
    BY <1>1, <2>1, <2>2, <2>3, WakeTold
  <2> QED
    BY <2>4 DEF ts
<1>7. \A K : K \notin {"control", k.at[1]} => SameIn(K)
  BY <1>2, <1>3 DEF SameIn
<1>8. ASSUME NEW p, p[1] # "control"
      PROVE  In(p)' = In(p) \ {k}
  BY <1>2, <1>3, <1>8 DEF In
<1>9. /\ Acquirers' = Acquirers /\ Waiters' = Waiters
      /\ k.at[1] # "send" => Senders' = Senders
      /\ k.at[1] # "recv" => Receivers' = Receivers
  BY <1>7, QueuesSame
<1>10. I!OnlyChannels
  BY <1>1, <1>6, <1>9 DEF I!OnlyChannels, I!syncVars, I!idVars
<1> QED
  BY <1>1, <1>2, <1>5, <1>6, <1>8, <1>9, <1>10, PastSame

LEMMA ChannelFalls ==
  ASSUME NetInv, NetInv', NEW k \in marking, k.at[1] = "control",
         k.at[3] \in DOMAIN prog[k.at[2]],
         NEW frs, frs[k.frame].pc = frames[k.frame].pc,
         \A f \in Ids : f # k.frame => frs[f] = frames[f],
         Moves(k, Falls(k), frs), Reach(k), OnlyChannels
  PROVE  /\ frames' = I!Advance(frs, {k.thread}) /\ I!Reach(k.thread) /\ I!OnlyChannels
         /\ UNCHANGED I!threadVars /\ UNCHANGED <<Senders, Receivers>>
<1>1. UNCHANGED <<prog, mutex, sem, scopes, finished, completed, scopesDone, alloc>>
  BY DEF OnlyChannels, storeVars
<1>2. frames' = I!Advance(frs, {k.thread}) /\ UNCHANGED Threads0 /\ UNCHANGED Queues0
  BY <1>1, FallTold
<1>3. I!Reach(k.thread)
  BY <1>1, PastGrows
<1> QED
  BY <1>1, <1>2, <1>3 DEF I!OnlyChannels, I!threadVars, I!syncVars, I!idVars, Threads0, Queues0

(* Both ends of a rendezvous advance: the one with control and the one woken;
   `to` is the token of the receiver, `from` that of the sender. *)
LEMMA PairsTold ==
  ASSUME NetInv, NetInv', NEW k \in marking, k.at[1] = "control",
         k.at[3] \in DOMAIN prog[k.at[2]], NEW w \in marking, w.at[1] \in {"send", "recv"},
         NEW to, NEW from, \/ to = k /\ from = w
                           \/ to = w /\ from = k,
         NEW v, Pairs(k, w, to.frame, v)
  PROVE  /\ I!Deliver(to.thread, v, from.thread) /\ I!Wake({w.thread})
         /\ I!Reach(k.thread) /\ I!OnlyChannels /\ UNCHANGED buf
         /\ \A p : p[1] # "control" => In(p)' = In(p) \ {w}
         /\ w.at[1] # "send" => Senders' = Senders
         /\ w.at[1] # "recv" => Receivers' = Receivers
<1> DEFINE f == to.frame
           dst == StandsAt(frames[f]).dst
           frs == Put(frames, f, dst, v)
           a == Falls(k)
           b == Wakes(w)
<1>1. /\ Accepts(f, dst, v) /\ marking' = (marking \ {k, w}) \union {a, b}
      /\ frames' = Placed(frs, {a, b}) /\ data' = PutData(dst, v)
      /\ threads' = Unblocked(threads, {w.thread}) /\ Reach(k)
      /\ UNCHANGED <<buf, prog, mutex, sem, scopes, finished, completed, scopesDone, alloc>>
  BY DEF Pairs, OnlyChannels, storeVars
<1>2. /\ to \in marking /\ from \in marking /\ k # w /\ k.frame # w.frame /\ k.thread # w.thread
      /\ f \in Ids /\ frames[f] # NoFrame
  <2>1. to \in marking /\ from \in marking /\ k # w
    OBVIOUS
  <2> QED
    BY <2>1, OtherTokens, TokenFrame
<1>3. /\ a.at[1] = "control" /\ a.thread = k.thread /\ a.frame = k.frame
      /\ a.at[3] = frames[k.frame].pc + 1
  BY ControlStands, FallPlaced
<1>4. /\ b.at[1] = "control" /\ b.thread = w.thread /\ b.frame = w.frame
      /\ b.at[3] = frames[w.frame].pc + 1
  BY DEF Wakes, ControlToken, Control, FrameOfToken
<1>5. /\ frs[f].pc = frames[f].pc /\ \A g \in Ids : g # f => frs[g] = frames[g]
      /\ \A g \in Ids : frs[g].handles = frames[g].handles
  BY <1>1, <1>2, PutStays
<1>6. k.frame \in Ids /\ w.frame \in Ids /\ k.thread \in Ids /\ w.thread \in Ids
  BY TokenFrame
<1>7. frs[k.frame].pc = frames[k.frame].pc /\ frs[w.frame].pc = frames[w.frame].pc
  BY <1>2, <1>5, <1>6
<1>8. I!Top(k.thread) = k.frame /\ I!Top(w.thread) = w.frame /\ I!Top(to.thread) = f
      /\ I!Op(to.thread) = StandsAt(frames[f])
  BY <1>2, Position
<1>9. {to.thread, from.thread} = {k.thread, w.thread}
  OBVIOUS
<1> HIDE DEF frs, a, b
<1>10. ASSUME NEW g \in Ids
       PROVE  Placed(frs, {a, b})[g] = I!Advance(frs, {k.thread, w.thread})[g]
  <2>1. CASE g = k.frame
    <3>1. (CHOOSE l \in {a, b} : l.frame = g) = a
      BY <1>2, <1>3, <1>4, <2>1
    <3> QED
      BY <1>3, <1>7, <1>8, <2>1, <3>1, SameIds DEF Placed, I!Advance
  <2>2. CASE g = w.frame
    <3>1. (CHOOSE l \in {a, b} : l.frame = g) = b
      BY <1>2, <1>3, <1>4, <2>2
    <3> QED
      BY <1>4, <1>7, <1>8, <2>2, <3>1, SameIds DEF Placed, I!Advance
  <2>3. CASE g # k.frame /\ g # w.frame
    BY <1>3, <1>4, <1>8, <2>3, SameIds DEF Placed, I!Advance
  <2> QED
    BY <2>1, <2>2, <2>3
<1>11. frames' = I!Advance(frs, {to.thread, from.thread})
  <2>1. Placed(frs, {a, b}) = I!Advance(frs, {k.thread, w.thread})
    BY <1>10, SameIds DEF Placed, I!Advance
  <2> QED
    BY <1>1, <1>9, <2>1
<1>12. I!Deliver(to.thread, v, from.thread)
  <2>1. I!Accepts(to.thread, dst, v)
    BY <1>1, <1>2, SameAccepts
  <2>2. frames' = I!Advance(I!Put(frames, f, dst, v), {to.thread, from.thread})
    BY <1>11, SamePut DEF frs
  <2>3. data' = I!PutShared(dst, v)
    BY <1>1, SamePut
  <2> QED
    BY <1>8, <2>1, <2>2, <2>3 DEF I!Deliver
<1>13. I!Wake({w.thread}) /\ UNCHANGED ScopesOpen
  <2> DEFINE ws == {k, w}  new == {a, b}  ts == {w.thread}
  <2>1. ws \in SUBSET marking /\ ts \in SUBSET Ids
    BY <1>6
  <2>2. /\ \A n \in new : n.at[1] = "control"
        /\ \A x \in ws : \E n \in new : n.thread = x.thread
        /\ \A x \in ws : x.at[1] = "control" \/ x.thread \in ts
        /\ \A t \in ts : \E x \in ws : x.thread = t
    BY <1>3, <1>4
  <2>3. ASSUME NEW g \in Ids, \A x \in ws : x.frame # g
        PROVE  frames'[g].handles = frames[g].handles
    <3>1. frames'[g] = frs[g]
      BY <1>1, <1>3, <1>4, <2>3 DEF Placed
    <3> QED
      BY <1>5, <3>1
  <2>4. marking' = (marking \ ws) \union new /\ threads' = Unblocked(threads, ts)
    BY <1>1
  <2> HIDE DEF ws, new, ts
  <2>5. I!Wake(ts) /\ UNCHANGED ScopesOpen
    BY <1>1, <2>1, <2>2, <2>3, <2>4, WakeTold
  <2> QED
    BY <2>5 DEF ts
<1>14. \A K : K \notin {"control", w.at[1]} => SameIn(K)
  BY <1>1, <1>3, <1>4 DEF SameIn
<1>15. ASSUME NEW p, p[1] # "control"
       PROVE  In(p)' = In(p) \ {w}
  BY <1>1, <1>3, <1>4, <1>15 DEF In
<1>16. /\ Acquirers' = Acquirers /\ Waiters' = Waiters
       /\ w.at[1] # "send" => Senders' = Senders
       /\ w.at[1] # "recv" => Receivers' = Receivers
  BY <1>14, QueuesSame
<1>17. I!OnlyChannels
  BY <1>1, <1>13, <1>16 DEF I!OnlyChannels, I!syncVars, I!idVars
<1>18. I!Reach(k.thread)
  BY <1>1, PastGrows
<1> QED
  BY <1>1, <1>12, <1>13, <1>15, <1>16, <1>17, <1>18

LEMMA ChannelTold ==
  ASSUME NetInv, NetInv', NEW k \in marking, FireChannel(k)
  PROVE  I!ChannelStep(k.thread) \/ I!Resume(k.thread)
<1> DEFINE t == k.thread
           o == Statement(k)
           c == o.c
           v == Value(k, o.e)
<1>1. ASSUME Sends(k)
      PROVE  /\ I!Executes(t, "send") /\ I!Op(t) = o /\ k.at[1] = "control"
             /\ k.at[3] \in DOMAIN prog[k.at[2]] /\ I!Value(t, o.e) = v /\ v \in ChannelType[c]
             /\ c \in Channels
  BY <1>1, StandsAs, OpFields DEF Sends
<1>2. ASSUME Enables(k, "recv")
      PROVE  /\ I!Executes(t, "recv") /\ I!Op(t) = o /\ k.at[1] = "control"
             /\ k.at[3] \in DOMAIN prog[k.at[2]] /\ c \in Channels
  BY <1>2, StandsAs, OpFields
<1>3. /\ Capacity \in [Channels -> Nat] /\ \A d \in Channels : Len(buf[d]) \in Nat
  BY DeclarationsAssumption DEF NetInv, NetTypes
<1>4. ASSUME NEW d \in Channels
      PROVE  /\ Receivers[d] = {} <=> In(ChannelRecv(d)) = {}
             /\ Senders[d] = {} <=> In(ChannelSend(d)) = {}
  BY DEF Receivers, Senders, Threads
<1>5. ASSUME Sends(k), Waits(k, SendToken(k)), Reach(k), UNCHANGED <<data, buf>>, OnlyChannels
      PROVE  /\ I!SendBlocks(t, c, v) /\ I!Reach(t) /\ I!OnlyChannels
  <2> DEFINE token == SendToken(k)
  <2>1. token.thread = t /\ token.value = v /\ token.at = ChannelSend(c)
    BY DEF SendToken
  <2> HIDE DEF token
  <2>2. token.at[1] = "send" /\ token.at[2] = c
    BY <2>1 DEF ChannelSend
  <2>3. /\ I!Block(t, "send", c) /\ frames' = frames /\ I!Reach(t) /\ I!OnlyChannels
        /\ Receivers' = Receivers
        /\ \A p : p[1] # "control" => In(p)' = IF p = token.at THEN In(p) \union {token} ELSE In(p)
    BY <1>1, <1>5, <2>1, <2>2, ChannelWaits DEF token
  <2>4. Senders' = [Senders EXCEPT ![c] = @ \union {<<t, v>>}]
    BY <1>1, <1>5, <2>1, <2>3, SendersGain
  <2> HIDE DEF c, v
  <2> QED
    BY <1>5, <2>3, <2>4 DEF I!SendBlocks
<1>6. ASSUME Enables(k, "recv"), WaitsAt(k, ChannelRecv(c)), Reach(k), UNCHANGED <<data, buf>>,
             OnlyChannels
      PROVE  /\ I!RecvBlocks(t, c) /\ I!Reach(t) /\ I!OnlyChannels
  <2> DEFINE token == [k EXCEPT !.at = ChannelRecv(c)]
  <2>1. token.thread = t /\ token.at = ChannelRecv(c)
    <3>1. ChannelRecv(c) \in {"recv"} \X Channels
      BY <1>2, <1>6 DEF ChannelRecv
    <3> QED
      BY <1>2, <1>6, <3>1, ControlStands, TokenMoves
  <2>2. Waits(k, token)
    BY <1>6 DEF WaitsAt
  <2> HIDE DEF token
  <2>3. token.at[1] = "recv" /\ token.at[2] = c
    BY <2>1 DEF ChannelRecv
  <2>4. /\ I!Block(t, "recv", c) /\ frames' = frames /\ I!Reach(t) /\ I!OnlyChannels
        /\ Senders' = Senders
        /\ \A p : p[1] # "control" => In(p)' = IF p = token.at THEN In(p) \union {token} ELSE In(p)
    BY <1>2, <1>6, <2>1, <2>2, <2>3, ChannelWaits
  <2>5. Receivers' = [Receivers EXCEPT ![c] = @ \union {t}]
    BY <1>2, <1>6, <2>1, <2>4, ReceiversGain
  <2> HIDE DEF c
  <2> QED
    BY <1>6, <2>4, <2>5 DEF I!RecvBlocks
<1>7. ASSUME SendRegister(k)
      PROVE  I!ChannelSend(t)
  <2>1. /\ Sends(k) /\ Capacity[c] = 0 /\ In(ChannelRecv(c)) = {} /\ Waits(k, SendToken(k)) /\ Reach(k)
        /\ UNCHANGED <<data, buf>> /\ OnlyChannels
    BY <1>7 DEF SendRegister
  <2>2. I!SendBlocks(t, c, v) /\ I!Reach(t) /\ I!OnlyChannels
    BY <1>5, <2>1
  <2>3. Receivers[c] = {}
    BY <1>1, <1>4, <2>1
  <2> HIDE DEF o
  <2> QED
    BY <1>1, <2>1, <2>2, <2>3 DEF I!ChannelSend
<1>8. ASSUME SendBufBlock(k)
      PROVE  I!ChannelSend(t)
  <2>1. /\ Sends(k) /\ Capacity[c] > 0 /\ ~HasSpace(c) /\ Waits(k, SendToken(k)) /\ Reach(k)
        /\ UNCHANGED <<data, buf>> /\ OnlyChannels
    BY <1>8 DEF SendBufBlock
  <2>2. I!SendBlocks(t, c, v) /\ I!Reach(t) /\ I!OnlyChannels
    BY <1>5, <2>1
  <2>3. Len(buf[c]) >= Capacity[c]
    BY <1>1, <1>3, <2>1 DEF HasSpace
  <2> HIDE DEF o
  <2> QED
    BY <1>1, <2>1, <2>2, <2>3 DEF I!ChannelSend
<1>9. ASSUME RecvRegister(k)
      PROVE  I!ChannelRecv(t)
  <2>1. /\ Enables(k, "recv") /\ Capacity[c] = 0 /\ In(ChannelSend(c)) = {}
        /\ WaitsAt(k, ChannelRecv(c)) /\ Reach(k) /\ UNCHANGED <<data, buf>> /\ OnlyChannels
    BY <1>9 DEF RecvRegister
  <2>2. I!RecvBlocks(t, c) /\ I!Reach(t) /\ I!OnlyChannels
    BY <1>6, <2>1
  <2>3. Senders[c] = {}
    BY <1>2, <1>4, <2>1
  <2> HIDE DEF o
  <2> QED
    BY <1>2, <2>1, <2>2, <2>3 DEF I!ChannelRecv, I!AnySender
<1>10. ASSUME RecvBufBlock(k)
       PROVE  I!ChannelRecv(t)
  <2>1. /\ Enables(k, "recv") /\ Capacity[c] > 0 /\ buf[c] = <<>>
        /\ WaitsAt(k, ChannelRecv(c)) /\ Reach(k) /\ UNCHANGED <<data, buf>> /\ OnlyChannels
    BY <1>10 DEF RecvBufBlock
  <2>2. I!RecvBlocks(t, c) /\ I!Reach(t) /\ I!OnlyChannels
    BY <1>6, <2>1
  <2> HIDE DEF o
  <2> QED
    BY <1>2, <2>1, <2>2 DEF I!ChannelRecv
<1>11. ASSUME SendPair(k)
       PROVE  I!ChannelSend(t)
  <2>1. PICK w \in In(ChannelRecv(c)) : Sends(k) /\ Capacity[c] = 0 /\ Pairs(k, w, w.frame, v)
    BY <1>11 DEF SendPair
  <2>2. w \in marking /\ w.at = ChannelRecv(c)
    BY DEF In
  <2>3. w.at[1] = "recv"
    BY <2>2 DEF ChannelRecv
  <2>4. /\ I!Deliver(w.thread, v, t) /\ I!Wake({w.thread})
        /\ I!Reach(t) /\ I!OnlyChannels /\ UNCHANGED buf
        /\ \A p : p[1] # "control" => In(p)' = In(p) \ {w}
        /\ Senders' = Senders
    <3> HIDE DEF v
    <3> QED
      BY <1>1, <2>1, <2>2, <2>3, PairsTold
  <2>5. Receivers' = [Receivers EXCEPT ![c] = @ \ {w.thread}]
    BY <1>1, <2>1, <2>2, <2>4, ReceiversLose
  <2>6. w.thread \in Receivers[c]
    BY <1>1, <2>1 DEF Receivers, Threads
  <2>7. I!SendToReceiver(t, c, v) /\ Receivers[c] # {}
    BY <2>4, <2>5, <2>6 DEF I!SendToReceiver
  <2> HIDE DEF o
  <2> QED
    BY <1>1, <2>1, <2>4, <2>7 DEF I!ChannelSend
<1>12. ASSUME RecvPair(k)
       PROVE  I!ChannelRecv(t)
  <2>1. PICK w \in In(ChannelSend(c)) :
          Enables(k, "recv") /\ Capacity[c] = 0 /\ Pairs(k, w, k.frame, w.value)
    BY <1>12 DEF RecvPair
  <2>2. w \in marking /\ w.at = ChannelSend(c)
    BY DEF In
  <2>3. w.at[1] = "send"
    BY <2>2 DEF ChannelSend
  <2>4. /\ I!Deliver(t, w.value, w.thread) /\ I!Wake({w.thread})
        /\ I!Reach(t) /\ I!OnlyChannels /\ UNCHANGED buf
        /\ \A p : p[1] # "control" => In(p)' = In(p) \ {w}
        /\ Receivers' = Receivers
    BY <1>2, <2>1, <2>2, <2>3, PairsTold
  <2>5. Senders' = [Senders EXCEPT ![c] = I!Without(@, w.thread)]
    BY <1>2, <2>1, <2>2, <2>4, SendersLose
  <2> DEFINE e == <<w.thread, w.value>>
  <2>6. e \in Senders[c]
    BY <1>2, <2>1 DEF Senders
  <2>7. e[1] = w.thread /\ e[2] = w.value
    OBVIOUS
  <2> HIDE DEF e
  <2>8. I!RecvFromSender(t, c) /\ I!AnySender(c)
    BY <2>4, <2>5, <2>6, <2>7 DEF I!RecvFromSender, I!AnySender
  <2> HIDE DEF o
  <2> QED
    BY <1>2, <2>1, <2>4, <2>8 DEF I!ChannelRecv
<1>13. ASSUME SendBuf(k)
       PROVE  I!ChannelSend(t)
  <2>1. /\ Sends(k) /\ Capacity[c] > 0 /\ HasSpace(c) /\ buf' = [buf EXCEPT ![c] = Append(@, v)]
        /\ Moves(k, Falls(k), frames) /\ Reach(k) /\ UNCHANGED data /\ OnlyChannels
    BY <1>13 DEF SendBuf
  <2>2. /\ frames' = I!Advance(frames, {t}) /\ I!Reach(t) /\ I!OnlyChannels
        /\ UNCHANGED I!threadVars /\ UNCHANGED <<Senders, Receivers>>
    BY <1>1, <2>1, ChannelFalls
  <2> HIDE DEF v, c
  <2>3. I!SendToBuffer(t, c, v)
    BY <2>1, <2>2 DEF I!SendToBuffer
  <2> HIDE DEF o
  <2> QED
    BY <1>1, <2>1, <2>2, <2>3 DEF I!ChannelSend, HasSpace, c, v
<1>14. ASSUME RecvBuf(k)
       PROVE  I!ChannelRecv(t)
  <2> DEFINE h == Head(buf[c])
             frs == Put(frames, k.frame, o.dst, h)
  <2>1. Enables(k, "recv") /\ StandsAt(frames[k.frame]) = o /\ k.frame \in Ids /\ frames[k.frame] # NoFrame
    BY <1>14, TokenFrame, Enabled DEF RecvBuf
  <2>2. /\ Capacity[c] > 0 /\ buf[c] # <<>> /\ Accepts(k.frame, o.dst, h)
        /\ buf' = [buf EXCEPT ![c] = Tail(@)] /\ data' = PutData(o.dst, h)
        /\ Moves(k, Falls(k), frs) /\ Reach(k) /\ OnlyChannels
    BY <1>14, <2>1 DEF RecvBuf, Pops, Popped
  <2>3. frs[k.frame].pc = frames[k.frame].pc /\ \A f \in Ids : f # k.frame => frs[f] = frames[f]
    BY <2>1, <2>2, PutStays
  <2>4. frs = I!Put(frames, k.frame, o.dst, h) /\ PutData(o.dst, h) = I!PutShared(o.dst, h)
        /\ I!Accepts(t, o.dst, h)
    BY <2>2, SamePut, SameAccepts
  <2> HIDE DEF frs
  <2>5. /\ frames' = I!Advance(frs, {t}) /\ I!Reach(t) /\ I!OnlyChannels
        /\ UNCHANGED I!threadVars /\ UNCHANGED <<Senders, Receivers>>
    BY <1>2, <2>1, <2>2, <2>3, ChannelFalls
  <2>6. I!Top(t) = k.frame /\ I!Op(t) = o /\ {t, t} = {t}
    BY <1>2, <2>1, Position
  <2> HIDE DEF h, c, o
  <2>7. I!Deliver(t, h, t)
    BY <2>2, <2>4, <2>5, <2>6 DEF I!Deliver
  <2>8. I!RecvFromBuffer(t, c)
    BY <2>2, <2>5, <2>7 DEF I!RecvFromBuffer, h
  <2> QED
    BY <1>2, <2>1, <2>2, <2>5, <2>8 DEF I!ChannelRecv, c
<1>15. ASSUME BufferDeliver(k)
       PROVE  I!ResumeSend(t)
  <2> DEFINE d == k.at[2]
             x == k.value
  <2>1. /\ k.at[1] = "send" /\ HasSpace(d) /\ buf' = [buf EXCEPT ![d] = Append(@, x)]
        /\ Resumes(k, frames) /\ UNCHANGED data /\ OnlyChannels
    BY <1>15 DEF BufferDeliver
  <2>2. Statuses[t] = "send" /\ Reasons[t] = d /\ k.at = ChannelSend(d) /\ d \in Channels
    BY <2>1, WaitsFor DEF ChannelSend
  <2>3. /\ I!Wake({t}) /\ frames' = I!Advance(frames, {t}) /\ Past' = Past /\ I!OnlyChannels
        /\ Receivers' = Receivers /\ \A p : p[1] # "control" => In(p)' = In(p) \ {k}
    BY <2>1, ChannelResumes
  <2>4. Senders' = [Senders EXCEPT ![d] = I!Without(@, t)]
    BY <2>2, <2>3, SendersLose
  <2> DEFINE e == <<t, x>>
  <2>5. e \in Senders[d]
    BY <2>2 DEF Senders, In
  <2>6. e[1] = t /\ e[2] = x
    OBVIOUS
  <2> HIDE DEF e, d, x
  <2>7. x \in I!Captured(t, d)
    BY <2>5, <2>6 DEF I!Captured
  <2> QED
    BY <2>1, <2>2, <2>3, <2>4, <2>7 DEF I!ResumeSend, HasSpace
<1>16. ASSUME BufferRecvWait(k)
       PROVE  I!ResumeRecv(t)
  <2> DEFINE d == k.at[2]
             h == Head(buf[d])
             s == StandsAt(frames[k.frame])
             frs == Put(frames, k.frame, s.dst, h)
  <2>1. /\ k.at[1] = "recv" /\ Capacity[d] > 0 /\ buf[d] # <<>> /\ Accepts(k.frame, s.dst, h)
        /\ buf' = [buf EXCEPT ![d] = Tail(@)] /\ data' = PutData(s.dst, h)
        /\ Resumes(k, frs) /\ OnlyChannels
    BY <1>16 DEF BufferRecvWait, Pops, Popped
  <2>2. Statuses[t] = "recv" /\ Reasons[t] = d /\ k.at = ChannelRecv(d) /\ d \in Channels
    BY <2>1, WaitsFor DEF ChannelRecv
  <2>3. k.frame \in Ids /\ frames[k.frame] # NoFrame /\ I!Top(t) = k.frame /\ I!Op(t) = s
    BY TokenFrame, Position
  <2>4. frs[k.frame].pc = frames[k.frame].pc /\ \A f \in Ids : f # k.frame => frs[f] = frames[f]
    BY <2>1, <2>3, PutStays
  <2>5. frs = I!Put(frames, k.frame, s.dst, h) /\ PutData(s.dst, h) = I!PutShared(s.dst, h)
        /\ I!Accepts(t, s.dst, h)
    BY <2>1, SamePut, SameAccepts
  <2> HIDE DEF frs
  <2>6. /\ I!Wake({t}) /\ frames' = I!Advance(frs, {t}) /\ Past' = Past /\ I!OnlyChannels
        /\ Senders' = Senders /\ \A p : p[1] # "control" => In(p)' = In(p) \ {k}
    BY <2>1, <2>4, ChannelResumes
  <2>7. Receivers' = [Receivers EXCEPT ![d] = @ \ {t}]
    BY <2>2, <2>6, ReceiversLose
  <2>8. {t, t} = {t}
    OBVIOUS
  <2> HIDE DEF h, s, d
  <2>9. I!Deliver(t, h, t)
    BY <2>1, <2>3, <2>5, <2>6, <2>8 DEF I!Deliver
  <2> QED
    BY <2>1, <2>2, <2>6, <2>7, <2>9 DEF I!ResumeRecv, h
<1> QED
  BY <1>7, <1>8, <1>9, <1>10, <1>11, <1>12, <1>13, <1>14, <1>15, <1>16
  DEF FireChannel, I!ChannelStep, I!Resume

-----------------------------------------------------------------------------
(* Control *)

LEMMA JumpTold ==
  ASSUME NetInv, NetInv', NEW k \in marking, k.at[1] = "control",
         k.at[3] \in DOMAIN prog[k.at[2]], NEW sid \in Nat \ {0}, Jump(k, sid)
  PROVE  I!Jump(k.thread, sid)
<1> DEFINE out == Goes(k, sid)
<1>1. /\ marking' = (marking \ {k}) \union {out} /\ frames' = Placed(frames, {out})
      /\ threads' = threads /\ Reach(k)
      /\ UNCHANGED <<prog, data, sem, buf, mutex, scopes, finished, completed, scopesDone, alloc>>
  BY DEF Jump, Moves, OnlyControl, dataVars, storeVars
<1>2. /\ out.at = <<"control", k.at[2], sid>> /\ out.thread = k.thread /\ out.frame = k.frame
  <2>1. Control(k.at[2], sid) \in StatementPlace
    BY ControlStands DEF Control, StatementPlace
  <2> QED
    BY <2>1, ControlStands, TokenMoves DEF Goes, Control
<1>3. out.at[1] = "control" /\ out.at[3] = sid
  BY <1>2
<1> HIDE DEF out
<1>4. \A f \in Ids : f # k.frame => frames'[f] = frames[f]
  BY <1>1, <1>2 DEF Placed
<1>5. UNCHANGED Threads0 /\ UNCHANGED Queues0
  BY <1>1, <1>2, <1>3, <1>4, MoveTold
<1>6. frames' = [frames EXCEPT ![k.frame].pc = sid]
  <2>1. (CHOOSE l \in {out} : l.frame = k.frame) = out
    BY <1>2
  <2>2. frames \in [Ids -> FrameState \union {NoFrame}]
    BY DEF NetInv, NetTypes, FrameStore
  <2>3. frames'[k.frame] = [frames[k.frame] EXCEPT !.pc = sid]
    BY <1>1, <1>2, <1>3, <2>1, TokenFrame DEF Placed
  <2> QED
    BY <1>1, <1>4, <2>2, <2>3 DEF Placed
<1>7. I!Reach(k.thread)
  BY <1>1, PastGrows
<1>8. I!OnlyData
  BY <1>1, <1>5 DEF I!OnlyData, I!threadVars, I!syncVars, I!chanVars, I!idVars, Threads0, Queues0
<1> QED
  BY <1>1, <1>6, <1>7, <1>8, Position DEF I!Jump

LEMMA JumpsTold ==
  ASSUME NetInv, NetInv', NEW k \in marking, Goto(k) \/ BranchThen(k) \/ BranchElse(k) \/ Switch(k)
  PROVE  I!ControlStep(k.thread)
<1> DEFINE t == k.thread
           o == Statement(k)
           v == Value(k, o.e)
<1>1. ASSUME NEW op, Enables(k, op)
      PROVE  /\ I!Executes(t, op) /\ I!Op(t) = o /\ k.at[1] = "control"
             /\ k.at[3] \in DOMAIN prog[k.at[2]] /\ I!Value(t, o.e) = v
             /\ o \in Operation /\ o.op = op
  BY <1>1, StandsAs
<1>2. CASE Goto(k)
  <2>1. Enables(k, "goto") /\ Jump(k, o.to)
    BY <1>2 DEF Goto
  <2>2. o.to \in Nat \ {0}
    BY <1>1, <2>1, OpFields DEF Target
  <2>3. I!Jump(t, o.to)
    BY <1>1, <2>1, <2>2, JumpTold
  <2> QED
    BY <1>1, <2>1, <2>3 DEF I!Goto, I!ControlStep
<1>3. CASE BranchThen(k) \/ BranchElse(k)
  <2> DEFINE to == IF v = True THEN o.yes ELSE o.no
  <2>1. Enables(k, "branch") /\ Jump(k, to)
    BY <1>3, ValuesAssumption DEF BranchThen, BranchElse
  <2>2. to \in Nat \ {0}
    BY <1>1, <2>1, OpFields DEF Target
  <2>3. I!Jump(t, to)
    BY <1>1, <2>1, <2>2, JumpTold
  <2> QED
    BY <1>1, <2>1, <2>3 DEF I!Branch, I!ControlStep
<1>4. CASE Switch(k)
  <2>1. Enables(k, "switch") /\ v # EvalError /\ Jump(k, o.to[v])
    BY <1>4 DEF Switch
  <2>2. o.e \in Exprs /\ o.to \in [Values -> Target]
    BY <1>1, <2>1, OpFields
  <2>3. v \in Values
    BY <2>1, <2>2, ValueTyped
  <2>4. o.to[v] \in Nat \ {0}
    BY <2>2, <2>3 DEF Target
  <2>5. I!Jump(t, o.to[v])
    BY <1>1, <2>1, <2>4, JumpTold
  <2> QED
    BY <1>1, <2>1, <2>5 DEF I!Switch, I!ControlStep
<1> QED
  BY <1>2, <1>3, <1>4

(* A call or a return: the thread keeps control, with another stack. *)
LEMMA StackTold ==
  ASSUME NetInv, NetInv', prog' = prog, finished' = finished, scopes' = scopes,
         NEW k \in marking, k.at[1] = "control", NEW out, out.at[1] = "control",
         out.thread = k.thread, marking' = (marking \ {k}) \union {out},
         NEW st, threads' = [threads EXCEPT ![k.thread].stack = st],
         \A f \in Ids : frames[f] # NoFrame /\ f # k.frame => frames'[f].handles = frames[f].handles
  PROVE  /\ Stacks' = [Stacks EXCEPT ![k.thread] = st]
         /\ UNCHANGED <<Statuses, Reasons, ChildMaps, Parents, ScopesOpen>> /\ UNCHANGED Queues0
<1> DEFINE t == k.thread
<1>1. t \in Ids /\ threads[t] # NoThread /\ threads[t] \in ThreadState
  BY TokenFrame
<1>2. \A u \in Ids : u # t => threads'[u] = threads[u]
  BY DEF NetInv, NetTypes, ThreadStore
<1>3. Says(k) /\ Says(out)'
  BY TokensSay, TokensSayLater
<1>4. /\ threads'[t].stack = st /\ threads'[t].children = threads[t].children
      /\ threads'[t].parent = threads[t].parent /\ threads'[t] # NoThread
  <2> DEFINE x == threads[t]
             y == [x EXCEPT !.stack = st]
  <2>1. threads'[t] = y
    BY <1>1 DEF NetInv, NetTypes, ThreadStore
  <2>2. threads'[t] # NoThread
    BY <1>3 DEF Says, Live
  <2> HIDE DEF x
  <2>3. y.stack = st /\ y.children = x.children /\ y.parent = x.parent
    BY <1>1 DEF ThreadState, x
  <2> QED
    BY <2>1, <2>2, <2>3 DEF x
<1>5. ASSUME NEW u \in Ids, u # t
      PROVE  Statuses'[u] = Statuses[u] /\ Reasons'[u] = Reasons[u]
  <2> DEFINE ws == {k}
  <2>1. ws \in SUBSET marking /\ marking \ ws \subseteq marking' /\ \A w \in ws : w.thread # u
    BY <1>5
  <2>2. \A f \in Ids : frames[f] # NoFrame /\ (\A w \in ws : w.frame # f) =>
                         frames'[f].handles = frames[f].handles
    OBVIOUS
  <2> HIDE DEF ws
  <2>3. Untold(u)
    BY <1>2, <1>5, <2>1, <2>2, UntoldIf
  <2> QED
    BY <2>3, UntoldSame
<1>6. Statuses'[t] = Statuses[t] /\ Reasons'[t] = Reasons[t]
  BY <1>3 DEF Says
<1>7. UNCHANGED <<Statuses, Reasons>>
  <2>1. \A u \in Ids : Statuses'[u] = Statuses[u] /\ Reasons'[u] = Reasons[u]
    BY <1>5, <1>6
  <2> QED
    BY <2>1 DEF Statuses, Reasons
<1>8. Stacks' = [Stacks EXCEPT ![t] = st] /\ UNCHANGED <<ChildMaps, Parents>>
  <2>1. ASSUME NEW u \in Ids
        PROVE  /\ StackOf(u)' = IF u = t THEN st ELSE StackOf(u)
               /\ ChildrenOf(u)' = ChildrenOf(u) /\ ParentOf(u)' = ParentOf(u)
    <3>1. CASE u = t
      BY <1>1, <1>4, <3>1 DEF StackOf, ChildrenOf, ParentOf
    <3>2. CASE u # t
      <4>1. threads'[u] = threads[u]
        BY <1>2, <3>2
      <4> QED
        BY <3>2, <4>1 DEF StackOf, ChildrenOf, ParentOf
    <3> QED
      BY <3>1, <3>2
  <2> QED
    BY <1>1, <2>1 DEF Stacks, ChildMaps, Parents
<1>9. SameIn("acquire") /\ SameIn("wait") /\ SameIn("send") /\ SameIn("recv")
  BY DEF SameIn
<1> QED
  BY <1>7, <1>8, <1>9, QueuesSame, ScopesSame DEF Queues0

LEMMA CallTold ==
  ASSUME NetInv, NetInv', Comparable(prog), NEW k \in marking, Call(k)
  PROVE  I!CallBody(k.thread)
<1> DEFINE t == k.thread
           o == Statement(k)
           vals == [i \in DOMAIN o.args |-> Value(k, o.args[i])]
           ret == [pc |-> FrameOfToken(k).pc + 1, dst |-> o.dst]
           out == ControlToken(k.thread, alloc.frame, o.f, 1)
<1>1. /\ Enables(k, "call") /\ Len(threads[t].stack) < MaxFrames /\ alloc.frame \in Ids
      /\ \A i \in DOMAIN vals : i <= Len(Params[o.f]) => vals[i] \in SlotType[o.f][Params[o.f][i]]
      /\ frames' = [frames EXCEPT ![alloc.frame] = NewFrame(o.f, Bind(o.f, vals), ret)]
      /\ marking' = (marking \ {k}) \union {out}
      /\ threads' = [threads EXCEPT ![t].stack = Append(@, alloc.frame)]
      /\ alloc' = [alloc EXCEPT !.frame = @ + 1]
      /\ Reach(k)
      /\ UNCHANGED <<prog, data, sem, buf, mutex, scopes, finished, completed, scopesDone>>
  BY DEF Call, dataVars
<1>2. /\ I!Executes(t, "call") /\ I!Op(t) = o /\ k.at[1] = "control"
      /\ k.at[3] \in DOMAIN prog[k.at[2]] /\ \A e : I!Value(t, e) = Value(k, e)
      /\ o \in Operation /\ o.op = "call"
  BY <1>1, StandsAs
<1>3. /\ I!Fr(t) = frames[k.frame] /\ Stacks[t] = threads[t].stack
  BY Position
<1>4. o.f \notin Nobody
  <2>1. k.at[2] \in Functions
    BY <1>1, Enabled
  <2> QED
    BY <1>2, <2>1 DEF Comparable, Statement
<1>5. t \in Ids /\ Len(threads[t].stack) \in Nat /\ threads[t] # NoThread
  BY TokenFrame
<1>6. ~I!HitsFrameLimit(t)
  BY <1>1, <1>3, <1>5, NetAssumption DEF I!HitsFrameLimit
<1>7. out.at[1] = "control" /\ out.thread = t
  BY DEF ControlToken, Control
<1>8. \A f \in Ids : frames[f] # NoFrame => frames'[f] = frames[f]
  <2>1. frames[alloc.frame] = NoFrame
    BY <1>1 DEF NetInv, Unborn, NetTypes
  <2> QED
    BY <1>1, <2>1 DEF NetInv, NetTypes, FrameStore
<1>9. threads' = [threads EXCEPT ![t].stack = Append(Stacks[t], alloc.frame)]
  BY <1>1, <1>3, <1>5
<1>10. /\ Stacks' = [Stacks EXCEPT ![t] = Append(Stacks[t], alloc.frame)]
       /\ UNCHANGED <<Statuses, Reasons, ChildMaps, Parents, ScopesOpen>> /\ UNCHANGED Queues0
  <2> DEFINE st == Append(Stacks[t], alloc.frame)
  <2>1. threads' = [threads EXCEPT ![t].stack = st]
    BY <1>9
  <2> HIDE DEF st, out
  <2>2. /\ Stacks' = [Stacks EXCEPT ![t] = st]
        /\ UNCHANGED <<Statuses, Reasons, ChildMaps, Parents, ScopesOpen>> /\ UNCHANGED Queues0
    <3>1. \A f \in Ids : frames[f] # NoFrame /\ f # k.frame => frames'[f].handles = frames[f].handles
      BY <1>8
    <3>2. prog' = prog /\ finished' = finished /\ scopes' = scopes /\ marking' = (marking \ {k}) \union {out}
          /\ k.at[1] = "control" /\ out.at[1] = "control" /\ out.thread = k.thread
      BY <1>1, <1>2, <1>7
    <3> HIDE DEF o
    <3> QED
      BY <2>1, <3>1, <3>2, StackTold
  <2> QED
    BY <2>2 DEF st
<1>11. I!OnlyStack
  BY <1>1, <1>10 DEF I!OnlyStack, I!syncVars, I!chanVars, Queues0
<1>12. I!Reach(t)
  BY <1>1, <1>2, PastGrows
<1>13. NewFrame(o.f, Bind(o.f, vals), ret) = [I!Activation(o.f, ret) EXCEPT !.locals = I!Bind(o.f, vals)]
  <2> DEFINE b == Bind(o.f, vals)  g == o.f
  <2>1. b = I!Bind(o.f, vals)
    BY DEF Bind, I!Bind
  <2> HIDE DEF b, g, ret
  <2>2. NewFrame(g, b, ret) = [I!Activation(g, ret) EXCEPT !.locals = b]
    BY SameIds DEF NewFrame, I!Activation
  <2> QED
    BY <2>1, <2>2 DEF b, g
<1>14. /\ vals = [i \in DOMAIN o.args |-> I!Value(t, o.args[i])]
       /\ ret = [pc |-> I!Fr(t).pc + 1, dst |-> o.dst]
  BY <1>2, <1>3 DEF FrameOfToken
<1>15. frames' = [frames EXCEPT ![alloc.frame] = [I!Activation(o.f, ret) EXCEPT !.locals = I!Bind(o.f, vals)]]
  BY <1>1, <1>13
<1>16. /\ \A i \in DOMAIN vals : i <= Len(Params[o.f]) => vals[i] \in SlotType[o.f][Params[o.f][i]]
       /\ alloc.frame \in I!Ids /\ alloc' = [alloc EXCEPT !.frame = @ + 1] /\ UNCHANGED <<data, completed>>
  BY <1>1, SameIds
<1>17. Stacks' = [Stacks EXCEPT ![t] = Append(@, alloc.frame)]
  BY <1>5, <1>10 DEF Stacks
<1> HIDE DEF o, vals, ret
<1> QED
  BY <1>2, <1>4, <1>6, <1>11, <1>12, <1>14, <1>15, <1>16, <1>17 DEF I!CallBody

(* A `return`, or falling off the end, which the interpreter does not record. *)
LEMMA ReturnsTold ==
  ASSUME NetInv, prog' = prog, NEW k \in marking, k.at[1] = "control", NEW v, ReturnsValue(k, v),
         Reach(k), I!PopFrame(k.thread, v) \/ I!FinishThread(k.thread),
         v # NoValue /\ I!Nested(k.thread) =>
           v \in I!DomainOf(frames[I!Caller(k.thread)].fn, I!Fr(k.thread).ret.dst)
  PROVE  I!ControlStep(k.thread)
<1> DEFINE t == k.thread
           o == Statement(k)
<1>1. CASE Enables(k, "return") /\ v = (IF o.e = NoExpr THEN NoValue ELSE Value(k, o.e))
                                /\ (v # NoValue => v \in ReturnType[FrameOfToken(k).fn])
  <2>1. /\ I!Executes(t, "return") /\ I!Op(t) = o /\ k.at[3] \in DOMAIN prog[k.at[2]]
        /\ I!Value(t, o.e) = Value(k, o.e)
    BY <1>1, StandsAs
  <2>2. I!Fr(t) = FrameOfToken(k)
    BY Position DEF FrameOfToken
  <2>3. I!Reach(t)
    BY <2>1, PastGrows
  <2>4. I!ReturnAccepted(t, v)
    BY <1>1, <2>2 DEF I!ReturnAccepted
  <2>5. I!Return(t)
    BY <1>1, <2>1, <2>3, <2>4 DEF I!Return
  <2> QED
    BY <2>5 DEF I!ControlStep
<1>2. CASE k.at[3] = Len(prog[k.at[2]]) + 1 /\ v = NoValue
  <2>1. k.at[2] \in Functions /\ k.at[2] = frames[k.frame].fn /\ k.at[3] = frames[k.frame].pc
    BY ControlStands DEF StatementPlace
  <2>2. prog[k.at[2]] \in Seq(Operation)
    BY <2>1, ProgramsAssumption DEF NetInv, NetTypes
  <2>3. Len(prog[k.at[2]]) \in Nat /\ DOMAIN prog[k.at[2]] = 1..Len(prog[k.at[2]])
    BY <2>2
  <2>4. k.at[3] \notin DOMAIN prog[k.at[2]] /\ ~(k.at[3] <= Len(prog[k.at[2]]))
    BY <1>2, <2>3
  <2>5. Past' = Past
    <3>1. reached' = reached \union {<<k.at[2], k.at[3]>>}
      BY <2>1 DEF Reach, FrameOfToken
    <3> QED
      BY <2>4, <3>1 DEF Past, StatementsOf
  <2>6. Statuses[t] = "run" /\ Stacks[t] # <<>> /\ ~I!AtStatement(t)
    BY <2>4, AtControl, Position
  <2>7. I!ImplicitReturn(t)
    BY <1>2, <2>5, <2>6 DEF I!ImplicitReturn
  <2> QED
    BY <2>7 DEF I!ControlStep
<1> QED
  BY <1>1, <1>2 DEF ReturnsValue

LEMMA ReturnInnerTold ==
  ASSUME NetInv, NetInv', NEW k \in marking, ReturnInner(k)
  PROVE  I!ControlStep(k.thread)
<1> DEFINE t == k.thread
           st == threads[t].stack
           caller == st[Len(st) - 1]
           ret == FrameOfToken(k).ret
           out == ControlToken(t, caller, frames[caller].fn, ret.pc)
           stored(v) == IF v = NoValue THEN frames ELSE Put(frames, caller, ret.dst, v)
           pop == SubSeq(st, 1, Len(st) - 1)
<1>0. PICK v \in Values \union {NoValue} :
        /\ ReturnsValue(k, v)
        /\ v # NoValue => Accepts(caller, ret.dst, v)
        /\ frames' = [Placed(IF v = NoValue THEN frames ELSE Put(frames, caller, ret.dst, v), {out})
                        EXCEPT ![k.frame] = NoFrame]
        /\ data' = IF v = NoValue THEN data ELSE PutData(ret.dst, v)
  BY Zenon DEF ReturnInner
<1>1. /\ ReturnsValue(k, v)
      /\ v # NoValue => Accepts(caller, ret.dst, v)
      /\ frames' = [Placed(stored(v), {out}) EXCEPT ![k.frame] = NoFrame]
      /\ data' = IF v = NoValue THEN data ELSE PutData(ret.dst, v)
  BY <1>0
<1>2. /\ k.at[1] = "control" /\ Len(st) > 1
      /\ marking' = (marking \ {k}) \union {out}
      /\ threads' = [threads EXCEPT ![t].stack = pop]
      /\ Complete(FrameOfToken(k).fn) /\ Reach(k)
      /\ UNCHANGED <<prog, mutex, sem, buf, scopes, finished, scopesDone, alloc>>
  BY DEF ReturnInner
<1>3. /\ I!Fr(t) = frames[k.frame] /\ Stacks[t] = st /\ I!Top(t) = k.frame
  BY Position
<1>4. t \in Ids /\ StackOf(t) = st /\ k.frame = TopOf(t)
  BY TokenFrame
<1>5. caller \in Ids /\ caller # k.frame /\ frames[caller] \in FrameState /\ frames[caller] # NoFrame
  <2>1. caller \in Ids /\ caller # TopOf(t) /\ frames[caller] \in FrameState
    BY <1>2, <1>4, CallerApart
  <2> QED
    BY <1>4, <2>1, NetAssumption
<1>6. /\ I!Nested(t) /\ I!Caller(t) = caller
  BY <1>2, <1>3 DEF I!Nested, I!Caller
<1>7. out.at[1] = "control" /\ out.thread = t /\ out.frame = caller /\ out.at[3] = ret.pc
  BY DEF ControlToken, Control
<1> DEFINE frs == stored(v)
<1>8. /\ frs[caller].pc = frames[caller].pc /\ \A g \in Ids : g # caller => frs[g] = frames[g]
      /\ \A g \in Ids : frs[g].handles = frames[g].handles
      /\ frs \in [Ids -> FrameState \union {NoFrame}] /\ frs[caller] \in FrameState
  <2>1. CASE v = NoValue
    BY <1>5, <2>1 DEF NetInv, NetTypes, FrameStore
  <2>2. CASE v # NoValue
    <3>1. frs = Put(frames, caller, ret.dst, v) /\ Accepts(caller, ret.dst, v)
      BY <1>1, <2>2
    <3> HIDE DEF frs, ret, caller
    <3>2. frs \in FrameStore /\ StandAlike(frs)
      BY <1>5, <3>1, AcceptsValues, PutAlike
    <3>3. /\ frs[caller].pc = frames[caller].pc /\ \A g \in Ids : g # caller => frs[g] = frames[g]
          /\ \A g \in Ids : frs[g].handles = frames[g].handles
      BY <1>5, <3>1, PutStays
    <3>4. frs[caller] # NoFrame
      BY <1>5, <3>2 DEF StandAlike
    <3> QED
      BY <1>5, <3>2, <3>3, <3>4 DEF FrameStore
  <2> QED
    BY <2>1, <2>2
<1>9. frames' = [Placed(frs, {out}) EXCEPT ![k.frame] = NoFrame]
  BY <1>1
<1> HIDE DEF frs, out, caller
<1>10. Placed(frs, {out}) = [frs EXCEPT ![caller].pc = ret.pc]
  <2>1. (CHOOSE l \in {out} : l.frame = caller) = out
    BY <1>7
  <2>2. \A f \in Ids : Placed(frs, {out})[f] = IF f = caller THEN [frs[f] EXCEPT !.pc = ret.pc] ELSE frs[f]
    BY <1>7, <2>1 DEF Placed
  <2> QED
    BY <1>8, <2>2 DEF Placed
<1>11. frames' = [frs EXCEPT ![caller].pc = ret.pc, ![k.frame] = NoFrame]
  BY <1>9, <1>10
<1>12. \A f \in Ids : frames[f] # NoFrame /\ f # k.frame => frames'[f].handles = frames[f].handles
  <2> SUFFICES ASSUME NEW f \in Ids, f # k.frame
               PROVE  frames'[f].handles = frames[f].handles
    OBVIOUS
  <2>1. CASE f # caller
    BY <1>8, <1>11, <2>1
  <2>2. CASE f = caller
    <3> DEFINE x == frs[caller]
               p == ret.pc
               y == [x EXCEPT !.pc = p]
    <3>1. frames'[f] = y
      BY <1>5, <1>8, <1>11, <2>2
    <3>2. x \in FrameState /\ x.handles = frames[f].handles
      BY <1>5, <1>8, <2>2
    <3> HIDE DEF x, p
    <3>3. y.handles = x.handles
      BY <3>2 DEF FrameState
    <3> QED
      BY <3>1, <3>2, <3>3
  <2> QED
    BY <2>1, <2>2
<1>13. /\ Stacks' = [Stacks EXCEPT ![t] = pop]
       /\ UNCHANGED <<Statuses, Reasons, ChildMaps, Parents, ScopesOpen>> /\ UNCHANGED Queues0
  <2> HIDE DEF pop
  <2> QED
    BY <1>2, <1>7, <1>12, StackTold
<1>14. I!OnlyStack
  BY <1>2, <1>13 DEF I!OnlyStack, I!syncVars, I!chanVars, Queues0
<1>15. I!Complete(I!Fr(t).fn)
  BY <1>2, <1>3 DEF Complete, Counted, I!Complete, I!Completed, FrameOfToken
<1>16. /\ frs = IF v = NoValue THEN frames ELSE I!Put(frames, I!Caller(t), I!Fr(t).ret.dst, v)
       /\ data' = IF v = NoValue THEN data ELSE I!PutShared(I!Fr(t).ret.dst, v)
  BY <1>1, <1>3, <1>6, SamePut DEF frs, FrameOfToken
<1>17. frames' = [frs EXCEPT ![I!Caller(t)].pc = I!Fr(t).ret.pc, ![I!Top(t)] = NoFrame]
  BY <1>3, <1>6, <1>11 DEF FrameOfToken
<1>18. Stacks' = [Stacks EXCEPT ![t] = SubSeq(@, 1, Len(@) - 1)]
  BY <1>3, <1>4, <1>13 DEF Stacks
<1>19. I!PopFrame(t, v)
  BY <1>2, <1>6, <1>14, <1>15, <1>16, <1>17, <1>18 DEF I!PopFrame
<1>20. v # NoValue => v \in I!DomainOf(frames[I!Caller(t)].fn, I!Fr(t).ret.dst)
  BY <1>1, <1>3, <1>6, SamePut DEF Accepts, FrameOfToken, caller
<1> QED
  BY <1>1, <1>2, <1>19, <1>20, ReturnsTold

-----------------------------------------------------------------------------
(* Threads *)

LEMMA JoinBlockTold ==
  ASSUME NetInv, NetInv', NEW k \in marking, JoinBlock(k)
  PROVE  I!ThreadStep(k.thread)
<1> DEFINE t == k.thread
           o == Statement(k)
           h == FrameOfToken(k).handles[o.h]
           p == JoinWait(frames[k.frame].fn, frames[k.frame].pc)
           token == [k EXCEPT !.at = p]
<1>1. /\ Enables(k, "join") /\ Child(k) \notin finished /\ Waits(k, token) /\ Reach(k)
      /\ UNCHANGED <<scopes, finished, completed, scopesDone, alloc, prog, data, sem, buf, mutex>>
  BY DEF JoinBlock, WaitsAt, FrameOfToken, storeVars, OnlyThreads, dataVars
<1>2. /\ I!Executes(t, "join") /\ I!Op(t) = o /\ k.at[1] = "control"
      /\ k.at[3] \in DOMAIN prog[k.at[2]]
  BY <1>1, StandsAs
<1>3. I!Fr(t) = frames[k.frame] /\ ChildMaps[t] = threads[t].children
  BY Position, TokensSay DEF Says
<1>4. k.at[2] = frames[k.frame].fn /\ k.at[3] = frames[k.frame].pc
  BY <1>2, ControlStands
<1>5. p \in StatementPlace /\ p[1] = "join" /\ p[2] = k.at[2] /\ p[3] = k.at[3]
  BY <1>4, TokenFrame DEF JoinWait, StatementPlace, FrameState
<1> HIDE DEF p
<1>6. token.at = p /\ token.thread = t /\ token.frame = k.frame
  BY <1>2, <1>5, ControlStands, TokenMoves
<1> HIDE DEF token
<1>7. I!Block(t, "join", Reason(token)) /\ UNCHANGED ScopesOpen
  BY <1>1, <1>2, <1>5, <1>6, WaitTold
<1>8. Reason(token) = h
  BY <1>5, <1>6 DEF Reason, Statement, FrameOfToken
<1>9. UNCHANGED Queues0
  <2>1. marking' = (marking \ {k}) \union {token} /\ token.at[1] = "join" /\ k.at[1] = "control"
    BY <1>1, <1>2, <1>5, <1>6 DEF Waits
  <2>2. SameIn("acquire") /\ SameIn("wait") /\ SameIn("send") /\ SameIn("recv")
    BY <2>1 DEF SameIn
  <2> QED
    BY <2>2, QueuesSame DEF Queues0
<1>10. I!Reach(t)
  BY <1>1, <1>2, PastGrows
<1>11. frames' = frames
  BY <1>1 DEF Waits
<1>12. I!OnlyThreads
  BY <1>1, <1>9 DEF I!OnlyThreads, I!syncVars, I!chanVars, Queues0
<1>13. Child(k) = ChildMaps[t][h] /\ h = I!Fr(t).handles[I!Op(t).h]
  BY <1>2, <1>3 DEF Child, FrameOfToken
<1> HIDE DEF h
<1>14. I!JoinBlocks(t, h, ChildMaps[t][h])
  BY <1>1, <1>7, <1>8, <1>11, <1>13 DEF I!JoinBlocks
<1>15. I!Join(t)
  BY <1>1, <1>2, <1>7, <1>10, <1>12, <1>13, <1>14 DEF I!Join
<1> QED
  BY <1>15 DEF I!ThreadStep

(* What a join of a finished child does to the threads *)
LEMMA JoinedThreads ==
  ASSUME NetInv, NEW k \in marking, JoinReady(k)
  PROVE  LET t == k.thread
             c == Child(k)
             h == FrameOfToken(k).handles[Statement(k).h]
         IN  /\ c \in Ids /\ c # t /\ threads[c] # NoThread /\ c \in finished
             /\ threads'[c] = NoThread /\ threads'[t] # NoThread
             /\ threads'[t].children = [threads[t].children EXCEPT ![h] = None]
             /\ threads'[t].stack = threads[t].stack /\ threads'[t].parent = threads[t].parent
             /\ \A u \in Ids : u # c /\ u # t => threads'[u] = threads[u]
<1> DEFINE t == k.thread
           c == Child(k)
           h == FrameOfToken(k).handles[Statement(k).h]
           x == threads[t]
           y == [x EXCEPT !.children[h] = None]
<1>1. c \in finished
  BY DEF JoinReady
<1>2. c \in Ids /\ threads[c] # NoThread /\ c \notin Live
  BY <1>1 DEF NetInv, NetTypes, Live
<1>3. t \in Ids /\ t \in Live /\ x \in ThreadState
  BY TokenFrame
<1>4. t # c
  BY <1>2, <1>3
<1>5. threads' = [threads EXCEPT ![c] = NoThread, ![t].children[h] = None]
  BY DEF JoinReady
<1> HIDE DEF h
<1>6. /\ y \in ThreadState /\ y.stack = x.stack /\ y.parent = x.parent
      /\ y.children = [x.children EXCEPT ![h] = None]
  <2> DEFINE cs == [x.children EXCEPT ![h] = None]
  <2>1. cs \in [Ids -> Ids \union {None}]
    BY <1>3 DEF ThreadState
  <2>2. y = [x EXCEPT !.children = cs]
    OBVIOUS
  <2> HIDE DEF cs, x
  <2>3. y \in ThreadState /\ y.stack = x.stack /\ y.parent = x.parent /\ y.children = cs
    BY <1>3, <2>1, <2>2 DEF ThreadState
  <2> QED
    BY <2>3 DEF cs
<1>7. y # NoThread
  BY <1>6, NetAssumption
<1>8. threads \in ThreadStore
  BY DEF NetInv, NetTypes
<1>9. threads' = [threads EXCEPT ![c] = NoThread, ![t] = y]
  <2> HIDE DEF c, t
  <2> QED
    BY <1>2, <1>3, <1>4, <1>5, <1>8 DEF ThreadStore
<1> HIDE DEF c, t, y, x
<1>10. threads'[c] = NoThread /\ threads'[t] = y /\ \A u \in Ids : u # c /\ u # t => threads'[u] = threads[u]
  BY <1>2, <1>3, <1>4, <1>8, <1>9 DEF ThreadStore
<1> QED
  BY <1>1, <1>2, <1>4, <1>6, <1>7, <1>10 DEF c, t, h, x

LEMMA JoinReadyTold ==
  ASSUME NetInv, NetInv', NEW k \in marking, JoinReady(k)
  PROVE  I!ThreadStep(k.thread)
<1> DEFINE t == k.thread
           c == Child(k)
           o == Statement(k)
           h == FrameOfToken(k).handles[o.h]
           out == Falls(k)
<1>1. /\ Enables(k, "join") /\ c \in finished /\ Reach(k)
      /\ marking' = (marking \ {k}) \union {out}
      /\ frames' = [Placed(frames, {out}) EXCEPT ![k.frame].handles[o.h] = None]
      /\ finished' = finished \ {c}
      /\ UNCHANGED <<scopes, completed, scopesDone, alloc, prog, data, sem, buf, mutex>>
  BY DEF JoinReady, OnlyThreads, dataVars
<1>2. /\ I!Executes(t, "join") /\ I!Op(t) = o /\ k.at[1] = "control"
      /\ k.at[3] \in DOMAIN prog[k.at[2]]
  BY <1>1, StandsAs
<1>3. /\ c \in Ids /\ c # t /\ threads[c] # NoThread
      /\ threads'[c] = NoThread /\ threads'[t] # NoThread
      /\ threads'[t].children = [threads[t].children EXCEPT ![h] = None]
      /\ threads'[t].stack = threads[t].stack /\ threads'[t].parent = threads[t].parent
      /\ \A u \in Ids : u # c /\ u # t => threads'[u] = threads[u]
  BY JoinedThreads
<1>4. /\ t \in Ids /\ threads[t] # NoThread /\ k.frame \in Ids
      /\ frames[k.frame] \in FrameState /\ frames[k.frame] # NoFrame /\ frames \in FrameStore
  BY TokenFrame DEF NetInv, NetTypes
<1>5. out.at[1] = "control" /\ out.thread = t /\ out.frame = k.frame /\ out.at[3] = frames[k.frame].pc + 1
  BY <1>2, ControlStands, FallPlaced
<1>6. I!Fr(t) = frames[k.frame] /\ ChildMaps[t] = threads[t].children /\ I!Top(t) = k.frame
  BY Position, TokensSay DEF Says
<1>7. c = ChildMaps[t][h] /\ h = I!Fr(t).handles[I!Op(t).h]
  BY <1>2, <1>6 DEF Child, FrameOfToken
<1> DEFINE w == Placed(frames, {out})
<1>8. w = I!Advance(frames, {t})
  BY <1>5, PlacedAdvances
<1>9. /\ w[k.frame] = [frames[k.frame] EXCEPT !.pc = @ + 1] /\ DOMAIN w = Ids
      /\ \A f \in Ids : f # k.frame => w[f] = frames[f]
  BY <1>4, <1>6, <1>8, SameIds DEF I!Advance
<1> HIDE DEF w
<1>10. frames' = [w EXCEPT ![k.frame].handles[o.h] = None]
  BY <1>1 DEF w
<1>11. frames'[k.frame] = I!AfterJoin(frames[k.frame], o.h)
  <2> DEFINE g == [frames[k.frame] EXCEPT !.pc = @ + 1]
  <2>1. frames'[k.frame] = [g EXCEPT !.handles[o.h] = None]
    BY <1>4, <1>9, <1>10
  <2>2. PICK fr : fr = frames[k.frame]
    OBVIOUS
  <2>3. PICK n : n = o.h
    OBVIOUS
  <2>4. frames'[k.frame] = [[fr EXCEPT !.pc = @ + 1] EXCEPT !.handles[n] = None]
    BY <2>1, <2>2, <2>3
  <2>5. frames'[k.frame] = I!AfterJoin(fr, n)
    BY <2>4, SameIds DEF I!AfterJoin
  <2> HIDE DEF o
  <2> QED
    BY <2>2, <2>3, <2>5
<1>12. \A f \in Ids : f # k.frame => frames'[f] = frames[f]
  BY <1>9, <1>10
<1>13. frames' = [frames EXCEPT ![I!Top(t)] = I!AfterJoin(@, I!Op(t).h)]
  <2>1. frames' = [f \in Ids |-> frames'[f]]
    BY <1>9, <1>10
  <2> QED
    BY <1>2, <1>4, <1>6, <1>11, <1>12, <2>1 DEF FrameStore
<1> HIDE DEF c, h, o, out
<1>14. ASSUME NEW u \in Ids
       PROVE  /\ Statuses'[u] = IF u = c THEN "absent" ELSE Statuses[u]
              /\ Reasons'[u] = Reasons[u]
  <2>1. CASE u = c
    <3>1. StatusOf(u)' = "absent"
      BY <1>3, <2>1 DEF StatusOf
    <3>2. ReasonOf(u)' = Nothing /\ ReasonOf(u) = Nothing
      BY <1>1, <1>3, <2>1 DEF ReasonOf, Live
    <3> QED
      BY <2>1, <3>1, <3>2 DEF Statuses, Reasons
  <2>2. CASE u = t
    <3>1. Says(k) /\ Says(out)'
      BY <1>1, TokensSay, TokensSayLater
    <3> QED
      BY <1>2, <1>3, <1>5, <2>2, <3>1 DEF Says
  <2>3. CASE u # c /\ u # t
    <3> DEFINE ws == {k}
    <3>1. /\ ws \in SUBSET marking /\ marking \ ws \subseteq marking' /\ \A l \in ws : l.thread # u
          /\ \A f \in Ids : (\A l \in ws : l.frame # f) => f # k.frame
      BY <1>1, <2>3
    <3>2. (threads'[u] = NoThread <=> threads[u] = NoThread) /\ (u \in finished' <=> u \in finished)
      BY <1>1, <1>3, <2>3
    <3> HIDE DEF ws
    <3>3. Untold(u)
      BY <1>1, <1>12, <3>1, <3>2, UntoldIf
    <3> QED
      BY <1>1, <2>3, <3>3, UntoldSame
  <2> QED
    BY <2>1, <2>2, <2>3
<1>15. Statuses' = [Statuses EXCEPT ![c] = "absent"] /\ Reasons' = Reasons
  BY <1>3, <1>14 DEF Statuses, Reasons
<1>16. ASSUME NEW u \in Ids
       PROVE  /\ StackOf(u)' = StackOf(u)
              /\ ParentOf(u)' = IF u = c THEN None ELSE ParentOf(u)
              /\ ChildrenOf(u)' = IF u = c THEN [x \in Ids |-> None]
                                  ELSE IF u = t THEN [ChildrenOf(u) EXCEPT ![h] = None] ELSE ChildrenOf(u)
  <2>1. StackOf(c) = <<>>
    BY <1>1, <1>3 DEF NetInv, StacksOwn, Live
  <2>2. CASE u = c
    BY <1>3, <2>1, <2>2 DEF StackOf, ParentOf, ChildrenOf
  <2>3. CASE u = t
    BY <1>3, <1>4, <2>3 DEF StackOf, ParentOf, ChildrenOf
  <2>4. CASE u # c /\ u # t
    <3>1. threads'[u] = threads[u]
      BY <1>3, <2>4
    <3> QED
      BY <2>4, <3>1 DEF StackOf, ParentOf, ChildrenOf
  <2> QED
    BY <2>2, <2>3, <2>4
<1>17. Stacks' = Stacks /\ Parents' = [Parents EXCEPT ![c] = None]
  BY <1>3, <1>16 DEF Stacks, Parents
<1>18. ChildMaps' = [ChildMaps EXCEPT ![t][h] = None, ![c] = [x \in Ids |-> None]]
  BY <1>3, <1>4, <1>16 DEF ChildMaps
<1>19. UNCHANGED Queues0
  <2>1. SameIn("acquire") /\ SameIn("wait") /\ SameIn("send") /\ SameIn("recv")
    BY <1>1, <1>2, <1>5 DEF SameIn
  <2> QED
    BY <2>1, QueuesSame DEF Queues0
<1>20. I!Reach(t)
  BY <1>1, <1>2, PastGrows
<1>21. I!JoinFinished(t, h, c)
  BY <1>1, <1>13, <1>15, <1>17, <1>18, SameIds DEF I!JoinFinished
<1>22. I!OnlyThreads
  BY <1>1, <1>19 DEF I!OnlyThreads, I!syncVars, I!chanVars, Queues0
<1>23. UNCHANGED ScopesOpen
  BY <1>1, ScopesSame
<1>24. I!Join(t)
  BY <1>1, <1>2, <1>7, <1>20, <1>21, <1>22, <1>23 DEF I!Join
<1> QED
  BY <1>24 DEF I!ThreadStep

(* The threads that live, for both *)
LEMMA LiveSame == NetInv => I!Live = Live
<1> SUFFICES ASSUME NetInv
             PROVE  I!Live = Live
  OBVIOUS
<1>1. ASSUME NEW t \in Ids
      PROVE  t \in Live <=> Statuses[t] \notin {"absent", "done"}
  <2>1. CASE t \in Live
    <3>1. Says(TokenOf(t)) /\ TokenOf(t).thread = t
      BY <2>1, TokenIn, TokensSay
    <3> QED
      BY <2>1, <3>1 DEF Says
  <2>2. CASE t \notin Live
    BY <2>2 DEF Live, Statuses, StatusOf
  <2> QED
    BY <2>1, <2>2
<1> QED
  BY <1>1, SameIds DEF I!Live, Live

LEMMA SameCardinality == \A S : I!Cardinality(S) = Cardinality(S)
BY DEF I!Cardinality, Cardinality

(* create_thread gives out the same identities. *)
LEMMA NthIs ==
  ASSUME NetInv, NEW fs \in Seq(Functions), HasRoom(fs), NEW u \in Ids
  PROVE  /\ \A i \in DOMAIN fs : I!Nth(u) = i <=> u = NthThread(i)
         /\ I!Nth(u) \in DOMAIN fs <=> \E i \in DOMAIN fs : u = NthThread(i)
         /\ I!Born(fs) = Born(fs) /\ Born(fs) \subseteq DOMAIN fs
         /\ \A i : I!FrameOf(fs, i) = NthFrame(fs, i)
<1>1. PICK a \in Nat \ {0} : a = alloc.thread
  BY DEF NetInv, NetTypes
<1>2. u \in Nat /\ DOMAIN fs = 1..Len(fs) /\ Len(fs) \in Nat
  BY DEF Ids
<1>3. ASSUME NEW i \in DOMAIN fs
      PROVE  I!Nth(u) = i <=> u = NthThread(i)
  <2>1. I!Nth(u) = u - a + 1 /\ NthThread(i) = a + i - 1 /\ i \in Nat
    BY <1>1, <1>2 DEF I!Nth, NthThread
  <2>2. \A v, b, j \in Int : v - b + 1 = j <=> v = b + j - 1
    OBVIOUS
  <2>3. u \in Int /\ a \in Int /\ i \in Int
    BY <1>2, <2>1
  <2> QED
    BY <2>1, <2>2, <2>3
<1>4. I!Born(fs) = Born(fs) /\ Born(fs) \subseteq DOMAIN fs
  BY <1>2 DEF I!Born, Born
<1>5. ASSUME NEW i
      PROVE  I!FrameOf(fs, i) = NthFrame(fs, i)
  <2>1. {j \in I!Born(fs) : j < i} = {j \in Born(fs) : j < i}
    BY <1>4
  <2> QED
    BY <2>1, SameCardinality DEF I!FrameOf, NthFrame
<1> QED
  BY <1>3, <1>4, <1>5

(* The records of the threads being created, for the interpreter *)
LEMMA CreatesTold ==
  ASSUME NetInv, NetInv', NEW k \in marking, k.at[1] = "control", NEW own,
         own.at[1] \in {"control", "scope"}, NEW fs \in Seq(Functions),
         NEW p \in Ids \union {None}, Creates(k, own, fs, p), CreateThreads(fs),
         \A f \in Ids : frames[f] # NoFrame /\ f # k.frame => frames'[f].handles = frames[f].handles,
         \A u, s \in Ids : u # k.thread => (scopes'[s] # NoScope /\ scopes'[s].owner = u
                                            <=> scopes[s] # NoScope /\ scopes[s].owner = u)
  PROVE  /\ I!CreateThreads(fs, p)
         /\ \A u \in Ids : u # k.thread => /\ Statuses'[u] = I!BornStatus(fs)[u]
                                           /\ Reasons'[u] = Reasons[u]
         /\ I!BornStatus(fs)[k.thread] = "run" /\ Reasons[k.thread] = Nothing
         /\ UNCHANGED Queues0
<1> DEFINE t == k.thread
<1>1. /\ HasRoom(fs) /\ ~HitsThreadLimit(fs)
      /\ completed' = [f \in Functions |-> IF f \notin Nobody THEN completed[f]
           ELSE Counted(f, Cardinality({i \in DOMAIN fs : fs[i] = f}))]
  BY DEF CreateThreads
<1>2. /\ CreatesTokens(k, own, fs) /\ CreatesRecords(k, fs, p) /\ prog' = prog
  BY DEF Creates
<1>3. /\ marking' = (marking \ {k}) \union ({own} \union StartTokens(fs)) /\ own.thread = t
  BY <1>2 DEF CreatesTokens
<1>4. /\ \A i \in DOMAIN fs : NthThread(i) \in Ids /\ threads[NthThread(i)] = NoThread
      /\ \A i, j \in DOMAIN fs : NthThread(i) = NthThread(j) => i = j
  BY <1>1, ThreadsFor
<1>5. t \in Ids /\ threads[t] # NoThread /\ \A i \in DOMAIN fs : NthThread(i) # t
  BY <1>4, TokenFrame
<1>6. \A i \in Born(fs) : /\ ControlToken(NthThread(i), NthFrame(fs, i), fs[i], 1) \in marking'
                          /\ ControlToken(NthThread(i), NthFrame(fs, i), fs[i], 1).thread = NthThread(i)
                          /\ ControlToken(NthThread(i), NthFrame(fs, i), fs[i], 1).at[1] = "control"
  BY <1>3 DEF StartTokens, ControlToken, Control
<1>7. \A l \in StartTokens(fs) : l.at[1] = "control"
  BY DEF StartTokens, ControlToken, Control
<1>8. finished' = finished \union {NthThread(i) : i \in DOMAIN fs \ Born(fs)}
  BY <1>2 DEF CreatesRecords
<1>9. finished \subseteq {u \in Ids : threads[u] # NoThread}
  BY DEF NetInv, NetTypes
<1>10. ASSUME NEW i \in DOMAIN fs, NEW u \in Ids, u = NthThread(i)
       PROVE  /\ Statuses'[u] = I!BornStatus(fs)[u] /\ Reasons'[u] = Reasons[u]
              /\ StackOf(u)' = IF i \in Born(fs) THEN <<NthFrame(fs, i)>> ELSE StackOf(u)
              /\ ParentOf(u)' = p
  <2>1. I!Nth(u) = i /\ I!Born(fs) = Born(fs)
    BY <1>1, <1>10, NthIs
  <2>2. I!BornStatus(fs)[u] = IF i \in Born(fs) THEN "run" ELSE "done"
    BY <2>1, SameIds DEF I!BornStatus
  <2>3. Reasons[u] = Nothing /\ StackOf(u) = <<>>
    BY <1>4, <1>10 DEF Reasons, ReasonOf, Live, StackOf
  <2>4. /\ threads'[u] # NoThread /\ threads'[u].parent = p
        /\ threads'[u].stack = IF i \in Born(fs) THEN <<NthFrame(fs, i)>> ELSE <<>>
    BY <1>2, <1>10 DEF CreatesRecords
  <2>5. CASE i \in Born(fs)
    <3>0. PICK l : l = ControlToken(NthThread(i), NthFrame(fs, i), fs[i], 1)
      OBVIOUS
    <3>1. l \in marking' /\ l.thread = u /\ l.at[1] = "control"
      BY <1>6, <1>10, <2>5, <3>0
    <3>2. Says(l)'
      BY <3>1, TokensSayLater
    <3>3. Statuses'[u] = "run" /\ Reasons'[u] = Nothing
      BY <3>1, <3>2 DEF Says
    <3> QED
      BY <2>2, <2>3, <2>4, <2>5, <3>3 DEF StackOf, ParentOf
  <2>6. CASE i \notin Born(fs)
    <3>1. u \in finished'
      BY <1>8, <1>10, <2>6
    <3>2. StatusOf(u)' = "done" /\ ReasonOf(u)' = Nothing
      BY <2>4, <3>1 DEF StatusOf, ReasonOf, Live
    <3> QED
      BY <2>2, <2>3, <2>4, <2>6, <3>2 DEF StackOf, ParentOf, Statuses, Reasons
  <2> QED
    BY <2>5, <2>6
<1>11. ASSUME NEW u \in Ids, \A i \in DOMAIN fs : u # NthThread(i)
       PROVE  /\ I!Nth(u) \notin DOMAIN fs /\ I!Nth(u) \notin Born(fs)
              /\ I!BornStatus(fs)[u] = Statuses[u]
              /\ threads'[u] = NoThread <=> threads[u] = NoThread
              /\ StackOf(u)' = StackOf(u) /\ ParentOf(u)' = ParentOf(u)
              /\ u \in finished' <=> u \in finished
  <2>1. I!Nth(u) \notin DOMAIN fs /\ I!Born(fs) = Born(fs) /\ Born(fs) \subseteq DOMAIN fs
    BY <1>1, <1>11, NthIs
  <2>2. I!BornStatus(fs)[u] = Statuses[u]
    BY <2>1, SameIds DEF I!BornStatus
  <2>3. u \in finished' <=> u \in finished
    BY <1>8, <1>11
  <2> QED
    BY <1>2, <1>11, <2>1, <2>2, <2>3 DEF CreatesRecords, StackOf, ParentOf
<1>12. ASSUME NEW u \in Ids, u # t, \A i \in DOMAIN fs : u # NthThread(i)
       PROVE  Statuses'[u] = I!BornStatus(fs)[u] /\ Reasons'[u] = Reasons[u]
  <2> DEFINE ws == {k}
  <2>1. /\ ws \in SUBSET marking /\ marking \ ws \subseteq marking' /\ \A l \in ws : l.thread # u
        /\ \A f \in Ids : (\A l \in ws : l.frame # f) => f # k.frame
    BY <1>3, <1>12
  <2> HIDE DEF ws
  <2>2. Untold(u)
    BY <1>11, <1>12, <2>1, UntoldIf
  <2> QED
    BY <1>2, <1>11, <1>12, <2>2, UntoldSame
<1>13. I!BornStatus(fs)[t] = "run" /\ Reasons[t] = Nothing
  <2>1. Statuses[t] = "run" /\ Reasons[t] = Nothing
    BY TokensSay DEF Says
  <2> QED
    BY <1>5, <1>11, <2>1
<1>14. /\ Stacks' = [u \in Ids |-> IF I!Nth(u) \in Born(fs) THEN <<I!FrameOf(fs, I!Nth(u))>> ELSE Stacks[u]]
       /\ Parents' = [u \in Ids |-> IF I!Nth(u) \in DOMAIN fs THEN p ELSE Parents[u]]
  <2>1. ASSUME NEW u \in Ids
        PROVE  /\ StackOf(u)' = IF I!Nth(u) \in Born(fs) THEN <<I!FrameOf(fs, I!Nth(u))>> ELSE StackOf(u)
               /\ ParentOf(u)' = IF I!Nth(u) \in DOMAIN fs THEN p ELSE ParentOf(u)
    <3>1. CASE \E i \in DOMAIN fs : u = NthThread(i)
      <4>1. PICK i \in DOMAIN fs : u = NthThread(i)
        BY <3>1
      <4>2. I!Nth(u) = i /\ I!FrameOf(fs, i) = NthFrame(fs, i)
        BY <1>1, <4>1, NthIs
      <4> QED
        BY <1>10, <4>1, <4>2
    <3>2. CASE \A i \in DOMAIN fs : u # NthThread(i)
      BY <1>11, <3>2
    <3> QED
      BY <3>1, <3>2
  <2> QED
    BY <2>1 DEF Stacks, Parents
<1>15. {NthThread(i) : i \in DOMAIN fs \ Born(fs)} = {u \in Ids : I!Nth(u) \in DOMAIN fs \ Born(fs)}
  <2>1. ASSUME NEW u \in Ids
        PROVE  I!Nth(u) \in DOMAIN fs \ Born(fs) <=> \E i \in DOMAIN fs \ Born(fs) : u = NthThread(i)
    BY <1>1, NthIs
  <2> QED
    BY <1>4, <2>1
<1>16. /\ ~I!HitsThreadLimit(fs) /\ I!HasRoom(fs) /\ I!Born(fs) = Born(fs)
       /\ \A f, n : I!Completed(f, n) = Counted(f, n)
  <2>1. I!Born(fs) = Born(fs) /\ I!Live = Live
    BY LiveSame DEF I!Born, Born
  <2>2. ASSUME NEW i \in 1..Len(fs)
        PROVE  {j \in I!Born(fs) : j < i} = {j \in Born(fs) : j < i}
    BY <2>1
  <2>3. ~I!HitsThreadLimit(fs)
    BY <1>1, <2>1, <2>2, SameCardinality DEF I!HitsThreadLimit, HitsThreadLimit
  <2>4. I!HasRoom(fs)
    BY <1>1, <2>1, SameCardinality DEF I!HasRoom, HasRoom
  <2>5. \A f, n : I!Completed(f, n) = Counted(f, n)
    BY DEF I!Completed, Counted
  <2> QED
    BY <2>1, <2>3, <2>4, <2>5
<1>17. I!CreateThreads(fs, p)
  <2>1. Stacks' = [u \in I!Ids |-> IF I!Nth(u) \in I!Born(fs) THEN <<I!FrameOf(fs, I!Nth(u))>> ELSE Stacks[u]]
    BY <1>14, <1>16, SameIds
  <2>2. Parents' = [u \in I!Ids |-> IF I!Nth(u) \in DOMAIN fs THEN p ELSE Parents[u]]
    BY <1>14, SameIds
  <2>3. finished' = finished \union {u \in I!Ids : I!Nth(u) \in DOMAIN fs \ I!Born(fs)}
    BY <1>8, <1>15, <1>16, SameIds
  <2>4. completed' = [f \in Functions |-> IF f \notin Nobody THEN completed[f]
          ELSE I!Completed(f, Cardinality({i \in DOMAIN fs : fs[i] = f}))]
    BY <1>1, <1>16
  <2>5. \A f : I!Cardinality({i \in DOMAIN fs : fs[i] = f}) = Cardinality({i \in DOMAIN fs : fs[i] = f})
    BY SameCardinality
  <2>6. completed' = [f \in Functions |-> IF f \notin Nobody THEN completed[f]
          ELSE I!Completed(f, I!Cardinality({i \in DOMAIN fs : fs[i] = f}))]
    <3> DEFINE c(f) == Cardinality({i \in DOMAIN fs : fs[i] = f})
               d(f) == I!Cardinality({i \in DOMAIN fs : fs[i] = f})
    <3>1. \A f : d(f) = c(f)
      BY <2>5
    <3>2. completed' = [f \in Functions |-> IF f \notin Nobody THEN completed[f] ELSE I!Completed(f, c(f))]
      BY <2>4
    <3> HIDE DEF c, d
    <3>3. completed' = [f \in Functions |-> IF f \notin Nobody THEN completed[f] ELSE I!Completed(f, d(f))]
      BY <3>1, <3>2
    <3> QED
      BY <3>3 DEF d
  <2> QED
    BY <1>16, <2>1, <2>2, <2>3, <2>6 DEF I!CreateThreads
<1>18. UNCHANGED Queues0
  <2>1. SameIn("acquire") /\ SameIn("wait") /\ SameIn("send") /\ SameIn("recv")
    BY <1>3, <1>7 DEF SameIn
  <2> QED
    BY <2>1, QueuesSame DEF Queues0
<1>19. \A u \in Ids : u # t => Statuses'[u] = I!BornStatus(fs)[u] /\ Reasons'[u] = Reasons[u]
  BY <1>10, <1>12
<1> QED
  BY <1>13, <1>17, <1>18, <1>19

(* The frames of the threads being created *)
LEMMA BornFrames ==
  ASSUME NetInv, NEW fs \in Seq(Functions), HasRoom(fs), NEW frs
  PROVE  I!WithNewFrames(fs, frs) = WithNewFrames(frs, fs)
<1>1. I!Born(fs) = Born(fs) /\ \A i : I!FrameOf(fs, i) = NthFrame(fs, i)
  <2>1. 1 \in Ids
    BY NetAssumption DEF Ids
  <2> QED
    BY <2>1, NthIs
<1>2. ASSUME NEW f \in Ids
      PROVE  I!WithNewFrames(fs, frs)[f] = WithNewFrames(frs, fs)[f]
  <2>1. (CHOOSE i \in I!Born(fs) : f = I!FrameOf(fs, i)) = (CHOOSE i \in Born(fs) : f = NthFrame(fs, i))
    BY <1>1
  <2>2. (\E i \in I!Born(fs) : f = I!FrameOf(fs, i)) <=> (\E i \in Born(fs) : f = NthFrame(fs, i))
    BY <1>1
  <2>3. \A g : I!Activation(g, I!NoReturn) = NewFrame(g, SlotInit[g], NoReturn)
    BY DEF I!Activation, I!NoReturn, NewFrame, NoReturn, I!None, None
  <2>4. PICK j : j = CHOOSE i \in Born(fs) : f = NthFrame(fs, i)
    OBVIOUS
  <2>5. WithNewFrames(frs, fs)[f] = IF \E i \in Born(fs) : f = NthFrame(fs, i)
                                    THEN NewFrame(fs[j], SlotInit[fs[j]], NoReturn) ELSE frs[f]
    BY <2>4 DEF WithNewFrames
  <2>6. I!WithNewFrames(fs, frs)[f] = IF \E i \in Born(fs) : f = NthFrame(fs, i)
                                      THEN I!Activation(fs[j], I!NoReturn) ELSE frs[f]
    BY <2>1, <2>2, <2>4, SameIds DEF I!WithNewFrames
  <2> QED
    BY <2>3, <2>5, <2>6
<1> QED
  BY <1>2, SameIds DEF I!WithNewFrames, WithNewFrames

(* A thread runs the function it was created for as its first frame. *)
Entered == \A t \in Live : frames[threads[t].stack[1]].fn = threads[t].entry

LEMMA BoundTold ==
  ASSUME NetInv, Entered, NEW f, WithinBound(f)
  PROVE  I!WithinFunctionBound(f)
<1>1. ASSUME NEW t \in Live
      PROVE  (Stacks[t] # <<>> /\ frames[Stacks[t][1]].fn = f) <=> threads[t].entry = f
  <2>1. PICK k \in marking : k.thread = t
    BY TokenIn
  <2>2. Stacks[t] = threads[t].stack /\ Stacks[t] # <<>>
    BY <2>1, Position
  <2> QED
    BY <2>2 DEF Entered
<1>2. I!Active(f) = {t \in Live : threads[t].entry = f}
  BY <1>1, LiveSame DEF I!Active
<1> QED
  BY <1>2, SameCardinality DEF I!WithinFunctionBound, WithinBound

(* A thread being created has no child yet. *)
LEMMA BornChildless ==
  ASSUME NetInv, NEW fs \in Seq(Functions), HasRoom(fs), NEW p \in Ids \union {None}, NEW ths,
         ths = WithNewThreads(threads, fs, p)
  PROVE  /\ \A i \in DOMAIN fs : /\ NthThread(i) \in Ids /\ threads[NthThread(i)] = NoThread
                                 /\ ths[NthThread(i)] # NoThread
                                 /\ ths[NthThread(i)].children = [h \in Ids |-> None]
                                 /\ ths[NthThread(i)].entry = fs[i]
         /\ \A u \in Ids : (\A i \in DOMAIN fs : u # NthThread(i)) => ths[u] = threads[u]
         /\ DOMAIN ths = Ids
<1>1. ASSUME NEW i \in DOMAIN fs
      PROVE  /\ NthThread(i) \in Ids /\ threads[NthThread(i)] = NoThread
             /\ ths[NthThread(i)] # NoThread
             /\ ths[NthThread(i)].children = [h \in Ids |-> None] /\ ths[NthThread(i)].entry = fs[i]
  <2>1. NthThread(i) \in Ids /\ NthThread(i) - alloc.thread + 1 = i /\ threads[NthThread(i)] = NoThread
    BY ThreadsFor
  <2>2. ths[NthThread(i)] # NoThread
    BY ZenonT(40), NewThreads
  <2>3. ths[NthThread(i)] = NewThread(fs[i], IF i \in Born(fs) THEN <<NthFrame(fs, i)>> ELSE <<>>, p)
    <3>1. PICK u : u = NthThread(i)
      OBVIOUS
    <3>2. /\ u \in Ids /\ u - alloc.thread + 1 = i /\ \E j \in DOMAIN fs : u = NthThread(j)
      BY <2>1, <3>1
    <3>3. ths[u] = NewThread(fs[i], IF i \in Born(fs) THEN <<NthFrame(fs, i)>> ELSE <<>>, p)
      BY <3>2 DEF WithNewThreads
    <3> QED
      BY <3>1, <3>3
  <2> QED
    BY <2>1, <2>2, <2>3 DEF NewThread
<1>2. \A u \in Ids : (\A i \in DOMAIN fs : u # NthThread(i)) => ths[u] = threads[u]
  BY DEF WithNewThreads
<1> QED
  BY <1>1, <1>2 DEF WithNewThreads

LEMMA SpawnTold ==
  ASSUME NetInv, NetInv', Entered, NEW k \in marking, Spawn(k)
  PROVE  I!Spawn(k.thread)
<1> DEFINE o == Statement(k)
           t == k.thread
           f == k.frame
           hid == alloc.handle
<1>1. o.f \in Functions /\ o.h \in HandleNames /\ k.at[1] = "control"
  BY SpawnCreates
<1>2. PICK fs \in Seq(Functions) : fs = <<o.f>>
  <2>1. <<o.f>> \in Seq(Functions)
    BY <1>1
  <2> QED
    BY <2>1
<1>3. Creates(k, Falls(k), fs, None) /\ CreateThreads(fs) /\ HasRoom(fs) /\ hid \in Ids
  BY <1>2, SpawnCreates DEF Spawn, CreateThreads
<1>4. /\ frames' = [Placed(WithNewFrames(frames, fs), {Falls(k)}) EXCEPT ![f].handles[o.h] = hid]
      /\ threads' = [WithNewThreads(threads, fs, None) EXCEPT ![t].children[hid] = alloc.thread]
      /\ alloc' = [alloc EXCEPT !.thread = @ + 1, !.handle = @ + 1,
                                !.frame = @ + Cardinality(Born(fs))]
      /\ Reach(k) /\ scopes' = scopes /\ scopesDone' = scopesDone
      /\ prog' = prog /\ data' = data /\ sem' = sem /\ buf' = buf /\ mutex' = mutex
  BY <1>2 DEF Spawn, OnlyThreads, dataVars
<1>5. k.at \in StatementPlace /\ k.at[3] \in DOMAIN prog[k.at[2]] /\ Enables(k, "spawn")
  BY <1>1, ControlStands DEF Spawn, Enables
<1>6. /\ Falls(k).thread = t /\ Falls(k).frame = f /\ Falls(k).at[1] = "control"
      /\ Falls(k).at[3] = frames[f].pc + 1
  BY <1>1, <1>5, FallPlaced
<1>7. /\ t \in Ids /\ threads[t] # NoThread /\ threads[t] \in ThreadState
      /\ f \in Ids /\ frames[f] \in FrameState /\ frames[f] # NoFrame
  BY TokenFrame
<1>8. /\ I!Executes(t, "spawn") /\ I!Op(t) = o /\ I!Top(t) = f
  BY <1>1, <1>5, AtControl, Position
<1>9. I!Reach(t)
  BY <1>1, <1>4, <1>5, PastGrows
<1>10. I!WithinFunctionBound(o.f)
  <2>1. 1 \in DOMAIN fs /\ fs[1] = o.f
    BY <1>2
  <2>2. WithinBound(o.f)
    BY <1>3, <2>1 DEF CreateThreads
  <2> QED
    BY <2>2, BoundTold
<1>11. \A i \in Born(fs) : NthFrame(fs, i) # f /\ NthFrame(fs, i) \in Ids
  BY <1>3, <1>7, FramesFor
<1> DEFINE wf == WithNewFrames(frames, fs)
           frs == [frames EXCEPT ![f].handles[o.h] = hid, ![f].pc = @ + 1]
<1>12. /\ DOMAIN frames' = Ids /\ \A g \in Ids : g # f => frames'[g] = wf[g]
       /\ frames'[f] = [[frames[f] EXCEPT !.pc = frames[f].pc + 1] EXCEPT !.handles[o.h] = hid]
  <2>1. PICK n : n = Falls(k)
    OBVIOUS
  <2>2. DOMAIN Placed(wf, {n}) = Ids /\ \A g \in Ids : g # f => Placed(wf, {n})[g] = wf[g]
    BY <1>6, <2>1 DEF Placed
  <2>3. Placed(wf, {n})[f] = [wf[f] EXCEPT !.pc = frames[f].pc + 1]
    <3>1. (CHOOSE l \in {n} : l.frame = f) = n
      BY <1>6, <2>1
    <3> QED
      BY <1>6, <1>7, <2>1, <3>1 DEF Placed
  <2>4. wf[f] = frames[f]
    BY <1>7, <1>11 DEF WithNewFrames
  <2> QED
    BY <1>4, <1>7, <2>1, <2>2, <2>3, <2>4
<1>13. frames' = I!WithNewFrames(fs, frs)
  <2>1. I!WithNewFrames(fs, frs) = WithNewFrames(frs, fs)
    BY <1>3, BornFrames
  <2>2. frames \in FrameStore
    BY DEF NetInv, NetTypes
  <2>3. ASSUME NEW g \in Ids, g # f
        PROVE  frames'[g] = WithNewFrames(frs, fs)[g]
    <3>1. frs[g] = frames[g]
      BY <2>2, <2>3 DEF FrameStore
    <3>2. frames'[g] = wf[g]
      BY <1>12, <2>3
    <3> HIDE DEF frs
    <3> QED
      BY <2>3, <3>1, <3>2 DEF WithNewFrames
  <2>4. frames'[f] = WithNewFrames(frs, fs)[f]
    <3>1. WithNewFrames(frs, fs)[f] = frs[f]
      BY <1>7, <1>11 DEF WithNewFrames
    <3>2. PICK x \in FrameState, h \in HandleNames, i \in Ids : x = frames[f] /\ h = o.h /\ i = hid
      BY <1>1, <1>3, <1>7
    <3>3. frs[f] = [[x EXCEPT !.handles[h] = i] EXCEPT !.pc = x.pc + 1]
      BY <1>7, <2>2, <3>2 DEF FrameStore, FrameState
    <3>4. frames'[f] = [[x EXCEPT !.pc = x.pc + 1] EXCEPT !.handles[h] = i]
      BY <1>12, <3>2
    <3> HIDE DEF frs
    <3>5. [[x EXCEPT !.pc = x.pc + 1] EXCEPT !.handles[h] = i] = [[x EXCEPT !.handles[h] = i] EXCEPT !.pc = x.pc + 1]
      BY DEF FrameState
    <3> QED
      BY <3>1, <3>3, <3>4, <3>5
  <2>5. frames' \in FrameStore
    BY DEF NetInv, NetTypes
  <2> HIDE DEF frs
  <2>6. PICK w : w = WithNewFrames(frs, fs)
    OBVIOUS
  <2>7. w = [g \in Ids |-> w[g]]
    BY <2>6 DEF WithNewFrames
  <2>8. \A g \in Ids : frames'[g] = w[g]
    BY <2>3, <2>4, <2>6
  <2>9. frames' = w
    BY <2>5, <2>7, <2>8 DEF FrameStore
  <2> QED
    BY <2>1, <2>6, <2>9
<1>14. \A g \in Ids : frames[g] # NoFrame /\ g # f => frames'[g].handles = frames[g].handles
  <2> SUFFICES ASSUME NEW g \in Ids, frames[g] # NoFrame, g # f
               PROVE  frames'[g] = frames[g]
    OBVIOUS
  <2>1. \A i \in Born(fs) : NthFrame(fs, i) # g
    BY <1>3, FramesFor
  <2> QED
    BY <1>12, <2>1 DEF WithNewFrames
<1>15. /\ I!CreateThreads(fs, None) /\ UNCHANGED Queues0
       /\ \A u \in Ids : u # t => Statuses'[u] = I!BornStatus(fs)[u] /\ Reasons'[u] = Reasons[u]
       /\ I!BornStatus(fs)[t] = "run" /\ Reasons[t] = Nothing
  <2>1. \A u, s \in Ids : u # t => (scopes'[s] # NoScope /\ scopes'[s].owner = u
                                    <=> scopes[s] # NoScope /\ scopes[s].owner = u)
    BY <1>4
  <2>2. PICK own : own = Falls(k)
    OBVIOUS
  <2>3. Creates(k, own, fs, None) /\ own.at[1] \in {"control", "scope"}
    BY <1>3, <1>6, <2>2
  <2> QED
    BY <1>1, <1>3, <1>14, <2>1, <2>3, CreatesTold
<1>16. Statuses'[t] = "run" /\ Reasons'[t] = Nothing
  <2>1. PICK n : n = Falls(k)
    OBVIOUS
  <2>2. n \in marking' /\ n.at[1] = "control" /\ n.thread = t
    BY <1>3, <1>6, <2>1 DEF Creates, CreatesTokens
  <2>3. Says(n)'
    BY <2>2, TokensSayLater
  <2> QED
    BY <2>2, <2>3 DEF Says
<1>17. /\ Statuses' = I!BornStatus(fs) /\ Reasons' = Reasons
  <2>1. \A u \in Ids : Statuses'[u] = I!BornStatus(fs)[u] /\ Reasons'[u] = Reasons[u]
    BY <1>15, <1>16
  <2> QED
    BY <2>1, SameIds DEF I!BornStatus, Statuses, Reasons
<1>18. ChildMaps' = [ChildMaps EXCEPT ![t][hid] = alloc.thread]
  <2>1. PICK wt : wt = WithNewThreads(threads, fs, None)
    OBVIOUS
  <2>2. /\ \A i \in DOMAIN fs : /\ NthThread(i) \in Ids /\ threads[NthThread(i)] = NoThread
                                /\ wt[NthThread(i)] # NoThread
                                /\ wt[NthThread(i)].children = [h \in Ids |-> None]
        /\ \A u \in Ids : (\A i \in DOMAIN fs : u # NthThread(i)) => wt[u] = threads[u]
        /\ DOMAIN wt = Ids
    BY <1>3, <2>1, BornChildless
  <2>3. PICK a : a = alloc.thread
    OBVIOUS
  <2>4. threads' = [wt EXCEPT ![t].children[hid] = a]
    BY <1>4, <2>1, <2>3
  <2>5. \A u \in Ids : u # t => threads'[u] = wt[u]
    BY <2>2, <2>4
  <2>6. wt[t] = threads[t]
    BY <1>7, <2>2
  <2>7. threads'[t].children = [threads[t].children EXCEPT ![hid] = a]
    <3>1. threads'[t] = [threads[t] EXCEPT !.children[hid] = a]
      BY <1>7, <2>2, <2>4, <2>6
    <3>2. PICK x \in ThreadState : x = threads[t]
      BY <1>7
    <3>3. threads'[t] = [x EXCEPT !.children[hid] = a]
      BY <3>1, <3>2
    <3>4. [x EXCEPT !.children[hid] = a].children = [x.children EXCEPT ![hid] = a]
      BY DEF ThreadState
    <3> QED
      BY <3>2, <3>3, <3>4
  <2>8. threads'[t] # NoThread
    BY <1>3, <1>7, <2>2 DEF Creates, CreatesRecords
  <2>9. ASSUME NEW u \in Ids, u # t
        PROVE  ChildrenOf(u)' = ChildrenOf(u)
    <3>1. CASE \E i \in DOMAIN fs : u = NthThread(i)
      BY <2>2, <2>5, <2>9, <3>1 DEF ChildrenOf
    <3>2. CASE \A i \in DOMAIN fs : u # NthThread(i)
      BY <2>2, <2>5, <2>9, <3>2 DEF ChildrenOf
    <3> QED
      BY <3>1, <3>2
  <2>10. ChildrenOf(t)' = [ChildrenOf(t) EXCEPT ![hid] = a]
    BY <1>7, <2>7, <2>8 DEF ChildrenOf
  <2> QED
    BY <1>7, <2>3, <2>9, <2>10 DEF ChildMaps
<1>19. alloc' = [alloc EXCEPT !.thread = @ + 1, !.handle = @ + 1,
                              !.frame = @ + I!Cardinality(I!Born(fs))]
  <2>1. I!Cardinality(I!Born(fs)) = Cardinality(Born(fs))
    BY <1>3, <1>7, NthIs, SameCardinality
  <2> QED
    BY <1>4, <2>1
<1>20. UNCHANGED ScopesOpen
  BY <1>4, ScopesSame
<1>21. I!OnlyThreads
  BY <1>4, <1>15 DEF I!OnlyThreads, I!syncVars, I!chanVars, Queues0
<1>22. frames' = I!WithNewFrames(fs, [frames EXCEPT ![I!Top(t)].handles[I!Op(t).h] = alloc.handle,
                                                    ![I!Top(t)].pc = @ + 1])
  BY <1>8, <1>13
<1> HIDE DEF o, t, f, frs, wf
<1>23. /\ I!Executes(t, "spawn") /\ fs = <<I!Op(t).f>> /\ I!WithinFunctionBound(I!Op(t).f)
       /\ I!CreateThreads(fs, I!None) /\ alloc.handle \in I!Ids /\ I!Reach(t)
  BY <1>2, <1>3, <1>8, <1>9, <1>10, <1>15, SameIds
<1>24. UNCHANGED <<Reasons, ScopesOpen, scopesDone>>
  BY <1>4, <1>17, <1>20
<1>25. I!Spawn(t)
  BY ZenonT(60), <1>17, <1>18, <1>19, <1>21, <1>22, <1>23, <1>24 DEF I!Spawn, hid
<1> QED
  BY <1>25 DEF t

-----------------------------------------------------------------------------
(* Scopes *)

LEMMA ScopeIsOpen ==
  ASSUME NetInv, NEW s \in Ids
  PROVE  /\ ScopesOpen[s] = NoScope <=> scopes[s] = NoScope
         /\ scopes[s] # NoScope => /\ scopes[s] \in ScopeState
                                   /\ ScopesOpen[s].owner = scopes[s].owner
                                   /\ ScopesOpen[s].frame = scopes[s].frame
                                   /\ ScopesOpen[s].remaining = scopes[s].remaining
<1>1. CASE scopes[s] = NoScope
  BY <1>1 DEF ScopesOpen, ScopeOf
<1>2. CASE scopes[s] # NoScope
  <2>1. scopes[s] \in ScopeState
    BY <1>2 DEF NetInv, NetTypes, ScopeStore
  <2>2. ScopesOpen[s] = [owner |-> scopes[s].owner, frame |-> scopes[s].frame,
                         remaining |-> scopes[s].remaining]
    BY <1>2 DEF ScopesOpen, ScopeOf
  <2>3. [owner |-> scopes[s].owner, frame |-> scopes[s].frame, remaining |-> scopes[s].remaining]
        \in [owner : Ids, frame : Ids, remaining : SUBSET Ids]
    BY <2>1 DEF ScopeState
  <2> QED
    BY <1>2, <2>1, <2>2, <2>3, MappingAssumption
<1> QED
  BY <1>1, <1>2

LEMMA ScopeAwaited ==
  ASSUME NetInv, I!Sound, NEW s \in Ids, scopes[s] # NoScope
  PROVE  LET t == scopes[s].owner IN
         /\ t \in Ids /\ Statuses[t] = "scope" /\ Reasons[t] = s /\ I!Top(t) = scopes[s].frame
         /\ scopes[s].remaining = I!Members(s) \cap Live /\ scopes[s].remaining # {}
<1>1. /\ ScopesOpen[s] # NoScope /\ scopes[s] \in ScopeState
      /\ ScopesOpen[s].owner = scopes[s].owner
      /\ ScopesOpen[s].frame = scopes[s].frame /\ ScopesOpen[s].remaining = scopes[s].remaining
  BY ScopeIsOpen
<1>2. scopes[s].owner \in Ids
  BY <1>1 DEF ScopeState
<1>3. I!ScopesExact
  BY DEF I!Sound, I!IInv
<1>4. LET sc == ScopesOpen[s] IN
      /\ sc.remaining = I!Members(s) \cap I!Live /\ sc.remaining # {}
      /\ Statuses[sc.owner] = "scope" /\ Reasons[sc.owner] = s /\ I!Top(sc.owner) = sc.frame
  BY <1>1, <1>3, SameIds DEF I!ScopesExact
<1> QED
  BY <1>1, <1>2, <1>4, LiveSame

(* A thread at control owns no scope. *)
LEMMA NoScopeAtControl ==
  ASSUME NetInv, I!Sound, NEW k \in marking, k.at[1] = "control", NEW s \in Ids, scopes[s] # NoScope
  PROVE  scopes[s].owner # k.thread
<1>1. Statuses[k.thread] = "run"
  BY TokensSay DEF Says
<1> QED
  BY <1>1, ScopeAwaited

(* What every scope tells, whether it waits or not *)
ScopeSays(k, fs, t, s) ==
  /\ Statement(k).fs = fs /\ I!Top(t) = k.frame /\ I!Fr(t) = FrameOfToken(k)
  /\ I!Executes(t, "scope") /\ \A i \in DOMAIN fs : I!WithinFunctionBound(fs[i])
  /\ I!CreateThreads(fs, s) /\ s \in I!Ids
  /\ alloc' = [alloc EXCEPT !.thread = @ + Len(fs), !.scope = @ + 1,
                            !.frame = @ + I!Cardinality(I!Born(fs))]
  /\ {u \in I!Ids : I!Nth(u) \in I!Born(fs)} = {NthThread(i) : i \in Born(fs)}
  /\ \A u \in Ids : u # t => Statuses'[u] = I!BornStatus(fs)[u] /\ Reasons'[u] = Reasons[u]
  /\ I!BornStatus(fs)[t] = "run" /\ Reasons[t] = Nothing
  /\ I!Reach(t) /\ I!OnlyThreads

LEMMA ScopeBeginsTold ==
  ASSUME NetInv, NetInv', Entered, NEW k \in marking, Scope(k), NEW own,
         own.at[1] \in {"control", "scope"},
         Creates(k, own, Statement(k).fs, alloc.scope),
         \A f \in Ids : frames[f] # NoFrame /\ f # k.frame => frames'[f].handles = frames[f].handles,
         \A q \in Ids : q # alloc.scope => scopes'[q] = scopes[q],
         scopes[alloc.scope] = NoScope,
         scopes'[alloc.scope] # NoScope => scopes'[alloc.scope].owner = k.thread
  PROVE  ScopeSays(k, I!Op(k.thread).fs, k.thread, alloc.scope)
<1> DEFINE t == k.thread
           s == alloc.scope
<1>0. PICK fs : fs = Statement(k).fs
  OBVIOUS
<1>1. fs \in Seq(Functions) /\ k.at[1] = "control" /\ ScopeOpens(fs, s)
  BY <1>0, ScopeIs
<1>2. HasRoom(fs) /\ s \in Ids
  BY <1>1 DEF ScopeOpens
<1>3. CreateThreads(fs) /\ Enables(k, "scope") /\ Reach(k) /\ OnlyThreads
  BY <1>0 DEF Scope
<1>4. k.at[3] \in DOMAIN prog[k.at[2]] /\ prog' = prog
  BY <1>3 DEF Enables, OnlyThreads
<1>5. I!Op(t) = Statement(k) /\ I!Top(t) = k.frame /\ I!Executes(t, "scope") /\ I!Fr(t) = FrameOfToken(k)
  BY <1>1, <1>3, AtControl, Position DEF FrameOfToken
<1>6. I!Reach(t)
  BY <1>1, <1>3, <1>4, PastGrows
<1>7. \A i \in DOMAIN fs : I!WithinFunctionBound(fs[i])
  BY <1>3, BoundTold DEF CreateThreads
<1>8. /\ I!CreateThreads(fs, s)
      /\ \A u \in Ids : u # t => Statuses'[u] = I!BornStatus(fs)[u] /\ Reasons'[u] = Reasons[u]
      /\ I!BornStatus(fs)[t] = "run" /\ Reasons[t] = Nothing /\ UNCHANGED Queues0
  <2>1. \A u, q \in Ids : u # t => (scopes'[q] # NoScope /\ scopes'[q].owner = u
                                    <=> scopes[q] # NoScope /\ scopes[q].owner = u)
    OBVIOUS
  <2>2. Creates(k, own, fs, s)
    BY <1>0
  <2> QED
    BY <1>1, <1>2, <1>3, <2>1, <2>2, CreatesTold
<1>9. {u \in I!Ids : I!Nth(u) \in I!Born(fs)} = {NthThread(i) : i \in Born(fs)}
  <2>1. ASSUME NEW u \in Ids
        PROVE  I!Nth(u) \in I!Born(fs) <=> \E i \in Born(fs) : u = NthThread(i)
    BY <1>1, <1>2, NthIs
  <2>2. \A i \in Born(fs) : NthThread(i) \in Ids
    BY <1>1, <1>2, ThreadsFor
  <2> QED
    BY <2>1, <2>2, SameIds
<1>10. alloc' = [alloc EXCEPT !.thread = @ + Len(fs), !.scope = @ + 1,
                              !.frame = @ + I!Cardinality(I!Born(fs))]
  <2>1. I!Born(fs) = Born(fs)
    BY <1>1, <1>2, NthIs
  <2> QED
    BY <1>1, <2>1, SameCardinality DEF ScopeOpens
<1>11. I!OnlyThreads
  BY <1>3, <1>8 DEF I!OnlyThreads, I!syncVars, I!chanVars, Queues0, OnlyThreads, dataVars
<1>12. I!Op(t).fs = fs
  BY <1>0, <1>5
<1> HIDE DEF t, s
<1>13. ScopeSays(k, fs, t, s)
  BY <1>0, <1>2, <1>5, <1>6, <1>7, <1>8, <1>9, <1>10, <1>11, SameIds DEF ScopeSays
<1> QED
  BY <1>12, <1>13 DEF t, s

LEMMA ScopeEndsTold ==
  ASSUME NetInv, NetInv', Entered, NEW k \in marking, Scope(k),
         ScopeEnds(k, Statement(k).fs, alloc.scope),
         Creates(k, Falls(k), Statement(k).fs, alloc.scope)
  PROVE  I!ScopeStart(k.thread)
<1> DEFINE t == k.thread
           s == alloc.scope
           r == {u \in I!Ids : I!Nth(u) \in I!Born(I!Op(t).fs)}
<1>1. PICK n : n = Falls(k)
  OBVIOUS
<1>2. PICK fs : fs = Statement(k).fs
  OBVIOUS
<1>3. k.at[1] = "control" /\ k.at \in StatementPlace /\ ScopeOpens(fs, s) /\ fs \in Seq(Functions)
  BY <1>2, ScopeIs
<1>4. /\ n.at[1] = "control" /\ n.thread = t /\ n.frame = k.frame /\ n.at[3] = frames[k.frame].pc + 1
  BY <1>1, <1>3, FallPlaced
<1>5. /\ Born(fs) = {} /\ marking' = (marking \ {k}) \union {n} /\ frames' = Placed(frames, {n})
      /\ threads' = WithNewThreads(threads, fs, s) /\ scopes' = scopes
  BY <1>1, <1>2 DEF ScopeEnds
<1>6. scopes[s] = NoScope /\ s \in Ids /\ HasRoom(fs)
  BY <1>3, ScopeOpened DEF ScopeOpens
<1>7. scopesDone' = scopesDone \union {<<FrameOfToken(k).fn, FrameOfToken(k).pc>>}
  <2>1. {NthThread(i) : i \in Born(fs)} = {}
    BY <1>5
  <2> QED
    BY <1>2, <2>1 DEF Scope
<1>8. frames' = I!Advance(frames, {t})
  BY <1>4, <1>5, PlacedAdvances
<1>9. \A f \in Ids : f # k.frame => frames'[f] = frames[f]
  BY <1>4, <1>5 DEF Placed
<1>10. /\ fs = I!Op(t).fs /\ I!Fr(t) = FrameOfToken(k)
       /\ I!Executes(t, "scope") /\ \A i \in DOMAIN I!Op(t).fs : I!WithinFunctionBound(I!Op(t).fs[i])
       /\ I!CreateThreads(I!Op(t).fs, s) /\ s \in I!Ids
       /\ alloc' = [alloc EXCEPT !.thread = @ + Len(I!Op(t).fs), !.scope = @ + 1,
                                 !.frame = @ + I!Cardinality(I!Born(I!Op(t).fs))]
       /\ r = {NthThread(i) : i \in Born(I!Op(t).fs)}
       /\ \A u \in Ids : u # t => Statuses'[u] = I!BornStatus(I!Op(t).fs)[u] /\ Reasons'[u] = Reasons[u]
       /\ I!BornStatus(I!Op(t).fs)[t] = "run" /\ Reasons[t] = Nothing
       /\ I!Reach(t) /\ I!OnlyThreads
  <2>1. /\ n.at[1] \in {"control", "scope"} /\ Creates(k, n, Statement(k).fs, alloc.scope)
        /\ \A f \in Ids : frames[f] # NoFrame /\ f # k.frame => frames'[f].handles = frames[f].handles
        /\ \A q \in Ids : q # alloc.scope => scopes'[q] = scopes[q]
        /\ scopes[alloc.scope] = NoScope
        /\ scopes'[alloc.scope] # NoScope => scopes'[alloc.scope].owner = k.thread
    BY <1>1, <1>4, <1>5, <1>6, <1>9
  <2>2. ScopeSays(k, I!Op(t).fs, t, s)
    BY <2>1, ScopeBeginsTold
  <2> QED
    BY <1>2, <2>2 DEF ScopeSays
<1>11. Statuses'[t] = "run" /\ Reasons'[t] = Nothing
  BY <1>4, <1>5, TokensSayLater DEF Says
<1>12. Statuses' = I!BornStatus(I!Op(t).fs) /\ Reasons' = Reasons
  <2>1. \A u \in Ids : Statuses'[u] = I!BornStatus(I!Op(t).fs)[u] /\ Reasons'[u] = Reasons[u]
    BY <1>10, <1>11
  <2> QED
    BY <2>1, SameIds DEF I!BornStatus, Statuses, Reasons
<1>13. ChildMaps' = ChildMaps
  <2>1. /\ \A i \in DOMAIN fs : /\ NthThread(i) \in Ids /\ threads[NthThread(i)] = NoThread
                                /\ threads'[NthThread(i)] # NoThread
                                /\ threads'[NthThread(i)].children = [h \in Ids |-> None]
        /\ \A u \in Ids : (\A i \in DOMAIN fs : u # NthThread(i)) => threads'[u] = threads[u]
    BY <1>3, <1>5, <1>6, BornChildless
  <2>2. ASSUME NEW u \in Ids
        PROVE  ChildrenOf(u)' = ChildrenOf(u)
    <3>1. CASE \E i \in DOMAIN fs : u = NthThread(i)
      BY <2>1, <3>1 DEF ChildrenOf
    <3>2. CASE \A i \in DOMAIN fs : u # NthThread(i)
      BY <2>1, <3>2 DEF ChildrenOf
    <3> QED
      BY <3>1, <3>2
  <2> QED
    BY <2>2 DEF ChildMaps
<1>14. r = {} /\ scopesDone' = scopesDone \union {<<I!Fr(t).fn, I!Fr(t).pc>>}
  BY <1>5, <1>7, <1>10
<1>15. UNCHANGED <<Reasons, ScopesOpen>> /\ UNCHANGED ChildMaps
  BY <1>5, <1>12, <1>13, ScopesSame
<1> HIDE DEF t
<1>16. I!ScopeStart(t)
  BY ZenonT(60), <1>8, <1>10, <1>12, <1>14, <1>15 DEF I!ScopeStart
<1> QED
  BY <1>16 DEF t

LEMMA ScopeWaitsTold ==
  ASSUME NetInv, NetInv', I!Sound, Entered, NEW k \in marking, Scope(k),
         ScopeWaits(k, OwnToken(k), Statement(k).fs, alloc.scope),
         Creates(k, OwnToken(k), Statement(k).fs, alloc.scope)
  PROVE  I!ScopeStart(k.thread)
<1> DEFINE t == k.thread
           s == alloc.scope
           r == {u \in I!Ids : I!Nth(u) \in I!Born(I!Op(t).fs)}
<1>1. PICK n : n = OwnToken(k)
  OBVIOUS
<1>2. PICK fs : fs = Statement(k).fs
  OBVIOUS
<1>3. k.at[1] = "control" /\ k.at \in StatementPlace /\ ScopeOpens(fs, s) /\ fs \in Seq(Functions)
  BY <1>2, ScopeIs
<1>4. /\ n.at[1] = "scope" /\ n.thread = t /\ n.frame = k.frame
  BY <1>1, <1>3, OwnPlaced
<1>5. PICK c \in ScopeState :
         /\ c = [owner |-> k.thread, frame |-> k.frame, sid |-> n.at[3],
                 remaining |-> {NthThread(i) : i \in Born(fs)}]
         /\ scopes' = [scopes EXCEPT ![s] = c]
  BY <1>1, <1>2 DEF ScopeWaits
<1>6. /\ Born(fs) # {} /\ marking' = (marking \ {k}) \union StartTokens(fs) \union {n}
      /\ frames' = WithNewFrames(frames, fs)
      /\ threads' = Blocked(WithNewThreads(threads, fs, s), k.thread, n.at)
  BY <1>1, <1>2 DEF ScopeWaits
<1>7. scopes[s] = NoScope /\ s \in Ids /\ HasRoom(fs)
  BY <1>3, ScopeOpened DEF ScopeOpens
<1>8. /\ scopes'[s] = c /\ \A q \in Ids : q # s => scopes'[q] = scopes[q]
      /\ c # NoScope /\ c.owner = t /\ c.frame = k.frame
      /\ c.remaining = {NthThread(i) : i \in Born(fs)}
  BY <1>5, <1>7, NetAssumption DEF NetInv, NetTypes, ScopeStore
<1>9. frames' = I!WithNewFrames(fs, frames)
  BY <1>3, <1>6, <1>7, BornFrames
<1>10. \A f \in Ids : frames[f] # NoFrame => frames'[f] = frames[f]
  <2> SUFFICES ASSUME NEW f \in Ids, frames[f] # NoFrame
               PROVE  frames'[f] = frames[f]
    OBVIOUS
  <2>1. \A i \in Born(fs) : NthFrame(fs, i) # f
    BY <1>3, <1>7, FramesFor
  <2> QED
    BY <1>6, <2>1 DEF WithNewFrames
<1>11. /\ fs = I!Op(t).fs /\ I!Top(t) = k.frame
       /\ I!Executes(t, "scope") /\ \A i \in DOMAIN I!Op(t).fs : I!WithinFunctionBound(I!Op(t).fs[i])
       /\ I!CreateThreads(I!Op(t).fs, s) /\ s \in I!Ids
       /\ alloc' = [alloc EXCEPT !.thread = @ + Len(I!Op(t).fs), !.scope = @ + 1,
                                 !.frame = @ + I!Cardinality(I!Born(I!Op(t).fs))]
       /\ r = {NthThread(i) : i \in Born(I!Op(t).fs)}
       /\ \A u \in Ids : u # t => Statuses'[u] = I!BornStatus(I!Op(t).fs)[u] /\ Reasons'[u] = Reasons[u]
       /\ I!Reach(t) /\ I!OnlyThreads
  <2>1. /\ n.at[1] \in {"control", "scope"} /\ Creates(k, n, Statement(k).fs, alloc.scope)
        /\ \A f \in Ids : frames[f] # NoFrame /\ f # k.frame => frames'[f].handles = frames[f].handles
        /\ \A q \in Ids : q # alloc.scope => scopes'[q] = scopes[q]
        /\ scopes[alloc.scope] = NoScope
        /\ scopes'[alloc.scope] # NoScope => scopes'[alloc.scope].owner = k.thread
    BY <1>1, <1>4, <1>7, <1>8, <1>10
  <2>2. ScopeSays(k, I!Op(t).fs, t, s)
    BY <2>1, ScopeBeginsTold
  <2> QED
    BY <1>2, <2>2 DEF ScopeSays
<1>12. t \in Ids /\ threads[t] # NoThread /\ threads[t] \in ThreadState
  BY TokenFrame
<1>13. Statuses'[t] = "scope" /\ Reasons'[t] = s
  <2>1. n \in marking'
    BY <1>6
  <2>2. Says(n)'
    BY <2>1, TokensSayLater
  <2>3. \A q \in Ids : scopes'[q] # NoScope /\ scopes'[q].owner = t <=> q = s
    <3>1. \A q \in Ids : scopes[q] # NoScope => scopes[q].owner # t
      BY <1>3, NoScopeAtControl
    <3> QED
      BY <1>7, <1>8, <3>1
  <2>4. Statuses'[t] = "scope"
        /\ Reasons'[t] = CHOOSE q \in Ids : scopes'[q] # NoScope /\ scopes'[q].owner = t
    BY <1>4, <2>2 DEF Says
  <2>5. (CHOOSE q \in Ids : scopes'[q] # NoScope /\ scopes'[q].owner = t) = s
    BY <1>7, <2>3
  <2> QED
    BY <2>4, <2>5
<1>14. /\ Statuses' = [I!BornStatus(I!Op(t).fs) EXCEPT ![t] = "scope"]
       /\ Reasons' = [Reasons EXCEPT ![t] = s]
  <2> DEFINE b == I!BornStatus(I!Op(t).fs)
  <2>1. b = [u \in Ids |-> b[u]]
    BY SameIds DEF I!BornStatus
  <2>2. /\ Statuses' = [u \in Ids |-> Statuses'[u]] /\ Reasons = [u \in Ids |-> Reasons[u]]
        /\ Reasons' = [u \in Ids |-> Reasons'[u]]
    BY DEF Statuses, Reasons
  <2>3. \A u \in Ids : u # t => Statuses'[u] = b[u] /\ Reasons'[u] = Reasons[u]
    BY <1>11
  <2> HIDE DEF b
  <2>4. Statuses' = [b EXCEPT ![t] = "scope"]
    BY <1>12, <1>13, <2>1, <2>2, <2>3
  <2>5. Reasons' = [Reasons EXCEPT ![t] = s]
    BY <1>12, <1>13, <2>2, <2>3
  <2> QED
    BY <2>4, <2>5 DEF b
<1>15. ChildMaps' = ChildMaps
  <2>1. PICK wt : wt = WithNewThreads(threads, fs, s)
    OBVIOUS
  <2>2. /\ \A i \in DOMAIN fs : /\ NthThread(i) \in Ids /\ threads[NthThread(i)] = NoThread
                                /\ wt[NthThread(i)] # NoThread
                                /\ wt[NthThread(i)].children = [h \in Ids |-> None]
        /\ \A u \in Ids : (\A i \in DOMAIN fs : u # NthThread(i)) => wt[u] = threads[u]
        /\ DOMAIN wt = Ids
    BY <1>3, <1>7, <2>1, BornChildless
  <2>3. wt[t] = threads[t]
    BY <1>12, <2>2
  <2>4. threads' = [wt EXCEPT ![t].blocked = n.at]
    BY <1>6, <2>1 DEF Blocked
  <2>5. \A u \in Ids : u # t => threads'[u] = wt[u]
    BY <2>2, <2>4
  <2>6. threads'[t].children = threads[t].children
    <3>1. threads'[t] = [threads[t] EXCEPT !.blocked = n.at]
      BY <1>12, <2>2, <2>3, <2>4
    <3>2. PICK x \in ThreadState : x = threads[t]
      BY <1>12
    <3>3. PICK b : b = n.at
      OBVIOUS
    <3>4. [x EXCEPT !.blocked = b].children = x.children
      BY DEF ThreadState
    <3> QED
      BY <3>1, <3>2, <3>3, <3>4
  <2>7. threads'[t] # NoThread
    BY <1>4, <1>6, TokensSayLater DEF Says, Live
  <2>8. ASSUME NEW u \in Ids
        PROVE  ChildrenOf(u)' = ChildrenOf(u)
    <3>1. CASE \E i \in DOMAIN fs : u = NthThread(i)
      BY <1>12, <2>2, <2>5, <3>1 DEF ChildrenOf
    <3>2. CASE u # t /\ \A i \in DOMAIN fs : u # NthThread(i)
      BY <2>2, <2>5, <3>2 DEF ChildrenOf
    <3>3. CASE u = t
      BY <1>12, <2>6, <2>7, <3>3 DEF ChildrenOf
    <3> QED
      BY <3>1, <3>2, <3>3
  <2> QED
    BY <2>8 DEF ChildMaps
<1>16. r # {} /\ r = c.remaining
  BY <1>6, <1>8, <1>11
<1>17. ScopesOpen' = [ScopesOpen EXCEPT ![s] = [owner |-> t, frame |-> I!Top(t), remaining |-> r]]
  <2> HIDE DEF r
  <2>0. PICK p \in Ids : p = s
    BY <1>7
  <2>1. ScopeOf(p)' = [owner |-> t, frame |-> I!Top(t), remaining |-> r]
    <3>1. ScopeOf(p)' = [owner |-> c.owner, frame |-> c.frame, remaining |-> c.remaining]
      BY <1>8, <2>0 DEF ScopeOf
    <3> QED
      BY <1>8, <1>11, <1>16, <3>1
  <2>2. \A q \in Ids : q # p => ScopeOf(q)' = ScopeOf(q)
    BY <1>8, <2>0 DEF ScopeOf
  <2> QED
    BY <2>0, <2>1, <2>2 DEF ScopesOpen
<1>18. scopesDone' = scopesDone
  <2>1. {NthThread(i) : i \in Born(fs)} # {}
    BY <1>6
  <2> QED
    BY <1>2, <2>1 DEF Scope
<1>19. frames' = I!WithNewFrames(I!Op(t).fs, frames) /\ UNCHANGED ChildMaps
  BY <1>9, <1>11, <1>15
<1> HIDE DEF t
<1>20. I!ScopeStart(t)
  BY ZenonT(60), <1>11, <1>14, <1>16, <1>17, <1>18, <1>19 DEF I!ScopeStart
<1> QED
  BY <1>20 DEF t

LEMMA ScopeTold ==
  ASSUME NetInv, NetInv', I!Sound, Entered, NEW k \in marking, Scope(k)
  PROVE  I!ScopeStart(k.thread)
BY ScopeCreates, ScopeEndsTold, ScopeWaitsTold

-----------------------------------------------------------------------------
(* Threads that finish *)

(* The token of a scope's owner tells the statement of the scope. *)
ScopeSids ==
  \A s \in Ids : scopes[s] # NoScope =>
    \E l \in marking : /\ l.at[1] = "scope" /\ l.thread = scopes[s].owner
                       /\ l.frame = scopes[s].frame /\ l.at[3] = scopes[s].sid

(* The last member's scope is the one the interpreter closes, with its owner. *)
LEMMA OwnersSame ==
  ASSUME NetInv, ScopeSids, NEW s \in Ids, scopes[s] # NoScope
  PROVE  \E l \in marking :
           /\ OwnerTokens(s) = {l} /\ l.at[1] = "scope" /\ l.thread = scopes[s].owner
           /\ l.frame = scopes[s].frame /\ frames[l.frame].pc = scopes[s].sid
<1>1. PICK l \in marking : /\ l.at[1] = "scope" /\ l.thread = scopes[s].owner
                           /\ l.frame = scopes[s].frame /\ l.at[3] = scopes[s].sid
  BY DEF ScopeSids
<1>2. l \in Tokens /\ Right(l)
  BY <1>1 DEF NetInv, NetTypes, OneToken
<1>3. l.at \in StatementPlace
  BY <1>1, <1>2, TokenFields
<1>4. l.at[2] = frames[l.frame].fn /\ l.at[3] = frames[l.frame].pc
  BY <1>2, <1>3 DEF Right, Pc
<1>5. l.at = <<l.at[1], l.at[2], l.at[3]>>
  BY <1>3 DEF StatementPlace
<1>6. l.at = OwnerPlace(s)
  BY <1>1, <1>4, <1>5 DEF OwnerPlace, ScopeWait
<1>7. l \in OwnerTokens(s)
  BY <1>1, <1>6 DEF OwnerTokens, In
<1>8. \A m \in OwnerTokens(s) : m = l
  BY <1>1 DEF OwnerTokens, In, NetInv, OneToken
<1> QED
  BY <1>1, <1>4, <1>7, <1>8

LEMMA LeavesSame ==
  ASSUME NetInv, NEW t \in Live
  PROVE  /\ I!EmptiesScope(t) <=> EmptiesScope(t)
         /\ Parents[t] = threads[t].parent
<1>1. Parents[t] = threads[t].parent /\ t \in Ids /\ threads[t] \in ThreadState
  BY DEF Parents, ParentOf, Live, NetInv, NetTypes, ThreadStore
<1>2. threads[t].parent \in Ids \union {None}
  BY <1>1 DEF ThreadState
<1>3. CASE threads[t].parent = None
  BY <1>1, <1>3, SameIds DEF I!EmptiesScope, EmptiesScope
<1>4. CASE threads[t].parent \in Ids
  BY <1>1, <1>4, SameIds, ScopeIsOpen DEF I!EmptiesScope, EmptiesScope
<1> QED
  BY <1>1, <1>2, <1>3, <1>4

(* The joiners, whose handles have a child *)
LEMMA JoinersSame ==
  ASSUME NetInv, I!Sound, NEW t \in Ids
  PROVE  I!Joiners(t) = Threads(Joiners(t))
<1>1. ASSUME NEW j \in I!Joiners(t)
      PROVE  j \in Threads(Joiners(t))
  <2>1. j \in Ids /\ Statuses[j] = "join" /\ ChildMaps[j][Reasons[j]] = t
    BY <1>1, SameIds DEF I!Joiners
  <2>2. j \in Live
    BY <2>1 DEF Statuses, StatusOf, Live
  <2>3. PICK l \in marking : l.thread = j /\ l = TokenOf(j)
    BY <2>2, TokenIn
  <2>4. Says(l)
    BY TokensSay
  <2>5. l.at[1] = "join" /\ Reasons[j] = FrameOfToken(l).handles[Statement(l).h]
        /\ ChildMaps[j] = threads[j].children
    BY <2>1, <2>3, <2>4 DEF Says
  <2>6. Reasons[j] \in Ids
    BY <2>1, SameIds DEF I!Sound, I!Named, I!WaitersStand, I!Firm, I!Blocking
  <2>7. Reasons[j] # None
    BY <2>6, SameLimits DEF Ids, None
  <2>8. l \in Joiners(t)
    BY <2>1, <2>3, <2>5, <2>7 DEF Joiners
  <2> QED
    BY <2>3, <2>8 DEF Threads
<1>2. ASSUME NEW l \in Joiners(t)
      PROVE  l.thread \in I!Joiners(t)
  <2>1. l \in marking /\ l.at[1] = "join"
        /\ threads[l.thread].children[FrameOfToken(l).handles[Statement(l).h]] = t
    BY <1>2 DEF Joiners
  <2>2. Says(l)
    BY <2>1, TokensSay
  <2> QED
    BY <2>1, <2>2, SameIds DEF Says, I!Joiners
<1> QED
  BY <1>1, <1>2 DEF Threads

(* The members of a scope, present or gone *)
LEMMA MembersSame ==
  ASSUME NetInv, NEW s \in Ids
  PROVE  I!Members(s) = Members(s)
<1>1. ASSUME NEW u \in Ids
      PROVE  Statuses[u] = "absent" <=> threads[u] = NoThread
  <2>1. CASE u \in Live
    <3>1. Says(TokenOf(u)) /\ TokenOf(u).thread = u /\ threads[u] # NoThread
      BY <2>1, TokenIn, TokensSay DEF Live
    <3> QED
      BY <3>1 DEF Says
  <2>2. CASE u \notin Live
    BY <2>2 DEF Live, Statuses, StatusOf
  <2> QED
    BY <2>1, <2>2
<1> QED
  BY <1>1, SameIds DEF I!Members, Members, Parents, ParentOf

(* The frames of those a finished thread wakes: each goes on, and a joiner's
   handle is consumed. *)
LEMMA FinishedFrames ==
  ASSUME NetInv, NEW k \in marking, ReturnFinal(k)
  PROVE  /\ frames'[k.frame] = NoFrame
         /\ \A w \in WokenBy(k) :
              frames'[w.frame] = IF w \in Joiners(k.thread)
                                 THEN I!AfterJoin(frames[w.frame], Statement(w).h)
                                 ELSE [frames[w.frame] EXCEPT !.pc = @ + 1]
         /\ \A f \in Ids : f # k.frame /\ (\A w \in WokenBy(k) : w.frame # f) =>
              frames'[f] = frames[f]
<1> DEFINE out == {Falls(w) : w \in WokenBy(k)}
           js == Joiners(k.thread)
           p == Placed(frames, out)
           b == Unbound(p, js)
<1>1. k.at[1] = "control" /\ js \subseteq WokenBy(k) /\ k.frame \in Ids
  BY TokenFrame DEF ReturnFinal, WokenBy
<1>2. frames' = [b EXCEPT ![k.frame] = NoFrame]
  BY DEF ReturnFinal, WokenBy
<1>3. \A w \in WokenBy(k) : /\ Falls(w).frame = w.frame
                            /\ Falls(w).at[3] = frames[w.frame].pc + 1 /\ Falls(w) \in out
                            /\ w \in marking /\ w.frame \in Ids /\ w.frame # k.frame
                            /\ frames[w.frame] # NoFrame
  BY <1>1, WokenApart, FallPlaced
<1>4. \A l \in out : \E w \in WokenBy(k) : l = Falls(w)
  OBVIOUS
<1> HIDE DEF out
<1>5. ASSUME NEW f \in Ids, \A w \in WokenBy(k) : w.frame # f
      PROVE  p[f] = frames[f] /\ b[f] = frames[f]
  <2>1. p[f] = frames[f]
    BY <1>3, <1>4, <1>5 DEF Placed
  <2>2. \A j \in js : j.frame # f
    BY <1>1, <1>5
  <2> HIDE DEF p, js
  <2> QED
    BY <2>1, <2>2 DEF Unbound
<1>6. ASSUME NEW w \in WokenBy(k)
      PROVE  p[w.frame] = [frames[w.frame] EXCEPT !.pc = @ + 1]
  <2> DEFINE m == CHOOSE l \in out : l.frame = w.frame
  <2>1. m = Falls(w)
    <3>1. m \in out /\ m.frame = w.frame
      BY <1>3
    <3>2. PICK v \in WokenBy(k) : m = Falls(v)
      BY <1>4, <3>1
    <3>3. v.frame = w.frame
      BY <1>3, <3>1, <3>2
    <3>4. v = w
      BY <1>3, <3>3, FramesApart
    <3> QED
      BY <3>2, <3>4
  <2>2. m.at[3] = frames[w.frame].pc + 1
    BY <1>3, <2>1
  <2>3. p[w.frame] = [frames[w.frame] EXCEPT !.pc = m.at[3]]
    BY <1>3 DEF Placed
  <2> HIDE DEF m, p
  <2> QED
    BY <2>2, <2>3
<1>7. ASSUME NEW w \in WokenBy(k)
      PROVE  b[w.frame] = IF w \in js THEN [p[w.frame] EXCEPT !.handles[Statement(w).h] = None]
                          ELSE p[w.frame]
  <2>1. \A j \in js : j.frame = w.frame => j = w
    BY <1>1, <1>3, FramesApart
  <2>2. CASE w \in js
    <3> DEFINE m == CHOOSE j \in js : j.frame = w.frame
    <3>1. m = w
      BY <2>1, <2>2
    <3>2. b[w.frame] = [p[w.frame] EXCEPT !.handles[Statement(m).h] = None]
      BY <1>3, <2>2 DEF Unbound
    <3> HIDE DEF m, b, p
    <3> QED
      BY <2>2, <3>1, <3>2
  <2>3. CASE w \notin js
    <3>1. ~ \E j \in js : j.frame = w.frame
      BY <2>1, <2>3
    <3> HIDE DEF js, p
    <3> QED
      BY <1>3, <2>3, <3>1 DEF Unbound
  <2> QED
    BY <2>2, <2>3
<1> HIDE DEF p
<1>8. DOMAIN b = Ids
  BY DEF Unbound
<1> HIDE DEF b
<1>9. frames'[k.frame] = NoFrame /\ \A f \in Ids : f # k.frame => frames'[f] = b[f]
  BY <1>1, <1>2, <1>8
<1>10. ASSUME NEW w \in WokenBy(k)
       PROVE  frames'[w.frame] = IF w \in js THEN I!AfterJoin(frames[w.frame], Statement(w).h)
                                 ELSE [frames[w.frame] EXCEPT !.pc = @ + 1]
  <2>1. frames'[w.frame] = b[w.frame]
    BY <1>3, <1>9
  <2>2. PICK x : x = frames[w.frame]
    OBVIOUS
  <2>3. PICK h : h = Statement(w).h
    OBVIOUS
  <2>4. CASE w \in js
    <3>1. b[w.frame] = [[x EXCEPT !.pc = @ + 1] EXCEPT !.handles[h] = None]
      BY <1>6, <1>7, <2>2, <2>3, <2>4
    <3>2. b[w.frame] = I!AfterJoin(x, h)
      BY <3>1, SameIds DEF I!AfterJoin
    <3> QED
      BY <2>1, <2>2, <2>3, <2>4, <3>2
  <2>5. CASE w \notin js
    BY <1>6, <1>7, <2>1, <2>5
  <2> QED
    BY <2>4, <2>5
<1> QED
  BY <1>5, <1>9, <1>10

(* Closing a scope or leaving it, a thread changes no other thread's scope. *)
LEMMA ScopesLeft ==
  ASSUME NetInv, ScopeSids, NEW k \in marking, ReturnFinal(k)
  PROVE  /\ \A u, s \in Ids : u # k.thread /\ (\A w \in WokenBy(k) : w.thread # u) =>
              (scopes'[s] # NoScope /\ scopes'[s].owner = u
               <=> scopes[s] # NoScope /\ scopes[s].owner = u)
         /\ ScopesOpen' = [x \in Ids |->
              IF x # threads[k.thread].parent \/ ScopesOpen[x] = NoScope THEN ScopesOpen[x]
              ELSE IF EmptiesScope(k.thread) THEN NoScope
              ELSE [ScopesOpen[x] EXCEPT !.remaining = @ \ {k.thread}]]
<1> DEFINE t == k.thread
           s == threads[t].parent
<1>1. \A x \in Ids : scopes'[x] = IF x # s \/ scopes[x] = NoScope THEN scopes[x]
                                  ELSE IF EmptiesScope(t) THEN NoScope
                                  ELSE [scopes[x] EXCEPT !.remaining = @ \ {t}]
  BY DEF ReturnFinal
<1>2. ASSUME NEW x \in Ids, x = s, scopes[x] # NoScope
      PROVE  /\ EmptiesScope(t) => \E w \in WokenBy(k) : w.thread = scopes[x].owner
             /\ ~EmptiesScope(t) => scopes'[x] # NoScope /\ scopes'[x].owner = scopes[x].owner
                                    /\ scopes'[x].frame = scopes[x].frame
                                    /\ scopes'[x].remaining = scopes[x].remaining \ {t}
  <2>1. CASE EmptiesScope(t)
    <3>1. PICK l \in marking : OwnerTokens(x) = {l} /\ l.thread = scopes[x].owner
      BY <1>2, OwnersSame
    <3>2. l \in WokenBy(k)
      BY <1>2, <2>1, <3>1 DEF WokenBy
    <3> QED
      BY <2>1, <3>1, <3>2
  <2>2. CASE ~EmptiesScope(t)
    <3>1. PICK r \in ScopeState : r = scopes[x]
      BY <1>2, ScopeIsOpen
    <3>2. scopes'[x] = [r EXCEPT !.remaining = @ \ {t}]
      BY <1>1, <1>2, <2>2, <3>1
    <3>3. /\ [r EXCEPT !.remaining = @ \ {t}] \in ScopeState
          /\ [r EXCEPT !.remaining = @ \ {t}].owner = r.owner
          /\ [r EXCEPT !.remaining = @ \ {t}].frame = r.frame
          /\ [r EXCEPT !.remaining = @ \ {t}].remaining = r.remaining \ {t}
      BY DEF ScopeState
    <3>4. scopes'[x] # NoScope
      BY <3>2, <3>3, NetAssumption
    <3> QED
      BY <2>2, <3>1, <3>2, <3>3, <3>4
  <2> QED
    BY <2>1, <2>2
<1>3. ASSUME NEW u \in Ids, NEW x \in Ids, \A w \in WokenBy(k) : w.thread # u
      PROVE  scopes'[x] # NoScope /\ scopes'[x].owner = u
             <=> scopes[x] # NoScope /\ scopes[x].owner = u
  <2>1. CASE x # s \/ scopes[x] = NoScope
    BY <1>1, <2>1
  <2>2. CASE x = s /\ scopes[x] # NoScope /\ EmptiesScope(t)
    BY <1>1, <1>2, <1>3, <2>2
  <2>3. CASE x = s /\ scopes[x] # NoScope /\ ~EmptiesScope(t)
    BY <1>2, <2>3
  <2> QED
    BY <2>1, <2>2, <2>3
<1>4. ASSUME NEW x \in Ids
      PROVE  ScopeOf(x)' = IF x # s \/ ScopesOpen[x] = NoScope THEN ScopesOpen[x]
                           ELSE IF EmptiesScope(t) THEN NoScope
                           ELSE [ScopesOpen[x] EXCEPT !.remaining = @ \ {t}]
  <2>1. CASE x # s \/ scopes[x] = NoScope
    BY <1>1, <2>1, ScopeIsOpen DEF ScopesOpen, ScopeOf
  <2>2. CASE x = s /\ scopes[x] # NoScope /\ EmptiesScope(t)
    BY <1>1, <2>2, ScopeIsOpen DEF ScopeOf
  <2>3. CASE x = s /\ scopes[x] # NoScope /\ ~EmptiesScope(t)
    <3>1. PICK r : r = [owner |-> scopes[x].owner, frame |-> scopes[x].frame,
                        remaining |-> scopes[x].remaining]
      OBVIOUS
    <3>2. ScopesOpen[x] = r
      BY <2>3, <3>1 DEF ScopesOpen, ScopeOf
    <3>3. ScopeOf(x)' = [owner |-> scopes[x].owner, frame |-> scopes[x].frame,
                         remaining |-> scopes[x].remaining \ {t}]
      BY <1>2, <2>3 DEF ScopeOf
    <3>4. ScopeOf(x)' = [r EXCEPT !.remaining = @ \ {t}]
      BY <3>1, <3>3
    <3> QED
      BY <2>3, <3>2, <3>4, ScopeIsOpen
  <2> QED
    BY <2>1, <2>2, <2>3
<1> QED
  BY <1>3, <1>4 DEF ScopesOpen

(* The woken threads have control again, and the gone ones are forgotten. *)
LEMMA FinishedSays ==
  ASSUME NetInv, NetInv', ScopeSids, NEW k \in marking, ReturnFinal(k), NEW u \in Ids
  PROVE  /\ Statuses'[u] = IF u \in GoneWith(k) THEN "absent"
                           ELSE IF u = k.thread THEN "done"
                           ELSE IF u \in Threads(WokenBy(k)) THEN "run" ELSE Statuses[u]
         /\ Reasons'[u] = IF u \in Threads(WokenBy(k)) \union GoneWith(k) THEN Nothing
                          ELSE Reasons[u]
<1> DEFINE t == k.thread
           ws == {k} \union WokenBy(k)
<1>1. /\ k.at[1] = "control" /\ t \in Ids /\ t \in Live /\ prog' = prog
      /\ finished' = (finished \union {t}) \ GoneWith(k)
      /\ marking' = (marking \ ws) \union {Falls(w) : w \in WokenBy(k)}
  BY TokenFrame DEF ReturnFinal, WokenBy, GoneWith
<1>2. \A x \in Ids : threads'[x] = NoThread <=> threads[x] = NoThread \/ x \in GoneWith(k)
  BY FinishThreads
<1>3. \A w \in WokenBy(k) : /\ w \in marking /\ w.thread # t /\ w.thread \in Live
                            /\ w.thread \notin GoneWith(k) /\ Falls(w).thread = w.thread
                            /\ Falls(w).at[1] = "control" /\ Falls(w) \in marking'
  BY <1>1, WokenApart, FallPlaced, GoneFinished
<1>4. CASE u \in GoneWith(k)
  <2>1. threads'[u] = NoThread
    BY <1>2, <1>4
  <2>2. StatusOf(u)' = "absent" /\ ReasonOf(u)' = Nothing
    BY <2>1 DEF StatusOf, ReasonOf, Live
  <2> QED
    BY <1>4, <2>2 DEF Statuses, Reasons
<1>5. CASE u = t /\ u \notin GoneWith(k)
  <2>1. threads'[u] # NoThread /\ u \in finished'
    BY <1>1, <1>2, <1>5 DEF Live
  <2>2. StatusOf(u)' = "done" /\ ReasonOf(u)' = Nothing
    BY <2>1 DEF StatusOf, ReasonOf, Live
  <2>3. Reasons[u] = Nothing
    BY <1>1, <1>5, TokensSay DEF Says
  <2> QED
    BY <1>5, <2>2, <2>3 DEF Statuses, Reasons
<1>6. CASE u \in Threads(WokenBy(k))
  <2>1. PICK w \in WokenBy(k) : u = w.thread
    BY <1>6 DEF Threads
  <2>2. PICK n : n = Falls(w)
    OBVIOUS
  <2>3. n \in marking' /\ n.thread = u /\ n.at[1] = "control"
    BY <1>3, <2>1, <2>2
  <2>4. Statuses'[u] = "run" /\ Reasons'[u] = Nothing
    BY <2>3, TokensSayLater DEF Says
  <2> QED
    BY <1>3, <1>6, <2>1, <2>4
<1>7. CASE u # t /\ u \notin GoneWith(k) /\ u \notin Threads(WokenBy(k))
  <2>1. \A w \in ws : w.thread # u
    BY <1>7 DEF Threads
  <2>2. ws \in SUBSET marking /\ marking \ ws \subseteq marking'
    BY <1>1, <1>3
  <2>3. ASSUME NEW f \in Ids, frames[f] # NoFrame, \A w \in ws : w.frame # f
        PROVE  frames'[f].handles = frames[f].handles
    BY <2>3, FinishedFrames
  <2>4. \A s \in Ids : scopes'[s] # NoScope /\ scopes'[s].owner = u
                       <=> scopes[s] # NoScope /\ scopes[s].owner = u
    BY <1>7, <2>1, ScopesLeft
  <2>5. (threads'[u] = NoThread <=> threads[u] = NoThread) /\ (u \in finished' <=> u \in finished)
    BY <1>1, <1>2, <1>7
  <2> HIDE DEF ws
  <2>6. Untold(u)
    BY <2>1, <2>2, <2>3, <2>4, <2>5, UntoldIf
  <2> QED
    BY <1>1, <1>7, <2>6, UntoldSame
<1> QED
  BY <1>4, <1>5, <1>6, <1>7

(* Only the joiners lose a child, and no thread its entry function. *)
LEMMA FinishedChildren ==
  ASSUME NetInv, NEW k \in marking, ReturnFinal(k), NEW u \in Ids, threads'[u] # NoThread
  PROVE  /\ threads'[u].entry = threads[u].entry
         /\ threads'[u].children =
              [h \in Ids |-> IF u \in Threads(Joiners(k.thread)) /\ threads[u].children[h] = k.thread
                             THEN None ELSE threads[u].children[h]]
<1> DEFINE t == k.thread
           js == Joiners(t)
           ts == Threads(WokenBy(k))
           popped == [threads EXCEPT ![t].stack = <<>>]
           ub == Unblocked(popped, ts)
           left == Childless(ub, js, t)
<1>1. threads'[u] = left[u] /\ threads[u] # NoThread
  <2>1. threads' = [x \in Ids |-> IF x \in GoneWith(k) THEN NoThread ELSE left[x]]
    BY DEF ReturnFinal, WokenBy, GoneWith
  <2>2. threads[u] # NoThread
    BY FinishThreads
  <2> HIDE DEF left
  <2> QED
    BY <2>1, <2>2
<1>2. threads[u] \in ThreadState /\ threads \in ThreadStore
  BY <1>1 DEF NetInv, NetTypes, ThreadStore
<1>3. PICK x \in ThreadState : x = threads[u]
  BY <1>2
<1>4. PICK y \in ThreadState : y = popped[u] /\ y.entry = x.entry /\ y.children = x.children
  <2>1. CASE u = t
    <3>1. popped[u] = [x EXCEPT !.stack = <<>>]
      BY <1>2, <1>3, <2>1 DEF ThreadStore
    <3>2. <<>> \in Seq(Ids)
      OBVIOUS
    <3>3. [x EXCEPT !.stack = <<>>] \in ThreadState /\ [x EXCEPT !.stack = <<>>].entry = x.entry
          /\ [x EXCEPT !.stack = <<>>].children = x.children
      BY <3>2 DEF ThreadState
    <3> HIDE DEF popped
    <3> QED
      BY <3>1, <3>3
  <2>2. CASE u # t
    BY <1>2, <1>3, <2>2 DEF ThreadStore
  <2> QED
    BY <2>1, <2>2
<1> HIDE DEF popped
<1>5. PICK z \in ThreadState : z = ub[u] /\ z.entry = y.entry /\ z.children = y.children
  <2>1. ub[u] = IF u \in ts THEN [y EXCEPT !.blocked = Nothing] ELSE y
    BY <1>4 DEF Unblocked
  <2>2. [y EXCEPT !.blocked = Nothing] \in ThreadState
        /\ [y EXCEPT !.blocked = Nothing].entry = y.entry
        /\ [y EXCEPT !.blocked = Nothing].children = y.children
    BY DEF ThreadState
  <2> HIDE DEF ub, ts
  <2> QED
    BY <2>1, <2>2
<1> HIDE DEF ub
<1> DEFINE cs == [h \in Ids |-> IF z.children[h] = t THEN None ELSE z.children[h]]
<1>6. (\E j \in js : j.thread = u) <=> u \in Threads(js)
  BY DEF Threads
<1>7. left[u] = IF u \in Threads(js) THEN [z EXCEPT !.children = cs] ELSE z
  <2>1. left[u] = IF \E j \in js : j.thread = u THEN [z EXCEPT !.children = cs] ELSE z
    BY <1>5 DEF Childless
  <2> HIDE DEF js, left, cs
  <2> QED
    BY <1>6, <2>1
<1>8. cs \in [Ids -> Ids \union {None}] /\ z.children = [h \in Ids |-> z.children[h]]
  BY DEF ThreadState
<1>9. PICK c : c = cs
  OBVIOUS
<1>10. [z EXCEPT !.children = c].entry = z.entry /\ [z EXCEPT !.children = c].children = c
  BY DEF ThreadState
<1>11. CASE u \in Threads(js)
  <2>1. threads'[u] = [z EXCEPT !.children = c]
    BY <1>1, <1>7, <1>9, <1>11
  <2>2. threads'[u].entry = threads[u].entry /\ threads'[u].children = c
    BY <1>3, <1>4, <1>5, <1>10, <2>1
  <2> QED
    BY <1>3, <1>4, <1>5, <1>9, <1>11, <2>2
<1>12. CASE u \notin Threads(js)
  <2>1. threads'[u] = z
    BY <1>1, <1>7, <1>12
  <2>2. threads'[u].entry = threads[u].entry /\ threads'[u].children = z.children
    BY <1>3, <1>4, <1>5, <2>1
  <2> QED
    BY <1>3, <1>4, <1>5, <1>8, <1>12, <2>2
<1> QED
  BY <1>11, <1>12

LEMMA FinishedRecords ==
  ASSUME NetInv, NetInv', NEW k \in marking, ReturnFinal(k)
  PROVE  LET t == k.thread IN
         /\ Stacks' = [Stacks EXCEPT ![t] = <<>>]
         /\ ChildMaps' = [u \in Ids |-> [h \in Ids |->
              IF u \in GoneWith(k) \/ (u \in Threads(Joiners(t)) /\ ChildMaps[u][h] = t)
              THEN None ELSE ChildMaps[u][h]]]
         /\ Parents' = [u \in Ids |-> IF u \in GoneWith(k) THEN None ELSE Parents[u]]
         /\ UNCHANGED Queues0
<1> DEFINE t == k.thread
<1>1. k.at[1] = "control" /\ t \in Ids /\ t \in Live
  BY TokenFrame DEF ReturnFinal
<1>2. \A u \in Ids : threads'[u] = NoThread <=> threads[u] = NoThread \/ u \in GoneWith(k)
  BY FinishThreads
<1>3. ASSUME NEW u \in Ids
      PROVE  Stacks'[u] = IF u = t THEN <<>> ELSE Stacks[u]
  <2>1. u \notin Live => StackOf(u) = <<>>
    BY DEF NetInv, StacksOwn
  <2>2. u \in Live /\ u # t => u \notin GoneWith(k)
    BY GoneFinished
  <2>3. threads'[u] # NoThread => threads'[u].stack = IF u = t THEN <<>> ELSE threads[u].stack
    BY FinishThreads
  <2> QED
    BY <1>2, <2>1, <2>2, <2>3 DEF Stacks, StackOf
<1>4. ASSUME NEW u \in Ids
      PROVE  Parents'[u] = IF u \in GoneWith(k) THEN None ELSE Parents[u]
  <2>1. threads'[u] # NoThread => threads'[u].parent = threads[u].parent
    BY FinishThreads
  <2> QED
    BY <1>2, <2>1 DEF Parents, ParentOf
<1>5. ASSUME NEW u \in Ids
      PROVE  ChildMaps'[u] = [h \in Ids |->
               IF u \in GoneWith(k) \/ (u \in Threads(Joiners(t)) /\ ChildMaps[u][h] = t)
               THEN None ELSE ChildMaps[u][h]]
  <2>1. CASE threads'[u] = NoThread
    <3>1. ChildMaps'[u] = [h \in Ids |-> None]
      BY <2>1 DEF ChildMaps, ChildrenOf
    <3>2. CASE u \in GoneWith(k)
      BY <3>1, <3>2
    <3>3. CASE u \notin GoneWith(k)
      <4>1. ChildMaps[u] = [h \in Ids |-> None]
        BY <1>2, <2>1, <3>3 DEF ChildMaps, ChildrenOf
      <4> QED
        BY <3>1, <4>1
    <3> QED
      BY <3>2, <3>3
  <2>2. CASE threads'[u] # NoThread
    <3>1. u \notin GoneWith(k) /\ threads[u] # NoThread
      BY <1>2, <2>2
    <3>2. ChildMaps'[u] = threads'[u].children /\ ChildMaps[u] = threads[u].children
      BY <2>2, <3>1 DEF ChildMaps, ChildrenOf
    <3> QED
      BY <2>2, <3>1, <3>2, FinishedChildren
  <2> QED
    BY <2>1, <2>2
<1>6. UNCHANGED Queues0
  <2>1. marking' = (marking \ ({k} \union WokenBy(k))) \union {Falls(w) : w \in WokenBy(k)}
    BY DEF ReturnFinal, WokenBy
  <2>2. \A w \in WokenBy(k) : w.at[1] \in {"join", "scope"} /\ Falls(w).at[1] = "control"
    <3>1. \A w \in WokenBy(k) : w.at[1] \in {"join", "scope"}
      BY DEF WokenBy, OwnerTokens, OwnerPlace, ScopeWait, In, Joiners
    <3> QED
      BY <1>1, <3>1, WokenApart, FallPlaced
  <2>3. \A x \in {"acquire", "wait", "send", "recv"} : SameIn(x)
    BY <1>1, <2>1, <2>2 DEF SameIn
  <2> QED
    BY <2>3, QueuesSame DEF Queues0
<1> HIDE DEF t
<1>7. Stacks' = [Stacks EXCEPT ![t] = <<>>]
  BY <1>3 DEF Stacks
<1>8. Parents' = [u \in Ids |-> IF u \in GoneWith(k) THEN None ELSE Parents[u]]
  BY <1>4 DEF Parents
<1>9. ChildMaps' = [u \in Ids |-> [h \in Ids |->
        IF u \in GoneWith(k) \/ (u \in Threads(Joiners(t)) /\ ChildMaps[u][h] = t)
        THEN None ELSE ChildMaps[u][h]]]
  BY <1>5 DEF ChildMaps
<1> QED
  BY <1>6, <1>7, <1>8, <1>9 DEF t

(* Those the interpreter wakes and forgets *)
MOwners(t) == IF I!EmptiesScope(t) THEN {ScopesOpen[Parents[t]].owner} ELSE {}
MGone(t) == (IF I!EmptiesScope(t) THEN I!Members(Parents[t]) ELSE {})
            \union (IF I!Joiners(t) = {} THEN {} ELSE {t})

LEMMA WokenSame ==
  ASSUME NetInv, I!Sound, ScopeSids, NEW k \in marking, k.at[1] = "control"
  PROVE  /\ Threads(WokenBy(k)) = MOwners(k.thread) \union I!Joiners(k.thread)
         /\ GoneWith(k) = MGone(k.thread)
         /\ \A w \in WokenBy(k) : w \notin Joiners(k.thread) => w.thread \in MOwners(k.thread)
         /\ \A u \in MOwners(k.thread) :
              \E w \in WokenBy(k) : w \notin Joiners(k.thread) /\ w.thread = u
         /\ EmptiesScope(k.thread) =>
              LET sc == scopes[threads[k.thread].parent] IN
              /\ ScopesOpen[Parents[k.thread]].frame = sc.frame
              /\ frames[sc.frame].pc = sc.sid
<1> DEFINE t == k.thread
           s == threads[t].parent
<1>1. t \in Ids /\ t \in Live /\ threads[t] \in ThreadState
  BY TokenFrame
<1>2. I!EmptiesScope(t) <=> EmptiesScope(t)
  BY <1>1, LeavesSame
<1>3. Parents[t] = s
  BY <1>1, LeavesSame
<1>4. I!Joiners(t) = Threads(Joiners(t))
  BY <1>1, JoinersSame
<1>5. I!Joiners(t) = {} <=> Joiners(t) = {}
  BY <1>4 DEF Threads
<1>6. CASE ~EmptiesScope(t)
  <2>1. MOwners(t) = {} /\ WokenBy(k) = Joiners(t)
    BY <1>2, <1>6 DEF MOwners, WokenBy
  <2>2. GoneWith(k) = MGone(t)
    BY <1>2, <1>5, <1>6 DEF MGone, GoneWith
  <2> QED
    BY <1>4, <1>6, <2>1, <2>2
<1>7. CASE EmptiesScope(t)
  <2>1. s \in Ids /\ scopes[s] # NoScope
    BY <1>1, <1>7 DEF EmptiesScope, ThreadState
  <2>2. PICK l \in marking :
          /\ OwnerTokens(s) = {l} /\ l.at[1] = "scope" /\ l.thread = scopes[s].owner
          /\ l.frame = scopes[s].frame /\ frames[l.frame].pc = scopes[s].sid
    BY <2>1, OwnersSame
  <2>3. WokenBy(k) = {l} \union Joiners(t) /\ l \notin Joiners(t)
    BY <1>7, <2>2 DEF WokenBy, Joiners
  <2>4. MOwners(t) = {l.thread} /\ ScopesOpen[Parents[t]].frame = scopes[s].frame
    BY <1>2, <1>3, <1>7, <2>1, <2>2, ScopeIsOpen DEF MOwners
  <2>5. GoneWith(k) = MGone(t)
    BY <1>2, <1>3, <1>5, <1>7, <2>1, MembersSame DEF MGone, GoneWith
  <2>6. Threads(WokenBy(k)) = {l.thread} \union Threads(Joiners(t))
    BY <2>3 DEF Threads
  <2> QED
    BY <1>4, <1>7, <2>2, <2>3, <2>4, <2>5, <2>6
<1> QED
  BY <1>6, <1>7

(* A woken token's thread goes on where the token stands. *)
LEMMA FinishedAdvance ==
  ASSUME NetInv, NetInv', I!Sound, ScopeSids, NEW k \in marking, ReturnFinal(k), NEW f \in Ids
  PROVE  LET t == k.thread IN
         frames'[f] = IF f = I!Top(t) THEN NoFrame
                      ELSE IF \E u \in I!Joiners(t) : f = I!Top(u)
                           THEN LET u == CHOOSE u \in I!Joiners(t) : f = I!Top(u) IN
                                I!AfterJoin(frames[f], I!Op(u).h)
                      ELSE IF \E u \in MOwners(t) : f = I!Top(u)
                           THEN [frames[f] EXCEPT !.pc = @ + 1]
                      ELSE frames[f]
<1> DEFINE t == k.thread
<1>1. k.at[1] = "control" /\ t \in Ids /\ I!Top(t) = k.frame
  BY TokenFrame, Position DEF ReturnFinal
<1>2. ASSUME NEW w \in WokenBy(k)
      PROVE  /\ w \in marking /\ I!Top(w.thread) = w.frame /\ w.frame # k.frame
             /\ Statement(w) = I!Op(w.thread)
  <2>1. w \in marking /\ w.at \in StatementPlace /\ w.frame # k.frame
    BY <1>1, WokenApart
  <2>2. w.at[2] = frames[w.frame].fn /\ w.at[3] = frames[w.frame].pc
    BY <2>1 DEF NetInv, OneToken, Right, Pc
  <2> QED
    BY <2>1, <2>2, Position DEF Statement, StandsAt
<1>3. I!Joiners(t) = Threads(Joiners(t)) /\ Joiners(t) \subseteq WokenBy(k)
  BY <1>1, JoinersSame DEF WokenBy
<1>4. \A u \in I!Joiners(t) : \E w \in Joiners(t) : w.thread = u
  BY <1>3 DEF Threads
<1>5. \A w \in Joiners(t) : w.thread \in I!Joiners(t)
  BY <1>3 DEF Threads
<1>6. /\ \A w \in WokenBy(k) : w \notin Joiners(t) => w.thread \in MOwners(t)
      /\ \A u \in MOwners(t) : \E w \in WokenBy(k) : w \notin Joiners(t) /\ w.thread = u
  BY <1>1, WokenSame
<1>7. \A v, w \in WokenBy(k) : v.frame = w.frame => v = w
  BY <1>2, FramesApart
<1>8. /\ frames'[k.frame] = NoFrame
      /\ \A w \in WokenBy(k) :
           frames'[w.frame] = IF w \in Joiners(t)
                              THEN I!AfterJoin(frames[w.frame], Statement(w).h)
                              ELSE [frames[w.frame] EXCEPT !.pc = @ + 1]
      /\ \A g \in Ids : g # k.frame /\ (\A w \in WokenBy(k) : w.frame # g) => frames'[g] = frames[g]
  BY FinishedFrames
<1>9. CASE f = I!Top(t)
  BY <1>1, <1>8, <1>9
<1>10. CASE f # I!Top(t) /\ \E u \in I!Joiners(t) : f = I!Top(u)
  <2> DEFINE v == CHOOSE u \in I!Joiners(t) : f = I!Top(u)
  <2>1. v \in I!Joiners(t) /\ f = I!Top(v)
    BY <1>10
  <2>2. PICK w \in Joiners(t) : w.thread = v
    BY <1>4, <2>1
  <2>3. w.frame = f /\ Statement(w) = I!Op(v) /\ w \in WokenBy(k)
    BY <1>2, <1>3, <2>1, <2>2
  <2>4. frames'[f] = I!AfterJoin(frames[f], I!Op(v).h)
    BY <1>8, <2>2, <2>3
  <2> QED
    BY <1>10, <2>4
<1>11. CASE f # I!Top(t) /\ (\A u \in I!Joiners(t) : f # I!Top(u)) /\ \E u \in MOwners(t) : f = I!Top(u)
  <2>1. PICK w \in WokenBy(k) : w \notin Joiners(t) /\ I!Top(w.thread) = f
    BY <1>6, <1>11
  <2>2. w.frame = f
    BY <1>2, <2>1
  <2>3. frames'[f] = [frames[f] EXCEPT !.pc = @ + 1]
    BY <1>8, <2>1, <2>2
  <2> QED
    BY <1>11, <2>3
<1>12. CASE f # I!Top(t) /\ (\A u \in I!Joiners(t) : f # I!Top(u)) /\ (\A u \in MOwners(t) : f # I!Top(u))
  <2>1. \A w \in WokenBy(k) : w.frame # f
    BY <1>2, <1>5, <1>6, <1>12
  <2>2. frames'[f] = frames[f]
    BY <1>1, <1>8, <1>12, <2>1
  <2> QED
    BY <1>12, <2>2
<1> QED
  BY <1>9, <1>10, <1>11, <1>12

LEMMA FinishTold ==
  ASSUME NetInv, NetInv', I!Sound, ScopeSids, NEW k \in marking, ReturnFinal(k)
  PROVE  I!FinishThread(k.thread)
<1> DEFINE t == k.thread
<1>1. /\ k.at[1] = "control" /\ t \in Ids /\ t \in Live /\ Stacks[t] = threads[t].stack
      /\ I!Fr(t) = frames[k.frame] /\ Len(threads[t].stack) = 1
  BY TokenFrame, Position DEF ReturnFinal
<1>2. /\ Threads(WokenBy(k)) = MOwners(t) \union I!Joiners(t) /\ GoneWith(k) = MGone(t)
      /\ Threads(Joiners(t)) = I!Joiners(t)
      /\ (I!EmptiesScope(t) <=> EmptiesScope(t)) /\ Parents[t] = threads[t].parent
  BY <1>1, WokenSame, JoinersSame, LeavesSame
<1>3. Statuses' = [u \in Ids |-> IF u \in MGone(t) THEN "absent" ELSE IF u = t THEN "done"
                                 ELSE IF u \in MOwners(t) \union I!Joiners(t) THEN "run" ELSE Statuses[u]]
  <2>1. \A u \in Ids : Statuses'[u] = IF u \in MGone(t) THEN "absent" ELSE IF u = t THEN "done"
                                 ELSE IF u \in MOwners(t) \union I!Joiners(t) THEN "run" ELSE Statuses[u]
    BY <1>2, FinishedSays
  <2> HIDE DEF t
  <2> QED
    BY <2>1 DEF Statuses
<1>4. Reasons' = [u \in Ids |-> IF u \in (MOwners(t) \union I!Joiners(t)) \union MGone(t)
                                THEN Nothing ELSE Reasons[u]]
  <2>1. \A u \in Ids : Reasons'[u] = IF u \in (MOwners(t) \union I!Joiners(t)) \union MGone(t)
                                     THEN Nothing ELSE Reasons[u]
    BY <1>2, FinishedSays
  <2> HIDE DEF t
  <2> QED
    BY <2>1 DEF Reasons
<1>5. /\ Stacks' = [Stacks EXCEPT ![t] = <<>>]
      /\ ChildMaps' = [u \in Ids |-> [h \in Ids |->
           IF u \in MGone(t) \/ (u \in I!Joiners(t) /\ ChildMaps[u][h] = t)
           THEN None ELSE ChildMaps[u][h]]]
      /\ Parents' = [u \in Ids |-> IF u \in MGone(t) THEN None ELSE Parents[u]]
      /\ UNCHANGED Queues0
  BY <1>2, FinishedRecords
<1>6. frames' = [f \in Ids |->
        IF f = I!Top(t) THEN NoFrame
        ELSE IF \E u \in I!Joiners(t) : f = I!Top(u)
             THEN LET u == CHOOSE u \in I!Joiners(t) : f = I!Top(u) IN
                  I!AfterJoin(frames[f], I!Op(u).h)
        ELSE IF \E u \in MOwners(t) : f = I!Top(u)
             THEN [frames[f] EXCEPT !.pc = @ + 1]
        ELSE frames[f]]
  <2>1. frames' = [f \in Ids |-> frames'[f]]
    BY DEF NetInv, NetTypes, FrameStore
  <2> QED
    BY <2>1, FinishedAdvance
<1>7. ScopesOpen' = [x \in Ids |->
        IF x # Parents[t] \/ ScopesOpen[x] = NoScope THEN ScopesOpen[x]
        ELSE IF I!EmptiesScope(t) THEN NoScope
        ELSE [ScopesOpen[x] EXCEPT !.remaining = @ \ {t}]]
  <2>1. ScopesOpen' = [x \in Ids |->
          IF x # threads[t].parent \/ ScopesOpen[x] = NoScope THEN ScopesOpen[x]
          ELSE IF EmptiesScope(t) THEN NoScope
          ELSE [ScopesOpen[x] EXCEPT !.remaining = @ \ {t}]]
    BY ScopesLeft
  <2> QED
    BY <1>2, <2>1
<1>8. scopesDone' = IF I!EmptiesScope(t)
        THEN scopesDone \union
             {<<frames[ScopesOpen[Parents[t]].frame].fn, frames[ScopesOpen[Parents[t]].frame].pc>>}
        ELSE scopesDone
  <2>1. scopesDone' = IF EmptiesScope(t)
          THEN scopesDone \union
               {<<frames[scopes[threads[t].parent].frame].fn, scopes[threads[t].parent].sid>>}
          ELSE scopesDone
    BY DEF ReturnFinal
  <2>2. EmptiesScope(t) => LET sc == scopes[threads[t].parent] IN
                           /\ ScopesOpen[Parents[t]].frame = sc.frame /\ frames[sc.frame].pc = sc.sid
    BY <1>1, WokenSame
  <2> QED
    BY <1>2, <2>1, <2>2
<1>9. finished' = (finished \union {t}) \ MGone(t)
  <2>1. finished' = (finished \union {t}) \ GoneWith(k)
    BY DEF ReturnFinal, GoneWith
  <2> QED
    BY <1>2, <2>1
<1>10. I!Complete(I!Fr(t).fn) /\ ~I!Nested(t)
  <2>1. Complete(frames[k.frame].fn)
    BY DEF ReturnFinal, FrameOfToken
  <2>2. I!Complete(frames[k.frame].fn)
    BY <2>1 DEF Complete, Counted, I!Complete, I!Completed
  <2> QED
    BY <1>1, <2>2 DEF I!Nested
<1>11. UNCHANGED <<prog, data, I!syncVars, I!chanVars, alloc>>
  BY <1>5 DEF ReturnFinal, dataVars, Queues0, I!syncVars, I!chanVars
<1>12. I!Ids = Ids /\ I!None = None
  BY SameIds
<1> HIDE DEF t
<1>13. I!FinishThread(t)
  BY ZenonT(60), <1>3, <1>4, <1>5, <1>6, <1>7, <1>8, <1>9, <1>10, <1>11, <1>12
  DEF I!FinishThread, MGone, MOwners
<1> QED
  BY <1>13 DEF t

LEMMA ReturnFinalTold ==
  ASSUME NetInv, NetInv', I!Sound, ScopeSids, NEW k \in marking, ReturnFinal(k)
  PROVE  I!ControlStep(k.thread)
<1>1. PICK v : ReturnsValue(k, v)
  BY DEF ReturnFinal
<1>2. prog' = prog /\ Reach(k) /\ k.at[1] = "control" /\ Len(threads[k.thread].stack) = 1
  BY DEF ReturnFinal
<1>3. I!FinishThread(k.thread)
  BY FinishTold
<1>4. ~I!Nested(k.thread)
  BY <1>3 DEF I!FinishThread
<1> QED
  BY <1>1, <1>2, <1>3, <1>4, ReturnsTold

-----------------------------------------------------------------------------
(* The two invariants the net needs besides its own *)

(* Frames keep their function as long as they are allocated, live threads the
   function they were created for and their first frame; the tokens of scopes
   stay. *)
FramesKept ==
  \A f \in Ids : frames[f] # NoFrame => frames'[f] = NoFrame \/ frames'[f].fn = frames[f].fn
EntriesKept ==
  \A u \in Live' : /\ u \in Live /\ threads'[u].entry = threads[u].entry
                   /\ threads'[u].stack[1] = threads[u].stack[1]
TokensKept == \A l \in marking : l.at[1] = "scope" => l \in marking'
Steady == scopes' = scopes /\ FramesKept /\ EntriesKept /\ TokensKept

(* A live thread's first frame is allocated. *)
LEMMA FirstFrame ==
  NetInv => \A u \in Live : /\ threads[u].stack[1] \in Ids /\ frames[threads[u].stack[1]] # NoFrame
                            /\ u \in Ids /\ StackOf(u) = threads[u].stack
                            /\ Len(threads[u].stack) \in Nat \ {0} /\ threads[u].stack \in Seq(Ids)
<1> SUFFICES ASSUME NetInv, NEW u \in Live
             PROVE  /\ threads[u].stack[1] \in Ids /\ frames[threads[u].stack[1]] # NoFrame
                    /\ u \in Ids /\ StackOf(u) = threads[u].stack
                    /\ Len(threads[u].stack) \in Nat \ {0} /\ threads[u].stack \in Seq(Ids)
  OBVIOUS
<1>1. u \in Ids /\ threads[u] # NoThread /\ threads[u] \in ThreadState
  BY DEF Live, NetInv, NetTypes, ThreadStore
<1>2. threads[u].stack \in Seq(Ids) /\ StackOf(u) = threads[u].stack
  BY <1>1 DEF ThreadState, StackOf
<1>3. threads[u].stack # <<>>
  BY <1>1, <1>2 DEF NetInv, StacksOwn
<1>4. 1 \in DOMAIN threads[u].stack /\ Len(threads[u].stack) \in Nat \ {0}
  BY <1>2, <1>3
<1> QED
  BY <1>1, <1>2, <1>4 DEF NetInv, StacksOwn

LEMMA FirstFrameLater ==
  NetInv' => (\A u \in Live : /\ threads[u].stack[1] \in Ids /\ frames[threads[u].stack[1]] # NoFrame
                              /\ u \in Ids /\ StackOf(u) = threads[u].stack
                              /\ Len(threads[u].stack) \in Nat \ {0} /\ threads[u].stack \in Seq(Ids))'
BY FirstFrame, PTL

LEMMA SteadyKeeps ==
  ASSUME NetInv, NetInv', Entered, ScopeSids, Steady
  PROVE  Entered' /\ ScopeSids'
<1>1. ASSUME NEW u \in Live'
      PROVE  frames'[threads'[u].stack[1]].fn = threads'[u].entry
  <2>1. u \in Live /\ threads'[u].entry = threads[u].entry
        /\ threads'[u].stack[1] = threads[u].stack[1]
    BY DEF Steady, EntriesKept
  <2>2. threads[u].stack[1] \in Ids /\ frames[threads[u].stack[1]] # NoFrame
    BY <2>1, FirstFrame
  <2>3. frames'[threads'[u].stack[1]] # NoFrame
    BY FirstFrameLater
  <2>4. frames'[threads[u].stack[1]].fn = frames[threads[u].stack[1]].fn
    BY <2>1, <2>2, <2>3 DEF Steady, FramesKept
  <2> QED
    BY <2>1, <2>4 DEF Entered
<1>2. Entered'
  BY <1>1 DEF Entered
<1>3. ASSUME NEW s \in Ids, scopes'[s] # NoScope
      PROVE  \E l \in marking' : /\ l.at[1] = "scope" /\ l.thread = scopes'[s].owner
                                 /\ l.frame = scopes'[s].frame /\ l.at[3] = scopes'[s].sid
  <2>1. PICK l \in marking : /\ l.at[1] = "scope" /\ l.thread = scopes[s].owner
                             /\ l.frame = scopes[s].frame /\ l.at[3] = scopes[s].sid
    BY <1>3 DEF Steady, ScopeSids
  <2>2. l \in marking'
    BY <2>1 DEF Steady, TokensKept
  <2> QED
    BY <2>1, <2>2 DEF Steady
<1>4. ScopeSids'
  BY <1>3 DEF ScopeSids
<1> QED
  BY <1>2, <1>4

(* The shapes of the steps that start and end no thread and no call *)
FramesMoved ==
  \/ frames' = frames
  \/ \E ks : frames' = Placed(frames, ks)
  \/ \E ks, f, dst, v : frames' = Placed(Put(frames, f, dst, v), ks)
ThreadsMoved ==
  /\ finished' = finished
  /\ \/ threads' = threads
     \/ \E k \in marking, l \in marking' :
          l.thread = k.thread /\ threads' = Blocked(threads, k.thread, l.at)
     \/ \E k \in marking : threads' = Unblocked(threads, {k.thread})
     \/ \E ws \in SUBSET marking : (\A w \in ws : w.at[1] = "wait") /\ threads' = Requeued(ws)
TokensMoved == \E ws : (\A w \in ws : w.at[1] # "scope") /\ marking \ ws \subseteq marking'
Shaped == scopes' = scopes /\ FramesMoved /\ ThreadsMoved /\ TokensMoved

LEMMA PlacedFn ==
  \A frs, ks : \A f \in Ids : Placed(frs, ks)[f].fn = frs[f].fn
<1> SUFFICES ASSUME NEW frs, NEW ks, NEW f \in Ids
             PROVE  Placed(frs, ks)[f].fn = frs[f].fn
  OBVIOUS
<1>1. CASE \E k \in ks : k.frame = f
  <2>1. Placed(frs, ks)[f] = [frs[f] EXCEPT !.pc = (CHOOSE k \in ks : k.frame = f).at[3]]
    BY <1>1 DEF Placed
  <2>2. PICK n : n = (CHOOSE k \in ks : k.frame = f).at[3]
    OBVIOUS
  <2>3. [frs[f] EXCEPT !.pc = n].fn = frs[f].fn
    OBVIOUS
  <2> QED
    BY <2>1, <2>2, <2>3
<1>2. CASE ~ \E k \in ks : k.frame = f
  BY <1>2 DEF Placed
<1> QED
  BY <1>1, <1>2

LEMMA PutFn ==
  ASSUME NetInv, NEW g, NEW dst, NEW v, NEW f \in Ids
  PROVE  Put(frames, g, dst, v)[f].fn = frames[f].fn
<1>1. DOMAIN frames = Ids
  BY DEF NetInv, NetTypes, FrameStore
<1>2. PICK x : x = frames[f]
  OBVIOUS
<1>3. [x EXCEPT !.locals[dst] = v].fn = x.fn
  OBVIOUS
<1>4. Put(frames, g, dst, v)[f] = x \/ Put(frames, g, dst, v)[f] = [x EXCEPT !.locals[dst] = v]
  BY <1>1, <1>2 DEF Put
<1> QED
  BY <1>2, <1>3, <1>4

LEMMA ShapedSteady ==
  ASSUME NetInv, NetInv', Shaped
  PROVE  Steady
<1>1. FramesKept
  <2>1. CASE frames' = frames
    BY <2>1 DEF FramesKept
  <2>2. CASE \E ks : frames' = Placed(frames, ks)
    BY <2>2, PlacedFn DEF FramesKept
  <2>3. CASE \E ks, f, dst, v : frames' = Placed(Put(frames, f, dst, v), ks)
    <3>1. PICK ks, g, dst, v : frames' = Placed(Put(frames, g, dst, v), ks)
      BY <2>3
    <3>2. ASSUME NEW f \in Ids
          PROVE  frames'[f].fn = frames[f].fn
      <4>1. frames'[f].fn = Put(frames, g, dst, v)[f].fn
        BY <3>1, PlacedFn
      <4> QED
        BY <4>1, PutFn
    <3> QED
      BY <3>2 DEF FramesKept
  <2> QED
    BY <2>1, <2>2, <2>3 DEF Shaped, FramesMoved
<1>2. ASSUME NEW u \in Ids
      PROVE  /\ threads'[u] = NoThread <=> threads[u] = NoThread
             /\ threads[u] # NoThread => /\ threads'[u].stack = threads[u].stack
                                         /\ threads'[u].entry = threads[u].entry
  <2>1. CASE threads' = threads
    BY <2>1
  <2>2. CASE \E k \in marking, l \in marking' :
               l.thread = k.thread /\ threads' = Blocked(threads, k.thread, l.at)
    <3>1. PICK k \in marking, l \in marking' :
            l.thread = k.thread /\ threads' = Blocked(threads, k.thread, l.at)
      BY <2>2
    <3>2. PICK p : p = l.at /\ threads' = Blocked(threads, k.thread, p)
      BY <3>1
    <3>3. /\ k.thread \in Ids /\ threads[k.thread] \in ThreadState /\ threads[k.thread] # NoThread
          /\ DOMAIN threads = Ids
      BY TokenFrame DEF NetInv, NetTypes, ThreadStore
    <3>4. PICK x \in ThreadState : x = threads[k.thread]
      BY <3>3
    <3>5. threads'[k.thread] = [x EXCEPT !.blocked = p]
      BY <3>2, <3>3, <3>4 DEF Blocked
    <3>6. [x EXCEPT !.blocked = p].stack = x.stack /\ [x EXCEPT !.blocked = p].entry = x.entry
      BY DEF ThreadState
    <3>7. threads'[k.thread] # NoThread
      BY <3>1, TokensSayLater DEF Says, Live
    <3>8. u # k.thread => threads'[u] = threads[u]
      BY <3>2, <3>3 DEF Blocked
    <3> QED
      BY <3>3, <3>4, <3>5, <3>6, <3>7, <3>8
  <2>3. CASE \E k \in marking : threads' = Unblocked(threads, {k.thread})
    <3>1. PICK k \in marking : threads' = Unblocked(threads, {k.thread})
      BY <2>3
    <3>2. k.thread \in Ids /\ threads[k.thread] # NoThread /\ threads[k.thread] \in ThreadState
      BY TokenFrame
    <3>3. /\ threads'[u] = NoThread <=> threads[u] = NoThread
          /\ threads[u] # NoThread => threads'[u].stack = threads[u].stack
      BY <3>1, <3>2, UnblockedSame
    <3>4. [threads[u] EXCEPT !.blocked = Nothing].entry = threads[u].entry
      OBVIOUS
    <3>5. threads'[u].entry = threads[u].entry
      BY <3>1, <3>4 DEF Unblocked
    <3> QED
      BY <3>3, <3>5
  <2>4. CASE \E ws \in SUBSET marking : (\A w \in ws : w.at[1] = "wait") /\ threads' = Requeued(ws)
    <3>1. PICK ws \in SUBSET marking : (\A w \in ws : w.at[1] = "wait") /\ threads' = Requeued(ws)
      BY <2>4
    <3>2. /\ threads'[u] = NoThread <=> threads[u] = NoThread
          /\ threads[u] # NoThread => threads'[u].stack = threads[u].stack
      BY <3>1, RequeuedSame
    <3>3. PICK p : p = LockWait((CHOOSE w \in ws : w.thread = u).lock)
      OBVIOUS
    <3>4. [threads[u] EXCEPT !.blocked = p].entry = threads[u].entry
      OBVIOUS
    <3>5. threads'[u] = [threads[u] EXCEPT !.blocked = p] \/ threads'[u] = threads[u]
      BY <3>1, <3>3 DEF Requeued
    <3> QED
      BY <3>2, <3>4, <3>5
  <2> QED
    BY <2>1, <2>2, <2>3, <2>4 DEF Shaped, ThreadsMoved
<1>3. EntriesKept
  BY <1>2 DEF EntriesKept, Live, Shaped, ThreadsMoved
<1>4. TokensKept
  BY DEF TokensKept, Shaped, TokensMoved
<1> QED
  BY <1>1, <1>3, <1>4 DEF Steady, Shaped

LEMMA MovesShaped ==
  ASSUME NEW k \in marking, k.at[1] # "scope", NEW out, NEW frs, Moves(k, out, frs),
         scopes' = scopes, finished' = finished,
         frs = frames \/ \E f, dst, v : frs = Put(frames, f, dst, v)
  PROVE  Shaped
<1>1. FramesMoved
  BY DEF Moves, FramesMoved
<1>2. TokensMoved
  <2>1. (\A w \in {k} : w.at[1] # "scope") /\ marking \ {k} \subseteq marking'
    BY DEF Moves
  <2> QED
    BY <2>1 DEF TokensMoved
<1> QED
  BY <1>1, <1>2 DEF Shaped, ThreadsMoved, Moves

LEMMA WaitsShaped ==
  ASSUME NEW k \in marking, k.at[1] # "scope", NEW token, Waits(k, token), token.thread = k.thread,
         scopes' = scopes, finished' = finished
  PROVE  Shaped
<1>1. (\A w \in {k} : w.at[1] # "scope") /\ marking \ {k} \subseteq marking' /\ token \in marking'
  BY DEF Waits
<1>2. TokensMoved
  BY <1>1 DEF TokensMoved
<1>3. ThreadsMoved
  BY <1>1 DEF ThreadsMoved, Waits
<1> QED
  BY <1>2, <1>3 DEF Shaped, FramesMoved, Waits

LEMMA ResumesShaped ==
  ASSUME NEW k \in marking, k.at[1] # "scope", NEW frs, Resumes(k, frs),
         scopes' = scopes, finished' = finished,
         frs = frames \/ \E f, dst, v : frs = Put(frames, f, dst, v)
  PROVE  Shaped
<1>1. FramesMoved
  BY DEF Resumes, FramesMoved
<1>2. TokensMoved
  <2>1. (\A w \in {k} : w.at[1] # "scope") /\ marking \ {k} \subseteq marking'
    BY DEF Resumes
  <2> QED
    BY <2>1 DEF TokensMoved
<1>3. ThreadsMoved
  BY DEF ThreadsMoved, Resumes
<1> QED
  BY <1>1, <1>2, <1>3 DEF Shaped

LEMMA NotifiesShaped ==
  ASSUME NEW k \in marking, k.at[1] # "scope", NEW ws \in SUBSET marking,
         \A w \in ws : w.at[1] = "wait", Notifies(k, ws)
  PROVE  Shaped
<1>1. (\A w \in {k} \union ws : w.at[1] # "scope") /\ marking \ ({k} \union ws) \subseteq marking'
  BY DEF Notifies
<1>2. TokensMoved
  BY <1>1 DEF TokensMoved
<1>3. ThreadsMoved /\ FramesMoved /\ scopes' = scopes
  BY DEF ThreadsMoved, FramesMoved, Notifies, OnlySync, storeVars
<1> QED
  BY <1>2, <1>3 DEF Shaped

LEMMA PairsShaped ==
  ASSUME NEW k \in marking, k.at[1] # "scope", NEW w \in marking, w.at[1] # "scope",
         NEW f, NEW v, Pairs(k, w, f, v)
  PROVE  Shaped
<1>1. (\A l \in {k, w} : l.at[1] # "scope") /\ marking \ {k, w} \subseteq marking'
  BY DEF Pairs
<1>2. TokensMoved
  BY <1>1 DEF TokensMoved
<1>3. ThreadsMoved /\ FramesMoved /\ scopes' = scopes
  BY DEF ThreadsMoved, FramesMoved, Pairs, OnlyChannels, storeVars
<1> QED
  BY <1>2, <1>3 DEF Shaped

LEMMA DataShaped ==
  ASSUME NetInv, NEW k \in marking, FireData(k)
  PROVE  Shaped
<1>1. k.at[1] = "control" /\ scopes' = scopes /\ finished' = finished
  BY DEF FireData, Nop, AssignLocal, ReadVar, WriteVar, Assign, AtomicCas, Enables, OnlyControl, storeVars
<1>2. \/ Moves(k, Falls(k), frames)
      \/ \E dst, v : Moves(k, Falls(k), Put(frames, k.frame, dst, v))
  BY DEF FireData, Nop, AssignLocal, ReadVar, WriteVar, Assign, AtomicCas
<1> QED
  BY <1>1, <1>2, MovesShaped

LEMMA SyncShaped ==
  ASSUME NetInv, NEW k \in marking, FireLock(k) \/ FireSemaphore(k)
  PROVE  Shaped
<1>1. scopes' = scopes /\ finished' = finished
  BY DEF FireLock, FireSemaphore, MutexLockGrant, MutexLockBlock, MutexUnlock, LockWaitAcquire,
         CondvarWait, CondvarNotifyHit, CondvarNotifyMiss, CondvarNotifyAll, Notifies,
         SemAcquire, SemAcquireBlock, SemRelease, SemGrant, OnlySync, storeVars
<1>2. CASE MutexLockGrant(k) \/ MutexUnlock(k) \/ SemAcquire(k) \/ SemRelease(k)
  <2>1. k.at[1] = "control" /\ Moves(k, Falls(k), frames)
    BY <1>2 DEF MutexLockGrant, MutexUnlock, SemAcquire, SemRelease, Enables
  <2> QED
    BY <1>1, <2>1, MovesShaped
<1>3. CASE MutexLockBlock(k)
  <2>1. PICK token : token = [k EXCEPT !.at = LockWait(Statement(k).m)]
    OBVIOUS
  <2>2. k.at[1] = "control" /\ Waits(k, token)
    BY <1>3, <2>1 DEF MutexLockBlock, WaitsAt, Enables
  <2>3. token.thread = k.thread
    BY <2>1
  <2> QED
    BY <1>1, <2>2, <2>3, WaitsShaped
<1>4. CASE CondvarWait(k) \/ SemAcquireBlock(k)
  <2>1. k.at[1] = "control" /\ \E token : Waits(k, token) /\ token.thread = k.thread
    BY <1>4 DEF CondvarWait, SemAcquireBlock, Enables
  <2> QED
    BY <1>1, <2>1, WaitsShaped
<1>5. CASE LockWaitAcquire(k) \/ SemGrant(k)
  <2>1. k.at[1] # "scope" /\ Resumes(k, frames)
    BY <1>5 DEF LockWaitAcquire, SemGrant
  <2> QED
    BY <1>1, <2>1, ResumesShaped
<1>6. CASE CondvarNotifyHit(k) \/ CondvarNotifyMiss(k) \/ CondvarNotifyAll(k)
  <2>1. k.at[1] = "control"
    BY <1>6 DEF CondvarNotifyHit, CondvarNotifyMiss, CondvarNotifyAll, Enables
  <2>2. PICK ws \in SUBSET In(Condvar(Statement(k).cv)) : Notifies(k, ws)
    BY <1>6 DEF CondvarNotifyHit, CondvarNotifyMiss, CondvarNotifyAll
  <2>3. ws \in SUBSET marking /\ \A w \in ws : w.at[1] = "wait"
    BY <2>2 DEF In, Condvar
  <2> QED
    BY <2>1, <2>2, <2>3, NotifiesShaped
<1> QED
  BY <1>2, <1>3, <1>4, <1>5, <1>6 DEF FireLock, FireSemaphore

LEMMA ChannelShaped ==
  ASSUME NetInv, NEW k \in marking, FireChannel(k)
  PROVE  Shaped
<1>1. scopes' = scopes /\ finished' = finished
  BY DEF FireChannel, SendRegister, SendPair, RecvRegister, RecvPair, SendBuf, SendBufBlock,
         RecvBuf, RecvBufBlock, BufferDeliver, BufferRecvWait, Pairs, OnlyChannels, storeVars
<1>2. CASE SendBuf(k) \/ RecvBuf(k)
  <2>1. k.at[1] = "control"
    BY <1>2 DEF SendBuf, RecvBuf, Sends, Enables
  <2>2. \/ Moves(k, Falls(k), frames)
        \/ \E c : Moves(k, Falls(k), Popped(c, k.frame))
    BY <1>2 DEF SendBuf, RecvBuf
  <2> QED
    BY <1>1, <2>1, <2>2, MovesShaped DEF Popped
<1>3. CASE RecvRegister(k) \/ RecvBufBlock(k)
  <2>1. PICK token : token = [k EXCEPT !.at = ChannelRecv(Statement(k).c)]
    OBVIOUS
  <2>2. k.at[1] = "control" /\ Waits(k, token)
    BY <1>3, <2>1 DEF RecvRegister, RecvBufBlock, WaitsAt, Enables
  <2>3. token.thread = k.thread
    BY <2>1
  <2> QED
    BY <1>1, <2>2, <2>3, WaitsShaped
<1>4. CASE SendRegister(k) \/ SendBufBlock(k)
  <2>1. k.at[1] = "control" /\ Waits(k, SendToken(k)) /\ SendToken(k).thread = k.thread
    BY <1>4 DEF SendRegister, SendBufBlock, Sends, SendToken, Enables
  <2> QED
    BY <1>1, <2>1, WaitsShaped
<1>5. CASE BufferDeliver(k) \/ BufferRecvWait(k)
  <2>1. k.at[1] # "scope" /\ \/ Resumes(k, frames)
                             \/ \E c : Resumes(k, Popped(c, k.frame))
    BY <1>5 DEF BufferDeliver, BufferRecvWait
  <2> QED
    BY <1>1, <2>1, ResumesShaped DEF Popped
<1>6. CASE SendPair(k)
  <2>1. k.at[1] = "control"
    BY <1>6 DEF SendPair, Sends, Enables
  <2>2. PICK w \in In(ChannelRecv(Statement(k).c)) : Pairs(k, w, w.frame, Value(k, Statement(k).e))
    BY <1>6 DEF SendPair
  <2>3. w \in marking /\ w.at[1] = "recv"
    BY DEF In, ChannelRecv
  <2> QED
    BY <2>1, <2>2, <2>3, PairsShaped
<1>7. CASE RecvPair(k)
  <2>1. k.at[1] = "control"
    BY <1>7 DEF RecvPair, Enables
  <2>2. PICK w \in In(ChannelSend(Statement(k).c)) : Pairs(k, w, k.frame, w.value)
    BY <1>7 DEF RecvPair
  <2>3. w \in marking /\ w.at[1] = "send"
    BY DEF In, ChannelSend
  <2> QED
    BY <2>1, <2>2, <2>3, PairsShaped
<1> QED
  BY <1>2, <1>3, <1>4, <1>5, <1>6, <1>7 DEF FireChannel

LEMMA JumpsShaped ==
  ASSUME NetInv, NEW k \in marking,
         Goto(k) \/ BranchThen(k) \/ BranchElse(k) \/ Switch(k) \/ JoinBlock(k)
  PROVE  Shaped
<1>1. scopes' = scopes /\ finished' = finished /\ k.at[1] = "control"
  BY DEF Goto, BranchThen, BranchElse, Switch, JoinBlock, Jump, OnlyControl, Enables, storeVars
<1>2. CASE JoinBlock(k)
  <2>1. PICK token : token = [k EXCEPT !.at = JoinWait(FrameOfToken(k).fn, FrameOfToken(k).pc)]
    OBVIOUS
  <2>2. Waits(k, token)
    BY <1>2, <2>1 DEF JoinBlock, WaitsAt
  <2>3. token.thread = k.thread
    BY <2>1
  <2> QED
    BY <1>1, <2>2, <2>3, WaitsShaped
<1>3. CASE Goto(k) \/ BranchThen(k) \/ BranchElse(k) \/ Switch(k)
  <2>1. \E sid : Moves(k, Goes(k, sid), frames)
    BY <1>3 DEF Goto, BranchThen, BranchElse, Switch, Jump
  <2> QED
    BY <1>1, <2>1, MovesShaped
<1> QED
  BY <1>2, <1>3

LEMMA CallSteady ==
  ASSUME NetInv, NetInv', NEW k \in marking, Call(k)
  PROVE  Steady
<1> DEFINE t == k.thread
           g == alloc.frame
<1>1. k.at[1] = "control" /\ scopes' = scopes /\ finished' = finished /\ marking \ {k} \subseteq marking'
  BY DEF Call, Enables
<1>2. /\ t \in Ids /\ t \in Live /\ threads[t] \in ThreadState /\ g \in Ids
      /\ DOMAIN threads = Ids /\ DOMAIN frames = Ids
  BY TokenFrame DEF Call, NetInv, NetTypes, ThreadStore, FrameStore
<1>3. FramesKept
  <2>1. frames[g] = NoFrame
    BY <1>2 DEF NetInv, Unborn, Ids
  <2>2. \E x : frames' = [frames EXCEPT ![g] = x]
    BY DEF Call
  <2> QED
    BY <1>2, <2>1, <2>2 DEF FramesKept
<1>4. EntriesKept
  <2>1. threads' = [threads EXCEPT ![t].stack = Append(@, g)]
    BY DEF Call
  <2>2. PICK x \in ThreadState : x = threads[t]
    BY <1>2
  <2>3. threads'[t] = [x EXCEPT !.stack = Append(x.stack, g)]
    BY <1>2, <2>1, <2>2
  <2>4. x.stack \in Seq(Ids) /\ x.stack # <<>>
    BY <1>2, <2>2, FirstFrame DEF ThreadState
  <2>5. Append(x.stack, g)[1] = x.stack[1]
    BY <1>2, <2>4
  <2>6. PICK st : st = Append(x.stack, g)
    OBVIOUS
  <2>7. [x EXCEPT !.stack = st].entry = x.entry /\ [x EXCEPT !.stack = st].stack = st
    BY DEF ThreadState
  <2>8. threads'[t].entry = threads[t].entry /\ threads'[t].stack[1] = threads[t].stack[1]
    BY <2>2, <2>3, <2>5, <2>6, <2>7
  <2>9. \A u \in Ids : u # t => threads'[u] = threads[u]
    BY <1>2, <2>1
  <2> HIDE DEF t
  <2> QED
    BY <1>1, <1>2, <2>8, <2>9 DEF EntriesKept, Live
<1> QED
  BY <1>1, <1>3, <1>4 DEF Steady, TokensKept

LEMMA ReturnInnerSteady ==
  ASSUME NetInv, NetInv', NEW k \in marking, ReturnInner(k)
  PROVE  Steady
<1> DEFINE t == k.thread
           st == SubSeq(threads[t].stack, 1, Len(threads[t].stack) - 1)
<1>1. k.at[1] = "control" /\ scopes' = scopes /\ finished' = finished /\ marking \ {k} \subseteq marking'
      /\ Len(threads[t].stack) > 1
  BY DEF ReturnInner
<1>2. /\ t \in Ids /\ t \in Live /\ threads[t] \in ThreadState /\ DOMAIN threads = Ids
  BY TokenFrame DEF NetInv, NetTypes, ThreadStore
<1>3. FramesKept
  <2> DEFINE caller == threads[t].stack[Len(threads[t].stack) - 1]
             ret == FrameOfToken(k).ret
             out == ControlToken(t, caller, frames[caller].fn, ret.pc)
  <2>0. PICK v \in Values \union {NoValue} :
          frames' = [Placed(IF v = NoValue THEN frames ELSE Put(frames, caller, ret.dst, v), {out})
                       EXCEPT ![k.frame] = NoFrame]
    BY Zenon DEF ReturnInner
  <2>1. PICK frs, ks : /\ frames' = [Placed(frs, ks) EXCEPT ![k.frame] = NoFrame]
                       /\ frs = frames \/ \E f, dst, z : frs = Put(frames, f, dst, z)
    <3> DEFINE w == IF v = NoValue THEN frames ELSE Put(frames, caller, ret.dst, v)
    <3>1. frames' = [Placed(w, {out}) EXCEPT ![k.frame] = NoFrame]
      BY <2>0
    <3>2. w = frames \/ \E f, dst, z : w = Put(frames, f, dst, z)
      <4> HIDE DEF caller, ret
      <4> QED
        OBVIOUS
    <3> HIDE DEF w, out
    <3> QED
      BY <3>1, <3>2
  <2>2. DOMAIN Placed(frs, ks) = Ids
    BY DEF Placed
  <2>3. ASSUME NEW f \in Ids
        PROVE  Placed(frs, ks)[f].fn = frames[f].fn
    <3>1. Placed(frs, ks)[f].fn = frs[f].fn
      BY PlacedFn
    <3>2. frs[f].fn = frames[f].fn
      BY <2>1, PutFn
    <3> QED
      BY <3>1, <3>2
  <2>4. \A f \in Ids : frames'[f] = NoFrame \/ frames'[f] = Placed(frs, ks)[f]
    BY <2>1, <2>2
  <2> QED
    BY <2>3, <2>4 DEF FramesKept
<1>4. EntriesKept
  <2>1. threads' = [threads EXCEPT ![t].stack = st]
    BY DEF ReturnInner
  <2>2. PICK x \in ThreadState : x = threads[t]
    BY <1>2
  <2>4. x.stack \in Seq(Ids) /\ x.stack # <<>>
    BY <1>2, <2>2, FirstFrame DEF ThreadState
  <2>5. SubSeq(x.stack, 1, Len(x.stack) - 1)[1] = x.stack[1]
    <3>1. PICK n \in Nat : n = Len(x.stack) - 1 /\ n >= 1
      BY <1>1, <2>2, <2>4
    <3>2. SubSeq(x.stack, 1, n)[1] = x.stack[1]
      BY <2>4, <3>1
    <3> QED
      BY <3>1, <3>2
  <2>6. PICK s : s = st
    OBVIOUS
  <2>7. [x EXCEPT !.stack = s].entry = x.entry /\ [x EXCEPT !.stack = s].stack = s
    BY DEF ThreadState
  <2>3. threads'[t] = [x EXCEPT !.stack = s]
    BY <1>2, <2>1, <2>2, <2>6
  <2>8. threads'[t].entry = threads[t].entry /\ threads'[t].stack[1] = threads[t].stack[1]
    BY <2>2, <2>3, <2>5, <2>6, <2>7
  <2>9. \A u \in Ids : u # t => threads'[u] = threads[u]
    BY <1>2, <2>1
  <2> HIDE DEF t
  <2> QED
    BY <1>1, <1>2, <2>8, <2>9 DEF EntriesKept, Live
<1> QED
  BY <1>1, <1>3, <1>4 DEF Steady, TokensKept

LEMMA JoinReadySteady ==
  ASSUME NetInv, NetInv', NEW k \in marking, JoinReady(k)
  PROVE  Steady
<1>1. PICK t, c, h, n : /\ t = k.thread /\ c = Child(k) /\ n = Statement(k).h
                        /\ h = FrameOfToken(k).handles[Statement(k).h]
  OBVIOUS
<1>2. k.at[1] = "control" /\ scopes' = scopes /\ finished' = finished \ {c}
      /\ marking \ {k} \subseteq marking'
  BY <1>1 DEF JoinReady, Enables
<1>3. /\ t \in Ids /\ t \in Live /\ threads[t] \in ThreadState /\ DOMAIN threads = Ids /\ k.frame \in Ids
  BY <1>1, TokenFrame DEF NetInv, NetTypes, ThreadStore
<1>4. c \in Ids /\ c # t /\ threads'[c] = NoThread /\ threads'[t].stack = threads[t].stack
  BY <1>1, JoinedThreads
<1>5. FramesKept
  <2>1. frames' = [Placed(frames, {Falls(k)}) EXCEPT ![k.frame].handles[n] = None]
    BY <1>1 DEF JoinReady
  <2>2. PICK w : w = Placed(frames, {Falls(k)})
    OBVIOUS
  <2>3. DOMAIN w = Ids /\ \A f \in Ids : w[f].fn = frames[f].fn
    BY <2>2, PlacedFn DEF Placed
  <2>4. PICK x : x = w[k.frame]
    OBVIOUS
  <2>5. [x EXCEPT !.handles[n] = None].fn = x.fn
    OBVIOUS
  <2>6. \A f \in Ids : frames'[f] = IF f = k.frame THEN [x EXCEPT !.handles[n] = None] ELSE w[f]
    BY <1>3, <2>1, <2>2, <2>3, <2>4
  <2> QED
    BY <2>3, <2>4, <2>5, <2>6 DEF FramesKept
<1>6. EntriesKept
  <2>1. threads' = [threads EXCEPT ![c] = NoThread, ![t].children[h] = None]
    BY <1>1 DEF JoinReady
  <2>2. PICK x \in ThreadState : x = threads[t]
    BY <1>3
  <2>3. threads'[t] = [x EXCEPT !.children[h] = None]
    BY <1>3, <1>4, <2>1, <2>2
  <2>4. [x EXCEPT !.children[h] = None].entry = x.entry
    BY DEF ThreadState
  <2>5. threads'[t].entry = threads[t].entry
    BY <2>2, <2>3, <2>4
  <2>6. \A u \in Ids : u # t /\ u # c => threads'[u] = threads[u]
    BY <1>3, <1>4, <2>1
  <2> QED
    BY <1>2, <1>3, <1>4, <2>5, <2>6 DEF EntriesKept, Live
<1> QED
  BY <1>2, <1>5, <1>6 DEF Steady, TokensKept

(* The threads being created run the functions they are created for. *)
LEMMA CreatesEntered ==
  ASSUME NetInv, NetInv', Entered, NEW k \in marking, NEW own, NEW fs \in Seq(Functions), HasRoom(fs),
         NEW p \in Ids \union {None}, Creates(k, own, fs, p), NEW ths,
         ths = WithNewThreads(threads, fs, p),
         \A u \in Ids : ths[u] # NoThread => threads'[u].entry = ths[u].entry
  PROVE  Entered'
<1>1. /\ \A i \in DOMAIN fs : /\ NthThread(i) \in Ids /\ ths[NthThread(i)] # NoThread
                              /\ ths[NthThread(i)].entry = fs[i]
      /\ \A u \in Ids : (\A i \in DOMAIN fs : u # NthThread(i)) => ths[u] = threads[u]
  BY BornChildless
<1>2. /\ \A u \in Ids : u \in Live' <=> u \in Live \/ \E i \in Born(fs) : u = NthThread(i)
      /\ \A u \in Ids : u \in Live => /\ \A i \in DOMAIN fs : u # NthThread(i)
                                      /\ StackOf(u)' = StackOf(u)
                                      /\ threads'[u].parent = threads[u].parent
      /\ \A u \in Ids : \A i \in Born(fs) : u = NthThread(i) => StackOf(u)' = <<NthFrame(fs, i)>>
      /\ \A u \in Ids : u \notin Live' => StackOf(u)' = <<>>
  BY CreationStacks
<1>3. ASSUME NEW u \in Live'
      PROVE  frames'[threads'[u].stack[1]].fn = threads'[u].entry
  <2>1. u \in Ids /\ StackOf(u)' = threads'[u].stack
    BY FirstFrameLater
  <2>2. CASE u \in Live
    <3>1. threads[u].stack[1] \in Ids /\ frames[threads[u].stack[1]] # NoFrame
          /\ StackOf(u) = threads[u].stack
      BY <2>2, FirstFrame
    <3>2. threads'[u].stack = threads[u].stack
      BY <1>2, <2>1, <2>2, <3>1
    <3>3. PICK f \in Ids : f = threads[u].stack[1] /\ frames[f] # NoFrame
      BY <3>1
    <3>4. \A i \in Born(fs) : f # NthFrame(fs, i)
      BY <3>3, FramesFor
    <3>5. frames'[f].fn = frames[f].fn
      BY <3>3, <3>4 DEF Creates, CreatesFrames
    <3>6. threads'[u].entry = threads[u].entry
      BY <1>1, <1>2, <2>1, <2>2 DEF Live
    <3> QED
      BY <2>2, <3>2, <3>3, <3>5, <3>6 DEF Entered
  <2>3. CASE \E i \in Born(fs) : u = NthThread(i)
    <3>1. PICK i \in Born(fs) : u = NthThread(i)
      BY <2>3
    <3>2. i \in DOMAIN fs
      BY ThreadsFor
    <3>3. threads'[u].entry = fs[i]
      BY <1>1, <2>1, <3>1, <3>2
    <3>4. threads'[u].stack = <<NthFrame(fs, i)>>
      BY <1>2, <2>1, <3>1
    <3>5. threads'[u].stack[1] = NthFrame(fs, i)
      BY <3>4
    <3>6. frames'[NthFrame(fs, i)].fn = fs[i]
      BY DEF Creates, CreatesFrames
    <3> QED
      BY <3>3, <3>5, <3>6
  <2> QED
    BY <1>2, <2>1, <2>2, <2>3
<1> QED
  BY <1>3 DEF Entered

(* Scopes that were open keep their tokens. *)
LEMMA SidsStay ==
  ASSUME ScopeSids, NEW k \in marking, k.at[1] = "control", marking \ {k} \subseteq marking', NEW s \in Ids,
         scopes[s] # NoScope, scopes'[s] = scopes[s]
  PROVE  \E l \in marking' : /\ l.at[1] = "scope" /\ l.thread = scopes'[s].owner
                             /\ l.frame = scopes'[s].frame /\ l.at[3] = scopes'[s].sid
<1>1. PICK l \in marking : /\ l.at[1] = "scope" /\ l.thread = scopes[s].owner
                           /\ l.frame = scopes[s].frame /\ l.at[3] = scopes[s].sid
  BY DEF ScopeSids
<1> QED
  BY <1>1

LEMMA SpawnEnters ==
  ASSUME NetInv, NetInv', Entered, ScopeSids, NEW k \in marking, Spawn(k)
  PROVE  Entered' /\ ScopeSids'
<1>1. PICK fs : fs = <<Statement(k).f>>
  OBVIOUS
<1>2. /\ fs \in Seq(Functions) /\ k.at[1] = "control" /\ Creates(k, Falls(k), fs, None)
  BY <1>1, SpawnCreates
<1>3. HasRoom(fs) /\ scopes' = scopes /\ marking \ {k} \subseteq marking'
  BY <1>1 DEF Spawn, CreateThreads
<1>4. PICK ths : ths = WithNewThreads(threads, fs, None)
  OBVIOUS
<1>5. PICK t, h, c : /\ t = k.thread /\ threads' = [ths EXCEPT ![t].children[h] = c]
  BY <1>1, <1>4 DEF Spawn
<1>6. ASSUME NEW u \in Ids
      PROVE  threads'[u].entry = ths[u].entry
  <2>1. DOMAIN ths = Ids
    BY <1>4 DEF WithNewThreads
  <2>2. PICK x : x = ths[u]
    OBVIOUS
  <2>3. [x EXCEPT !.children[h] = c].entry = x.entry
    OBVIOUS
  <2>4. threads'[u] = x \/ threads'[u] = [x EXCEPT !.children[h] = c]
    BY <1>5, <2>1, <2>2
  <2> QED
    BY <2>2, <2>3, <2>4
<1>7. Entered'
  BY <1>2, <1>3, <1>4, <1>6, CreatesEntered
<1>8. ScopeSids'
  BY <1>2, <1>3, SidsStay DEF ScopeSids
<1> QED
  BY <1>7, <1>8

LEMMA ScopeEnters ==
  ASSUME NetInv, NetInv', Entered, ScopeSids, NEW k \in marking, Scope(k)
  PROVE  Entered' /\ ScopeSids'
<1>1. PICK fs, s : fs = Statement(k).fs /\ s = alloc.scope
  OBVIOUS
<1>2. /\ fs \in Seq(Functions) /\ k.at[1] = "control" /\ k.at \in StatementPlace /\ ScopeOpens(fs, s)
  BY <1>1, ScopeIs
<1>3. HasRoom(fs) /\ s \in Ids /\ scopes[s] = NoScope
  BY <1>2, ScopeOpened DEF ScopeOpens
<1>4. PICK ths : ths = WithNewThreads(threads, fs, s)
  OBVIOUS
<1>5. CASE ScopeEnds(k, fs, s) /\ Creates(k, Falls(k), fs, s)
  <2>1. threads' = ths /\ scopes' = scopes /\ marking \ {k} \subseteq marking'
    BY <1>4, <1>5 DEF ScopeEnds
  <2>2. Entered'
    BY <1>2, <1>3, <1>4, <1>5, <2>1, CreatesEntered
  <2>3. ScopeSids'
    BY <1>2, <2>1, SidsStay DEF ScopeSids
  <2> QED
    BY <2>2, <2>3
<1>6. CASE ScopeWaits(k, OwnToken(k), fs, s) /\ Creates(k, OwnToken(k), fs, s)
  <2>1. PICK own : /\ own = OwnToken(k) /\ own.at[1] = "scope" /\ own.thread = k.thread
                   /\ own.frame = k.frame
    BY <1>2, OwnPlaced
  <2>2. PICK r \in ScopeState :
          /\ r = [owner |-> k.thread, frame |-> k.frame, sid |-> own.at[3],
                  remaining |-> {NthThread(i) : i \in Born(fs)}]
          /\ scopes' = [scopes EXCEPT ![s] = r]
    BY <1>6, <2>1 DEF ScopeWaits
  <2>3. /\ marking \ {k} \subseteq marking' /\ own \in marking'
        /\ threads' = Blocked(ths, k.thread, own.at)
    BY <1>4, <1>6, <2>1 DEF ScopeWaits
  <2>4. ASSUME NEW u \in Ids
        PROVE  threads'[u].entry = ths[u].entry
    <3>1. DOMAIN ths = Ids
      BY <1>4 DEF WithNewThreads
    <3>2. PICK x, p : x = ths[u] /\ p = own.at
      OBVIOUS
    <3>3. [x EXCEPT !.blocked = p].entry = x.entry
      OBVIOUS
    <3>4. threads'[u] = x \/ threads'[u] = [x EXCEPT !.blocked = p]
      BY <2>3, <3>1, <3>2 DEF Blocked
    <3> QED
      BY <3>2, <3>3, <3>4
  <2>5. Entered'
    BY <1>2, <1>3, <1>4, <1>6, <2>4, CreatesEntered
  <2>6. DOMAIN scopes = Ids
    BY DEF NetInv, NetTypes, ScopeStore
  <2>7. scopes'[s] = r /\ \A q \in Ids : q # s => scopes'[q] = scopes[q]
    BY <1>3, <2>2, <2>6
  <2>8. /\ own.thread = scopes'[s].owner /\ own.frame = scopes'[s].frame
        /\ own.at[3] = scopes'[s].sid
    BY <2>1, <2>2, <2>7
  <2>9. ASSUME NEW q \in Ids, scopes'[q] # NoScope
        PROVE  \E l \in marking' : /\ l.at[1] = "scope" /\ l.thread = scopes'[q].owner
                                   /\ l.frame = scopes'[q].frame /\ l.at[3] = scopes'[q].sid
    <3>1. CASE q = s
      BY <2>1, <2>3, <2>8, <3>1
    <3>2. CASE q # s
      BY <1>2, <2>3, <2>7, <2>9, <3>2, SidsStay
    <3> QED
      BY <3>1, <3>2
  <2>10. ScopeSids'
    BY <2>9 DEF ScopeSids
  <2> QED
    BY <2>5, <2>10
<1> QED
  BY <1>1, <1>5, <1>6, ScopeCreates

(* A thread that finishes takes its owner's token only with its scope. *)
LEMMA FinishEnters ==
  ASSUME NetInv, NetInv', I!Sound, Entered, ScopeSids, NEW k \in marking, ReturnFinal(k)
  PROVE  Entered' /\ ScopeSids'
<1> DEFINE t == k.thread
           s == threads[t].parent
<1>1. /\ k.at[1] = "control" /\ t \in Live /\ t \in Ids
      /\ finished' = (finished \union {t}) \ GoneWith(k)
      /\ marking \ ({k} \union WokenBy(k)) \subseteq marking'
  BY TokenFrame DEF ReturnFinal, GoneWith, WokenBy
<1>2. ASSUME NEW u \in Live'
      PROVE  frames'[threads'[u].stack[1]].fn = threads'[u].entry
  <2>1. u \in Ids /\ threads'[u] # NoThread /\ u \notin finished'
        /\ frames'[threads'[u].stack[1]] # NoFrame /\ StackOf(u)' = threads'[u].stack
        /\ threads'[u].stack # <<>>
    BY FirstFrameLater DEF Live
  <2>2. threads[u] # NoThread /\ u \notin GoneWith(k)
        /\ threads'[u].stack = IF u = t THEN <<>> ELSE threads[u].stack
    BY <2>1, FinishThreads
  <2>3. u \in Live /\ u # t
    BY <1>1, <2>1, <2>2 DEF Live
  <2>4. threads[u].stack[1] \in Ids /\ frames[threads[u].stack[1]] # NoFrame
    BY <2>3, FirstFrame
  <2>5. threads[u].stack[1] # k.frame
    BY <2>1, <2>2, <2>3, FinishFrames
  <2>6. frames'[threads[u].stack[1]].fn = frames[threads[u].stack[1]].fn
    BY <2>4, <2>5, FinishFrames
  <2>7. threads'[u].entry = threads[u].entry
    BY <2>1, FinishedChildren
  <2> QED
    BY <2>2, <2>3, <2>6, <2>7 DEF Entered
<1>3. ASSUME NEW x \in Ids, scopes'[x] # NoScope
      PROVE  \E l \in marking' : /\ l.at[1] = "scope" /\ l.thread = scopes'[x].owner
                                 /\ l.frame = scopes'[x].frame /\ l.at[3] = scopes'[x].sid
  <2>1. scopes'[x] = IF x # s \/ scopes[x] = NoScope THEN scopes[x]
                     ELSE IF EmptiesScope(t) THEN NoScope
                     ELSE [scopes[x] EXCEPT !.remaining = @ \ {t}]
    BY DEF ReturnFinal
  <2>2. scopes[x] # NoScope /\ (x = s => ~EmptiesScope(t))
    BY <1>3, <2>1
  <2>3. PICK r \in ScopeState : r = scopes[x]
    BY <2>2, ScopeIsOpen
  <2>4. PICK z : z = r.remaining \ {t}
    OBVIOUS
  <2>5. /\ [r EXCEPT !.remaining = z].owner = r.owner /\ [r EXCEPT !.remaining = z].frame = r.frame
        /\ [r EXCEPT !.remaining = z].sid = r.sid
    BY DEF ScopeState
  <2>6. scopes'[x] = r \/ scopes'[x] = [r EXCEPT !.remaining = z]
    BY <2>1, <2>2, <2>3, <2>4
  <2>7. scopes'[x].owner = r.owner /\ scopes'[x].frame = r.frame /\ scopes'[x].sid = r.sid
    BY <2>5, <2>6
  <2>8. PICK l \in marking : /\ l.at[1] = "scope" /\ l.thread = r.owner
                             /\ l.frame = r.frame /\ l.at[3] = r.sid
    BY <2>2, <2>3 DEF ScopeSids
  <2>9. ~(EmptiesScope(t) /\ l \in OwnerTokens(s))
    <3> SUFFICES ASSUME EmptiesScope(t), l \in OwnerTokens(s)
                 PROVE  FALSE
      OBVIOUS
    <3>1. s \in Ids /\ scopes[s] # NoScope
      <4>1. threads[t] \in ThreadState
        BY TokenFrame
      <4> QED
        BY <4>1 DEF EmptiesScope, ThreadState
    <3>2. l.thread = scopes[s].owner
      BY DEF OwnerTokens
    <3>3. Reasons[l.thread] = x /\ Reasons[l.thread] = s
      BY <2>2, <2>3, <2>8, <3>1, <3>2, ScopeAwaited
    <3> QED
      BY <2>2, <3>3
  <2>10. l \notin WokenBy(k) /\ l # k
    BY <1>1, <2>8, <2>9 DEF WokenBy, Joiners
  <2>11. l \in marking'
    BY <1>1, <2>10
  <2> QED
    BY <2>7, <2>8, <2>11
<1> QED
  BY <1>2, <1>3 DEF Entered, ScopeSids

(* Every firing is a step of the interpreter. *)
LEMMA FireTold ==
  ASSUME NetInv, NetInv', I!Sound, Entered, ScopeSids, Comparable(prog), NEW k \in marking, Fire(k)
  PROVE  I!Step(k.thread)
<1>1. CASE FireData(k)
  BY <1>1, DataTold DEF I!Step
<1>2. CASE FireLock(k)
  BY <1>2, LockTold DEF I!Step
<1>3. CASE FireSemaphore(k)
  BY <1>3, SemaphoreTold DEF I!Step
<1>4. CASE FireChannel(k)
  BY <1>4, ChannelTold DEF I!Step
<1>5. CASE FireControl(k)
  <2>1. CASE Goto(k) \/ BranchThen(k) \/ BranchElse(k) \/ Switch(k)
    BY <2>1, JumpsTold DEF I!Step
  <2>2. CASE Call(k)
    BY <2>2, CallTold DEF I!Step, I!ControlStep
  <2>3. CASE ReturnInner(k)
    BY <2>3, ReturnInnerTold DEF I!Step
  <2>4. CASE ReturnFinal(k)
    BY <2>4, ReturnFinalTold DEF I!Step
  <2> QED
    BY <1>5, <2>1, <2>2, <2>3, <2>4 DEF FireControl
<1>6. CASE FireThread(k)
  <2>1. CASE Spawn(k)
    BY <2>1, SpawnTold DEF I!Step, I!ThreadStep
  <2>2. CASE Scope(k)
    BY <2>2, ScopeTold DEF I!Step, I!ThreadStep
  <2>3. CASE JoinReady(k)
    BY <2>3, JoinReadyTold DEF I!Step
  <2>4. CASE JoinBlock(k)
    BY <2>4, JoinBlockTold DEF I!Step
  <2> QED
    BY <1>6, <2>1, <2>2, <2>3, <2>4 DEF FireThread
<1> QED
  BY <1>1, <1>2, <1>3, <1>4, <1>5, <1>6 DEF Fire

LEMMA FireEnters ==
  ASSUME NetInv, NetInv', I!Sound, Entered, ScopeSids, NEW k \in marking, Fire(k)
  PROVE  Entered' /\ ScopeSids'
<1>1. CASE \/ FireData(k) \/ FireLock(k) \/ FireSemaphore(k) \/ FireChannel(k)
           \/ Goto(k) \/ BranchThen(k) \/ BranchElse(k) \/ Switch(k) \/ JoinBlock(k)
  BY <1>1, DataShaped, SyncShaped, ChannelShaped, JumpsShaped, ShapedSteady, SteadyKeeps
<1>2. CASE Call(k) \/ ReturnInner(k) \/ JoinReady(k)
  BY <1>2, CallSteady, ReturnInnerSteady, JoinReadySteady, SteadyKeeps
<1>3. CASE Spawn(k)
  BY <1>3, SpawnEnters
<1>4. CASE Scope(k)
  BY <1>4, ScopeEnters
<1>5. CASE ReturnFinal(k)
  BY <1>5, FinishEnters
<1> QED
  BY <1>1, <1>2, <1>3, <1>4, <1>5 DEF Fire, FireControl, FireThread

-----------------------------------------------------------------------------
(* The initial state *)

LEMMA InitEnters == Init => Entered /\ ScopeSids
<1> SUFFICES ASSUME Init
             PROVE  Entered /\ ScopeSids
  OBVIOUS
<1>1. ScopeSids
  BY DEF Init, ScopeSids
<1>2. ASSUME NEW u \in Live
      PROVE  frames[threads[u].stack[1]].fn = threads[u].entry
  <2>1. u \in Ids /\ threads[u] # NoThread /\ u \notin finished
    BY DEF Live
  <2>2. u = 1 /\ Entry \notin Nobody
    BY <2>1 DEF Init
  <2>3. threads[1] = NewThread(Entry, <<1>>, None)
    BY <2>1, <2>2 DEF Init
  <2>4. frames[1] = NewFrame(Entry, SlotInit[Entry], NoReturn)
    BY <2>1, <2>2 DEF Init
  <2> QED
    BY <2>2, <2>3, <2>4 DEF NewThread, NewFrame
<1> QED
  BY <1>1, <1>2 DEF Entered

LEMMA InitTold == Init => I!Init
<1> SUFFICES ASSUME Init
             PROVE  I!Init
  OBVIOUS
<1> DEFINE born == Entry \in Nobody
<1>0. NetInv
  BY InitHolds
<1>1. 1 \in Ids /\ I!Ids = Ids /\ I!None = None
  BY SameIds, NetAssumption DEF Ids
<1>2. /\ threads = [t \in Ids |-> IF t # 1 THEN NoThread
                                 ELSE NewThread(Entry, IF born THEN <<>> ELSE <<1>>, None)]
      /\ finished = (IF born THEN {1} ELSE {})
      /\ marking = IF born THEN {} ELSE {ControlToken(1, 1, Entry, 1)}
  BY DEF Init
<1>3. threads[1] = NewThread(Entry, IF born THEN <<>> ELSE <<1>>, None) /\ threads[1] # NoThread
  <2>1. born => 1 \in finished
    BY <1>2
  <2>2. ~born => ControlToken(1, 1, Entry, 1) \in marking
    BY <1>2
  <2>3. ControlToken(1, 1, Entry, 1).thread = 1
    BY DEF ControlToken
  <2>4. ~born => 1 \in Live
    BY <2>2, <2>3, <1>0, TokensSay DEF Says
  <2> QED
    BY <1>0, <1>1, <1>2, <2>1, <2>4 DEF NetInv, NetTypes, Live
<1>4. \A t \in Ids : t # 1 => threads[t] = NoThread
  BY <1>2
<1>5. Statuses = [t \in Ids |-> IF t # 1 THEN "absent" ELSE IF born THEN "done" ELSE "run"]
      /\ Reasons = [t \in Ids |-> Nothing]
  <2>1. ASSUME NEW t \in Ids, t # 1
        PROVE  StatusOf(t) = "absent" /\ ReasonOf(t) = Nothing
    BY <1>4, <2>1 DEF StatusOf, ReasonOf, Live
  <2>2. CASE born
    <3>1. StatusOf(1) = "done" /\ ReasonOf(1) = Nothing
      BY <1>2, <1>3, <2>2 DEF StatusOf, ReasonOf, Live
    <3> QED
      BY <2>1, <2>2, <3>1 DEF Statuses, Reasons
  <2>3. CASE ~born
    <3>1. PICK k : k = ControlToken(1, 1, Entry, 1) /\ k \in marking
      BY <1>2, <2>3
    <3>2. k.thread = 1 /\ k.at[1] = "control"
      BY <3>1 DEF ControlToken, Control
    <3>3. Statuses[1] = "run" /\ Reasons[1] = Nothing
      BY <1>0, <3>1, <3>2, TokensSay DEF Says
    <3>4. StatusOf(1) = "run" /\ ReasonOf(1) = Nothing
      BY <1>1, <3>3 DEF Statuses, Reasons
    <3> QED
      BY <2>1, <2>3, <3>4 DEF Statuses, Reasons
  <2> QED
    BY <2>2, <2>3
<1>6. /\ Stacks = [t \in Ids |-> IF t = 1 /\ ~born THEN <<1>> ELSE <<>>]
      /\ ChildMaps = [t \in Ids |-> [h \in Ids |-> None]]
      /\ Parents = [t \in Ids |-> None]
  <2>1. StackOf(1) = (IF born THEN <<>> ELSE <<1>>) /\ ChildrenOf(1) = [h \in Ids |-> None]
        /\ ParentOf(1) = None
    BY <1>3 DEF StackOf, ChildrenOf, ParentOf, NewThread
  <2>2. ASSUME NEW t \in Ids, t # 1
        PROVE  StackOf(t) = <<>> /\ ChildrenOf(t) = [h \in Ids |-> None] /\ ParentOf(t) = None
    BY <1>4, <2>2 DEF StackOf, ChildrenOf, ParentOf
  <2>3. Stacks = [t \in Ids |-> IF t = 1 /\ ~born THEN <<1>> ELSE <<>>]
    BY <2>1, <2>2 DEF Stacks
  <2>4. ChildMaps = [t \in Ids |-> [h \in Ids |-> None]]
    BY <2>1, <2>2 DEF ChildMaps
  <2>5. Parents = [t \in Ids |-> None]
    BY <2>1, <2>2 DEF Parents
  <2> QED
    BY <2>3, <2>4, <2>5
<1>7. ScopesOpen = [s \in Ids |-> NoScope]
  BY DEF Init, ScopesOpen, ScopeOf
<1>8. frames = [f \in Ids |-> IF f = 1 /\ ~born THEN I!Activation(Entry, I!NoReturn) ELSE NoFrame]
  BY SameIds DEF Init, NewFrame, NoReturn, I!Activation, I!NoReturn
<1>9. \A p : p[1] # "control" => In(p) = {}
  BY <1>2 DEF In, ControlToken, Control
<1>10. /\ Acquirers = [s \in Semaphores |-> {}] /\ Waiters = [c \in Condvars |-> {}]
       /\ Senders = [c \in Channels |-> {}] /\ Receivers = [c \in Channels |-> {}]
  <2>1. \A x : /\ In(SemWait(x)) = {} /\ In(Condvar(x)) = {}
               /\ In(ChannelSend(x)) = {} /\ In(ChannelRecv(x)) = {}
    BY <1>9 DEF SemWait, Condvar, ChannelSend, ChannelRecv
  <2> QED
    BY <2>1 DEF Acquirers, Waiters, Senders, Receivers, Threads
<1>11. Past = {}
  BY DEF Init, Past, StatementsOf
<1>12. /\ prog \in Programs /\ data = SharedInit /\ mutex = [m \in Mutexes |-> None] /\ sem = Permits
       /\ buf = [c \in Channels |-> <<>>] /\ finished = (IF born THEN {1} ELSE {})
       /\ completed = [f \in Functions |-> IF born /\ f = Entry /\ MonitorMax[f] > 0 THEN 1 ELSE 0]
       /\ scopesDone = {}
       /\ alloc = [thread |-> 2, frame |-> IF born THEN 1 ELSE 2, scope |-> 1, handle |-> 1]
  BY DEF Init
<1> QED
  BY ZenonT(60), <1>1, <1>5, <1>6, <1>7, <1>8, <1>10, <1>11, <1>12 DEF I!Init
=============================================================================
