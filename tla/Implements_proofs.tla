-------------------------- MODULE Implements_proofs --------------------------
(***************************************************************************)
(* The Petri engine implements the reference interpreter: what every run   *)
(* of the interpreter keeps, proved in Interp_proofs, is carried over to   *)
(* the machine state that the net stands for, and makes the steps of the   *)
(* net steps of the interpreter in every run.                              *)
(***************************************************************************)
EXTENDS Refine_proofs

(* The interpreter that the proofs are about, on that machine state *)
P == INSTANCE Interp_proofs WITH
  status <- Statuses, on <- Reasons, stack <- Stacks, children <- ChildMaps, parent <- Parents,
  frame <- frames, scope <- ScopesOpen, shared <- data,
  semq <- Acquirers, cvq <- Waiters, sendq <- Senders, recvq <- Receivers,
  reached <- Past, next <- alloc

-----------------------------------------------------------------------------
(* Both instances have the same definitions word for word, so the steps that
   ImplementsInterp allows are the steps the proofs are about. *)

LEMMA SameVars == I!Ids = P!Ids /\ I!None = P!None
BY DEF I!Ids, P!Ids, I!None, P!None

LEMMA SameUnchanged == UNCHANGED I!vars => UNCHANGED P!vars
BY Zenon DEF I!vars, P!vars, I!threadVars, P!threadVars, I!syncVars, P!syncVars, I!chanVars, P!chanVars,
       I!idVars, P!idVars

LEMMA SameInit == I!Init => P!Init
BY ZenonT(60) DEF I!Init, P!Init, I!Activation, P!Activation, I!NoReturn, P!NoReturn, I!Ids, P!Ids,
                  I!None, P!None

LEMMA SameFaults == ~I!Faulted => ~P!Faulted
BY ZenonT(60)
   DEF I!Faulted, P!Faulted, I!Fails, P!Fails, I!EvalFails, P!EvalFails, I!OpFails, P!OpFails,
       I!AtStatement, P!AtStatement, I!Op, P!Op, I!Body, P!Body, I!Fr, P!Fr, I!Top, P!Top,
       I!Value, P!Value, I!HitsFrameLimit, P!HitsFrameLimit, I!Ids, P!Ids, I!None, P!None

LEMMA SameData == \A t : I!DataStep(t) => P!DataStep(t)
<1> USE DEF I!Accepts, P!Accepts, I!Advance, P!Advance, I!Assign, P!Assign, I!AtStatement,
            P!AtStatement, I!Body, P!Body, I!DomainOf, P!DomainOf, I!Executes, P!Executes, I!Fr,
            P!Fr, I!Ids, P!Ids, I!OnlyData, P!OnlyData, I!Op, P!Op, I!Put, P!Put, I!PutShared,
            P!PutShared, I!Reach, P!Reach, I!Top, P!Top, I!Value, P!Value, I!chanVars,
            P!chanVars, I!idVars, P!idVars, I!syncVars, P!syncVars, I!threadVars, P!threadVars
<1> SUFFICES ASSUME NEW t, I!DataStep(t)
             PROVE  P!DataStep(t)
  OBVIOUS
<1>1. I!Nop(t) => P!Nop(t)
  BY ZenonT(60) DEF I!Nop, P!Nop
<1>2. I!AssignLocal(t) => P!AssignLocal(t)
  BY ZenonT(60) DEF I!AssignLocal, P!AssignLocal
<1>3. I!LoadShared(t) => P!LoadShared(t)
  BY ZenonT(60) DEF I!LoadShared, P!LoadShared
<1>4. I!StoreShared(t) => P!StoreShared(t)
  BY ZenonT(60) DEF I!StoreShared, P!StoreShared
<1>5. I!AtomicCas(t) => P!AtomicCas(t)
  BY ZenonT(60) DEF I!AtomicCas, P!AtomicCas
<1> QED
  BY <1>1, <1>2, <1>3, <1>4, <1>5, Zenon DEF I!DataStep, P!DataStep

LEMMA SameControl == \A t : I!ControlStep(t) => P!ControlStep(t)
<1> USE DEF I!AfterJoin, P!AfterJoin, I!AtStatement, P!AtStatement, I!Body, P!Body, I!Caller,
            P!Caller, I!Complete, P!Complete, I!Completed, P!Completed, I!EmptiesScope,
            P!EmptiesScope, I!Executes, P!Executes, I!FinishThread, P!FinishThread, I!Fr, P!Fr,
            I!Ids, P!Ids, I!Joiners, P!Joiners, I!Jump, P!Jump, I!Members, P!Members, I!Nested,
            P!Nested, I!None, P!None, I!OnlyData, P!OnlyData, I!OnlyStack, P!OnlyStack, I!Op,
            P!Op, I!PopFrame, P!PopFrame, I!Put, P!Put, I!PutShared, P!PutShared, I!Reach,
            P!Reach, I!Top, P!Top, I!Value, P!Value, I!chanVars, P!chanVars, I!idVars, P!idVars,
            I!syncVars, P!syncVars, I!threadVars, P!threadVars
<1> SUFFICES ASSUME NEW t, I!ControlStep(t)
             PROVE  P!ControlStep(t)
  OBVIOUS
<1>1. I!Goto(t) => P!Goto(t)
  BY ZenonT(60) DEF I!Goto, P!Goto
<1>2. I!Branch(t) => P!Branch(t)
  BY ZenonT(60) DEF I!Branch, P!Branch
<1>3. I!Switch(t) => P!Switch(t)
  BY ZenonT(60) DEF I!Switch, P!Switch
<1>4. I!CallTransparent(t) => P!CallTransparent(t)
  BY ZenonT(60) DEF I!CallTransparent, P!CallTransparent, I!Advance, P!Advance
<1>5. I!CallBody(t) => P!CallBody(t)
  BY ZenonT(60) DEF I!CallBody, P!CallBody, I!Activation, P!Activation, I!Bind, P!Bind,
          I!HitsFrameLimit, P!HitsFrameLimit
<1>6. I!Return(t) => P!Return(t)
  BY ZenonT(60) DEF I!Return, P!Return, I!DomainOf, P!DomainOf, I!ReturnAccepted,
          P!ReturnAccepted
<1>7. I!ImplicitReturn(t) => P!ImplicitReturn(t)
  BY ZenonT(60) DEF I!ImplicitReturn, P!ImplicitReturn
<1> QED
  BY <1>1, <1>2, <1>3, <1>4, <1>5, <1>6, <1>7, Zenon DEF I!ControlStep, P!ControlStep

LEMMA SameSync == \A t : I!SyncStep(t) => P!SyncStep(t)
<1> USE DEF I!Advance, P!Advance, I!AtStatement, P!AtStatement, I!Block, P!Block, I!Body,
            P!Body, I!Executes, P!Executes, I!Fr, P!Fr, I!Ids, P!Ids, I!None, P!None,
            I!Notified, P!Notified, I!OnlySync, P!OnlySync, I!Op, P!Op, I!Reach, P!Reach, I!Top,
            P!Top, I!chanVars, P!chanVars, I!idVars, P!idVars, I!threadVars, P!threadVars
<1> SUFFICES ASSUME NEW t, I!SyncStep(t)
             PROVE  P!SyncStep(t)
  OBVIOUS
<1>1. I!MutexLock(t) => P!MutexLock(t)
  BY ZenonT(60) DEF I!MutexLock, P!MutexLock, I!IsFree, P!IsFree
<1>2. I!MutexUnlock(t) => P!MutexUnlock(t)
  BY ZenonT(60) DEF I!MutexUnlock, P!MutexUnlock
<1>3. I!CondvarWait(t) => P!CondvarWait(t)
  BY ZenonT(60) DEF I!CondvarWait, P!CondvarWait
<1>4. I!CondvarNotify(t) => P!CondvarNotify(t)
  BY ZenonT(60) DEF I!CondvarNotify, P!CondvarNotify
<1>5. I!CondvarNotifyAll(t) => P!CondvarNotifyAll(t)
  BY ZenonT(60) DEF I!CondvarNotifyAll, P!CondvarNotifyAll
<1>6. I!SemaphoreAcquire(t) => P!SemaphoreAcquire(t)
  BY ZenonT(60) DEF I!SemaphoreAcquire, P!SemaphoreAcquire, I!HasPermits, P!HasPermits
<1>7. I!SemaphoreRelease(t) => P!SemaphoreRelease(t)
  BY ZenonT(60) DEF I!SemaphoreRelease, P!SemaphoreRelease
<1> QED
  BY <1>1, <1>2, <1>3, <1>4, <1>5, <1>6, <1>7, Zenon DEF I!SyncStep, P!SyncStep

LEMMA SameChannel == \A t : I!ChannelStep(t) => P!ChannelStep(t)
<1> USE DEF I!Accepts, P!Accepts, I!Advance, P!Advance, I!AtStatement, P!AtStatement, I!Block,
            P!Block, I!Body, P!Body, I!Deliver, P!Deliver, I!DomainOf, P!DomainOf, I!Executes,
            P!Executes, I!Fr, P!Fr, I!Ids, P!Ids, I!OnlyChannels, P!OnlyChannels, I!Op, P!Op,
            I!Put, P!Put, I!PutShared, P!PutShared, I!Reach, P!Reach, I!Top, P!Top, I!Wake,
            P!Wake, I!idVars, P!idVars, I!syncVars, P!syncVars, I!threadVars, P!threadVars
<1> SUFFICES ASSUME NEW t, I!ChannelStep(t)
             PROVE  P!ChannelStep(t)
  OBVIOUS
<1>1. I!ChannelSend(t) => P!ChannelSend(t)
  BY ZenonT(60) DEF I!ChannelSend, P!ChannelSend, I!SendBlocks, P!SendBlocks, I!SendToBuffer,
          P!SendToBuffer, I!SendToReceiver, P!SendToReceiver, I!Value, P!Value
<1>2. I!ChannelRecv(t) => P!ChannelRecv(t)
  BY ZenonT(60) DEF I!ChannelRecv, P!ChannelRecv, I!AnySender, P!AnySender, I!RecvBlocks,
          P!RecvBlocks, I!RecvFromBuffer, P!RecvFromBuffer, I!RecvFromSender, P!RecvFromSender,
          I!Without, P!Without
<1> QED
  BY <1>1, <1>2, Zenon DEF I!ChannelStep, P!ChannelStep

LEMMA SameResume == \A t : I!Resume(t) => P!Resume(t)
<1> USE DEF I!Advance, P!Advance, I!Ids, P!Ids, I!OnlyChannels, P!OnlyChannels, I!OnlySync,
            P!OnlySync, I!Top, P!Top, I!Wake, P!Wake, I!Without, P!Without, I!chanVars,
            P!chanVars, I!idVars, P!idVars, I!syncVars, P!syncVars
<1> SUFFICES ASSUME NEW t, I!Resume(t)
             PROVE  P!Resume(t)
  OBVIOUS
<1>1. I!ResumeLock(t) => P!ResumeLock(t)
  BY ZenonT(60) DEF I!ResumeLock, P!ResumeLock, I!IsFree, P!IsFree, I!None, P!None
<1>2. I!ResumeSemaphore(t) => P!ResumeSemaphore(t)
  BY ZenonT(60) DEF I!ResumeSemaphore, P!ResumeSemaphore, I!HasPermits, P!HasPermits
<1>3. I!ResumeSend(t) => P!ResumeSend(t)
  BY ZenonT(60) DEF I!ResumeSend, P!ResumeSend, I!Captured, P!Captured
<1>4. I!ResumeRecv(t) => P!ResumeRecv(t)
  BY ZenonT(60) DEF I!ResumeRecv, P!ResumeRecv, I!Accepts, P!Accepts, I!Body, P!Body, I!Deliver,
          P!Deliver, I!DomainOf, P!DomainOf, I!Fr, P!Fr, I!Op, P!Op, I!Put, P!Put, I!PutShared,
          P!PutShared
<1> QED
  BY <1>1, <1>2, <1>3, <1>4, Zenon DEF I!Resume, P!Resume


(* What creates threads counts them, with the library's Cardinality. *)
LEMMA SameCounts ==
  /\ \A S : I!Cardinality(S) = P!Cardinality(S)
  /\ \A fs : I!Born(fs) = P!Born(fs)
  /\ \A fs, i : I!FrameOf(fs, i) = P!FrameOf(fs, i)
  /\ \A fs : I!BornStatus(fs) = P!BornStatus(fs)
  /\ \A f : I!WithinFunctionBound(f) => P!WithinFunctionBound(f)
<1> USE DEF I!Cardinality, P!Cardinality, I!Born, P!Born, I!Ids, P!Ids
<1>1. \A S : I!Cardinality(S) = P!Cardinality(S)
  BY Zenon
<1>2. \A fs : I!Born(fs) = P!Born(fs)
  BY Zenon
<1>3. \A fs, i : I!FrameOf(fs, i) = P!FrameOf(fs, i)
  BY ZenonT(60) DEF I!FrameOf, P!FrameOf
<1>4. \A fs : I!BornStatus(fs) = P!BornStatus(fs)
  BY ZenonT(60) DEF I!BornStatus, P!BornStatus, I!Nth, P!Nth
<1>5. \A f : I!WithinFunctionBound(f) => P!WithinFunctionBound(f)
  BY ZenonT(60) DEF I!WithinFunctionBound, P!WithinFunctionBound, I!Active, P!Active, I!Live, P!Live
<1> HIDE DEF I!Cardinality, P!Cardinality, I!Born, P!Born, I!Ids, P!Ids
<1> QED
  BY <1>1, <1>2, <1>3, <1>4, <1>5

LEMMA SameFrameMaps == \A fs, g : I!WithNewFrames(fs, g) = P!WithNewFrames(fs, g)
<1> SUFFICES ASSUME NEW fs, NEW g
             PROVE  I!WithNewFrames(fs, g) = P!WithNewFrames(fs, g)
  OBVIOUS
<1> DEFINE mi(f) == CHOOSE i \in I!Born(fs) : f = I!FrameOf(fs, i)
           ii(f) == CHOOSE i \in P!Born(fs) : f = P!FrameOf(fs, i)
           mf(f) == IF \E i \in I!Born(fs) : f = I!FrameOf(fs, i)
                    THEN I!Activation(fs[mi(f)], I!NoReturn) ELSE g[f]
           nf(f) == IF \E i \in P!Born(fs) : f = P!FrameOf(fs, i)
                    THEN P!Activation(fs[ii(f)], P!NoReturn) ELSE g[f]
<1>1. \A f : mi(f) = ii(f)
  BY ZenonT(60) DEF I!FrameOf, P!FrameOf, I!Cardinality, P!Cardinality, I!Born, P!Born
<1>2. \A f, r : I!Activation(f, r) = P!Activation(f, r)
  BY Zenon DEF I!Activation, P!Activation, I!None, P!None
<1>3. I!NoReturn = P!NoReturn
  BY Zenon DEF I!NoReturn, P!NoReturn
<1>4. ASSUME NEW f
      PROVE  mf(f) = nf(f)
  <2>1. (\E i \in I!Born(fs) : f = I!FrameOf(fs, i)) <=> (\E i \in P!Born(fs) : f = P!FrameOf(fs, i))
    BY SameCounts
  <2>2. mi(f) = ii(f)
    BY <1>1
  <2> HIDE DEF mi, ii
  <2> QED
    BY <2>1, <2>2, <1>2, <1>3
<1>5. [f \in I!Ids |-> mf(f)] = [f \in P!Ids |-> nf(f)]
  <2> HIDE DEF mf, nf
  <2> QED
    BY <1>4, SameVars
<1> QED
  BY <1>5, Zenon DEF I!WithNewFrames, P!WithNewFrames

LEMMA SameCreation == \A fs, s : I!CreateThreads(fs, s) => P!CreateThreads(fs, s)
<1> SUFFICES ASSUME NEW fs, NEW s, I!CreateThreads(fs, s)
             PROVE  P!CreateThreads(fs, s)
  OBVIOUS
<1> USE DEF I!Ids, P!Ids, I!Born, P!Born, I!Cardinality, P!Cardinality, I!Nth, P!Nth, I!FrameOf, P!FrameOf
<1>1. ~P!HitsThreadLimit(fs) /\ P!HasRoom(fs)
  BY ZenonT(60) DEF I!CreateThreads, I!HitsThreadLimit, P!HitsThreadLimit, I!Live, P!Live,
                    I!HasRoom, P!HasRoom
<1>2. Stacks' = [u \in P!Ids |-> IF P!Nth(u) \in P!Born(fs) THEN <<P!FrameOf(fs, P!Nth(u))>>
                                                            ELSE Stacks[u]]
  BY ZenonT(60) DEF I!CreateThreads
<1>3. Parents' = [u \in P!Ids |-> IF P!Nth(u) \in DOMAIN fs THEN s ELSE Parents[u]]
  BY ZenonT(60) DEF I!CreateThreads
<1>4. finished' = finished \union {u \in P!Ids : P!Nth(u) \in DOMAIN fs \ P!Born(fs)}
  BY ZenonT(60) DEF I!CreateThreads
<1>5. completed' = [f \in Functions |-> IF f \notin Nobody THEN completed[f]
                      ELSE P!Completed(f, P!Cardinality({i \in DOMAIN fs : fs[i] = f}))]
  BY ZenonT(60) DEF I!CreateThreads, I!Completed, P!Completed
<1> HIDE DEF I!Ids, P!Ids, I!Born, P!Born, I!Cardinality, P!Cardinality, I!Nth, P!Nth, I!FrameOf, P!FrameOf
<1> QED
  BY <1>1, <1>2, <1>3, <1>4, <1>5, Zenon DEF P!CreateThreads

LEMMA SameThreads == \A t : I!ThreadStep(t) => P!ThreadStep(t)
<1> USE DEF I!Executes, P!Executes, I!AtStatement, P!AtStatement, I!Op, P!Op, I!Body, P!Body,
            I!Fr, P!Fr, I!Top, P!Top, I!Reach, P!Reach, I!OnlyThreads, P!OnlyThreads,
            I!syncVars, P!syncVars, I!chanVars, P!chanVars, I!Ids, P!Ids, I!None, P!None
<1>1. ASSUME NEW t, I!Spawn(t)
      PROVE  P!Spawn(t)
  <2> DEFINE fs == <<P!Op(t).f>>
             h  == alloc.handle
             g  == [frames EXCEPT ![P!Top(t)].handles[P!Op(t).h] = h, ![P!Top(t)].pc = @ + 1]
  <2>1. /\ P!Executes(t, "spawn") /\ P!Reach(t)
        /\ UNCHANGED <<Reasons, ScopesOpen, scopesDone>> /\ P!OnlyThreads
    BY <1>1, ZenonT(60) DEF I!Spawn
  <2>2. /\ I!WithinFunctionBound(P!Op(t).f) /\ I!CreateThreads(fs, P!None) /\ h \in P!Ids
        /\ Statuses' = I!BornStatus(fs) /\ frames' = I!WithNewFrames(fs, g)
        /\ ChildMaps' = [ChildMaps EXCEPT ![t][h] = alloc.thread]
        /\ alloc' = [alloc EXCEPT !.thread = @ + 1, !.handle = @ + 1,
                                  !.frame = @ + I!Cardinality(I!Born(fs))]
    BY <1>1, ZenonT(60) DEF I!Spawn
  <2>3. I!Cardinality(I!Born(fs)) = P!Cardinality(P!Born(fs))
    BY SameCounts
  <2>4. /\ P!WithinFunctionBound(P!Op(t).f) /\ P!CreateThreads(fs, P!None)
        /\ Statuses' = P!BornStatus(fs) /\ frames' = P!WithNewFrames(fs, g)
        /\ alloc' = [alloc EXCEPT !.thread = @ + 1, !.handle = @ + 1,
                                  !.frame = @ + P!Cardinality(P!Born(fs))]
    <3> HIDE DEF fs, h, g, P!Op, P!None
    <3> QED
      BY <2>2, <2>3, SameCounts, SameFrameMaps, SameCreation
  <2> QED
    BY <2>1, <2>2, <2>4, ZenonT(60) DEF P!Spawn
<1>2. ASSUME NEW t, I!ScopeStart(t)
      PROVE  P!ScopeStart(t)
  <2> DEFINE fs == P!Op(t).fs
             s  == alloc.scope
             mr == {u \in P!Ids : I!Nth(u) \in I!Born(fs)}
             ir == {u \in P!Ids : P!Nth(u) \in P!Born(fs)}
  <2>1. /\ P!Executes(t, "scope") /\ P!Reach(t) /\ UNCHANGED ChildMaps /\ P!OnlyThreads
    BY <1>2, ZenonT(60) DEF I!ScopeStart
  <2>2. /\ \A i \in DOMAIN fs : I!WithinFunctionBound(fs[i])
        /\ I!CreateThreads(fs, s) /\ s \in P!Ids
        /\ alloc' = [alloc EXCEPT !.thread = @ + Len(fs), !.scope = @ + 1,
                                  !.frame = @ + I!Cardinality(I!Born(fs))]
        /\ \/ /\ mr = {}
              /\ scopesDone' = scopesDone \union {<<P!Fr(t).fn, P!Fr(t).pc>>}
              /\ Statuses' = I!BornStatus(fs)
              /\ frames' = P!Advance(frames, {t})
              /\ UNCHANGED <<Reasons, ScopesOpen>>
           \/ /\ mr # {}
              /\ ScopesOpen' = [ScopesOpen EXCEPT ![s] =
                                  [owner |-> t, frame |-> P!Top(t), remaining |-> mr]]
              /\ Statuses' = [I!BornStatus(fs) EXCEPT ![t] = "scope"]
              /\ Reasons' = [Reasons EXCEPT ![t] = s]
              /\ frames' = I!WithNewFrames(fs, frames)
              /\ UNCHANGED scopesDone
    BY <1>2, ZenonT(60) DEF I!ScopeStart, I!Advance, P!Advance
  <2>3. mr = ir
    BY Zenon DEF I!Nth, P!Nth, I!Born, P!Born
  <2>4. I!Cardinality(I!Born(fs)) = P!Cardinality(P!Born(fs))
    BY SameCounts
  <2>5. (\A i \in DOMAIN fs : P!WithinFunctionBound(fs[i])) /\ P!CreateThreads(fs, s)
    <3> HIDE DEF fs, s
    <3> QED
      BY <2>2, SameCounts, SameCreation
  <2>6. I!BornStatus(fs) = P!BornStatus(fs) /\ I!WithNewFrames(fs, frames) = P!WithNewFrames(fs, frames)
    BY SameCounts, SameFrameMaps
  <2> HIDE DEF mr
  <2>7. CASE mr = {}
    BY <2>1, <2>2, <2>3, <2>4, <2>5, <2>6, <2>7, ZenonT(60) DEF P!ScopeStart
  <2>8. CASE mr # {}
    BY <2>1, <2>2, <2>3, <2>4, <2>5, <2>6, <2>8, ZenonT(60) DEF P!ScopeStart
  <2> QED
    BY <2>7, <2>8
<1>3. ASSUME NEW t, I!Join(t)
      PROVE  P!Join(t)
  BY <1>3, ZenonT(60) DEF I!Join, P!Join, I!JoinFinished, P!JoinFinished, I!JoinBlocks, P!JoinBlocks,
                          I!AfterJoin, P!AfterJoin, I!Block, P!Block
<1> QED
  BY <1>1, <1>2, <1>3, Zenon DEF I!ThreadStep, P!ThreadStep

LEMMA SameNext == I!Next => P!Next
<1>1. ASSUME NEW t, I!Step(t)
      PROVE  P!Step(t)
  BY <1>1, SameData, SameControl, SameSync, SameChannel, SameThreads, SameResume, Zenon
     DEF I!Step, P!Step
<1> QED
  BY <1>1, SameFaults, SameVars, Zenon DEF I!Next, P!Next

-----------------------------------------------------------------------------
(* What every run of the interpreter keeps *)

LEMMA SameSound == I!Sound <=> P!Sound
<1>1. I!TypeOK <=> P!TypeOK
  BY ZenonT(60)
     DEF I!TypeOK, P!TypeOK, I!Ids, P!Ids, I!None, P!None, I!Status, P!Status, I!Blocking, P!Blocking,
         I!Reason, P!Reason, I!FrameState, P!FrameState, I!RetAddr, P!RetAddr,
         I!Destinations, P!Destinations, I!ScopeState, P!ScopeState
<1>2. I!WaitQueuesExact <=> P!WaitQueuesExact
  BY ZenonT(60) DEF I!WaitQueuesExact, P!WaitQueuesExact, I!Waiting, P!Waiting,
                    I!FunctionIn, P!FunctionIn, I!Ids, P!Ids
<1>3. I!ScopesExact <=> P!ScopesExact
  BY ZenonT(60) DEF I!ScopesExact, P!ScopesExact, I!Ids, P!Ids, I!None, P!None, I!Live, P!Live,
                    I!Members, P!Members, I!Top, P!Top
<1>4. I!FramesOwned <=> P!FramesOwned
  BY ZenonT(60) DEF I!FramesOwned, P!FramesOwned, I!Ids, P!Ids, I!Live, P!Live
<1>5. (I!Fresh <=> P!Fresh) /\ (I!CallsReturn <=> P!CallsReturn)
  BY ZenonT(60) DEF I!Fresh, P!Fresh, I!CallsReturn, P!CallsReturn, I!Ids, P!Ids, I!None, P!None
<1>6. I!Named <=> P!Named
  <2> USE DEF I!Ids, P!Ids, I!None, P!None, I!Live, P!Live
  <2>1. I!WaitersStand <=> P!WaitersStand
    BY ZenonT(60) DEF I!WaitersStand, P!WaitersStand, I!Firm, P!Firm, I!Stands, P!Stands,
                      I!Blocking, P!Blocking, I!AtStatement, P!AtStatement, I!Op, P!Op,
                      I!Body, P!Body, I!Fr, P!Fr, I!Top, P!Top
  <2>2. I!ChildrenExact <=> P!ChildrenExact
    BY ZenonT(60) DEF I!ChildrenExact, P!ChildrenExact
  <2>3. I!HandlesExact <=> P!HandlesExact
    BY ZenonT(60) DEF I!HandlesExact, P!HandlesExact, I!HandleAt, P!HandleAt
  <2>4. I!JoinersFit <=> P!JoinersFit
    BY ZenonT(60) DEF I!JoinersFit, P!JoinersFit
  <2> QED
    BY <2>1, <2>2, <2>3, <2>4 DEF I!Named, P!Named
<1>7. I!InDomains <=> P!InDomains
  BY ZenonT(60) DEF I!InDomains, P!InDomains, I!StoreTyped, P!StoreTyped, I!SlotsTyped, P!SlotsTyped,
                    I!SharedTyped, P!SharedTyped, I!MessagesTyped, P!MessagesTyped, I!Ids, P!Ids
<1> QED
  BY <1>1, <1>2, <1>3, <1>4, <1>5, <1>6, <1>7 DEF I!Sound, P!Sound, I!IInv, P!IInv

(* The proofs assume of the constants what the net assumes. *)
LEMMA SameAssumptions ==
  /\ P!Operation = Operation
  /\ MaxId \in Nat \ {0}
  /\ MaxThreads \in Nat /\ MaxFrames \in Nat /\ MaxPermits \in Nat
  /\ MonitorMax \in [Functions -> Nat]
  /\ \A s \in Semaphores : Permits[s] <= MaxPermits
  /\ NoFrame \notin P!FrameState /\ NoScope \notin P!ScopeState
<1>1. P!Operation = I!Operation
  BY DEF P!Operation, P!DataOp, P!SyncOp, P!ChannelOp, P!ThreadOp, P!ControlOp, P!Target, P!Destinations,
         I!Operation, I!DataOp, I!SyncOp, I!ChannelOp, I!ThreadOp, I!ControlOp, I!Target, I!Destinations
<1>2. P!FrameState = I!FrameState /\ P!ScopeState = I!ScopeState
  BY SameVars DEF P!FrameState, P!RetAddr, P!Destinations, I!FrameState, I!RetAddr, I!Destinations,
                  P!ScopeState, I!ScopeState
<1> QED
  BY <1>1, <1>2, SameProgram, SameLimits

LEMMA SoundInit == I!Init /\ InitialValuesTyped => I!Sound
<1>1. InitialValuesTyped => P!InitialValuesTyped
  BY DEF P!InitialValuesTyped, InitialValuesTyped
<1>2. P!Init /\ P!InitialValuesTyped => P!Sound
  BY SameAssumptions, P!InitSound, FunctionsAssumption, ValuesAssumption, EvalAssumption,
     DeclarationsAssumption, ProgramsAssumption
<1> QED
  BY <1>1, <1>2, SameInit, SameSound

LEMMA SoundNext == I!Sound /\ InitialValuesTyped /\ [I!Next]_I!vars => I!Sound'
<1>1. InitialValuesTyped => P!InitialValuesTyped
  BY DEF P!InitialValuesTyped, InitialValuesTyped
<1>2. P!Sound /\ P!InitialValuesTyped /\ [P!Next]_P!vars => P!Sound'
  BY SameAssumptions, P!NextSound, FunctionsAssumption, ValuesAssumption, EvalAssumption,
     DeclarationsAssumption, ProgramsAssumption
<1>3. P!Sound' => I!Sound'
  BY SameSound, PTL
<1>4. UNCHANGED I!vars => UNCHANGED P!vars
  BY SameUnchanged
<1> QED
  BY <1>1, <1>2, <1>3, <1>4, SameSound, SameNext

-----------------------------------------------------------------------------
(* The refinement *)

(* What every step of the net keeps: its own invariant, and of the machine
   state it stands for what every run of the interpreter keeps. *)
Told == NetInv /\ I!Sound /\ Entered /\ ScopeSids

LEMMA Stutters == UNCHANGED vars => UNCHANGED I!vars /\ (Entered => Entered') /\ (ScopeSids => ScopeSids')
<1> SUFFICES ASSUME UNCHANGED vars
             PROVE  UNCHANGED I!vars /\ (Entered => Entered') /\ (ScopeSids => ScopeSids')
  OBVIOUS
<1>1. /\ prog' = prog /\ marking' = marking /\ data' = data /\ sem' = sem /\ buf' = buf /\ mutex' = mutex
      /\ frames' = frames /\ threads' = threads /\ scopes' = scopes /\ finished' = finished
      /\ completed' = completed /\ scopesDone' = scopesDone /\ alloc' = alloc /\ reached' = reached
  BY DEF vars, dataVars, storeVars
<1>2. Statuses' = Statuses
  <2>1. \A t : StatusOf(t)' = StatusOf(t)
    BY <1>1 DEF StatusOf, TokenOf
  <2> QED
    BY <2>1, Zenon DEF Statuses
<1>3. Reasons' = Reasons
  <2>1. Live' = Live /\ \A t : TokenOf(t)' = TokenOf(t)
    BY <1>1 DEF TokenOf, Live
  <2>2. ASSUME NEW t
        PROVE  ReasonOf(t)' = ReasonOf(t)
    <3>1. FrameOfToken(TokenOf(t))' = FrameOfToken(TokenOf(t)) /\ Statement(TokenOf(t))' = Statement(TokenOf(t))
      BY <1>1, <2>1, Zenon DEF FrameOfToken, Statement
    <3>2. (CHOOSE s \in Ids : scopes'[s] # NoScope /\ scopes'[s].owner = t)
            = CHOOSE s \in Ids : scopes[s] # NoScope /\ scopes[s].owner = t
      BY <1>1
    <3> HIDE DEF TokenOf
    <3> QED
      BY <1>1, <2>1, <3>1, <3>2 DEF ReasonOf
  <2> QED
    BY <2>2, Zenon DEF Reasons
<1>4. Stacks' = Stacks /\ ChildMaps' = ChildMaps /\ Parents' = Parents /\ ScopesOpen' = ScopesOpen
  BY <1>1, Zenon DEF Stacks, StackOf, ChildMaps, ChildrenOf, Parents, ParentOf, ScopesOpen, ScopeOf
<1>5. Acquirers' = Acquirers /\ Waiters' = Waiters /\ Senders' = Senders /\ Receivers' = Receivers
  BY <1>1, Zenon DEF Acquirers, Waiters, Senders, Receivers, In
<1>6. Past' = Past
  BY <1>1, Zenon DEF Past, StatementsOf
<1>7. (Entered => Entered') /\ (ScopeSids => ScopeSids')
  BY <1>1 DEF Entered, ScopeSids, Live
<1> QED
  BY <1>1, <1>2, <1>3, <1>4, <1>5, <1>6, <1>7
     DEF I!vars, I!threadVars, I!syncVars, I!chanVars, I!idVars

LEMMA NextTold ==
  ASSUME Told, Next, Comparable(prog), InitialValuesTyped
  PROVE  Told' /\ I!Next
<1>1. PICK k \in marking : Fire(k)
  BY DEF Next
<1>2. NetInv'
  BY NextHolds DEF Told
<1>3. I!Step(k.thread)
  BY <1>1, <1>2, FireTold DEF Told
<1>4. ~I!Faulted
  BY Faults DEF Told, Next
<1>5. k.thread \in I!Ids
  BY <1>1, SameIds, TokensSay DEF Told, Says
<1>6. I!Next
  BY <1>3, <1>4, <1>5 DEF I!Next
<1>7. I!Sound'
  BY <1>6, SoundNext DEF Told
<1>8. Entered' /\ ScopeSids'
  BY <1>1, <1>2, FireEnters DEF Told
<1> QED
  BY <1>2, <1>6, <1>7, <1>8 DEF Told

(* "The two engines agree": for every program both engines run alike, and all
   limits, every initial state of the net is one of the interpreter and every
   firing is a step of the interpreter on the same threads, frames, values,
   queues, scopes and completions, across every interleaving. *)
THEOREM Refinement ==
  ASSUME \A p \in Programs : Comparable(p), InitialValuesTyped
  PROVE  Spec => ImplementsInterp
<1> DEFINE J == Told /\ Comparable(prog)
<1>1. Init => J /\ I!Init
  <2> SUFFICES ASSUME Init
               PROVE  J /\ I!Init
    OBVIOUS
  <2>1. I!Init
    BY InitTold
  <2>2. NetInv /\ Entered /\ ScopeSids
    BY InitHolds, InitEnters
  <2>3. prog \in Programs
    BY <2>2 DEF NetInv, NetTypes
  <2>4. Comparable(prog)
    BY <2>3
  <2> QED
    BY <2>1, <2>2, <2>4, SoundInit DEF Told
<1>2. J /\ [Next]_vars => J' /\ [I!Next]_I!vars
  <2> SUFFICES ASSUME J, [Next]_vars
               PROVE  J' /\ [I!Next]_I!vars
    OBVIOUS
  <2>1. NetInv'
    BY NextHolds DEF Told
  <2>2. prog' \in Programs
    BY <2>1 DEF NetInv, NetTypes
  <2>3. Comparable(prog)'
    BY <2>2 DEF Comparable
  <2>4. CASE Next
    BY <2>3, <2>4, NextTold
  <2>5. CASE UNCHANGED vars
    <3>1. UNCHANGED I!vars /\ Entered' /\ ScopeSids'
      BY <2>5, Stutters DEF Told
    <3>2. I!Sound'
      BY <3>1, SoundNext DEF Told
    <3> QED
      BY <2>1, <2>3, <3>1, <3>2 DEF Told
  <2> QED
    BY <2>4, <2>5
<1> HIDE DEF J
<1> QED
  BY <1>1, <1>2, PTL DEF Spec, ImplementsInterp, I!Spec

(* What is proved of the interpreter therefore holds of the net: its waiting
   tokens are where their resources say and at their statements, no rendezvous
   channel has waiters of both kinds, scopes and handles resolve, values stay
   in their domains, a mutex passes through Free on its way to the next owner,
   a notified waiter runs again only with its mutex, and messages keep their
   order. *)
THEOREM Inherited ==
  ASSUME \A p \in Programs : Comparable(p), InitialValuesTyped
  PROVE  Spec => /\ [](P!WaitQueuesExact /\ P!ScopesExact /\ P!FramesOwned)
                 /\ [](P!BlockedAtItsStatement /\ P!JoinersWaitForLiveChild)
                 /\ [](P!RendezvousExclusive /\ P!HandlesResolve /\ P!DomainsRespected)
                 /\ P!MutexHandover /\ P!WaiterRegainsLock /\ P!MessagesInOrder
<1> USE SameAssumptions, FunctionsAssumption, ValuesAssumption, EvalAssumption, DeclarationsAssumption,
        ProgramsAssumption
<1>0. I!Spec => P!Spec
  BY SameInit, SameNext, SameUnchanged, PTL DEF I!Spec, P!Spec
<1>1. P!Spec => []P!WaitQueuesExact
  BY P!QueuesExact
<1>2. P!Spec => []P!ScopesExact
  BY P!Scopes
<1>3. P!Spec => []P!FramesOwned
  BY P!Frames
<1>4. P!Spec => []P!BlockedAtItsStatement
  BY P!BlockedStand
<1>5. P!Spec => []P!JoinersWaitForLiveChild
  BY P!JoinersWait
<1>6. P!Spec => []P!RendezvousExclusive
  BY P!Rendezvous
<1>7. P!Spec => []P!HandlesResolve
  BY P!Handles
<1>8. P!Spec => []P!DomainsRespected
  BY P!Domains
<1>9. P!Spec => P!MutexHandover
  BY P!MutexesHandedOver
<1>10. P!Spec => P!WaiterRegainsLock
  BY P!WaitersRegainLock
<1>11. P!Spec => P!MessagesInOrder
  BY P!MessageOrder
<1> QED
  BY <1>0, <1>1, <1>2, <1>3, <1>4, <1>5, <1>6, <1>7, <1>8, <1>9, <1>10, <1>11, Refinement,
     PTL DEF ImplementsInterp
=============================================================================
