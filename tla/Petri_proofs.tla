---------------------------- MODULE Petri_proofs ----------------------------
(***************************************************************************)
(* Proofs about the Petri engine, for every program: its marking and its   *)
(* store tell one story.                                                   *)
(***************************************************************************)
EXTENDS PetriProps, FiniteSetTheorems, TLAPS

-----------------------------------------------------------------------------
(* The invariant *)

PlainPlace == Place \ (({"wait"} \X Condvars) \union ({"acquire"} \X Semaphores)
                       \union ({"send"} \X Channels))
Tokens ==
        [at : StatementPlace \union ({"lock"} \X Mutexes) \union ({"recv"} \X Channels),
         thread : Ids, frame : Ids]
  \cup  [at : {"wait"} \X Condvars, thread : Ids, frame : Ids, lock : Mutexes]
  \cup  [at : {"acquire"} \X Semaphores, thread : Ids, frame : Ids, count : Int]
  \cup  [at : {"send"} \X Channels, thread : Ids, frame : Ids, value : Values]

FrameStore  == [Ids -> FrameState \union {NoFrame}]
ThreadStore == [Ids -> ThreadState \union {NoThread}]
ScopeStore  == [Ids -> ScopeState \union {NoScope}]

NetTypes ==
  /\ prog \in Programs
  /\ marking \subseteq Tokens
  /\ data \in [Shared -> Values]
  /\ buf \in [Channels -> Seq(Values)]
  /\ frames \in FrameStore /\ threads \in ThreadStore /\ scopes \in ScopeStore
  /\ finished \subseteq {t \in Ids : threads[t] # NoThread}
  /\ alloc \in [thread : Nat \ {0}, frame : Nat \ {0}, scope : Nat \ {0}, handle : Nat \ {0}]

(* The frames of a stack are allocated and belong to it alone; a frame that
   was called has a statement to return to. *)
StacksOwn ==
  /\ \A t \in Ids : StackOf(t) # <<>> <=> t \in Live
  /\ \A t \in Ids : \A i \in DOMAIN StackOf(t) :
       /\ frames[StackOf(t)[i]] # NoFrame
       /\ i > 1 => frames[StackOf(t)[i]].ret.pc # 0
  /\ \A t, u \in Ids : \A i \in DOMAIN StackOf(t), j \in DOMAIN StackOf(u) :
       StackOf(t)[i] = StackOf(u)[j] => t = u /\ i = j

(* Identities not yet given out name nothing. *)
Unborn ==
  /\ \A t \in Ids : t >= alloc.thread => threads[t] = NoThread
  /\ \A f \in Ids : f >= alloc.frame => frames[f] = NoFrame
  /\ \A s \in Ids : s >= alloc.scope => scopes[s] = NoScope

(* A live member is one its scope waits for. *)
MembersAwaited ==
  \A t \in Live : threads[t].parent # None =>
    /\ scopes[threads[t].parent] # NoScope
    /\ t \in scopes[threads[t].parent].remaining

TopOf(t) == StackOf(t)[Len(StackOf(t))]

(* Token k, for its thread, stands where frame and thread say. *)
Right(k) ==
  /\ k.thread \in Live /\ k.frame = TopOf(k.thread)
  /\ threads[k.thread].blocked = IF k.at[1] = "control" THEN Nothing ELSE k.at
  /\ IF k.at \in StatementPlace
     THEN k.at[2] = frames[k.frame].fn /\ k.at[3] = Pc(k.frame)
     ELSE StandsAt(frames[k.frame]).op \in {k.at[1], "wait"}

OneToken ==
  /\ \A t \in Live : \E k \in marking : k.thread = t
  /\ \A k, l \in marking : k.thread = l.thread => k = l
  /\ \A k \in marking : Right(k)

NetInv == NetTypes /\ StacksOwn /\ Unborn /\ MembersAwaited /\ OneToken

-----------------------------------------------------------------------------
(* Tokens and their frames *)

(* Where a token may stand, and what it then carries. *)
LEMMA TokenFields ==
  ASSUME NEW k \in Tokens
  PROVE  /\ k.thread \in Ids /\ k.frame \in Ids /\ k.at \in Place
         /\ k.at[1] \in {"control", "join", "scope", "lock", "recv"} =>
              k \in [at : StatementPlace \union ({"lock"} \X Mutexes) \union ({"recv"} \X Channels),
                     thread : Ids, frame : Ids]
         /\ k.at[1] \in {"control", "join", "scope"} <=> k.at \in StatementPlace
         /\ k.at[1] = "wait" => k.lock \in Mutexes /\ k.at[2] \in Condvars
         /\ k.at[1] = "send" => k.value \in Values
BY DEF Tokens, Place, StatementPlace

(* The frame of a token is its thread's top frame, and no other token's. *)
LEMMA TokenFrame ==
  ASSUME NetInv, NEW k \in marking
  PROVE  /\ k \in Tokens /\ k.thread \in Live /\ k.thread \in Ids /\ k.frame \in Ids
         /\ StackOf(k.thread) \in Seq(Ids) /\ StackOf(k.thread) # <<>>
         /\ Len(StackOf(k.thread)) \in DOMAIN StackOf(k.thread)
         /\ StackOf(k.thread) = threads[k.thread].stack
         /\ threads[k.thread] \in ThreadState /\ threads[k.thread] # NoThread
         /\ frames[k.frame] \in FrameState /\ frames[k.frame] # NoFrame
         /\ k.frame = TopOf(k.thread)
<1>1. k \in Tokens /\ k.thread \in Live /\ k.frame = TopOf(k.thread)
  BY DEF NetInv, NetTypes, OneToken, Right
<1>2. k.thread \in Ids /\ k.frame \in Ids
  BY <1>1, TokenFields
<1>3. threads[k.thread] \in ThreadState /\ threads[k.thread] # NoThread
  BY <1>1, <1>2 DEF Live, NetInv, NetTypes, ThreadStore
<1>4. StackOf(k.thread) \in Seq(Ids) /\ StackOf(k.thread) = threads[k.thread].stack
  BY <1>3 DEF StackOf, ThreadState
<1>5. StackOf(k.thread) # <<>>
  BY <1>1, <1>2 DEF NetInv, StacksOwn
<1>6. Len(StackOf(k.thread)) \in DOMAIN StackOf(k.thread)
  BY <1>4, <1>5
<1>7. frames[k.frame] # NoFrame
  BY <1>1, <1>2, <1>6 DEF NetInv, StacksOwn, TopOf
<1> QED
  BY <1>1, <1>2, <1>3, <1>4, <1>5, <1>6, <1>7 DEF NetInv, NetTypes, FrameStore

(* No two tokens stand in one frame. *)
LEMMA FramesApart ==
  ASSUME NetInv, NEW k \in marking, NEW l \in marking, k.frame = l.frame
  PROVE  k = l
<1>1. k.thread = l.thread
  BY TokenFrame DEF NetInv, StacksOwn, TopOf
<1> QED
  BY <1>1 DEF NetInv, OneToken

(* A control token stands at the statement its transition is built for. *)
LEMMA ControlStands ==
  ASSUME NetInv, NEW k \in marking, k.at[1] = "control"
  PROVE  /\ k.at \in StatementPlace /\ k.at[2] = frames[k.frame].fn /\ k.at[3] = frames[k.frame].pc
         /\ k \in [at : StatementPlace \union ({"lock"} \X Mutexes) \union ({"recv"} \X Channels),
                   thread : Ids, frame : Ids]
         /\ threads[k.thread].blocked = Nothing
BY TokenFrame, TokenFields DEF NetInv, OneToken, Right, Pc

-----------------------------------------------------------------------------
(* Steps that leave the stacks alone *)

NewTypes ==
  /\ prog' = prog /\ data' \in [Shared -> Values] /\ buf' \in [Channels -> Seq(Values)]
  /\ frames' \in FrameStore /\ threads' \in ThreadStore

SameStacks ==
  /\ \A t \in Ids : /\ StackOf(t)' = StackOf(t) /\ (t \in Live' <=> t \in Live)
                    /\ t \in Live => threads'[t].parent = threads[t].parent
                    /\ threads[t] = NoThread => threads'[t] = NoThread
  /\ \A f \in Ids : /\ frames'[f] = NoFrame <=> frames[f] = NoFrame
                    /\ frames[f] # NoFrame => frames'[f].ret = frames[f].ret

(* The token stays where it is, and so do its frame and its thread. *)
Undisturbed(k) ==
  /\ threads'[k.thread].blocked = threads[k.thread].blocked
  /\ frames'[k.frame].fn = frames[k.frame].fn /\ frames'[k.frame].pc = frames[k.frame].pc

(* The new token k stands where its frame and its thread say. *)
Settled(k) ==
  /\ threads'[k.thread].blocked = IF k.at[1] = "control" THEN Nothing ELSE k.at
  /\ IF k.at \in StatementPlace
     THEN k.at[2] = frames'[k.frame].fn /\ k.at[3] = frames'[k.frame].pc
     ELSE StandsAt(frames'[k.frame]).op \in {k.at[1], "wait"}

(* The tokens ws are taken, and one is put for each, for the same frame. *)
Exchanged(ws, out) ==
  /\ marking' = (marking \ ws) \union {out[w] : w \in ws}
  /\ \A w \in ws : /\ out[w] \in Tokens /\ out[w].thread = w.thread /\ out[w].frame = w.frame
                   /\ Settled(out[w])
  /\ \A k \in marking \ ws : Undisturbed(k)

(* The parts of the invariant that are about stacks *)
LEMMA StacksKept ==
  ASSUME NetInv, SameStacks, scopes' = scopes, alloc' = alloc
  PROVE  StacksOwn' /\ Unborn' /\ MembersAwaited'
<1>1. StacksOwn'
  <2>1. \A t \in Ids : StackOf(t)' # <<>> <=> t \in Live'
    BY DEF SameStacks, NetInv, StacksOwn
  <2>2. ASSUME NEW t \in Ids, NEW i \in DOMAIN StackOf(t)'
        PROVE  /\ frames'[StackOf(t)'[i]] # NoFrame
               /\ i > 1 => frames'[StackOf(t)'[i]].ret.pc # 0
    <3> DEFINE f == StackOf(t)[i]
    <3>1. i \in DOMAIN StackOf(t) /\ StackOf(t)' = StackOf(t)
      BY <2>2 DEF SameStacks
    <3>2. f \in Ids
      <4>1. StackOf(t) # <<>>
        BY <3>1
      <4>2. t \in Live
        BY <4>1 DEF NetInv, StacksOwn
      <4>3. StackOf(t) \in Seq(Ids)
        BY <4>2 DEF NetInv, NetTypes, ThreadStore, ThreadState, StackOf, Live
      <4> QED
        BY <3>1, <4>3
    <3>3. frames[f] # NoFrame /\ (i > 1 => frames[f].ret.pc # 0)
      BY <3>1 DEF NetInv, StacksOwn
    <3>4. frames'[f] # NoFrame /\ frames'[f].ret = frames[f].ret
      BY <3>2, <3>3 DEF SameStacks
    <3> QED
      BY <3>1, <3>3, <3>4
  <2>3. ASSUME NEW t \in Ids, NEW u \in Ids, NEW i \in DOMAIN StackOf(t)', NEW j \in DOMAIN StackOf(u)',
               StackOf(t)'[i] = StackOf(u)'[j]
        PROVE  t = u /\ i = j
    BY <2>3 DEF SameStacks, NetInv, StacksOwn
  <2> QED
    BY <2>1, <2>2, <2>3 DEF StacksOwn
<1>2. Unborn'
  BY DEF SameStacks, NetInv, Unborn
<1>3. MembersAwaited'
  <2>1. \A t \in Live' : t \in Ids /\ t \in Live
    BY DEF Live, SameStacks
  <2> QED
    BY <2>1 DEF SameStacks, NetInv, MembersAwaited
<1> QED
  BY <1>1, <1>2, <1>3

(* A step that takes tokens and puts one for each, for the same frame and where
   frame and thread now say, keeps the invariant. *)
LEMMA ExchangeKeeps ==
  ASSUME NetInv, NewTypes, SameStacks, scopes' = scopes, alloc' = alloc,
         finished' \subseteq {t \in Ids : threads'[t] # NoThread},
         NEW ws \in SUBSET marking, NEW out, Exchanged(ws, out)
  PROVE  NetInv'
<1>1. StacksOwn' /\ Unborn' /\ MembersAwaited'
  BY StacksKept
<1>2. NetTypes'
  BY DEF NewTypes, NetTypes, NetInv, Exchanged
<1>3. \A t \in Ids : TopOf(t)' = TopOf(t)
  BY DEF SameStacks, TopOf
<1>4. OneToken'
  <2>1. ASSUME NEW t \in Live'
        PROVE  \E k \in marking' : k.thread = t
    <3>1. t \in Live
      BY DEF SameStacks, Live
    <3>2. PICK k \in marking : k.thread = t
      BY <3>1 DEF NetInv, OneToken
    <3>3. CASE k \in ws
      <4>1. out[k] \in marking' /\ out[k].thread = t
        BY <3>2, <3>3 DEF Exchanged
      <4> QED
        BY <4>1
    <3>4. CASE k \notin ws
      BY <3>2, <3>4 DEF Exchanged
    <3> QED
      BY <3>3, <3>4
  <2>2. ASSUME NEW k \in marking'
        PROVE  \E w \in marking : /\ k.thread = w.thread /\ k.frame = w.frame
                                  /\ w \in ws => k = out[w]
                                  /\ w \notin ws => k = w
    <3>1. CASE k \in marking \ ws
      BY <3>1
    <3>2. CASE \E w \in ws : k = out[w]
      BY <3>2 DEF Exchanged
    <3> QED
      BY <3>1, <3>2 DEF Exchanged
  <2>3. ASSUME NEW k \in marking', NEW l \in marking', k.thread = l.thread
        PROVE  k = l
    <3>1. PICK w \in marking : /\ k.thread = w.thread
                               /\ w \in ws => k = out[w]
                               /\ w \notin ws => k = w
      BY <2>2
    <3>2. PICK x \in marking : /\ l.thread = x.thread
                               /\ x \in ws => l = out[x]
                               /\ x \notin ws => l = x
      BY <2>2
    <3>3. w = x
      <4>1. w.thread = x.thread
        BY <2>3, <3>1, <3>2
      <4> QED
        BY <4>1 DEF NetInv, OneToken
    <3> QED
      BY <3>1, <3>2, <3>3
  <2>4. ASSUME NEW k \in marking'
        PROVE  Right(k)'
    <3>1. PICK w \in marking : /\ k.thread = w.thread /\ k.frame = w.frame
                               /\ w \in ws => k = out[w]
                               /\ w \notin ws => k = w
      BY <2>2
    <3>2. w.thread \in Ids /\ w.thread \in Live /\ w.frame = TopOf(w.thread)
      BY TokenFrame
    <3>3. k.thread \in Live' /\ k.frame = TopOf(k.thread)'
      BY <1>3, <3>1, <3>2 DEF SameStacks
    <3>4. CASE w \in ws
      <4>1. Settled(k)
        BY <3>1, <3>4 DEF Exchanged
      <4> QED
        BY <3>3, <4>1 DEF Settled, Right, Pc, NewTypes, StandsAt
    <3>5. CASE w \notin ws
      <4>1. Undisturbed(k) /\ k = w
        BY <3>1, <3>5 DEF Exchanged
      <4>2. Right(w)
        BY DEF NetInv, OneToken
      <4> QED
        BY <3>3, <4>1, <4>2 DEF Undisturbed, Right, Pc, NewTypes, StandsAt
    <3> QED
      BY <3>4, <3>5
  <2> QED
    BY <2>1, <2>3, <2>4 DEF OneToken
<1> QED
  BY <1>1, <1>2, <1>4 DEF NetInv

-----------------------------------------------------------------------------
(* place_control, write_dst and the frames *)

(* The frames of frs stand where those of the state do. *)
StandAlike(frs) ==
  \A f \in Ids :
    /\ frs[f] = NoFrame <=> frames[f] = NoFrame
    /\ frames[f] # NoFrame =>
         frs[f].fn = frames[f].fn /\ frs[f].pc = frames[f].pc /\ frs[f].ret = frames[f].ret

(* Writing a local moves no frame. *)
LEMMA PutAlike ==
  ASSUME NetInv, NEW f \in Ids, frames[f] # NoFrame, NEW dst, NEW v \in Values
  PROVE  Put(frames, f, dst, v) \in FrameStore /\ StandAlike(Put(frames, f, dst, v))
<1> DEFINE x == frames[f]
           ls == [x.locals EXCEPT ![dst] = v]
           y == [x EXCEPT !.locals = ls]
<1>1. frames \in FrameStore /\ x \in FrameState
  BY DEF NetInv, NetTypes, FrameStore
<1>2. CASE dst \in Locals
  <2>1. ls \in [Locals -> Values]
    BY <1>1, <1>2 DEF FrameState
  <2> HIDE DEF ls
  <2>2. y \in FrameState /\ y.fn = x.fn /\ y.pc = x.pc /\ y.ret = x.ret
    BY <1>1, <2>1 DEF FrameState
  <2>3. Put(frames, f, dst, v) = [frames EXCEPT ![f] = y]
    BY <1>2 DEF Put, ls
  <2>4. y # NoFrame /\ x # NoFrame
    BY <1>1, <2>2, NetAssumption
  <2> HIDE DEF y
  <2> QED
    BY <1>1, <2>2, <2>3, <2>4 DEF FrameStore, StandAlike
<1>3. CASE dst \notin Locals
  BY <1>1, <1>3 DEF Put, StandAlike
<1> QED
  BY <1>2, <1>3

(* place_control moves the frames of the tokens ks, and no other. *)
LEMMA PlacedStand ==
  ASSUME NetInv, NEW frs \in FrameStore, StandAlike(frs), NEW ks,
         \A k \in ks : k.frame \in Ids /\ frames[k.frame] # NoFrame /\ k.at[3] \in Nat \ {0},
         \A k, l \in ks : k.frame = l.frame => k.at[3] = l.at[3]
  PROVE  /\ Placed(frs, ks) \in FrameStore
         /\ \A f \in Ids : /\ Placed(frs, ks)[f] = NoFrame <=> frames[f] = NoFrame
                           /\ frames[f] # NoFrame => /\ Placed(frs, ks)[f].fn = frames[f].fn
                                                     /\ Placed(frs, ks)[f].ret = frames[f].ret
                           /\ frames[f] # NoFrame /\ (\A k \in ks : k.frame # f) =>
                                Placed(frs, ks)[f].pc = frames[f].pc
         /\ \A k \in ks : Placed(frs, ks)[k.frame].pc = k.at[3]
<1> DEFINE g == Placed(frs, ks)
<1>1. ASSUME NEW f \in Ids, \A k \in ks : k.frame # f
      PROVE  g[f] = frs[f]
  BY <1>1 DEF Placed
<1>2. ASSUME NEW k \in ks
      PROVE  /\ g[k.frame] \in FrameState /\ g[k.frame].fn = frs[k.frame].fn
             /\ g[k.frame].ret = frs[k.frame].ret /\ g[k.frame].pc = k.at[3]
  <2> DEFINE f == k.frame
             l == CHOOSE l \in ks : l.frame = f
             x == frs[f]
             n == l.at[3]
             y == [x EXCEPT !.pc = n]
  <2>1. l \in ks /\ l.frame = f
    OBVIOUS
  <2>2. n = k.at[3] /\ n \in Nat \ {0}
    BY <2>1
  <2>3. x \in FrameState
    BY DEF FrameStore, StandAlike
  <2>4. f \in Ids /\ \E j \in ks : j.frame = f
    OBVIOUS
  <2>5. g[f] = y
    BY <2>4 DEF Placed
  <2> HIDE DEF n, l, x, f
  <2>6. y \in FrameState /\ y.fn = x.fn /\ y.ret = x.ret /\ y.pc = n
    BY <2>2, <2>3 DEF FrameState
  <2> QED
    BY <2>2, <2>5, <2>6 DEF x, f
<1>3. DOMAIN g = Ids /\ g = [f \in Ids |-> g[f]]
  BY DEF Placed
<1> HIDE DEF g
<1>4. ASSUME NEW f \in Ids
      PROVE  g[f] \in FrameState \union {NoFrame}
  BY <1>1, <1>2 DEF FrameStore
<1>5. g \in FrameStore
  BY <1>3, <1>4 DEF FrameStore
<1>6. ASSUME NEW f \in Ids
      PROVE  /\ g[f] = NoFrame <=> frames[f] = NoFrame
             /\ frames[f] # NoFrame => g[f].fn = frames[f].fn /\ g[f].ret = frames[f].ret
             /\ frames[f] # NoFrame /\ (\A k \in ks : k.frame # f) => g[f].pc = frames[f].pc
  <2>1. CASE \A k \in ks : k.frame # f
    BY <1>1, <2>1 DEF StandAlike
  <2>2. CASE \E k \in ks : k.frame = f
    BY <1>2, <2>2, NetAssumption DEF StandAlike
  <2> QED
    BY <2>1, <2>2
<1> QED
  BY <1>2, <1>5, <1>6 DEF g

(* A token that goes to another place stays a token. *)
LEMMA TokenMoves ==
  ASSUME NEW k, k \in [at : StatementPlace \union ({"lock"} \X Mutexes) \union ({"recv"} \X Channels),
                       thread : Ids, frame : Ids],
         NEW p \in StatementPlace \union ({"lock"} \X Mutexes) \union ({"recv"} \X Channels)
  PROVE  LET z == [k EXCEPT !.at = p] IN
         z \in Tokens /\ z.at = p /\ z.thread = k.thread /\ z.frame = k.frame
BY DEF Tokens

(* Enabled transitions have operations. *)
LEMMA Enabled ==
  ASSUME NetInv, NEW k \in marking, NEW o, Enables(k, o)
  PROVE  /\ Statement(k) \in Operation /\ Statement(k).op = o /\ k.at[1] = "control"
         /\ StandsAt(frames[k.frame]) = Statement(k)
         /\ k.at[3] \in Nat \ {0} /\ k.at[2] \in Functions
<1>1. k.at \in StatementPlace /\ k.at[2] = frames[k.frame].fn /\ k.at[3] = frames[k.frame].pc
  BY ControlStands DEF Enables
<1>2. k.at[2] \in Functions /\ k.at[3] \in Nat \ {0}
  BY <1>1 DEF StatementPlace
<1>3. prog[k.at[2]] \in Seq(Operation)
  BY <1>2, ProgramsAssumption DEF NetInv, NetTypes
<1>4. Statement(k) \in Operation
  BY <1>3 DEF Enables, Statement
<1> QED
  BY <1>1, <1>2, <1>4 DEF Enables, Statement, StandsAt

(* Waking threads changes their `blocked` alone. *)
LEMMA UnblockedSame ==
  ASSUME NetInv, NEW ts \in SUBSET Ids, \A t \in ts : threads[t] # NoThread,
         threads' = Unblocked(threads, ts)
  PROVE  /\ threads' \in ThreadStore /\ \A t \in ts : threads'[t].blocked = Nothing
         /\ \A t \in Ids : /\ threads'[t] = NoThread <=> threads[t] = NoThread
                           /\ threads[t] # NoThread => /\ threads'[t].stack = threads[t].stack
                                                       /\ threads'[t].parent = threads[t].parent
                           /\ t \notin ts => threads'[t] = threads[t]
<1>1. threads \in ThreadStore
  BY DEF NetInv, NetTypes
<1>2. ASSUME NEW t \in ts
      PROVE  /\ threads'[t] \in ThreadState /\ threads'[t].blocked = Nothing
             /\ threads'[t].stack = threads[t].stack /\ threads'[t].parent = threads[t].parent
             /\ threads[t] \in ThreadState
  <2> DEFINE x == threads[t]
             y == [x EXCEPT !.blocked = Nothing]
  <2>1. x \in ThreadState
    BY <1>1 DEF ThreadStore
  <2>2. threads'[t] = y
    BY DEF Unblocked
  <2> HIDE DEF x
  <2>3. y \in ThreadState /\ y.stack = x.stack /\ y.parent = x.parent /\ y.blocked = Nothing
    BY <2>1 DEF ThreadState
  <2> QED
    BY <2>1, <2>2, <2>3 DEF x
<1>3. \A t \in Ids : t \notin ts => threads'[t] = threads[t]
  BY DEF Unblocked
<1>4. threads' \in ThreadStore
  <2>1. threads' = [t \in Ids |-> threads'[t]]
    BY DEF Unblocked
  <2>2. \A t \in Ids : threads'[t] \in ThreadState \union {NoThread}
    BY <1>1, <1>2, <1>3 DEF ThreadStore
  <2> QED
    BY <2>1, <2>2 DEF ThreadStore
<1> QED
  BY <1>2, <1>3, <1>4, NetAssumption

-----------------------------------------------------------------------------
(* Steps of one token *)

(* What a step of one token leaves of the rest *)
OnlyOne ==
  /\ prog' = prog /\ data' \in [Shared -> Values] /\ buf' \in [Channels -> Seq(Values)]
  /\ UNCHANGED <<scopes, alloc, finished>>

(* Stacks stay when threads change in their `blocked` alone. *)
LEMMA BlockedOnly ==
  ASSUME NetInv, threads' \in ThreadStore, finished' = finished,
         \A t \in Ids : /\ threads'[t] = NoThread <=> threads[t] = NoThread
                        /\ threads[t] # NoThread => /\ threads'[t].stack = threads[t].stack
                                                    /\ threads'[t].parent = threads[t].parent,
         \A f \in Ids : /\ frames'[f] = NoFrame <=> frames[f] = NoFrame
                        /\ frames[f] # NoFrame => frames'[f].ret = frames[f].ret
  PROVE  SameStacks /\ finished' \subseteq {t \in Ids : threads'[t] # NoThread}
<1>1. \A t \in Ids : StackOf(t)' = StackOf(t)
  BY DEF StackOf
<1>2. \A t \in Ids : t \in Live' <=> t \in Live
  BY DEF Live
<1>3. \A t \in Ids : t \in Live => threads'[t].parent = threads[t].parent
  BY DEF Live
<1>4. finished' \subseteq {t \in Ids : threads'[t] # NoThread}
  BY DEF NetInv, NetTypes
<1> QED
  BY <1>1, <1>2, <1>3, <1>4 DEF SameStacks

(* Token k goes where out says; its frame's pc follows it to a control place. *)
LEMMA OneExchanged ==
  ASSUME NetInv, OnlyOne, NEW k \in marking, NEW out \in Tokens,
         out.thread = k.thread, out.frame = k.frame,
         marking' = (marking \ {k}) \union {out}, Settled(out),
         frames' \in FrameStore, threads' \in ThreadStore,
         \A f \in Ids : /\ frames'[f] = NoFrame <=> frames[f] = NoFrame
                        /\ frames[f] # NoFrame => /\ frames'[f].fn = frames[f].fn
                                                  /\ frames'[f].ret = frames[f].ret
                        /\ frames[f] # NoFrame /\ f # k.frame => frames'[f].pc = frames[f].pc,
         \A t \in Ids : /\ threads'[t] = NoThread <=> threads[t] = NoThread
                        /\ threads[t] # NoThread => /\ threads'[t].stack = threads[t].stack
                                                    /\ threads'[t].parent = threads[t].parent
                        /\ t # k.thread => threads'[t] = threads[t]
  PROVE  NetInv'
<1> DEFINE ws == {k}
           g == [w \in ws |-> out]
<1>1. SameStacks /\ finished' \subseteq {t \in Ids : threads'[t] # NoThread}
  BY BlockedOnly DEF OnlyOne
<1>2. NewTypes
  BY DEF NewTypes, OnlyOne
<1>3. ASSUME NEW l \in marking \ ws
      PROVE  Undisturbed(l)
  <2>1. l.frame # k.frame
    BY <1>3, FramesApart
  <2>2. l.thread # k.thread
    BY <1>3 DEF NetInv, OneToken
  <2> QED
    BY <2>1, <2>2, TokenFrame DEF Undisturbed
<1>4. {g[w] : w \in ws} = {out}
  OBVIOUS
<1>5. Exchanged(ws, g)
  <2>1. \A w \in ws : g[w] = out /\ w = k
    OBVIOUS
  <2> HIDE DEF g
  <2> QED
    BY <1>3, <1>4, <2>1 DEF Exchanged
<1>6. ws \in SUBSET marking
  OBVIOUS
<1> HIDE DEF ws, g
<1> QED
  BY <1>1, <1>2, <1>5, <1>6, ExchangeKeeps DEF OnlyOne

(* Control goes to another statement of the function. *)
LEMMA MoveKeeps ==
  ASSUME NetInv, OnlyOne, NEW k \in marking, k.at[1] = "control", NEW sid \in Nat \ {0},
         NEW frs \in FrameStore, StandAlike(frs), Moves(k, Goes(k, sid), frs)
  PROVE  NetInv'
<1> DEFINE out == Goes(k, sid)
           ks == {out}
<1>1. /\ k.at \in StatementPlace /\ k.at[2] = frames[k.frame].fn
      /\ threads[k.thread].blocked = Nothing
  BY ControlStands
<1>2. k.at[2] \in Functions
  BY <1>1 DEF StatementPlace
<1>3. Control(k.at[2], sid) \in StatementPlace
  BY <1>2 DEF StatementPlace, Control
<1>4. /\ out \in Tokens /\ out.at = Control(k.at[2], sid)
      /\ out.thread = k.thread /\ out.frame = k.frame
  BY <1>3, ControlStands, TokenMoves DEF Goes
<1>5. k.frame \in Ids /\ frames[k.frame] # NoFrame
  BY TokenFrame
<1>6. out.at[1] = "control" /\ out.at[2] = k.at[2] /\ out.at[3] = sid
  BY <1>4 DEF Control
<1>7. frames' = Placed(frs, ks) /\ marking' = (marking \ {k}) \union {out} /\ threads' = threads
  BY DEF Moves
<1> HIDE DEF out
<1>8. /\ \A l \in ks : l.frame \in Ids /\ frames[l.frame] # NoFrame /\ l.at[3] \in Nat \ {0}
      /\ \A l, m \in ks : l.frame = m.frame => l.at[3] = m.at[3]
      /\ \A f \in Ids : f # k.frame => \A l \in ks : l.frame # f
      /\ out \in ks
  BY <1>4, <1>5, <1>6
<1> HIDE DEF ks
<1>9. /\ frames' \in FrameStore
      /\ \A f \in Ids : /\ frames'[f] = NoFrame <=> frames[f] = NoFrame
                        /\ frames[f] # NoFrame => /\ frames'[f].fn = frames[f].fn
                                                  /\ frames'[f].ret = frames[f].ret
                        /\ frames[f] # NoFrame /\ f # k.frame => frames'[f].pc = frames[f].pc
      /\ frames'[out.frame].pc = out.at[3]
  BY <1>7, <1>8, PlacedStand
<1>10. Settled(out)
  BY <1>1, <1>3, <1>4, <1>5, <1>6, <1>7, <1>9 DEF Settled
<1>11. threads' \in ThreadStore
  BY <1>7 DEF NetInv, NetTypes
<1> QED
  BY <1>4, <1>7, <1>9, <1>10, <1>11, OneExchanged

(* A token that waits goes on past its statement. *)
LEMMA ResumeKeeps ==
  ASSUME NetInv, OnlyOne, NEW k \in marking, k.at \notin StatementPlace,
         NEW frs \in FrameStore, StandAlike(frs), Resumes(k, frs)
  PROVE  NetInv'
<1> DEFINE out == Wakes(k)
           ks == {out}
           x == frames[k.frame]
<1>1. /\ k.frame \in Ids /\ x \in FrameState /\ x # NoFrame /\ k.thread \in Ids
      /\ threads[k.thread] \in ThreadState /\ threads[k.thread] # NoThread
  BY TokenFrame
<1>2. x.fn \in Functions /\ x.pc + 1 \in Nat \ {0}
  BY <1>1 DEF FrameState
<1>3. /\ out.at = Control(x.fn, x.pc + 1) /\ out.thread = k.thread /\ out.frame = k.frame
      /\ out \in Tokens /\ out.at \in StatementPlace
  BY <1>1, <1>2 DEF Wakes, ControlToken, FrameOfToken, Control, Tokens, StatementPlace
<1>4. out.at[1] = "control" /\ out.at[2] = x.fn /\ out.at[3] = x.pc + 1
  BY <1>3 DEF Control
<1>5. /\ frames' = Placed(frs, ks) /\ marking' = (marking \ {k}) \union {out}
      /\ threads' = Unblocked(threads, {k.thread})
  BY DEF Resumes
<1> HIDE DEF out
<1>6. /\ \A l \in ks : l.frame \in Ids /\ frames[l.frame] # NoFrame /\ l.at[3] \in Nat \ {0}
      /\ \A l, m \in ks : l.frame = m.frame => l.at[3] = m.at[3]
      /\ \A f \in Ids : f # k.frame => \A l \in ks : l.frame # f
      /\ out \in ks
  BY <1>1, <1>2, <1>3, <1>4
<1> HIDE DEF ks
<1>7. /\ frames' \in FrameStore
      /\ \A f \in Ids : /\ frames'[f] = NoFrame <=> frames[f] = NoFrame
                        /\ frames[f] # NoFrame => /\ frames'[f].fn = frames[f].fn
                                                  /\ frames'[f].ret = frames[f].ret
                        /\ frames[f] # NoFrame /\ f # k.frame => frames'[f].pc = frames[f].pc
      /\ frames'[out.frame].pc = out.at[3]
  BY <1>5, <1>6, PlacedStand
<1>8. /\ threads' \in ThreadStore /\ threads'[k.thread].blocked = Nothing
      /\ \A t \in Ids : /\ threads'[t] = NoThread <=> threads[t] = NoThread
                        /\ threads[t] # NoThread => /\ threads'[t].stack = threads[t].stack
                                                    /\ threads'[t].parent = threads[t].parent
                        /\ t # k.thread => threads'[t] = threads[t]
  <2> DEFINE ts == {k.thread}
  <2>1. /\ ts \in SUBSET Ids /\ \A t \in ts : threads[t] # NoThread
        /\ k.thread \in ts /\ \A t \in Ids : t # k.thread => t \notin ts
    BY <1>1
  <2>2. threads' = Unblocked(threads, ts)
    BY <1>5
  <2> HIDE DEF ts
  <2> QED
    BY <2>1, <2>2, UnblockedSame
<1>9. Settled(out)
  BY <1>1, <1>3, <1>4, <1>7, <1>8 DEF Settled
<1> QED
  BY <1>3, <1>5, <1>7, <1>8, <1>9, OneExchanged

(* Control goes to a wait place. *)
LEMMA WaitKeeps ==
  ASSUME NetInv, OnlyOne, NEW k \in marking, k.at[1] = "control",
         NEW token \in Tokens, token.thread = k.thread, token.frame = k.frame,
         token.at[1] # "control", Waits(k, token),
         IF token.at \in StatementPlace
         THEN token.at[2] = frames[k.frame].fn /\ token.at[3] = frames[k.frame].pc
         ELSE StandsAt(frames[k.frame]).op \in {token.at[1], "wait"}
  PROVE  NetInv'
<1>1. /\ k.thread \in Ids /\ threads[k.thread] \in ThreadState /\ threads[k.thread] # NoThread
      /\ token.at \in Place
  BY TokenFrame, TokenFields
<1>2. /\ marking' = (marking \ {k}) \union {token} /\ frames' = frames
      /\ threads' = [threads EXCEPT ![k.thread].blocked = token.at]
  BY DEF Waits, Blocked
<1>3. /\ threads' \in ThreadStore /\ threads'[k.thread].blocked = token.at
      /\ \A t \in Ids : /\ threads'[t] = NoThread <=> threads[t] = NoThread
                        /\ threads[t] # NoThread => /\ threads'[t].stack = threads[t].stack
                                                    /\ threads'[t].parent = threads[t].parent
                        /\ t # k.thread => threads'[t] = threads[t]
  <2> DEFINE x == threads[k.thread]
             p == token.at
             y == [x EXCEPT !.blocked = p]
  <2>1. threads' = [threads EXCEPT ![k.thread] = y]
    BY <1>2
  <2>2. y \in ThreadState /\ y.stack = x.stack /\ y.parent = x.parent /\ y.blocked = p
    <3> HIDE DEF x, p
    <3> QED
      BY <1>1 DEF ThreadState, x, p
  <2>3. threads \in ThreadStore
    BY DEF NetInv, NetTypes
  <2> HIDE DEF y
  <2> QED
    BY <1>1, <2>1, <2>2, <2>3, NetAssumption DEF ThreadStore
<1>4. Settled(token)
  BY <1>2, <1>3 DEF Settled, OnlyOne, StandsAt
<1>5. frames' \in FrameStore
  BY <1>2 DEF NetInv, NetTypes
<1> QED
  BY <1>2, <1>3, <1>4, <1>5, OneExchanged

-----------------------------------------------------------------------------
(* Operations on data *)

(* The kind of an operation fixes its fields. *)
LEMMA OpFields ==
  ASSUME NEW o \in Operation
  PROVE  /\ o.op \in {"assign"} => o.dst \in Locals /\ o.e \in Exprs
         /\ o.op = "load" => o.r \in Shared /\ o.dst \in Destinations
         /\ o.op = "store" => o.r \in Shared /\ o.e \in Exprs
         /\ o.op = "cas" => o.r \in Shared /\ o.desired \in Exprs /\ o.dst \in Destinations
         /\ o.op \in {"lock", "unlock"} => o.m \in Mutexes
         /\ o.op = "wait" => o.cv \in Condvars /\ o.m \in Mutexes
         /\ o.op \in {"notify", "notify_all"} => o.cv \in Condvars
         /\ o.op \in {"acquire", "release"} => o.s \in Semaphores /\ o.n \in Int
         /\ o.op = "send" => o.c \in Channels /\ o.e \in Exprs
         /\ o.op = "recv" => o.c \in Channels /\ o.dst \in Destinations
         /\ o.op = "spawn" => o.f \in Functions /\ o.h \in HandleNames
         /\ o.op = "join" => o.h \in HandleNames
         /\ o.op = "scope" => o.fs \in Seq(Functions)
         /\ o.op = "goto" => o.to \in Target
         /\ o.op = "branch" => o.e \in Exprs /\ o.yes \in Target /\ o.no \in Target
         /\ o.op = "switch" => o.e \in Exprs /\ o.to \in [Values -> Target]
         /\ o.op = "call" => o.f \in Functions /\ o.args \in Seq(Exprs) /\ o.dst \in Destinations
         /\ o.op = "return" => o.e \in Exprs \union {NoExpr}
BY DEF Operation, DataOp, SyncOp, ChannelOp, ThreadOp, ControlOp

(* What a destination accepts is a value, whatever the destination. *)
LEMMA AcceptsValues ==
  ASSUME NetInv, NEW f \in Ids, frames[f] # NoFrame,
         NEW dst, NEW v, Accepts(f, dst, v)
  PROVE  v \in Values
<1>1. frames[f].fn \in Functions
  BY DEF NetInv, NetTypes, FrameStore, FrameState
<1> QED
  BY <1>1, DeclarationsAssumption DEF Accepts, DomainOf

(* Writing a shared variable leaves values. *)
LEMMA PutDataTyped ==
  ASSUME NetInv, NEW dst, NEW v \in Values
  PROVE  PutData(dst, v) \in [Shared -> Values]
<1>1. data \in [Shared -> Values]
  BY DEF NetInv, NetTypes
<1> QED
  BY <1>1 DEF PutData

(* The frames as they are stand alike. *)
LEMMA FramesAlike ==
  ASSUME NetInv
  PROVE  frames \in FrameStore /\ StandAlike(frames)
BY DEF NetInv, NetTypes, StandAlike

(* Falling through is a move. *)
LEMMA FallKeeps ==
  ASSUME NetInv, OnlyOne, NEW k \in marking, k.at[1] = "control",
         NEW frs \in FrameStore, StandAlike(frs), Moves(k, Falls(k), frs)
  PROVE  NetInv'
<1>1. k.at[3] + 1 \in Nat \ {0}
  BY ControlStands DEF StatementPlace
<1> QED
  BY <1>1, MoveKeeps DEF Falls

(* A firing that writes a value where it is accepted. *)
LEMMA AssignKeeps ==
  ASSUME NetInv, NEW k \in marking, k.at[1] = "control",
         NEW dst \in Destinations, NEW v, Assign(k, dst, v)
  PROVE  NetInv'
<1>1. k.frame \in Ids /\ frames[k.frame] # NoFrame
  BY TokenFrame
<1>2. v \in Values
  BY <1>1, AcceptsValues DEF Assign
<1>3. Put(frames, k.frame, dst, v) \in FrameStore /\ StandAlike(Put(frames, k.frame, dst, v))
  BY <1>1, <1>2, PutAlike
<1>4. PutData(dst, v) \in [Shared -> Values]
  BY <1>2, PutDataTyped
<1>5. OnlyOne
  BY <1>4 DEF OnlyOne, Assign, storeVars, NetInv, NetTypes
<1> QED
  BY <1>3, <1>5, FallKeeps DEF Assign

(* The operations on data move one token. *)
LEMMA DataKeeps ==
  ASSUME NetInv, NEW k \in marking, FireData(k)
  PROVE  NetInv'
<1>1. CASE Nop(k)
  <2>1. OnlyOne
    BY <1>1 DEF Nop, OnlyControl, OnlyOne, dataVars, storeVars, NetInv, NetTypes
  <2> QED
    BY <1>1, <2>1, FramesAlike, FallKeeps, Enabled DEF Nop
<1>2. CASE AssignLocal(k)
  BY <1>2, Enabled, OpFields, AssignKeeps DEF AssignLocal, Destinations
<1>3. CASE ReadVar(k)
  BY <1>3, Enabled, OpFields, AssignKeeps DEF ReadVar
<1>4. CASE WriteVar(k)
  BY <1>4, Enabled, OpFields, AssignKeeps DEF WriteVar, Destinations
<1>5. CASE AtomicCas(k)
  <2> DEFINE o   == Statement(k)
             old == data[o.r]
             des == Value(k, o.desired)
  <2>1. k.at[1] = "control" /\ o.r \in Shared /\ o.dst \in Destinations
    BY <1>5, Enabled, OpFields DEF AtomicCas
  <2>2. k.frame \in Ids /\ frames[k.frame] # NoFrame
    BY TokenFrame
  <2>3. old \in Values /\ des \in Values
    BY <1>5, <2>1, DeclarationsAssumption DEF AtomicCas, NetInv, NetTypes
  <2>4. PutData(o.dst, old) \in [Shared -> Values]
    BY <2>3, PutDataTyped
  <2>5. /\ data' = IF old = Value(k, o.expected) THEN [PutData(o.dst, old) EXCEPT ![o.r] = des]
                                                 ELSE PutData(o.dst, old)
        /\ Moves(k, Falls(k), Put(frames, k.frame, o.dst, old))
        /\ UNCHANGED <<prog, sem, buf, mutex, storeVars>>
    BY <1>5 DEF AtomicCas
  <2> HIDE DEF o, old, des
  <2>6. data' \in [Shared -> Values]
    BY <2>3, <2>4, <2>5
  <2>7. OnlyOne
    BY <2>5, <2>6 DEF OnlyOne, storeVars, NetInv, NetTypes
  <2>8. Put(frames, k.frame, o.dst, old) \in FrameStore
        /\ StandAlike(Put(frames, k.frame, o.dst, old))
    BY <2>2, <2>3, PutAlike
  <2> QED
    BY <2>1, <2>5, <2>7, <2>8, FallKeeps
<1> QED
  BY <1>1, <1>2, <1>3, <1>4, <1>5 DEF FireData

-----------------------------------------------------------------------------
(* Mutexes, condition variables, semaphores *)

(* They leave the data, the buffers and the store alone. *)
LEMMA SyncOnlyOne ==
  ASSUME NetInv, OnlySync
  PROVE  OnlyOne
BY DEF OnlySync, OnlyOne, storeVars, NetInv, NetTypes

(* A token with no field of its own waits for a resource. *)
LEMMA WaitsAtKeeps ==
  ASSUME NetInv, OnlyOne, NEW k \in marking, k.at[1] = "control",
         NEW p \in ({"lock"} \X Mutexes) \union ({"recv"} \X Channels),
         StandsAt(frames[k.frame]).op = p[1], WaitsAt(k, p)
  PROVE  NetInv'
<1> DEFINE token == [k EXCEPT !.at = p]
<1>1. token \in Tokens /\ token.at = p /\ token.thread = k.thread /\ token.frame = k.frame
  BY ControlStands, TokenMoves
<1>2. p[1] # "control" /\ p \notin StatementPlace
  BY DEF StatementPlace
<1>3. Waits(k, token)
  BY DEF WaitsAt
<1> HIDE DEF token
<1> QED
  BY <1>1, <1>2, <1>3, WaitKeeps

(* A waiter of a resource is not in a place of a statement. *)
LEMMA WaiterResumes ==
  ASSUME NetInv, OnlyOne, NEW k \in marking,
         k.at[1] \in {"lock", "wait", "acquire", "send", "recv"},
         NEW frs \in FrameStore, StandAlike(frs), Resumes(k, frs)
  PROVE  NetInv'
<1>1. k.at \notin StatementPlace
  BY DEF StatementPlace
<1> QED
  BY <1>1, ResumeKeeps

(* The lock transitions that move one token keep the invariant. *)
LEMMA LockKeeps ==
  ASSUME NetInv, NEW k \in marking,
         \/ MutexLockGrant(k) \/ MutexLockBlock(k) \/ MutexUnlock(k) \/ LockWaitAcquire(k)
         \/ CondvarWait(k)
  PROVE  NetInv'
<1>1. CASE MutexLockGrant(k)
  BY <1>1, SyncOnlyOne, Enabled, FramesAlike, FallKeeps DEF MutexLockGrant
<1>2. CASE MutexLockBlock(k)
  <2>1. /\ k.at[1] = "control" /\ StandsAt(frames[k.frame]).op = "lock"
        /\ Statement(k).m \in Mutexes /\ OnlyOne
    BY <1>2, SyncOnlyOne, Enabled, OpFields DEF MutexLockBlock
  <2>2. WaitsAt(k, LockWait(Statement(k).m))
    BY <1>2 DEF MutexLockBlock
  <2> QED
    BY <2>1, <2>2, WaitsAtKeeps DEF LockWait
<1>3. CASE MutexUnlock(k)
  BY <1>3, SyncOnlyOne, Enabled, FramesAlike, FallKeeps DEF MutexUnlock
<1>4. CASE LockWaitAcquire(k)
  BY <1>4, SyncOnlyOne, FramesAlike, WaiterResumes DEF LockWaitAcquire
<1>5. CASE CondvarWait(k)
  <2> DEFINE p == Condvar(Statement(k).cv)
             m == Statement(k).m
             token == [at |-> p, thread |-> k.thread, frame |-> k.frame, lock |-> m]
  <2>1. /\ k.at[1] = "control" /\ StandsAt(frames[k.frame]).op = "wait"
        /\ Statement(k).cv \in Condvars /\ m \in Mutexes /\ OnlyOne
    BY <1>5, SyncOnlyOne, Enabled, OpFields DEF CondvarWait
  <2>2. p \in {"wait"} \X Condvars /\ p[1] = "wait"
    BY <2>1 DEF Condvar
  <2>3. p \notin StatementPlace
    BY <2>2 DEF StatementPlace
  <2>4. Waits(k, token)
    BY <1>5 DEF CondvarWait
  <2> HIDE DEF p, m
  <2>5. token \in Tokens /\ token.thread = k.thread /\ token.frame = k.frame /\ token.at = p
    BY <2>1, <2>2, TokenFrame DEF Tokens
  <2> HIDE DEF token
  <2> QED
    BY <2>1, <2>2, <2>3, <2>4, <2>5, WaitKeeps
<1> QED
  BY <1>1, <1>2, <1>3, <1>4, <1>5

(* A semaphore transition moves one token, onward or to its wait place. *)
LEMMA SemaphoreKeeps ==
  ASSUME NetInv, NEW k \in marking, FireSemaphore(k)
  PROVE  NetInv'
<1>1. CASE SemAcquire(k)
  BY <1>1, SyncOnlyOne, Enabled, FramesAlike, FallKeeps DEF SemAcquire
<1>2. CASE SemAcquireBlock(k)
  <2> DEFINE p == SemWait(Statement(k).s)
             n == Statement(k).n
             token == [at |-> p, thread |-> k.thread, frame |-> k.frame, count |-> n]
  <2>1. /\ k.at[1] = "control" /\ StandsAt(frames[k.frame]).op = "acquire"
        /\ Statement(k).s \in Semaphores /\ n \in Int /\ OnlyOne
    BY <1>2, SyncOnlyOne, Enabled, OpFields DEF SemAcquireBlock
  <2>2. p \in {"acquire"} \X Semaphores /\ p[1] = "acquire"
    BY <2>1 DEF SemWait
  <2>3. p \notin StatementPlace
    BY <2>2 DEF StatementPlace
  <2>4. Waits(k, token)
    BY <1>2 DEF SemAcquireBlock
  <2> HIDE DEF p, n
  <2>5. token \in Tokens /\ token.thread = k.thread /\ token.frame = k.frame /\ token.at = p
    BY <2>1, <2>2, TokenFrame DEF Tokens
  <2> HIDE DEF token
  <2> QED
    BY <2>1, <2>2, <2>3, <2>4, <2>5, WaitKeeps
<1>3. CASE SemRelease(k)
  BY <1>3, SyncOnlyOne, Enabled, FramesAlike, FallKeeps DEF SemRelease
<1>4. CASE SemGrant(k)
  BY <1>4, SyncOnlyOne, FramesAlike, WaiterResumes DEF SemGrant
<1> QED
  BY <1>1, <1>2, <1>3, <1>4 DEF FireSemaphore

(* A notification sends the waiters ws to the queues of their locks. *)
LEMMA NotifiesKeeps ==
  ASSUME NetInv, NEW k \in marking, k.at[1] = "control",
         NEW ws \in SUBSET marking, \A w \in ws : w.at[1] = "wait", Notifies(k, ws)
  PROVE  NetInv'
<1> DEFINE taken == {k} \union ws
           out == [w \in taken |-> IF w = k THEN Falls(k) ELSE LockToken(w)]
           sid == k.at[3] + 1
           ks == {Falls(k)}
<1>1. OnlyOne
  BY SyncOnlyOne DEF Notifies
<1>2. k \notin ws /\ \A w \in ws : w # k
  OBVIOUS
<1>3. /\ k.at \in StatementPlace /\ k.at[2] = frames[k.frame].fn
      /\ threads[k.thread].blocked = Nothing
  BY ControlStands
<1>4. sid \in Nat \ {0} /\ Control(k.at[2], sid) \in StatementPlace
  BY <1>3 DEF StatementPlace, Control
<1>5. /\ Falls(k) \in Tokens /\ Falls(k).at = Control(k.at[2], sid)
      /\ Falls(k).thread = k.thread /\ Falls(k).frame = k.frame
  BY <1>4, ControlStands, TokenMoves DEF Falls, Goes
<1>6. Falls(k).at[1] = "control" /\ Falls(k).at[2] = k.at[2] /\ Falls(k).at[3] = sid
  BY <1>5 DEF Control
<1>7. /\ \A l \in ks : l.frame \in Ids /\ frames[l.frame] # NoFrame /\ l.at[3] \in Nat \ {0}
      /\ \A l, m \in ks : l.frame = m.frame => l.at[3] = m.at[3]
      /\ \A f \in Ids : f # k.frame => \A l \in ks : l.frame # f
      /\ Falls(k) \in ks
  <2>1. k.frame \in Ids /\ frames[k.frame] # NoFrame
    BY TokenFrame
  <2> QED
    BY <1>4, <1>5, <1>6, <2>1
<1>8. frames' = Placed(frames, ks) /\ threads' = Requeued(ws)
  BY DEF Notifies
<1> HIDE DEF ks
<1>9. /\ frames' \in FrameStore
      /\ \A f \in Ids : /\ frames'[f] = NoFrame <=> frames[f] = NoFrame
                        /\ frames[f] # NoFrame => /\ frames'[f].fn = frames[f].fn
                                                  /\ frames'[f].ret = frames[f].ret
                        /\ frames[f] # NoFrame /\ f # k.frame => frames'[f].pc = frames[f].pc
      /\ frames'[k.frame].pc = sid
  BY <1>5, <1>6, <1>7, <1>8, FramesAlike, PlacedStand
<1>10. ASSUME NEW w \in ws
       PROVE  /\ threads'[w.thread] = [threads[w.thread] EXCEPT !.blocked = LockWait(w.lock)]
              /\ threads'[w.thread] \in ThreadState
              /\ threads'[w.thread].blocked = LockWait(w.lock)
              /\ threads'[w.thread].stack = threads[w.thread].stack
              /\ threads'[w.thread].parent = threads[w.thread].parent
              /\ LockToken(w) \in Tokens /\ LockToken(w).at = LockWait(w.lock)
              /\ LockToken(w).thread = w.thread /\ LockToken(w).frame = w.frame
              /\ LockWait(w.lock) \notin StatementPlace /\ LockWait(w.lock)[1] = "lock"
  <2> DEFINE t == w.thread
             x == threads[t]
             p == LockWait(w.lock)
             y == [x EXCEPT !.blocked = p]
             v == CHOOSE v \in ws : v.thread = t
  <2>1. w \in Tokens /\ t \in Ids /\ x \in ThreadState
    BY TokenFrame
  <2>2. w.lock \in Mutexes
    BY <2>1, TokenFields
  <2>3. p \in {"lock"} \X Mutexes /\ p[1] = "lock"
    BY <2>2 DEF LockWait
  <2>4. p \in Place /\ p \notin StatementPlace
    BY <2>3 DEF Place, StatementPlace
  <2>5. v \in ws /\ v.thread = t
    OBVIOUS
  <2>6. v = w
    BY <2>5 DEF NetInv, OneToken
  <2>7. threads'[t] = y
    BY <1>8, <2>1, <2>6 DEF Requeued
  <2>8. LockToken(w) = [at |-> p, thread |-> t, frame |-> w.frame]
    BY DEF LockToken
  <2>9. w.frame \in Ids
    BY TokenFrame
  <2> HIDE DEF p, x, t, v
  <2>10. y \in ThreadState /\ y.blocked = p /\ y.stack = x.stack /\ y.parent = x.parent
    BY <2>1, <2>4 DEF ThreadState
  <2>11. /\ LockToken(w) \in Tokens /\ LockToken(w).at = p
         /\ LockToken(w).thread = t /\ LockToken(w).frame = w.frame
    BY <2>1, <2>3, <2>8, <2>9 DEF Tokens
  <2> QED
    BY <2>3, <2>4, <2>7, <2>10, <2>11 DEF p, x, t
<1>11. \A t \in Ids : (\A w \in ws : w.thread # t) => threads'[t] = threads[t]
  BY <1>8 DEF Requeued
<1>12. threads' \in ThreadStore
  <2>1. threads' = [t \in Ids |-> threads'[t]]
    BY <1>8 DEF Requeued
  <2>2. threads \in ThreadStore
    BY DEF NetInv, NetTypes
  <2>3. \A t \in Ids : threads'[t] \in ThreadState \union {NoThread}
    BY <1>10, <1>11, <2>2 DEF ThreadStore
  <2> QED
    BY <2>1, <2>3 DEF ThreadStore
<1>13. \A t \in Ids : /\ threads'[t] = NoThread <=> threads[t] = NoThread
                      /\ threads[t] # NoThread => /\ threads'[t].stack = threads[t].stack
                                                  /\ threads'[t].parent = threads[t].parent
  <2> SUFFICES ASSUME NEW t \in Ids
               PROVE  /\ threads'[t] = NoThread <=> threads[t] = NoThread
                      /\ threads[t] # NoThread => /\ threads'[t].stack = threads[t].stack
                                                  /\ threads'[t].parent = threads[t].parent
    OBVIOUS
  <2>1. CASE \A w \in ws : w.thread # t
    BY <1>11, <2>1
  <2>2. CASE \E w \in ws : w.thread = t
    <3>1. PICK w \in ws : w.thread = t
      BY <2>2
    <3>2. threads[t] # NoThread
      BY <3>1, TokenFrame
    <3>3. /\ threads'[t] \in ThreadState /\ threads'[t].stack = threads[t].stack
          /\ threads'[t].parent = threads[t].parent
      BY <1>10, <3>1
    <3> QED
      BY <3>2, <3>3, NetAssumption
  <2> QED
    BY <2>1, <2>2
<1>14. SameStacks /\ finished' \subseteq {t \in Ids : threads'[t] # NoThread}
  BY <1>1, <1>9, <1>12, <1>13, BlockedOnly DEF OnlyOne
<1>15. NewTypes
  BY <1>1, <1>9, <1>12 DEF NewTypes, OnlyOne
<1>16. Exchanged(taken, out)
  <2>1. out[k] = Falls(k) /\ \A w \in ws : out[w] = LockToken(w)
    BY <1>2
  <2>2. {out[w] : w \in taken} = {Falls(k)} \union {LockToken(w) : w \in ws}
    BY <2>1
  <2>3. marking' = (marking \ taken) \union {out[w] : w \in taken}
    BY <2>2 DEF Notifies
  <2>4. Settled(Falls(k))
    <3>1. threads'[k.thread] = threads[k.thread]
      BY <1>2, <1>11, TokenFrame DEF NetInv, OneToken
    <3> QED
      BY <1>3, <1>4, <1>5, <1>6, <1>9, <3>1, TokenFrame DEF Settled
  <2>5. ASSUME NEW w \in ws
        PROVE  Settled(LockToken(w))
    <3>1. StandsAt(frames[w.frame]).op = "wait"
      <4>1. Right(w) /\ w.at[1] = "wait"
        BY DEF NetInv, OneToken
      <4>2. w.at \notin StatementPlace
        BY <4>1 DEF StatementPlace
      <4> QED
        BY <4>1, <4>2 DEF Right
    <3>2. w.frame # k.frame
      BY <1>2, FramesApart
    <3>3. frames'[w.frame].fn = frames[w.frame].fn /\ frames'[w.frame].pc = frames[w.frame].pc
      BY <1>9, <3>2, TokenFrame
    <3> QED
      <4>1. /\ threads'[w.thread].blocked = LockWait(w.lock) /\ LockToken(w).at = LockWait(w.lock)
            /\ LockToken(w).thread = w.thread /\ LockToken(w).frame = w.frame
            /\ LockWait(w.lock) \notin StatementPlace /\ LockWait(w.lock)[1] = "lock"
        BY <1>10
      <4>2. StandsAt(frames'[w.frame]).op = "wait"
        BY <3>1, <3>3 DEF StandsAt
      <4> QED
        BY <4>1, <4>2 DEF Settled
  <2>6. ASSUME NEW l \in marking \ taken
        PROVE  Undisturbed(l)
    <3>1. l.frame # k.frame
      BY FramesApart
    <3>2. threads'[l.thread] = threads[l.thread]
      BY <1>11, TokenFrame DEF NetInv, OneToken
    <3> QED
      BY <1>9, <3>1, <3>2, TokenFrame DEF Undisturbed
  <2>7. \A w \in taken : w = k \/ w \in ws
    OBVIOUS
  <2> HIDE DEF taken, out
  <2>8. \A w \in taken : /\ out[w] \in Tokens /\ out[w].thread = w.thread /\ out[w].frame = w.frame
                         /\ Settled(out[w])
    BY <1>5, <1>10, <2>1, <2>4, <2>5, <2>7
  <2> QED
    BY <2>3, <2>6, <2>8 DEF Exchanged
<1>17. taken \in SUBSET marking
  OBVIOUS
<1> HIDE DEF taken, out
<1> QED
  BY <1>1, <1>14, <1>15, <1>16, <1>17, ExchangeKeeps DEF OnlyOne

(* So does a notification, which moves the waiters to the lock or past it. *)
LEMMA LocksKeep ==
  ASSUME NetInv, NEW k \in marking, FireLock(k)
  PROVE  NetInv'
<1>1. \A c : \A w \in In(Condvar(c)) : w \in marking /\ w.at[1] = "wait"
  BY DEF In, Condvar
<1>2. CASE CondvarNotifyHit(k)
  <2>1. PICK w \in In(Condvar(Statement(k).cv)) : Notifies(k, {w})
    BY <1>2 DEF CondvarNotifyHit
  <2> QED
    BY <1>1, <1>2, <2>1, Enabled, NotifiesKeeps DEF CondvarNotifyHit
<1>3. CASE CondvarNotifyMiss(k)
  BY <1>3, Enabled, NotifiesKeeps DEF CondvarNotifyMiss
<1>4. CASE CondvarNotifyAll(k)
  <2>1. In(Condvar(Statement(k).cv)) \in SUBSET marking
    BY <1>1
  <2> QED
    BY <1>1, <1>4, <2>1, Enabled, NotifiesKeeps DEF CondvarNotifyAll
<1> QED
  BY <1>2, <1>3, <1>4, LockKeeps DEF FireLock

-----------------------------------------------------------------------------
(* Channels *)

(* Both ends of a pairing go on. *)
LEMMA PairsKeeps ==
  ASSUME NetInv, NEW k \in marking, k.at[1] = "control",
         NEW w \in marking, w.at[1] \in {"send", "recv"},
         NEW f \in {k.frame, w.frame}, NEW v, Pairs(k, w, f, v)
  PROVE  NetInv'
<1> DEFINE taken == {k, w}
           out == [l \in taken |-> IF l = k THEN Falls(k) ELSE Wakes(w)]
           ks == {Falls(k), Wakes(w)}
           ts == {w.thread}
           sid == k.at[3] + 1
           x == frames[w.frame]
           dst == StandsAt(frames[f]).dst
           frs == Put(frames, f, dst, v)
<1>1. k # w /\ k.frame # w.frame /\ k.thread # w.thread
  BY FramesApart DEF NetInv, OneToken
<1>2. f \in Ids /\ frames[f] # NoFrame
  BY TokenFrame
<1>3. v \in Values
  BY <1>2, AcceptsValues DEF Pairs
<1>4. frs \in FrameStore /\ StandAlike(frs)
  BY <1>2, <1>3, PutAlike
<1>5. PutData(dst, v) \in [Shared -> Values]
  BY <1>3, PutDataTyped
<1>6. OnlyOne
  BY <1>5 DEF Pairs, OnlyChannels, OnlyOne, storeVars, NetInv, NetTypes
<1>7. /\ marking' = (marking \ {k, w}) \union {Falls(k), Wakes(w)}
      /\ frames' = Placed(frs, ks) /\ threads' = Unblocked(threads, ts)
  BY DEF Pairs
<1> HIDE DEF frs, dst
<1>8. /\ k.at \in StatementPlace /\ k.at[2] = frames[k.frame].fn
      /\ threads[k.thread].blocked = Nothing
  BY ControlStands
<1>9. sid \in Nat \ {0} /\ Control(k.at[2], sid) \in StatementPlace
  BY <1>8 DEF StatementPlace, Control
<1>10. /\ Falls(k) \in Tokens /\ Falls(k).at = Control(k.at[2], sid)
       /\ Falls(k).thread = k.thread /\ Falls(k).frame = k.frame
  BY <1>9, ControlStands, TokenMoves DEF Falls, Goes
<1>11. Falls(k).at[1] = "control" /\ Falls(k).at[2] = k.at[2] /\ Falls(k).at[3] = sid
  BY <1>10 DEF Control
<1>12. /\ w.frame \in Ids /\ x \in FrameState /\ w.thread \in Ids
  BY TokenFrame
<1>13. x.fn \in Functions /\ x.pc + 1 \in Nat \ {0}
  BY <1>12 DEF FrameState
<1>14. /\ Wakes(w).at = Control(x.fn, x.pc + 1) /\ Wakes(w).thread = w.thread
       /\ Wakes(w).frame = w.frame /\ Wakes(w) \in Tokens /\ Wakes(w).at \in StatementPlace
  BY <1>12, <1>13 DEF Wakes, ControlToken, FrameOfToken, Control, Tokens, StatementPlace
<1>15. Wakes(w).at[1] = "control" /\ Wakes(w).at[2] = x.fn /\ Wakes(w).at[3] = x.pc + 1
  BY <1>14 DEF Control
<1>16. /\ \A l \in ks : l.frame \in Ids /\ frames[l.frame] # NoFrame /\ l.at[3] \in Nat \ {0}
       /\ \A l, m \in ks : l.frame = m.frame => l.at[3] = m.at[3]
       /\ \A g \in Ids : g # k.frame /\ g # w.frame => \A l \in ks : l.frame # g
       /\ Falls(k) \in ks /\ Wakes(w) \in ks
  <2>1. k.frame \in Ids /\ frames[k.frame] # NoFrame /\ x # NoFrame
    BY TokenFrame
  <2> HIDE DEF sid
  <2> QED
    BY <1>1, <1>9, <1>10, <1>11, <1>12, <1>13, <1>14, <1>15, <2>1
<1> HIDE DEF ks, x
<1>17. /\ frames' \in FrameStore
       /\ \A g \in Ids : /\ frames'[g] = NoFrame <=> frames[g] = NoFrame
                         /\ frames[g] # NoFrame => /\ frames'[g].fn = frames[g].fn
                                                   /\ frames'[g].ret = frames[g].ret
                         /\ frames[g] # NoFrame /\ g # k.frame /\ g # w.frame =>
                              frames'[g].pc = frames[g].pc
       /\ frames'[k.frame].pc = Falls(k).at[3] /\ frames'[w.frame].pc = Wakes(w).at[3]
  BY <1>4, <1>7, <1>10, <1>14, <1>16, PlacedStand
<1>18. ts \in SUBSET Ids /\ w.thread \in ts /\ k.thread \notin ts
       /\ \A t \in ts : threads[t] # NoThread /\ t = w.thread
  BY <1>1, TokenFrame
<1> HIDE DEF ts
<1>19. /\ threads' \in ThreadStore /\ threads'[w.thread].blocked = Nothing
       /\ \A t \in Ids : /\ threads'[t] = NoThread <=> threads[t] = NoThread
                         /\ threads[t] # NoThread => /\ threads'[t].stack = threads[t].stack
                                                     /\ threads'[t].parent = threads[t].parent
                         /\ t # w.thread => threads'[t] = threads[t]
  BY <1>7, <1>18, UnblockedSame
<1>20. SameStacks /\ finished' \subseteq {t \in Ids : threads'[t] # NoThread}
  BY <1>6, <1>17, <1>19, BlockedOnly DEF OnlyOne
<1>21. NewTypes
  BY <1>6, <1>17, <1>19 DEF NewTypes, OnlyOne
<1>22. Settled(Falls(k))
  <2>1. k.thread \in Ids /\ threads'[k.thread] = threads[k.thread]
    BY <1>1, <1>19, TokenFrame
  <2>2. k.frame \in Ids /\ frames[k.frame] # NoFrame
    BY TokenFrame
  <2> QED
    BY <1>8, <1>9, <1>10, <1>11, <1>17, <2>1, <2>2 DEF Settled
<1>23. Settled(Wakes(w))
  <2>1. frames[w.frame] # NoFrame
    BY TokenFrame
  <2> QED
    BY <1>12, <1>14, <1>15, <1>17, <1>19, <2>1 DEF Settled, x
<1>24. ASSUME NEW l \in marking \ taken
       PROVE  Undisturbed(l)
  <2>1. l.frame # k.frame /\ l.frame # w.frame /\ l.thread # w.thread
    BY FramesApart DEF NetInv, OneToken
  <2> QED
    BY <1>17, <1>19, <2>1, TokenFrame DEF Undisturbed
<1>25. /\ out[k] = Falls(k) /\ out[w] = Wakes(w) /\ taken \in SUBSET marking
       /\ \A l \in taken : l = k \/ l = w
       /\ {out[l] : l \in taken} = {Falls(k), Wakes(w)} /\ taken = {k, w}
  BY <1>1
<1> HIDE DEF taken, out
<1>26. Exchanged(taken, out)
  BY <1>7, <1>10, <1>14, <1>22, <1>23, <1>24, <1>25 DEF Exchanged
<1> QED
  BY <1>6, <1>20, <1>21, <1>25, <1>26, ExchangeKeeps DEF OnlyOne

(* A message put in a buffer keeps the buffers typed. *)
LEMMA AppendTyped ==
  ASSUME NetInv, NEW c, NEW v, c \in Channels => v \in Values
  PROVE  [buf EXCEPT ![c] = Append(@, v)] \in [Channels -> Seq(Values)]
<1>1. buf \in [Channels -> Seq(Values)]
  BY DEF NetInv, NetTypes
<1>2. c \in Channels => Append(buf[c], v) \in Seq(Values)
  BY <1>1
<1> QED
  BY ONLY <1>1, <1>2

(* A message taken from a buffer keeps the buffers typed. *)
LEMMA TailTyped ==
  ASSUME NetInv, NEW c, c \in Channels => buf[c] # <<>>
  PROVE  [buf EXCEPT ![c] = Tail(@)] \in [Channels -> Seq(Values)]
<1>1. buf \in [Channels -> Seq(Values)]
  BY DEF NetInv, NetTypes
<1>2. c \in Channels => Tail(buf[c]) \in Seq(Values)
  BY <1>1
<1> QED
  BY ONLY <1>1, <1>2

(* What a `send` in front of a token sends is a value. *)
LEMMA SentValues ==
  ASSUME NetInv, NEW k \in marking, Sends(k)
  PROVE  /\ k.at[1] = "control" /\ StandsAt(frames[k.frame]).op = "send"
         /\ Statement(k).c \in Channels /\ Value(k, Statement(k).e) \in Values
<1>1. /\ k.at[1] = "control" /\ StandsAt(frames[k.frame]).op = "send"
      /\ Statement(k).c \in Channels
  BY Enabled, OpFields DEF Sends
<1> QED
  BY <1>1, DeclarationsAssumption DEF Sends

(* A sender that waits keeps its value in its token. *)
LEMMA SendWaitKeeps ==
  ASSUME NetInv, NEW k \in marking, Sends(k), Waits(k, SendToken(k)),
         UNCHANGED <<data, buf>>, OnlyChannels
  PROVE  NetInv'
<1> DEFINE p == ChannelSend(Statement(k).c)
           v == Value(k, Statement(k).e)
           token == SendToken(k)
<1>1. OnlyOne
  BY DEF OnlyChannels, OnlyOne, storeVars, NetInv, NetTypes
<1>2. /\ k.at[1] = "control" /\ StandsAt(frames[k.frame]).op = "send"
      /\ Statement(k).c \in Channels /\ v \in Values
  BY SentValues
<1>3. p \in {"send"} \X Channels /\ p[1] = "send"
  BY <1>2 DEF ChannelSend
<1>4. p \notin StatementPlace
  BY <1>3 DEF StatementPlace
<1>5. token = [at |-> p, thread |-> k.thread, frame |-> k.frame, value |-> v]
  BY DEF SendToken
<1>6. Waits(k, token)
  OBVIOUS
<1> HIDE DEF p, v, token
<1>7. token \in Tokens /\ token.thread = k.thread /\ token.frame = k.frame /\ token.at = p
  BY <1>2, <1>3, <1>5, TokenFrame DEF Tokens
<1> QED
  BY <1>1, <1>2, <1>3, <1>4, <1>6, <1>7, WaitKeeps

(* A receiver takes the head of the buffer. *)
LEMMA PopsTyped ==
  ASSUME NetInv, NEW c, NEW f \in Ids, frames[f] # NoFrame, Pops(c, f), OnlyChannels
  PROVE  OnlyOne /\ Popped(c, f) \in FrameStore /\ StandAlike(Popped(c, f))
<1> DEFINE dst == StandsAt(frames[f]).dst
           v == Head(buf[c])
<1>1. v \in Values
  BY AcceptsValues DEF Pops
<1>2. Popped(c, f) = Put(frames, f, dst, v)
  BY DEF Popped
<1>3. Put(frames, f, dst, v) \in FrameStore /\ StandAlike(Put(frames, f, dst, v))
  BY <1>1, PutAlike
<1>4. buf' \in [Channels -> Seq(Values)]
  BY TailTyped DEF Pops
<1>5. data' = PutData(dst, v)
  BY DEF Pops
<1> HIDE DEF dst, v
<1>6. data' \in [Shared -> Values]
  BY <1>1, <1>5, PutDataTyped
<1> QED
  BY <1>2, <1>3, <1>4, <1>6 DEF OnlyChannels, OnlyOne, storeVars

(* A channel transition moves one token, or the two of a rendezvous. *)
LEMMA ChannelsKeep ==
  ASSUME NetInv, NEW k \in marking, FireChannel(k)
  PROVE  NetInv'
<1>1. CASE SendRegister(k) \/ SendBufBlock(k)
  BY <1>1, SendWaitKeeps DEF SendRegister, SendBufBlock
<1>2. CASE SendPair(k)
  <2>1. PICK w \in In(ChannelRecv(Statement(k).c)) :
          Pairs(k, w, w.frame, Value(k, Statement(k).e))
    BY <1>2 DEF SendPair
  <2>2. w \in marking /\ w.at[1] = "recv"
    BY DEF In, ChannelRecv
  <2> QED
    BY <1>2, <2>1, <2>2, SentValues, PairsKeeps DEF SendPair
<1>3. CASE RecvRegister(k) \/ RecvBufBlock(k)
  <2>1. Enables(k, "recv") /\ WaitsAt(k, ChannelRecv(Statement(k).c)) /\ OnlyOne
    BY <1>3 DEF RecvRegister, RecvBufBlock, OnlyChannels, OnlyOne, storeVars, NetInv, NetTypes
  <2>2. /\ k.at[1] = "control" /\ StandsAt(frames[k.frame]).op = "recv"
        /\ Statement(k).c \in Channels
    BY <2>1, Enabled, OpFields
  <2> QED
    BY <2>1, <2>2, WaitsAtKeeps DEF ChannelRecv
<1>4. CASE RecvPair(k)
  <2>1. PICK w \in In(ChannelSend(Statement(k).c)) : Pairs(k, w, k.frame, w.value)
    BY <1>4 DEF RecvPair
  <2>2. w \in marking /\ w.at[1] = "send"
    BY DEF In, ChannelSend
  <2> QED
    BY <1>4, <2>1, <2>2, Enabled, PairsKeeps DEF RecvPair
<1>5. CASE SendBuf(k)
  <2>1. buf' \in [Channels -> Seq(Values)]
    BY <1>5, SentValues, AppendTyped DEF SendBuf
  <2>2. OnlyOne
    BY <1>5, <2>1 DEF SendBuf, OnlyChannels, OnlyOne, storeVars, NetInv, NetTypes
  <2> QED
    BY <1>5, <2>2, SentValues, FramesAlike, FallKeeps DEF SendBuf
<1>6. CASE RecvBuf(k)
  <2>1. k.at[1] = "control" /\ k.frame \in Ids /\ frames[k.frame] # NoFrame
    BY <1>6, Enabled, TokenFrame DEF RecvBuf
  <2> QED
    BY <1>6, <2>1, PopsTyped, FallKeeps DEF RecvBuf
<1>7. CASE BufferDeliver(k)
  <2>1. k.value \in Values
    BY <1>7, TokenFrame, TokenFields DEF BufferDeliver
  <2>2. buf' \in [Channels -> Seq(Values)]
    BY <1>7, <2>1, AppendTyped DEF BufferDeliver
  <2>3. OnlyOne
    BY <1>7, <2>2 DEF BufferDeliver, OnlyChannels, OnlyOne, storeVars, NetInv, NetTypes
  <2> QED
    BY <1>7, <2>3, FramesAlike, WaiterResumes DEF BufferDeliver
<1>8. CASE BufferRecvWait(k)
  <2>1. k.frame \in Ids /\ frames[k.frame] # NoFrame
    BY TokenFrame
  <2> QED
    BY <1>8, <2>1, PopsTyped, WaiterResumes DEF BufferRecvWait
<1> QED
  BY <1>1, <1>2, <1>3, <1>4, <1>5, <1>6, <1>7, <1>8 DEF FireChannel

-----------------------------------------------------------------------------
(* Jumps *)

(* An expression has a value or fails. *)
LEMMA ValueTyped ==
  ASSUME NetInv, NEW k \in marking, NEW e \in Exprs
  PROVE  Value(k, e) \in Values \union {EvalError}
<1>1. frames[k.frame].locals \in [Locals -> Values] /\ data \in [Shared -> Values]
  BY TokenFrame DEF FrameState, NetInv, NetTypes
<1> QED
  BY <1>1, EvalAssumption DEF Value, FrameOfToken

(* A jump puts the frame where it puts the token. *)
LEMMA JumpKeeps ==
  ASSUME NetInv, NEW k \in marking, k.at[1] = "control", NEW sid \in Target, Jump(k, sid)
  PROVE  NetInv'
<1>1. OnlyOne
  BY DEF Jump, OnlyControl, OnlyOne, dataVars, storeVars, NetInv, NetTypes
<1> QED
  BY <1>1, FramesAlike, MoveKeeps DEF Jump, Target

(* Goto, branch and switch are jumps to a target of the statement. *)
LEMMA JumpsKeep ==
  ASSUME NetInv, NEW k \in marking, Goto(k) \/ BranchThen(k) \/ BranchElse(k) \/ Switch(k)
  PROVE  NetInv'
<1>1. CASE Goto(k)
  BY <1>1, Enabled, OpFields, JumpKeeps DEF Goto
<1>2. CASE BranchThen(k)
  BY <1>2, Enabled, OpFields, JumpKeeps DEF BranchThen
<1>3. CASE BranchElse(k)
  BY <1>3, Enabled, OpFields, JumpKeeps DEF BranchElse
<1>4. CASE Switch(k)
  <2> DEFINE v == Value(k, Statement(k).e)
  <2>1. k.at[1] = "control" /\ Statement(k).e \in Exprs /\ Statement(k).to \in [Values -> Target]
    BY <1>4, Enabled, OpFields DEF Switch
  <2>2. v \in Values
    BY <1>4, <2>1, ValueTyped DEF Switch
  <2>3. Statement(k).to[v] \in Target
    BY <2>1, <2>2
  <2> QED
    BY <1>4, <2>1, <2>3, JumpKeeps DEF Switch
<1> QED
  BY <1>1, <1>2, <1>3, <1>4

-----------------------------------------------------------------------------
(* Steps that change stacks *)

(* The token is where it was, and so is the top frame of its thread. *)
Untouched(l) ==
  /\ l.thread \in Live' /\ TopOf(l.thread)' = TopOf(l.thread)
  /\ Undisturbed(l)

(* The new token stands where its frame and its thread, a live one, say. *)
Arrived(n) ==
  /\ n.thread \in Live' /\ n.frame = TopOf(n.thread)'
  /\ Settled(n)

(* The tokens ws go and the tokens new come; no thread is left without one,
   and none has two. *)
Retold(ws, new) ==
  /\ marking' = (marking \ ws) \union new
  /\ \A l \in marking \ ws : Untouched(l)
  /\ \A n \in new : Arrived(n)
  /\ \A n, m \in new : n.thread = m.thread => n = m
  /\ \A n \in new, l \in marking \ ws : n.thread # l.thread
  /\ \A t \in Live' : \/ \E n \in new : n.thread = t
                      \/ \E l \in marking \ ws : l.thread = t

(* Such a step leaves each live thread its one token. *)
LEMMA OneTokenKept ==
  ASSUME NetInv, prog' = prog, NEW ws, NEW new, Retold(ws, new)
  PROVE  OneToken'
<1>1. /\ \A l \in marking \ ws : Untouched(l)
      /\ \A n \in new : Arrived(n)
  BY DEF Retold
<1>2. ASSUME NEW n \in new
      PROVE  Right(n)'
  BY <1>1 DEF Arrived, Settled, Right, Pc, StandsAt
<1>3. ASSUME NEW l \in marking \ ws
      PROVE  Right(l)'
  <2>1. Right(l) /\ l.frame = TopOf(l.thread)
    BY DEF NetInv, OneToken, Right
  <2> QED
    BY <1>1, <2>1 DEF Untouched, Undisturbed, Right, Pc, StandsAt
<1>4. \A k, l \in marking \ ws : k.thread = l.thread => k = l
  BY DEF NetInv, OneToken
<1> QED
  BY <1>3, <1>4, <1>2 DEF OneToken, Retold

(* The token of a thread that moved is not another's. *)
LEMMA OtherTokens ==
  ASSUME NetInv, NEW k \in marking, NEW l \in marking \ {k}
  PROVE  l.thread # k.thread /\ l.frame # k.frame
BY FramesApart DEF NetInv, OneToken

(* A frame of a stack is allocated, and the stack is typed. *)
LEMMA StackFrames ==
  ASSUME NetInv, NEW t \in Ids
  PROVE  /\ StackOf(t) \in Seq(Ids)
         /\ \A i \in DOMAIN StackOf(t) : /\ StackOf(t)[i] \in Ids /\ i \in Nat \ {0}
                                         /\ frames[StackOf(t)[i]] \in FrameState
<1>1. StackOf(t) \in Seq(Ids)
  BY DEF StackOf, NetInv, NetTypes, ThreadStore, ThreadState
<1>2. \A i \in DOMAIN StackOf(t) : StackOf(t)[i] \in Ids /\ i \in Nat \ {0}
  BY <1>1
<1>3. \A i \in DOMAIN StackOf(t) : frames[StackOf(t)[i]] # NoFrame
  BY DEF NetInv, StacksOwn
<1> QED
  BY <1>1, <1>2, <1>3 DEF NetInv, NetTypes, FrameStore

(* Falling through: where the token goes and where its frame then stands. *)
LEMMA FallPlaced ==
  ASSUME NetInv, NEW k \in marking, k.at \in StatementPlace
  PROVE  /\ Falls(k) \in Tokens /\ Falls(k).thread = k.thread /\ Falls(k).frame = k.frame
         /\ Falls(k).at \in StatementPlace /\ Falls(k).at[1] = "control"
         /\ Falls(k).at[2] = frames[k.frame].fn /\ Falls(k).at[3] = frames[k.frame].pc + 1
<1>1. k.at[2] = frames[k.frame].fn /\ k.at[3] = frames[k.frame].pc
  BY DEF NetInv, OneToken, Right, Pc
<1>2. Control(k.at[2], k.at[3] + 1) \in StatementPlace
  BY DEF StatementPlace, Control
<1>3. k.at[1] \in {"control", "join", "scope"}
  BY DEF StatementPlace
<1>4. k \in [at : StatementPlace \union ({"lock"} \X Mutexes) \union ({"recv"} \X Channels),
             thread : Ids, frame : Ids]
  BY <1>3, TokenFrame, TokenFields
<1>5. /\ Falls(k) \in Tokens /\ Falls(k).at = Control(k.at[2], k.at[3] + 1)
      /\ Falls(k).thread = k.thread /\ Falls(k).frame = k.frame
  BY <1>2, <1>4, TokenMoves DEF Falls, Goes
<1> QED
  BY <1>1, <1>2, <1>5 DEF Control

(* A joiner waits where its frame stands. *)
LEMMA JoinBlockKeeps ==
  ASSUME NetInv, NEW k \in marking, JoinBlock(k)
  PROVE  NetInv'
<1> DEFINE p == JoinWait(frames[k.frame].fn, frames[k.frame].pc)
           token == [k EXCEPT !.at = p]
<1>1. k.at[1] = "control"
  BY Enabled DEF JoinBlock
<1>2. p \in StatementPlace /\ p[1] = "join" /\ p[2] = frames[k.frame].fn /\ p[3] = frames[k.frame].pc
  BY TokenFrame DEF JoinWait, StatementPlace, FrameState
<1>3. OnlyOne
  BY DEF JoinBlock, OnlyThreads, dataVars, storeVars, OnlyOne, NetInv, NetTypes
<1>4. Waits(k, token)
  BY DEF JoinBlock, WaitsAt, FrameOfToken
<1> HIDE DEF p
<1>5. token \in Tokens /\ token.at = p /\ token.thread = k.thread /\ token.frame = k.frame
  BY <1>1, <1>2, ControlStands, TokenMoves
<1> HIDE DEF token
<1> QED
  BY <1>1, <1>2, <1>3, <1>4, <1>5, WaitKeeps

(* A finished child goes, and the joiner's binding and handle with it. *)
LEMMA JoinReadyKeeps ==
  ASSUME NetInv, NEW k \in marking, JoinReady(k)
  PROVE  NetInv'
<1> DEFINE c == Child(k)
           t == k.thread
           f == k.frame
           h == frames[f].handles[Statement(k).h]
           x == threads[t]
           y == [x EXCEPT !.children[h] = None]
           z == Placed(frames, {Falls(k)})[f]
           ks == {Falls(k)}
<1>1. /\ k.at[1] = "control" /\ k.at \in StatementPlace /\ Statement(k).h \in HandleNames
      /\ c \in finished
  BY Enabled, OpFields, ControlStands DEF JoinReady
<1>2. c \in Ids /\ threads[c] # NoThread /\ c \notin Live
  BY <1>1 DEF NetInv, NetTypes, Live
<1>3. t \in Ids /\ t \in Live /\ x \in ThreadState /\ f \in Ids /\ frames[f] \in FrameState
  BY TokenFrame
<1>4. t # c
  BY <1>2, <1>3
<1>5. threads' = [threads EXCEPT ![c] = NoThread, ![t] = y]
  <2>1. threads' = [threads EXCEPT ![c] = NoThread, ![t].children[h] = None]
    BY DEF JoinReady, FrameOfToken
  <2> HIDE DEF c, t, h
  <2> QED
    BY <2>1, <1>2, <1>3, <1>4 DEF NetInv, NetTypes, ThreadStore
<1>6. /\ y \in ThreadState /\ y.stack = x.stack /\ y.parent = x.parent /\ y.blocked = x.blocked
  <2> DEFINE cs == [x.children EXCEPT ![h] = None]
  <2>1. cs \in [Ids -> Ids \union {None}]
    BY <1>3 DEF ThreadState
  <2>2. y = [x EXCEPT !.children = cs]
    OBVIOUS
  <2> HIDE DEF cs
  <2> QED
    BY <1>3, <2>1, <2>2 DEF ThreadState
<1> HIDE DEF c, t, x, y
<1>7. threads \in ThreadStore
  BY DEF NetInv, NetTypes
<1>8. /\ threads' \in ThreadStore /\ threads'[c] = NoThread /\ threads'[t] = y
      /\ \A u \in Ids \ {c, t} : threads'[u] = threads[u]
  BY <1>2, <1>3, <1>4, <1>5, <1>6, <1>7 DEF ThreadStore
<1>9. \A u \in Ids : u # c =>
        /\ threads'[u] = NoThread <=> threads[u] = NoThread
        /\ threads[u] # NoThread => /\ threads'[u].stack = threads[u].stack
                                    /\ threads'[u].parent = threads[u].parent
                                    /\ threads'[u].blocked = threads[u].blocked
  BY <1>3, <1>6, <1>8, NetAssumption DEF x
<1>10. finished' = finished \ {c}
  BY DEF JoinReady, c
<1>11. \A u \in Ids : u \in Live' <=> u \in Live
  BY <1>2, <1>8, <1>9, <1>10 DEF Live
<1>12. \A u \in Ids : StackOf(u)' = StackOf(u)
  <2>1. StackOf(c) = <<>>
    BY <1>2 DEF NetInv, StacksOwn
  <2> QED
    BY <1>8, <1>9, <2>1 DEF StackOf
<1>13. finished' \subseteq {u \in Ids : threads'[u] # NoThread}
  BY <1>9, <1>10 DEF NetInv, NetTypes
<1>14. /\ Falls(k) \in Tokens /\ Falls(k).thread = k.thread /\ Falls(k).frame = k.frame
       /\ Falls(k).at \in StatementPlace /\ Falls(k).at[1] = "control"
       /\ Falls(k).at[2] = frames[k.frame].fn /\ Falls(k).at[3] = frames[k.frame].pc + 1
  BY <1>1, FallPlaced
<1>15. frames[f].pc + 1 \in Nat \ {0}
  BY <1>3 DEF FrameState
<1>16. /\ \A l \in ks : l.frame \in Ids /\ frames[l.frame] # NoFrame /\ l.at[3] \in Nat \ {0}
       /\ \A l, m \in ks : l.frame = m.frame => l.at[3] = m.at[3]
       /\ \A g \in Ids : g # f => \A l \in ks : l.frame # g
       /\ Falls(k) \in ks
  BY <1>3, <1>14, <1>15, TokenFrame
<1>17. frames' = [Placed(frames, ks) EXCEPT ![f].handles[Statement(k).h] = None]
  BY DEF JoinReady
<1>18. marking' = (marking \ {k}) \union {Falls(k)}
  BY DEF JoinReady
<1> HIDE DEF ks
<1> DEFINE w == Placed(frames, ks)
           v == [w[f] EXCEPT !.handles[Statement(k).h] = None]
<1>19. /\ w \in FrameStore
       /\ \A g \in Ids : /\ w[g] = NoFrame <=> frames[g] = NoFrame
                         /\ frames[g] # NoFrame => w[g].fn = frames[g].fn /\ w[g].ret = frames[g].ret
                         /\ frames[g] # NoFrame /\ g # f => w[g].pc = frames[g].pc
       /\ w[f].pc = frames[f].pc + 1
  BY <1>14, <1>16, FramesAlike, PlacedStand
<1> HIDE DEF w
<1>20. w[f] \in FrameState
  BY <1>3, <1>19, NetAssumption DEF FrameStore
<1>21. v \in FrameState /\ v.fn = w[f].fn /\ v.pc = w[f].pc /\ v.ret = w[f].ret
  <2> DEFINE hs == [w[f].handles EXCEPT ![Statement(k).h] = None]
             q == w[f]
  <2>1. hs \in [HandleNames -> Ids \union {None}]
    BY <1>20 DEF FrameState
  <2>2. v = [q EXCEPT !.handles = hs]
    OBVIOUS
  <2>3. q \in FrameState
    BY <1>20
  <2> HIDE DEF hs, q
  <2>4. v \in FrameState /\ v.fn = q.fn /\ v.pc = q.pc /\ v.ret = q.ret
    BY <2>1, <2>2, <2>3 DEF FrameState
  <2> QED
    BY <2>4 DEF q
<1>22. frames' = [w EXCEPT ![f] = v]
  BY <1>17 DEF w
<1> HIDE DEF v
<1>23. /\ frames' \in FrameStore
       /\ \A g \in Ids : /\ frames'[g] = NoFrame <=> frames[g] = NoFrame
                         /\ frames[g] # NoFrame => /\ frames'[g].fn = frames[g].fn
                                                   /\ frames'[g].ret = frames[g].ret
                         /\ frames[g] # NoFrame /\ g # f => frames'[g].pc = frames[g].pc
       /\ frames'[f].pc = frames[f].pc + 1
  BY <1>3, <1>19, <1>20, <1>21, <1>22, NetAssumption DEF FrameStore
<1>24. SameStacks
  <2>1. \A u \in Ids : u \in Live => u # c /\ threads[u] # NoThread
    BY <1>2 DEF Live
  <2> QED
    BY <1>2, <1>9, <1>11, <1>12, <1>23, <2>1 DEF SameStacks
<1>25. NewTypes
  BY <1>8, <1>23 DEF JoinReady, OnlyThreads, dataVars, NewTypes, NetInv, NetTypes
<1> DEFINE ws == {k}
           out == [l \in ws |-> Falls(k)]
<1>26. /\ \A l \in ws : l = k /\ out[l] = Falls(k)
       /\ {out[l] : l \in ws} = {Falls(k)} /\ ws = {k} /\ ws \in SUBSET marking
  OBVIOUS
<1> HIDE DEF ws, out
<1>27. Settled(Falls(k))
  <2>1. threads'[t].blocked = Nothing
    BY <1>1, <1>3, <1>6, <1>8, ControlStands DEF x, t
  <2> QED
    BY <1>3, <1>14, <1>23, <2>1, TokenFrame DEF Settled, t
<1>28. ASSUME NEW l \in marking \ ws
       PROVE  Undisturbed(l)
  <2>1. l.frame # f
    BY <1>26, FramesApart
  <2>2. l.thread \in Live /\ l.thread # c
    BY <1>2, TokenFrame
  <2> QED
    BY <1>9, <1>23, <2>1, <2>2, TokenFrame DEF Undisturbed
<1>29. Exchanged(ws, out)
  BY <1>14, <1>18, <1>26, <1>27, <1>28 DEF Exchanged
<1> QED
  BY <1>13, <1>24, <1>25, <1>26, <1>29, ExchangeKeeps DEF JoinReady

(* A frame in a stack after the step was at that place before it, or is new
   and nowhere else. *)
LEMMA StacksOwnKept ==
  ASSUME NetInv,
         \A u \in Ids : StackOf(u)' # <<>> <=> u \in Live',
         \A u \in Ids : \A i \in DOMAIN StackOf(u)' :
           /\ frames'[StackOf(u)'[i]] # NoFrame
           /\ i > 1 => frames'[StackOf(u)'[i]].ret.pc # 0
           /\ \/ i \in DOMAIN StackOf(u) /\ StackOf(u)'[i] = StackOf(u)[i]
              \/ frames[StackOf(u)'[i]] = NoFrame,
         \A u, v \in Ids : \A i \in DOMAIN StackOf(u)', j \in DOMAIN StackOf(v)' :
           frames[StackOf(u)'[i]] = NoFrame /\ StackOf(u)'[i] = StackOf(v)'[j] => u = v /\ i = j
  PROVE  StacksOwn'
<1>1. ASSUME NEW u \in Ids, NEW v \in Ids, NEW i \in DOMAIN StackOf(u)', NEW j \in DOMAIN StackOf(v)',
             StackOf(u)'[i] = StackOf(v)'[j]
      PROVE  u = v /\ i = j
  <2>1. CASE frames[StackOf(u)'[i]] = NoFrame
    BY <1>1, <2>1
  <2>2. CASE frames[StackOf(u)'[i]] # NoFrame
    <3>1. i \in DOMAIN StackOf(u) /\ StackOf(u)'[i] = StackOf(u)[i]
      BY <2>2
    <3>2. j \in DOMAIN StackOf(v) /\ StackOf(v)'[j] = StackOf(v)[j]
      BY <1>1, <2>2
    <3>3. StackOf(u)[i] = StackOf(v)[j]
      BY <1>1, <3>1, <3>2
    <3>4. StacksOwn
      BY DEF NetInv
    <3> QED
      BY <3>1, <3>2, <3>3, <3>4 DEF StacksOwn
  <2> QED
    BY <2>1, <2>2
<1> QED
  BY <1>1 DEF StacksOwn

-----------------------------------------------------------------------------
(* Calls and returns *)

(* Arguments in their declared domains give locals of the universe. *)
LEMMA BindTyped ==
  ASSUME NEW f \in Functions, NEW vals,
         \A i \in DOMAIN vals : i <= Len(Params[f]) => vals[i] \in SlotType[f][Params[f][i]],
         \A i \in DOMAIN vals : i \in Nat \ {0}
  PROVE  Bind(f, vals) \in [Locals -> Values]
<1>1. ASSUME NEW i \in DOMAIN vals, i <= Len(Params[f])
      PROVE  vals[i] \in Values
  <2>1. Params[f] \in Seq(Locals)
    BY FunctionsAssumption
  <2>2. Params[f][i] \in Locals
    BY <1>1, <2>1
  <2> QED
    BY <1>1, <2>2, DeclarationsAssumption
<1>2. \A x \in Locals : SlotInit[f][x] \in Values
  BY DeclarationsAssumption
<1>3. ASSUME NEW x \in Locals
      PROVE  Bind(f, vals)[x] \in Values
  <2> DEFINE P(i) == i <= Len(Params[f]) /\ Params[f][i] = x
  <2>1. Bind(f, vals)[x] = IF \E i \in DOMAIN vals : P(i)
                           THEN vals[CHOOSE i \in DOMAIN vals : P(i)] ELSE SlotInit[f][x]
    BY DEF Bind
  <2>2. CASE \E i \in DOMAIN vals : P(i)
    <3>1. PICK i : i = CHOOSE j \in DOMAIN vals : P(j)
      OBVIOUS
    <3>2. i \in DOMAIN vals /\ P(i)
      BY <2>2, <3>1
    <3> QED
      BY <1>1, <2>1, <2>2, <3>1, <3>2
  <2>3. CASE ~\E i \in DOMAIN vals : P(i)
    BY <1>2, <2>1, <2>3
  <2> QED
    BY <2>2, <2>3
<1> QED
  BY <1>3 DEF Bind

(* The frame a function starts with *)
LEMMA NewFrameTyped ==
  ASSUME NEW f \in Functions, NEW locals \in [Locals -> Values],
         NEW ret \in [pc : Nat, dst : Destinations]
  PROVE  /\ NewFrame(f, locals, ret) \in FrameState /\ NewFrame(f, locals, ret) # NoFrame
         /\ NewFrame(f, locals, ret).fn = f /\ NewFrame(f, locals, ret).pc = 1
         /\ NewFrame(f, locals, ret).ret = ret
<1> DEFINE nf == NewFrame(f, locals, ret)
<1>1. nf \in FrameState /\ nf.fn = f /\ nf.pc = 1 /\ nf.ret = ret
  BY DEF NewFrame, FrameState
<1> QED
  BY <1>1, NetAssumption

(* A call pushes a new frame; the token enters the function with it. *)
LEMMA CallKeeps ==
  ASSUME NetInv, NEW k \in marking, Call(k)
  PROVE  NetInv'
<1> DEFINE o    == Statement(k)
           vals == [i \in DOMAIN o.args |-> Value(k, o.args[i])]
           ret  == [pc |-> frames[k.frame].pc + 1, dst |-> o.dst]
           g    == alloc.frame
           out  == ControlToken(k.thread, g, o.f, 1)
           nf   == NewFrame(o.f, Bind(o.f, vals), ret)
           t    == k.thread
           x    == threads[t]
           ns   == Append(x.stack, g)
           y    == [x EXCEPT !.stack = ns]
<1>1. /\ k.at[1] = "control" /\ o.f \in Functions /\ o.args \in Seq(Exprs) /\ o.dst \in Destinations
  BY Enabled, OpFields DEF Call
<1>2. /\ t \in Ids /\ t \in Live /\ x \in ThreadState /\ x # NoThread
      /\ StackOf(t) = x.stack /\ x.stack \in Seq(Ids) /\ x.stack # <<>>
      /\ frames[k.frame] \in FrameState /\ k.frame \in Ids
  BY TokenFrame
<1>3. /\ g \in Ids /\ frames[g] = NoFrame /\ g \in Nat \ {0}
  <2>1. g \in Ids /\ alloc.frame \in Nat \ {0}
    BY DEF Call, NetInv, NetTypes
  <2> QED
    BY <2>1 DEF NetInv, Unborn
<1>4. nf \in FrameState /\ nf # NoFrame /\ nf.fn = o.f /\ nf.pc = 1 /\ nf.ret = ret
  <2>1. \A i \in DOMAIN vals : i <= Len(Params[o.f]) => vals[i] \in SlotType[o.f][Params[o.f][i]]
    BY DEF Call
  <2>2. \A i \in DOMAIN vals : i \in Nat \ {0}
    BY <1>1
  <2> HIDE DEF vals
  <2>3. Bind(o.f, vals) \in [Locals -> Values]
    BY <1>1, <2>1, <2>2, BindTyped
  <2>4. ret \in [pc : Nat, dst : Destinations]
    BY <1>1, <1>2 DEF FrameState
  <2> HIDE DEF ret, o
  <2> QED
    BY <1>1, <2>3, <2>4, NewFrameTyped DEF o
<1>5. ret.pc # 0
  BY <1>2 DEF FrameState
<1>6. /\ frames' = [frames EXCEPT ![g] = nf]
      /\ marking' = (marking \ {k}) \union {out}
      /\ threads' = [threads EXCEPT ![t] = y]
      /\ alloc' = [alloc EXCEPT !.frame = g + 1]
      /\ UNCHANGED <<prog, data, buf, scopes, finished>>
  BY <1>2 DEF Call, FrameOfToken, dataVars, NetInv, NetTypes, ThreadStore
<1>7. /\ out.at = <<"control", o.f, 1>> /\ out.thread = t /\ out.frame = g
  BY DEF ControlToken, Control
<1>8. out.at \in StatementPlace /\ out \in Tokens
  <2>1. out = [at |-> <<"control", o.f, 1>>, thread |-> t, frame |-> g]
    BY DEF ControlToken, Control
  <2>2. <<"control", o.f, 1>> \in StatementPlace
    BY <1>1 DEF StatementPlace
  <2> HIDE DEF out, o, t, g
  <2> QED
    BY <1>2, <1>3, <2>1, <2>2 DEF Tokens
<1>9. /\ ns \in Seq(Ids) /\ Len(ns) = Len(x.stack) + 1 /\ ns[Len(x.stack) + 1] = g
      /\ \A i \in DOMAIN x.stack : i \in DOMAIN ns /\ ns[i] = x.stack[i]
      /\ \A i \in DOMAIN ns : i \in DOMAIN x.stack \/ i = Len(x.stack) + 1
      /\ Len(x.stack) \in Nat /\ Len(x.stack) + 1 \notin DOMAIN x.stack
  BY <1>2, <1>3
<1> HIDE DEF ns, nf, out, g
<1>10. /\ y \in ThreadState /\ y.stack = ns /\ y.parent = x.parent /\ y.blocked = x.blocked
       /\ y # NoThread
  <2>1. y \in ThreadState /\ y.stack = ns /\ y.parent = x.parent /\ y.blocked = x.blocked
    <3> HIDE DEF x
    <3> QED
      BY <1>2, <1>9 DEF ThreadState
  <2> QED
    BY <2>1, NetAssumption
<1> HIDE DEF y, t, ret
<1>11. frames \in FrameStore /\ threads \in ThreadStore
  BY DEF NetInv, NetTypes
<1>12. /\ frames' \in FrameStore /\ frames'[g] = nf
       /\ \A f \in Ids : f # g => frames'[f] = frames[f]
  BY <1>3, <1>4, <1>6, <1>11 DEF FrameStore
<1>13. /\ threads' \in ThreadStore /\ threads'[t] = y
       /\ \A u \in Ids : u # t => threads'[u] = threads[u]
       /\ \A u \in Ids : threads'[u] = NoThread <=> threads[u] = NoThread
  BY <1>2, <1>6, <1>10, <1>11 DEF ThreadStore, x
<1>14. \A u \in Ids : u \in Live' <=> u \in Live
  BY <1>6, <1>13 DEF Live
<1>15. /\ StackOf(t)' = ns
       /\ \A u \in Ids : u # t => StackOf(u)' = StackOf(u)
  BY <1>2, <1>10, <1>13 DEF StackOf
<1>16. TopOf(t)' = g /\ \A u \in Ids : u # t => TopOf(u)' = TopOf(u)
  BY <1>9, <1>15 DEF TopOf
<1>17. NetTypes'
  <2>1. marking' \subseteq Tokens
    BY <1>6, <1>8 DEF NetInv, NetTypes
  <2>2. alloc' \in [thread : Nat \ {0}, frame : Nat \ {0}, scope : Nat \ {0}, handle : Nat \ {0}]
    <3>1. alloc \in [thread : Nat \ {0}, frame : Nat \ {0}, scope : Nat \ {0}, handle : Nat \ {0}]
      BY DEF NetInv, NetTypes
    <3>2. g + 1 \in Nat \ {0} /\ alloc' = [alloc EXCEPT !.frame = g + 1]
      BY <1>3, <1>6
    <3> QED
      BY <3>1, <3>2
  <2>3. finished' \subseteq {u \in Ids : threads'[u] # NoThread}
    BY <1>6, <1>13 DEF NetInv, NetTypes
  <2>4. UNCHANGED <<prog, data, buf, scopes>>
    BY <1>6
  <2> QED
    BY <1>12, <1>13, <2>1, <2>2, <2>3, <2>4 DEF NetInv, NetTypes
<1>18. StacksOwn'
  <2>1. \A u \in Ids : StackOf(u)' # <<>> <=> u \in Live'
    BY <1>2, <1>9, <1>14, <1>15 DEF NetInv, StacksOwn
  <2>2. ASSUME NEW u \in Ids, NEW i \in DOMAIN StackOf(u)'
        PROVE  IF u = t /\ i = Len(x.stack) + 1 THEN StackOf(u)'[i] = g
               ELSE /\ i \in DOMAIN StackOf(u) /\ StackOf(u)'[i] = StackOf(u)[i]
                    /\ StackOf(u)[i] # g /\ StackOf(u)[i] \in Ids
    <3>1. \A j \in DOMAIN StackOf(u) : StackOf(u)[j] \in Ids /\ StackOf(u)[j] # g
      BY <1>3, StackFrames DEF NetInv, StacksOwn
    <3> QED
      BY <1>2, <1>9, <1>15, <3>1
  <2>3. \A u \in Ids : \A i \in DOMAIN StackOf(u)' :
          /\ frames'[StackOf(u)'[i]] # NoFrame
          /\ i > 1 => frames'[StackOf(u)'[i]].ret.pc # 0
          /\ \/ i \in DOMAIN StackOf(u) /\ StackOf(u)'[i] = StackOf(u)[i]
             \/ frames[StackOf(u)'[i]] = NoFrame
    <3> SUFFICES ASSUME NEW u \in Ids, NEW i \in DOMAIN StackOf(u)'
                 PROVE  /\ frames'[StackOf(u)'[i]] # NoFrame
                        /\ i > 1 => frames'[StackOf(u)'[i]].ret.pc # 0
                        /\ \/ i \in DOMAIN StackOf(u) /\ StackOf(u)'[i] = StackOf(u)[i]
                           \/ frames[StackOf(u)'[i]] = NoFrame
      OBVIOUS
    <3>1. CASE StackOf(u)'[i] = g
      BY <1>3, <1>4, <1>5, <1>12, <3>1
    <3>2. CASE StackOf(u)'[i] # g
      BY <1>12, <2>2, <3>2 DEF NetInv, StacksOwn
    <3> QED
      BY <3>1, <3>2
  <2>4. \A u, v \in Ids : \A i \in DOMAIN StackOf(u)', j \in DOMAIN StackOf(v)' :
          frames[StackOf(u)'[i]] = NoFrame /\ StackOf(u)'[i] = StackOf(v)'[j] => u = v /\ i = j
    <3>1. \A u \in Ids : \A i \in DOMAIN StackOf(u)' : frames[StackOf(u)'[i]] = NoFrame =>
            u = t /\ i = Len(x.stack) + 1
      BY <2>2 DEF NetInv, StacksOwn
    <3> QED
      BY <3>1
  <2> QED
    BY <2>1, <2>3, <2>4, StacksOwnKept
<1>19. Unborn'
  <2>1. alloc'.frame = g + 1 /\ alloc'.thread = alloc.thread /\ alloc'.scope = alloc.scope
    BY <1>6 DEF NetInv, NetTypes
  <2>2. g = alloc.frame /\ Ids \subseteq Nat
    BY DEF g, Ids
  <2>3. \A f \in Ids : f >= alloc'.frame => frames'[f] = NoFrame
    <3> SUFFICES ASSUME NEW f \in Ids, f >= g + 1
                 PROVE  frames'[f] = NoFrame
      BY <2>1
    <3>1. f # g /\ f >= g
      BY <1>3, <2>2
    <3> QED
      BY <1>12, <2>2, <3>1 DEF NetInv, Unborn
  <2>4. scopes' = scopes
    BY <1>6
  <2> QED
    BY <1>13, <2>1, <2>3, <2>4 DEF NetInv, Unborn
<1>20. MembersAwaited'
  <2>1. \A u \in Live' : u \in Live /\ u \in Ids
    BY <1>14 DEF Live
  <2>2. \A u \in Ids : u \in Live => threads'[u].parent = threads[u].parent
    BY <1>10, <1>13 DEF x
  <2>3. scopes' = scopes
    BY <1>6
  <2> QED
    BY <2>1, <2>2, <2>3 DEF NetInv, MembersAwaited
<1>21. OneToken'
  <2>12. PICK n : n = out
    OBVIOUS
  <2> DEFINE ws == {k}
             new == {n}
  <2>1. ASSUME NEW l \in marking \ ws
        PROVE  Untouched(l) /\ l.thread # t
    <3>1. l.thread # t /\ l.thread \in Live /\ l.thread \in Ids /\ l.frame \in Ids
      BY OtherTokens, TokenFrame DEF t
    <3>2. l.frame # g
      BY <1>3, TokenFrame
    <3> QED
      BY <1>12, <1>13, <1>14, <1>16, <3>1, <3>2 DEF Untouched, Undisturbed
  <2>2. Arrived(n)
    <3>1. threads'[t].blocked = Nothing
      BY <1>1, <1>10, <1>13, ControlStands DEF x, t
    <3>2. t \in Live'
      BY <1>2, <1>14
    <3>3. n.at[1] = "control" /\ n.at[2] = o.f /\ n.at[3] = 1
      BY <1>7, <2>12
    <3>4. n.thread = t /\ n.frame = g /\ n.at \in StatementPlace
      BY <1>7, <1>8, <2>12
    <3>5. frames'[g].fn = o.f /\ frames'[g].pc = 1
      BY <1>4, <1>12
    <3> HIDE DEF o
    <3> QED
      BY <1>16, <3>1, <3>2, <3>3, <3>4, <3>5 DEF Arrived, Settled
  <2>3. \A u \in Live' : \/ \E l \in new : l.thread = u
                         \/ \E l \in marking \ ws : l.thread = u
    <3> SUFFICES ASSUME NEW u \in Live', u # t
                 PROVE  \E l \in marking \ ws : l.thread = u
      BY <1>7, <2>12
    <3>1. u \in Live
      BY <1>14 DEF Live
    <3>2. PICK l \in marking : l.thread = u
      BY <3>1 DEF NetInv, OneToken
    <3>3. l # k
      BY <3>2 DEF t
    <3> QED
      BY <3>2, <3>3
  <2>4. marking' = (marking \ ws) \union new /\ prog' = prog
    BY <1>6, <2>12
  <2>5. \A l \in new : l = n
    OBVIOUS
  <2>6. n.thread = t
    BY <1>7, <2>12
  <2> HIDE DEF ws, new
  <2>7. \A l \in marking \ ws : Untouched(l)
    BY <2>1
  <2>8. \A l \in new : Arrived(l)
    BY <2>2, <2>5
  <2>9. \A l, m \in new : l.thread = m.thread => l = m
    BY <2>5
  <2>10. \A l \in new, m \in marking \ ws : l.thread # m.thread
    BY <2>1, <2>5, <2>6
  <2>11. Retold(ws, new)
    BY <2>3, <2>4, <2>7, <2>8, <2>9, <2>10 DEF Retold
  <2> QED
    BY <2>4, <2>11, OneTokenKept
<1> QED
  BY <1>17, <1>18, <1>19, <1>20, <1>21 DEF NetInv

(* A frame that is not the last of its stack. *)
LEMMA CallerApart ==
  ASSUME NetInv, NEW t \in Ids, Len(StackOf(t)) > 1
  PROVE  LET n == Len(StackOf(t))  f == StackOf(t)[n - 1]  IN
         /\ n \in DOMAIN StackOf(t) /\ n - 1 \in DOMAIN StackOf(t) /\ n \in Nat
         /\ f \in Ids /\ f # TopOf(t) /\ frames[f] \in FrameState
         /\ frames[TopOf(t)].ret.pc # 0
<1> DEFINE st == StackOf(t)
           n == Len(st)
<1>1. st \in Seq(Ids)
  BY StackFrames
<1>2. n \in DOMAIN st /\ n - 1 \in DOMAIN st /\ n \in Nat /\ n # n - 1 /\ n > 1
  <2> HIDE DEF st
  <2> QED
    BY <1>1 DEF st
<1>3. st[n - 1] \in Ids /\ frames[st[n - 1]] \in FrameState
  BY <1>2, StackFrames
<1>4. st[n - 1] # st[n] /\ frames[st[n]].ret.pc # 0
  BY <1>2 DEF NetInv, StacksOwn
<1> QED
  BY <1>2, <1>3, <1>4 DEF TopOf

(* A return gives the frame up; the token goes back to the caller. *)
LEMMA ReturnInnerKeeps ==
  ASSUME NetInv, NEW k \in marking, ReturnInner(k)
  PROVE  NetInv'
<1> DEFINE t      == k.thread
           x      == threads[t]
           st     == x.stack
           n      == Len(st)
           caller == st[n - 1]
           ret    == frames[k.frame].ret
           out    == ControlToken(t, caller, frames[caller].fn, ret.pc)
           ns     == SubSeq(st, 1, n - 1)
           y      == [x EXCEPT !.stack = ns]
           ks     == {out}
<1>1. /\ t \in Ids /\ t \in Live /\ x \in ThreadState /\ x # NoThread
      /\ StackOf(t) = st /\ st \in Seq(Ids) /\ st # <<>>
      /\ frames[k.frame] \in FrameState /\ k.frame \in Ids /\ k.frame = TopOf(t)
  BY TokenFrame
<1>2. /\ n \in DOMAIN st /\ n - 1 \in DOMAIN st /\ n \in Nat /\ n > 1
      /\ caller \in Ids /\ caller # k.frame /\ frames[caller] \in FrameState
      /\ ret.pc # 0 /\ k.at[1] = "control"
  BY <1>1, CallerApart DEF ReturnInner
<1>3. ret.pc \in Nat \ {0} /\ frames[caller].fn \in Functions
  BY <1>1, <1>2 DEF FrameState
<1>4. PICK v \in Values \union {NoValue} :
        /\ v # NoValue => Accepts(caller, ret.dst, v)
        /\ frames' = [Placed(IF v = NoValue THEN frames
                             ELSE Put(frames, caller, ret.dst, v), {out})
                        EXCEPT ![k.frame] = NoFrame]
        /\ data' = IF v = NoValue THEN data ELSE PutData(ret.dst, v)
  BY DEF ReturnInner, FrameOfToken
<1> DEFINE frs == IF v = NoValue THEN frames ELSE Put(frames, caller, ret.dst, v)
<1>5. /\ frames' = [Placed(frs, ks) EXCEPT ![k.frame] = NoFrame]
      /\ marking' = (marking \ {k}) \union {out}
      /\ threads' = [threads EXCEPT ![t] = y]
      /\ UNCHANGED <<prog, buf, scopes, finished, alloc>>
  BY <1>1, <1>4 DEF ReturnInner, FrameOfToken, NetInv, NetTypes, ThreadStore
<1>6. frames[caller] # NoFrame /\ frames[k.frame] # NoFrame
  BY <1>2, TokenFrame, NetAssumption
<1>7. frs \in FrameStore /\ StandAlike(frs)
  <2>1. CASE v = NoValue
    BY <2>1, FramesAlike
  <2>2. CASE v # NoValue
    <3>1. v \in Values
      BY <2>2
    <3>2. Put(frames, caller, ret.dst, v) \in FrameStore
          /\ StandAlike(Put(frames, caller, ret.dst, v))
      BY <1>2, <1>6, <3>1, PutAlike
    <3> QED
      BY <2>2, <3>2
  <2> QED
    BY <2>1, <2>2
<1>8. data' \in [Shared -> Values]
  <2>1. CASE v = NoValue
    BY <1>4, <2>1 DEF NetInv, NetTypes
  <2>2. CASE v # NoValue
    BY <1>4, <2>2, PutDataTyped
  <2> QED
    BY <2>1, <2>2
<1>9. /\ out = [at |-> <<"control", frames[caller].fn, ret.pc>>, thread |-> t, frame |-> caller]
      /\ out.at = <<"control", frames[caller].fn, ret.pc>> /\ out.thread = t /\ out.frame = caller
      /\ out.at[1] = "control" /\ out.at[2] = frames[caller].fn /\ out.at[3] = ret.pc
  BY DEF ControlToken, Control
<1>10. out.at \in StatementPlace /\ out \in Tokens
  <2>1. <<"control", frames[caller].fn, ret.pc>> \in StatementPlace
    BY <1>3 DEF StatementPlace
  <2> HIDE DEF out, caller, ret, t
  <2> QED
    BY <1>1, <1>2, <1>9, <2>1 DEF Tokens
<1>11. /\ ns \in Seq(Ids) /\ ns # <<>> /\ DOMAIN ns = 1..(n - 1) /\ Len(ns) = n - 1
       /\ \A i \in DOMAIN ns : i \in DOMAIN st /\ ns[i] = st[i] /\ i # n
       /\ ns[n - 1] = caller
  <2> HIDE DEF st
  <2>1. ns \in Seq(Ids) /\ Len(ns) = n - 1 /\ DOMAIN ns = 1..(n - 1)
    BY <1>1, <1>2
  <2>2. \A i \in 1..(n - 1) : ns[i] = st[i] /\ i \in DOMAIN st /\ i # n
    BY <1>1, <1>2
  <2>3. n - 1 \in 1..(n - 1)
    BY <1>2
  <2> HIDE DEF ns, n
  <2> QED
    BY <2>1, <2>2, <2>3
<1> HIDE DEF ns, frs, out
<1>12. /\ y \in ThreadState /\ y.stack = ns /\ y.parent = x.parent /\ y.blocked = x.blocked
       /\ y # NoThread
  <2>1. y \in ThreadState /\ y.stack = ns /\ y.parent = x.parent /\ y.blocked = x.blocked
    <3> HIDE DEF x
    <3> QED
      BY <1>1, <1>11 DEF ThreadState
  <2> QED
    BY <2>1, NetAssumption
<1> HIDE DEF y, t, ret, caller, n, st
<1>13. /\ \A l \in ks : l.frame \in Ids /\ frames[l.frame] # NoFrame /\ l.at[3] \in Nat \ {0}
       /\ \A l, m \in ks : l.frame = m.frame => l.at[3] = m.at[3]
       /\ \A f \in Ids : f # caller => \A l \in ks : l.frame # f
       /\ out \in ks
  BY <1>2, <1>3, <1>6, <1>9
<1> HIDE DEF ks
<1> DEFINE w == Placed(frs, ks)
<1>14. /\ w \in FrameStore
       /\ \A f \in Ids : /\ w[f] = NoFrame <=> frames[f] = NoFrame
                         /\ frames[f] # NoFrame => w[f].fn = frames[f].fn /\ w[f].ret = frames[f].ret
                         /\ frames[f] # NoFrame /\ f # caller => w[f].pc = frames[f].pc
       /\ w[caller].pc = ret.pc
  BY <1>7, <1>9, <1>13, PlacedStand
<1> HIDE DEF w
<1>15. /\ frames' \in FrameStore /\ frames'[k.frame] = NoFrame
       /\ \A f \in Ids : f # k.frame => frames'[f] = w[f]
  BY <1>1, <1>5, <1>14 DEF FrameStore, w
<1>16. threads \in ThreadStore
  BY DEF NetInv, NetTypes
<1>17. /\ threads' \in ThreadStore /\ threads'[t] = y
       /\ \A u \in Ids : u # t => threads'[u] = threads[u]
       /\ \A u \in Ids : threads'[u] = NoThread <=> threads[u] = NoThread
  BY <1>1, <1>5, <1>12, <1>16 DEF ThreadStore, x
<1>18. \A u \in Ids : u \in Live' <=> u \in Live
  BY <1>5, <1>17 DEF Live
<1>19. /\ StackOf(t)' = ns
       /\ \A u \in Ids : u # t => StackOf(u)' = StackOf(u)
  BY <1>1, <1>12, <1>17 DEF StackOf
<1>20. TopOf(t)' = caller /\ \A u \in Ids : u # t => TopOf(u)' = TopOf(u)
  BY <1>11, <1>19 DEF TopOf
<1>21. NetTypes'
  <2>1. marking' \subseteq Tokens
    BY <1>5, <1>10 DEF NetInv, NetTypes
  <2>2. finished' \subseteq {u \in Ids : threads'[u] # NoThread}
    BY <1>5, <1>17 DEF NetInv, NetTypes
  <2>3. UNCHANGED <<prog, buf, scopes, alloc>>
    BY <1>5
  <2> QED
    BY <1>8, <1>15, <1>17, <2>1, <2>2, <2>3 DEF NetInv, NetTypes
<1>22. StacksOwn'
  <2>1. \A u \in Ids : StackOf(u)' # <<>> <=> u \in Live'
    BY <1>1, <1>11, <1>18, <1>19 DEF NetInv, StacksOwn
  <2>2. ASSUME NEW u \in Ids, NEW i \in DOMAIN StackOf(u)'
        PROVE  /\ i \in DOMAIN StackOf(u) /\ StackOf(u)'[i] = StackOf(u)[i]
               /\ StackOf(u)[i] # k.frame /\ StackOf(u)[i] \in Ids
    <3>1. i \in DOMAIN StackOf(u) /\ StackOf(u)'[i] = StackOf(u)[i] /\ (u = t => i # n)
      BY <1>1, <1>11, <1>19
    <3>2. k.frame = StackOf(t)[n]
      BY <1>1 DEF TopOf, n
    <3>3. StackOf(u)[i] # k.frame
      BY <1>1, <1>2, <3>1, <3>2 DEF NetInv, StacksOwn
    <3> QED
      BY <3>1, <3>3, StackFrames
  <2>3. \A u \in Ids : \A i \in DOMAIN StackOf(u)' :
          /\ frames'[StackOf(u)'[i]] # NoFrame
          /\ i > 1 => frames'[StackOf(u)'[i]].ret.pc # 0
          /\ \/ i \in DOMAIN StackOf(u) /\ StackOf(u)'[i] = StackOf(u)[i]
             \/ frames[StackOf(u)'[i]] = NoFrame
    <3> SUFFICES ASSUME NEW u \in Ids, NEW i \in DOMAIN StackOf(u)'
                 PROVE  /\ frames'[StackOf(u)'[i]] # NoFrame
                        /\ i > 1 => frames'[StackOf(u)'[i]].ret.pc # 0
                        /\ i \in DOMAIN StackOf(u) /\ StackOf(u)'[i] = StackOf(u)[i]
      OBVIOUS
    <3>1. frames[StackOf(u)[i]] # NoFrame /\ (i > 1 => frames[StackOf(u)[i]].ret.pc # 0)
      BY <2>2 DEF NetInv, StacksOwn
    <3> QED
      BY <1>14, <1>15, <2>2, <3>1
  <2>4. \A u \in Ids : \A i \in DOMAIN StackOf(u)' : frames[StackOf(u)'[i]] # NoFrame
    BY <2>2 DEF NetInv, StacksOwn
  <2> QED
    BY <2>1, <2>3, <2>4, StacksOwnKept
<1>23. Unborn'
  <2>1. \A f \in Ids : frames[f] = NoFrame => frames'[f] = NoFrame
    BY <1>14, <1>15
  <2>2. scopes' = scopes /\ alloc' = alloc
    BY <1>5
  <2> QED
    BY <1>17, <2>1, <2>2 DEF NetInv, Unborn
<1>24. MembersAwaited'
  <2>1. \A u \in Live' : u \in Live /\ u \in Ids
    BY <1>18 DEF Live
  <2>2. \A u \in Ids : u \in Live => threads'[u].parent = threads[u].parent
    BY <1>12, <1>17 DEF x
  <2>3. scopes' = scopes
    BY <1>5
  <2> QED
    BY <2>1, <2>2, <2>3 DEF NetInv, MembersAwaited
<1>25. OneToken'
  <2>1. PICK l : l = out
    OBVIOUS
  <2> DEFINE ws == {k}
             new == {l}
  <2>2. ASSUME NEW m \in marking \ ws
        PROVE  Untouched(m) /\ m.thread # t
    <3>1. m.thread # t /\ m.thread \in Live /\ m.thread \in Ids /\ m.frame \in Ids
          /\ m.frame # k.frame /\ frames[m.frame] # NoFrame
      BY OtherTokens, TokenFrame DEF t
    <3>2. m.frame # caller
      <4>1. m.frame = TopOf(m.thread) /\ Len(StackOf(m.thread)) \in DOMAIN StackOf(m.thread)
        BY TokenFrame
      <4>2. caller = StackOf(t)[n - 1] /\ n - 1 \in DOMAIN StackOf(t)
        BY <1>1, <1>2 DEF caller
      <4> QED
        BY <1>1, <3>1, <4>1, <4>2 DEF NetInv, StacksOwn, TopOf
    <3> QED
      BY <1>14, <1>15, <1>17, <1>18, <1>20, <3>1, <3>2 DEF Untouched, Undisturbed
  <2>3. Arrived(l)
    <3>1. threads'[t].blocked = Nothing
      BY <1>2, <1>12, <1>17, ControlStands DEF x, t
    <3>2. t \in Live'
      BY <1>1, <1>18
    <3>3. frames'[caller].fn = frames[caller].fn /\ frames'[caller].pc = ret.pc
      BY <1>2, <1>6, <1>14, <1>15
    <3> QED
      BY <1>9, <1>10, <1>20, <2>1, <3>1, <3>2, <3>3 DEF Arrived, Settled
  <2>4. \A u \in Live' : u # t => \E m \in marking \ ws : m.thread = u
    <3> SUFFICES ASSUME NEW u \in Live', u # t
                 PROVE  \E m \in marking \ ws : m.thread = u
      OBVIOUS
    <3>1. u \in Live
      BY <1>18 DEF Live
    <3>2. PICK m \in marking : m.thread = u
      BY <3>1 DEF NetInv, OneToken
    <3>3. m # k
      BY <3>2 DEF t
    <3> QED
      BY <3>2, <3>3
  <2>5. marking' = (marking \ ws) \union new /\ prog' = prog
    BY <1>5, <2>1
  <2>6. l.thread = t /\ l \in new /\ \A m \in new : m = l
    BY <1>9, <2>1
  <2> HIDE DEF ws, new
  <2>7. Retold(ws, new)
    BY <2>2, <2>3, <2>4, <2>5, <2>6 DEF Retold
  <2> QED
    BY <2>5, <2>7, OneTokenKept
<1> QED
  BY <1>21, <1>22, <1>23, <1>24, <1>25 DEF NetInv

-----------------------------------------------------------------------------
(* finish_thread *)

(* A woken joiner's handle goes; its frame stands as it did. *)
LEMMA UnboundAlike ==
  ASSUME NEW frs \in FrameStore, NEW ks,
         \A k \in ks : k.frame \in Ids /\ frs[k.frame] # NoFrame
  PROVE  /\ Unbound(frs, ks) \in FrameStore
         /\ \A f \in Ids : /\ Unbound(frs, ks)[f] = NoFrame <=> frs[f] = NoFrame
                           /\ frs[f] # NoFrame => /\ Unbound(frs, ks)[f].fn = frs[f].fn
                                                  /\ Unbound(frs, ks)[f].pc = frs[f].pc
                                                  /\ Unbound(frs, ks)[f].ret = frs[f].ret
<1> DEFINE g == Unbound(frs, ks)
<1>1. \A f \in Ids : (\A k \in ks : k.frame # f) => g[f] = frs[f]
  BY DEF Unbound
<1>2. ASSUME NEW k \in ks
      PROVE  /\ g[k.frame] \in FrameState /\ g[k.frame].fn = frs[k.frame].fn
             /\ g[k.frame].pc = frs[k.frame].pc /\ g[k.frame].ret = frs[k.frame].ret
  <2> DEFINE f == k.frame
             l == CHOOSE l \in ks : l.frame = f
             x == frs[f]
             h == Statement(l).h
             hs == [x.handles EXCEPT ![h] = None]
             y == [x EXCEPT !.handles = hs]
  <2>1. f \in Ids /\ (\E j \in ks : j.frame = f) /\ x \in FrameState
    BY DEF FrameStore
  <2>2. g[f] = y
    BY <2>1 DEF Unbound
  <2>3. hs \in [HandleNames -> Ids \union {None}]
    <3> HIDE DEF x, h
    <3> QED
      BY <2>1 DEF FrameState
  <2> HIDE DEF hs, x
  <2>4. y \in FrameState /\ y.fn = x.fn /\ y.pc = x.pc /\ y.ret = x.ret
    BY <2>1, <2>3 DEF FrameState
  <2> HIDE DEF y
  <2> QED
    BY <2>2, <2>4 DEF x
<1>3. g = [f \in Ids |-> g[f]]
  BY DEF Unbound
<1> HIDE DEF g
<1>4. \A f \in Ids : g[f] \in FrameState \union {NoFrame}
  <2> SUFFICES ASSUME NEW f \in Ids
               PROVE  g[f] \in FrameState \union {NoFrame}
    OBVIOUS
  <2>1. CASE \A k \in ks : k.frame # f
    BY <1>1, <2>1 DEF FrameStore
  <2>2. CASE \E k \in ks : k.frame = f
    BY <1>2, <2>2
  <2> QED
    BY <2>1, <2>2
<1>5. g \in FrameStore
  BY <1>3, <1>4 DEF FrameStore
<1>6. ASSUME NEW f \in Ids
      PROVE  /\ g[f] = NoFrame <=> frs[f] = NoFrame
             /\ frs[f] # NoFrame => g[f].fn = frs[f].fn /\ g[f].pc = frs[f].pc /\ g[f].ret = frs[f].ret
  <2>1. CASE \A k \in ks : k.frame # f
    BY <1>1, <2>1
  <2>2. CASE \E k \in ks : k.frame = f
    BY <1>2, <2>2, NetAssumption
  <2> QED
    BY <2>1, <2>2
<1> QED
  BY <1>5, <1>6 DEF g

(* The threads of g are those of h, but for `blocked` and `children`. *)
ThreadsAlike(g, h) ==
  /\ g \in ThreadStore
  /\ \A u \in Ids : /\ g[u] = NoThread <=> h[u] = NoThread
                    /\ h[u] # NoThread => g[u].stack = h[u].stack /\ g[u].parent = h[u].parent

(* Waking threads changes their `blocked` alone, whatever else was changed. *)
LEMMA UnblockedAlike ==
  ASSUME NEW ths \in ThreadStore, NEW ts \in SUBSET Ids, \A u \in ts : ths[u] # NoThread
  PROVE  /\ ThreadsAlike(Unblocked(ths, ts), ths)
         /\ \A u \in Ids : ths[u] # NoThread =>
              Unblocked(ths, ts)[u].blocked = IF u \in ts THEN Nothing ELSE ths[u].blocked
<1> DEFINE g == Unblocked(ths, ts)
<1>1. \A u \in Ids : u \notin ts => g[u] = ths[u]
  BY DEF Unblocked
<1>2. ASSUME NEW u \in ts
      PROVE  /\ g[u] \in ThreadState /\ g[u].stack = ths[u].stack /\ g[u].parent = ths[u].parent
             /\ g[u].blocked = Nothing
  <2> DEFINE x == ths[u]
             y == [x EXCEPT !.blocked = Nothing]
  <2>1. u \in Ids /\ x \in ThreadState
    BY DEF ThreadStore
  <2>2. g[u] = y
    BY <2>1 DEF Unblocked
  <2> HIDE DEF x
  <2>3. y \in ThreadState /\ y.stack = x.stack /\ y.parent = x.parent /\ y.blocked = Nothing
    BY <2>1 DEF ThreadState
  <2> HIDE DEF y
  <2> QED
    BY <2>2, <2>3 DEF x
<1>3. g = [u \in Ids |-> g[u]]
  BY DEF Unblocked
<1> HIDE DEF g
<1>4. \A u \in Ids : g[u] \in ThreadState \union {NoThread}
  BY <1>1, <1>2 DEF ThreadStore
<1>5. g \in ThreadStore
  BY <1>3, <1>4 DEF ThreadStore
<1> QED
  BY <1>1, <1>2, <1>5, NetAssumption DEF ThreadsAlike, g

(* Forgetting a reclaimed child changes the bindings alone. *)
LEMMA ChildlessAlike ==
  ASSUME NEW ths \in ThreadStore, NEW ks, \A k \in ks : k.thread \in Ids /\ ths[k.thread] # NoThread,
         NEW t
  PROVE  /\ ThreadsAlike(Childless(ths, ks, t), ths)
         /\ \A u \in Ids : ths[u] # NoThread => Childless(ths, ks, t)[u].blocked = ths[u].blocked
<1> DEFINE g == Childless(ths, ks, t)
<1>1. \A u \in Ids : (\A k \in ks : k.thread # u) => g[u] = ths[u]
  BY DEF Childless
<1>2. ASSUME NEW u \in Ids, \E k \in ks : k.thread = u
      PROVE  /\ g[u] \in ThreadState /\ g[u].stack = ths[u].stack /\ g[u].parent = ths[u].parent
             /\ g[u].blocked = ths[u].blocked
  <2> DEFINE x == ths[u]
             cs == [h \in Ids |-> IF x.children[h] = t THEN None ELSE x.children[h]]
             y == [x EXCEPT !.children = cs]
  <2>1. x \in ThreadState
    BY <1>2 DEF ThreadStore
  <2>2. g[u] = y
    BY <1>2 DEF Childless
  <2>3. cs \in [Ids -> Ids \union {None}]
    BY <2>1 DEF ThreadState
  <2> HIDE DEF x, cs
  <2>4. /\ y \in ThreadState /\ y.stack = x.stack /\ y.parent = x.parent /\ y.blocked = x.blocked
    BY <2>1, <2>3 DEF ThreadState
  <2> HIDE DEF y
  <2> QED
    BY <2>2, <2>4 DEF x
<1>3. g = [u \in Ids |-> g[u]]
  BY DEF Childless
<1> HIDE DEF g
<1>4. \A u \in Ids : g[u] \in ThreadState \union {NoThread}
  BY <1>1, <1>2 DEF ThreadStore
<1>5. g \in ThreadStore
  BY <1>3, <1>4 DEF ThreadStore
<1> QED
  BY <1>1, <1>2, <1>5, NetAssumption DEF ThreadsAlike, g

(* The tokens a finished thread wakes *)
WokenBy(k) ==
  (IF EmptiesScope(k.thread) THEN OwnerTokens(threads[k.thread].parent) ELSE {})
  \union Joiners(k.thread)

(* The tokens a finished thread wakes are other threads', and wait. *)
LEMMA WokenApart ==
  ASSUME NetInv, NEW k \in marking, k.at[1] = "control", NEW w \in WokenBy(k)
  PROVE  /\ w \in marking /\ w # k /\ w.at \in StatementPlace /\ w.thread # k.thread
         /\ w.frame # k.frame /\ w.thread \in Live /\ w.thread \in Ids /\ threads[w.thread] # NoThread
         /\ w.frame \in Ids /\ frames[w.frame] # NoFrame /\ frames[w.frame].pc + 1 \in Nat \ {0}
         /\ frames[w.frame].fn \in Functions
<1>1. w \in marking /\ w.at[1] \in {"join", "scope"}
  BY DEF WokenBy, OwnerTokens, OwnerPlace, ScopeWait, In, Joiners
<1>2. w # k
  BY <1>1
<1>3. w.at \in StatementPlace
  BY <1>1, TokenFrame, TokenFields
<1>4. w.thread # k.thread /\ w.frame # k.frame
  BY <1>1, <1>2, OtherTokens
<1>5. /\ w.thread \in Live /\ w.thread \in Ids /\ threads[w.thread] # NoThread
      /\ w.frame \in Ids /\ frames[w.frame] # NoFrame /\ frames[w.frame] \in FrameState
  BY <1>1, TokenFrame
<1>6. frames[w.frame].pc + 1 \in Nat \ {0} /\ frames[w.frame].fn \in Functions
  BY <1>5 DEF FrameState
<1> QED
  BY <1>1, <1>2, <1>3, <1>4, <1>5, <1>6

(* The threads a finished thread takes along *)
GoneWith(k) ==
  (IF EmptiesScope(k.thread) THEN Members(threads[k.thread].parent) ELSE {})
  \union (IF Joiners(k.thread) = {} THEN {} ELSE {k.thread})

(* The threads in them have finished: a live one would still be awaited. *)
LEMMA GoneFinished ==
  ASSUME NetInv, NEW k \in marking, NEW u \in Live, u # k.thread
  PROVE  u \notin GoneWith(k)
<1> DEFINE s == threads[k.thread].parent
<1>1. SUFFICES ASSUME EmptiesScope(k.thread), u \in Members(s)
               PROVE  FALSE
  BY DEF GoneWith
<1>2. threads[u].parent = s
  BY <1>1 DEF Members
<1>3. s # None /\ scopes[s].remaining \ {k.thread} = {}
  BY <1>1 DEF EmptiesScope
<1>4. u \in scopes[s].remaining
  BY <1>2, <1>3 DEF NetInv, MembersAwaited
<1> QED
  BY <1>3, <1>4

(* The woken fall through; the finished frame is freed. *)
LEMMA FinishFrames ==
  ASSUME NetInv, NEW k \in marking, ReturnFinal(k)
  PROVE  /\ frames' \in FrameStore /\ frames'[k.frame] = NoFrame
         /\ \A f \in Ids : f # k.frame =>
              /\ frames'[f] = NoFrame <=> frames[f] = NoFrame
              /\ frames[f] # NoFrame => /\ frames'[f].fn = frames[f].fn
                                        /\ frames'[f].ret = frames[f].ret
                                        /\ (\A w \in WokenBy(k) : w.frame # f) =>
                                             frames'[f].pc = frames[f].pc
         /\ \A w \in WokenBy(k) : frames'[w.frame].pc = frames[w.frame].pc + 1
<1> DEFINE out == {Falls(w) : w \in WokenBy(k)}
           js == Joiners(k.thread)
           p == Placed(frames, out)
           b == Unbound(p, js)
<1>1. k.at[1] = "control" /\ js \subseteq WokenBy(k)
  BY DEF ReturnFinal, WokenBy
<1>2. frames' = [b EXCEPT ![k.frame] = NoFrame]
  BY DEF ReturnFinal, WokenBy
<1>3. \A w \in WokenBy(k) : /\ Falls(w).frame = w.frame
                            /\ Falls(w).at[3] = frames[w.frame].pc + 1 /\ Falls(w) \in out
  BY <1>1, WokenApart, FallPlaced
<1>4. \A l \in out : \E w \in WokenBy(k) : l = Falls(w)
  OBVIOUS
<1> HIDE DEF out
<1>5. \A l \in out : l.frame \in Ids /\ frames[l.frame] # NoFrame /\ l.at[3] \in Nat \ {0}
  BY <1>1, <1>3, <1>4, WokenApart
<1>6. \A l, m \in out : l.frame = m.frame => l.at[3] = m.at[3]
  BY <1>3, <1>4
<1>7. \A f \in Ids : (\A w \in WokenBy(k) : w.frame # f) => \A l \in out : l.frame # f
  BY <1>3, <1>4
<1>8. /\ p \in FrameStore
      /\ \A f \in Ids : /\ p[f] = NoFrame <=> frames[f] = NoFrame
                        /\ frames[f] # NoFrame => p[f].fn = frames[f].fn /\ p[f].ret = frames[f].ret
                        /\ frames[f] # NoFrame /\ (\A l \in out : l.frame # f) =>
                             p[f].pc = frames[f].pc
      /\ \A l \in out : p[l.frame].pc = l.at[3]
  BY <1>5, <1>6, FramesAlike, PlacedStand
<1> HIDE DEF p
<1>9. /\ b \in FrameStore
      /\ \A f \in Ids : /\ b[f] = NoFrame <=> p[f] = NoFrame
                        /\ p[f] # NoFrame => b[f].fn = p[f].fn /\ b[f].pc = p[f].pc /\ b[f].ret = p[f].ret
  <2>1. \A j \in js : j.frame \in Ids /\ p[j.frame] # NoFrame
    BY <1>1, <1>8, WokenApart
  <2> HIDE DEF js
  <2> QED
    BY <1>8, <2>1, UnboundAlike
<1> HIDE DEF b
<1>10. k.frame \in Ids
  BY TokenFrame
<1>11. /\ frames' \in FrameStore /\ frames'[k.frame] = NoFrame
       /\ \A f \in Ids : f # k.frame => frames'[f] = b[f]
  BY <1>2, <1>9, <1>10 DEF FrameStore
<1>12. ASSUME NEW w \in WokenBy(k)
       PROVE  frames'[w.frame].pc = frames[w.frame].pc + 1
  BY <1>1, <1>3, <1>8, <1>9, <1>11, WokenApart
<1> QED
  BY <1>7, <1>8, <1>9, <1>11, <1>12

(* The woken are unblocked; the thread's stack is gone, and so are the members
   of the scope it empties and, once joined, the thread. *)
LEMMA FinishThreads ==
  ASSUME NetInv, NEW k \in marking, ReturnFinal(k)
  PROVE  /\ threads' \in ThreadStore
         /\ \A u \in Ids : threads'[u] = NoThread <=> threads[u] = NoThread \/ u \in GoneWith(k)
         /\ \A u \in Ids : threads'[u] # NoThread =>
              /\ threads'[u].stack = IF u = k.thread THEN <<>> ELSE threads[u].stack
              /\ threads'[u].parent = threads[u].parent
              /\ threads'[u].blocked = IF \E w \in WokenBy(k) : w.thread = u THEN Nothing
                                       ELSE threads[u].blocked
<1> DEFINE t == k.thread
           js == Joiners(t)
           ts == Threads(WokenBy(k))
           popped == [threads EXCEPT ![t].stack = <<>>]
           ub == Unblocked(popped, ts)
           left == Childless(ub, js, t)
<1>1. /\ k.at[1] = "control" /\ js \subseteq WokenBy(k) /\ t \in Ids
      /\ threads[t] \in ThreadState /\ threads[t] # NoThread
  BY TokenFrame DEF ReturnFinal, WokenBy
<1>2. threads' = [u \in Ids |-> IF u \in GoneWith(k) THEN NoThread ELSE left[u]]
  BY DEF ReturnFinal, WokenBy, GoneWith
<1>3. threads \in ThreadStore
  BY DEF NetInv, NetTypes
<1>4. /\ popped \in ThreadStore
      /\ \A u \in Ids : /\ popped[u] = NoThread <=> threads[u] = NoThread
                        /\ threads[u] # NoThread =>
                             /\ popped[u].stack = IF u = t THEN <<>> ELSE threads[u].stack
                             /\ popped[u].parent = threads[u].parent
                             /\ popped[u].blocked = threads[u].blocked
  <2> DEFINE x == threads[t]
             y == [x EXCEPT !.stack = <<>>]
  <2>1. y \in ThreadState /\ y.stack = <<>> /\ y.parent = x.parent /\ y.blocked = x.blocked
    <3>1. x \in ThreadState /\ <<>> \in Seq(Ids)
      BY <1>1
    <3> HIDE DEF x
    <3> QED
      BY <3>1 DEF ThreadState
  <2>2. popped = [threads EXCEPT ![t] = y]
    BY <1>1, <1>3 DEF ThreadStore
  <2> HIDE DEF y, popped
  <2> QED
    BY <1>1, <1>3, <2>1, <2>2, NetAssumption DEF ThreadStore
<1> HIDE DEF popped
<1>5. \A w \in WokenBy(k) : w.thread \in Ids /\ w.thread # t /\ threads[w.thread] # NoThread
  BY <1>1, WokenApart
<1>6. ts \in SUBSET Ids /\ \A u \in ts : popped[u] # NoThread
  BY <1>4, <1>5 DEF Threads
<1>7. \A u : u \in ts <=> \E w \in WokenBy(k) : w.thread = u
  BY DEF Threads
<1> HIDE DEF ts
<1>8. /\ ThreadsAlike(ub, popped)
      /\ \A u \in Ids : popped[u] # NoThread =>
           ub[u].blocked = IF u \in ts THEN Nothing ELSE popped[u].blocked
  BY <1>4, <1>6, UnblockedAlike
<1> HIDE DEF ub
<1>9. /\ ThreadsAlike(left, ub)
      /\ \A u \in Ids : ub[u] # NoThread => left[u].blocked = ub[u].blocked
  <2>1. ub \in ThreadStore
    BY <1>8 DEF ThreadsAlike
  <2>2. \A j \in js : j.thread \in Ids /\ ub[j.thread] # NoThread
    BY <1>1, <1>4, <1>5, <1>8 DEF ThreadsAlike
  <2> HIDE DEF js
  <2> QED
    BY <2>1, <2>2, ChildlessAlike
<1> HIDE DEF left
<1>10. left \in ThreadStore
  BY <1>9 DEF ThreadsAlike
<1>11. threads' \in ThreadStore
  BY <1>2, <1>10 DEF ThreadStore
<1>12. ASSUME NEW u \in Ids
       PROVE  /\ threads'[u] = NoThread <=> threads[u] = NoThread \/ u \in GoneWith(k)
              /\ threads'[u] # NoThread => threads'[u] = left[u] /\ popped[u] # NoThread
                                           /\ ub[u] # NoThread /\ threads[u] # NoThread
  BY <1>2, <1>4, <1>8, <1>9 DEF ThreadsAlike
<1>13. ASSUME NEW u \in Ids, threads'[u] # NoThread
       PROVE  /\ threads'[u].stack = IF u = k.thread THEN <<>> ELSE threads[u].stack
              /\ threads'[u].parent = threads[u].parent
              /\ threads'[u].blocked = IF \E w \in WokenBy(k) : w.thread = u THEN Nothing
                                       ELSE threads[u].blocked
  BY <1>4, <1>7, <1>8, <1>9, <1>12, <1>13 DEF ThreadsAlike
<1> QED
  BY <1>11, <1>12, <1>13

(* The scope no longer waits for the thread; it is gone if that was the last. *)
LEMMA FinishScopes ==
  ASSUME NetInv, NEW k \in marking, ReturnFinal(k)
  PROVE  /\ scopes' \in ScopeStore
         /\ \A x \in Ids : scopes[x] = NoScope => scopes'[x] = NoScope
         /\ \A u \in Live : u # k.thread /\ threads[u].parent # None =>
              /\ scopes'[threads[u].parent] # NoScope
              /\ u \in scopes'[threads[u].parent].remaining
<1> DEFINE t == k.thread
           s == threads[t].parent
           y(x) == [scopes[x] EXCEPT !.remaining = @ \ {t}]
<1>1. scopes' = [x \in Ids |-> IF x # s \/ scopes[x] = NoScope THEN scopes[x]
                               ELSE IF EmptiesScope(t) THEN NoScope ELSE y(x)]
  BY DEF ReturnFinal
<1>2. scopes \in ScopeStore
  BY DEF NetInv, NetTypes
<1>3. ASSUME NEW x \in Ids, scopes[x] # NoScope
      PROVE  y(x) \in ScopeState /\ y(x).remaining = scopes[x].remaining \ {t} /\ y(x) # NoScope
  <2> DEFINE z == scopes[x]
             rs == z.remaining \ {t}
             w == [z EXCEPT !.remaining = rs]
  <2>1. z \in ScopeState
    BY <1>2, <1>3 DEF ScopeStore
  <2>2. rs \in SUBSET Ids
    BY <2>1 DEF ScopeState
  <2>3. w = y(x)
    OBVIOUS
  <2> HIDE DEF z, rs, y
  <2>4. w \in ScopeState /\ w.remaining = rs
    BY <2>1, <2>2 DEF ScopeState
  <2> QED
    BY <2>3, <2>4, NetAssumption DEF z, rs
<1> HIDE DEF y
<1>4. scopes' \in ScopeStore
  BY <1>1, <1>2, <1>3 DEF ScopeStore
<1>5. ASSUME NEW u \in Live, u # t, threads[u].parent # None
      PROVE  /\ scopes'[threads[u].parent] # NoScope
             /\ u \in scopes'[threads[u].parent].remaining
  <2> DEFINE p == threads[u].parent
  <2>1. scopes[p] # NoScope /\ u \in scopes[p].remaining
    BY <1>5 DEF NetInv, MembersAwaited
  <2>2. p \in Ids
    <3>1. threads[u] \in ThreadState
      BY DEF Live, NetInv, NetTypes, ThreadStore
    <3> QED
      BY <1>5, <3>1 DEF ThreadState
  <2>3. CASE p # s
    BY <1>1, <2>1, <2>2, <2>3
  <2>4. CASE p = s
    <3>1. ~EmptiesScope(t)
      BY <1>5, <2>1, <2>4 DEF EmptiesScope
    <3>2. scopes'[p] = y(p)
      BY <1>1, <2>1, <2>2, <2>4, <3>1
    <3> QED
      BY <1>3, <1>5, <2>1, <2>2, <3>2
  <2> QED
    BY <2>3, <2>4
<1> QED
  BY <1>1, <1>4, <1>5

(* A thread that returns for the last time leaves the marking. *)
LEMMA ReturnFinalKeeps ==
  ASSUME NetInv, NEW k \in marking, ReturnFinal(k)
  PROVE  NetInv'
<1> DEFINE t == k.thread
           gone == GoneWith(k)
<1>1. /\ k.at[1] = "control" /\ t \in Ids /\ t \in Live /\ threads[t] # NoThread
      /\ k.frame = TopOf(t) /\ Len(StackOf(t)) = 1 /\ StackOf(t) = threads[t].stack
      /\ 1 \in DOMAIN StackOf(t)
  BY TokenFrame DEF ReturnFinal
<1>2. /\ finished' = (finished \union {t}) \ gone
      /\ marking' = (marking \ ({k} \union WokenBy(k))) \union {Falls(w) : w \in WokenBy(k)}
      /\ UNCHANGED <<prog, data, buf, alloc>>
  BY DEF ReturnFinal, WokenBy, GoneWith, dataVars
<1>3. \A u \in Live : u # t => u \notin gone
  BY GoneFinished
<1> HIDE DEF gone
<1>4. /\ threads' \in ThreadStore
      /\ \A u \in Ids : threads'[u] = NoThread <=> threads[u] = NoThread \/ u \in gone
      /\ \A u \in Ids : threads'[u] # NoThread =>
           /\ threads'[u].stack = IF u = t THEN <<>> ELSE threads[u].stack
           /\ threads'[u].parent = threads[u].parent
           /\ threads'[u].blocked = IF \E w \in WokenBy(k) : w.thread = u THEN Nothing
                                    ELSE threads[u].blocked
  BY FinishThreads DEF gone
<1>5. \A u \in Ids : u \in Live' <=> u \in Live /\ u # t
  BY <1>1, <1>2, <1>3, <1>4 DEF Live
<1>6. \A u \in Ids : StackOf(u)' = IF u = t \/ u \notin Live THEN <<>> ELSE StackOf(u)
  <2>1. \A u \in Ids : u \notin Live => StackOf(u) = <<>>
    BY DEF NetInv, StacksOwn
  <2> QED
    BY <1>3, <1>4, <2>1 DEF StackOf
<1>7. NetTypes'
  <2>1. marking' \subseteq Tokens
    <3>1. \A w \in WokenBy(k) : Falls(w) \in Tokens
      BY <1>1, WokenApart, FallPlaced
    <3> QED
      BY <1>2, <3>1 DEF NetInv, NetTypes
  <2>2. finished' \subseteq {u \in Ids : threads'[u] # NoThread}
    BY <1>1, <1>2, <1>4 DEF NetInv, NetTypes
  <2>3. frames' \in FrameStore /\ scopes' \in ScopeStore
    BY FinishFrames, FinishScopes
  <2> QED
    BY <1>2, <1>4, <2>1, <2>2, <2>3 DEF NetInv, NetTypes
<1>8. StacksOwn'
  <2>1. \A u \in Ids : StackOf(u)' # <<>> <=> u \in Live'
    BY <1>5, <1>6 DEF NetInv, StacksOwn
  <2>2. ASSUME NEW u \in Ids, NEW i \in DOMAIN StackOf(u)'
        PROVE  /\ i \in DOMAIN StackOf(u) /\ StackOf(u)'[i] = StackOf(u)[i]
               /\ StackOf(u)[i] \in Ids /\ StackOf(u)[i] # k.frame
    <3>1. u # t /\ StackOf(u)' = StackOf(u)
      BY <1>6
    <3>2. StackOf(u)[i] # StackOf(t)[1]
      BY <1>1, <3>1 DEF NetInv, StacksOwn
    <3> QED
      BY <1>1, <3>1, <3>2, StackFrames DEF TopOf
  <2>3. \A u \in Ids : \A i \in DOMAIN StackOf(u)' :
          /\ frames'[StackOf(u)'[i]] # NoFrame
          /\ i > 1 => frames'[StackOf(u)'[i]].ret.pc # 0
          /\ \/ i \in DOMAIN StackOf(u) /\ StackOf(u)'[i] = StackOf(u)[i]
             \/ frames[StackOf(u)'[i]] = NoFrame
    <3> SUFFICES ASSUME NEW u \in Ids, NEW i \in DOMAIN StackOf(u)'
                 PROVE  /\ frames'[StackOf(u)'[i]] # NoFrame
                        /\ i > 1 => frames'[StackOf(u)'[i]].ret.pc # 0
                        /\ i \in DOMAIN StackOf(u) /\ StackOf(u)'[i] = StackOf(u)[i]
      OBVIOUS
    <3>1. frames[StackOf(u)[i]] # NoFrame /\ (i > 1 => frames[StackOf(u)[i]].ret.pc # 0)
      BY <2>2 DEF NetInv, StacksOwn
    <3>2. \A f \in Ids : f # k.frame /\ frames[f] # NoFrame =>
            frames'[f] # NoFrame /\ frames'[f].ret = frames[f].ret
      BY FinishFrames
    <3> QED
      BY <2>2, <3>1, <3>2
  <2>4. \A u \in Ids : \A i \in DOMAIN StackOf(u)' : frames[StackOf(u)'[i]] # NoFrame
    BY <2>2 DEF NetInv, StacksOwn
  <2> QED
    BY <2>1, <2>3, <2>4, StacksOwnKept
<1>9. Unborn'
  <2>1. \A f \in Ids : frames[f] = NoFrame => frames'[f] = NoFrame
    BY FinishFrames
  <2>2. \A x \in Ids : scopes[x] = NoScope => scopes'[x] = NoScope
    BY FinishScopes
  <2>3. alloc' = alloc
    BY <1>2
  <2> QED
    BY <1>4, <2>1, <2>2, <2>3 DEF NetInv, Unborn
<1>10. MembersAwaited'
  <2> SUFFICES ASSUME NEW u \in Live', threads'[u].parent # None
               PROVE  /\ scopes'[threads'[u].parent] # NoScope
                      /\ u \in scopes'[threads'[u].parent].remaining
    BY DEF MembersAwaited
  <2>1. u \in Ids /\ u \in Live /\ u # t /\ threads'[u] # NoThread
    BY <1>5 DEF Live
  <2>2. threads'[u].parent = threads[u].parent
    BY <1>4, <2>1
  <2> QED
    BY <2>1, <2>2, FinishScopes
<1>11. OneToken'
  <2> DEFINE ws == {k} \union WokenBy(k)
             new == {Falls(w) : w \in WokenBy(k)}
  <2>1. ASSUME NEW w \in WokenBy(k)
        PROVE  /\ Falls(w).thread = w.thread /\ Falls(w).frame = w.frame
               /\ Falls(w) \in new /\ Arrived(Falls(w))
    <3>1. PICK n : n = Falls(w)
      OBVIOUS
    <3>2. /\ n.thread = w.thread /\ n.frame = w.frame
          /\ n.at \in StatementPlace /\ n.at[1] = "control"
          /\ n.at[2] = frames[w.frame].fn /\ n.at[3] = frames[w.frame].pc + 1
      BY <1>1, <3>1, WokenApart, FallPlaced
    <3>3. /\ w \in marking /\ w.thread # t /\ w.frame # k.frame /\ w.thread \in Live
          /\ w.thread \in Ids /\ w.frame \in Ids /\ frames[w.frame] # NoFrame
      BY <1>1, WokenApart
    <3>4. w.thread \in Live' /\ threads'[w.thread] # NoThread
      BY <1>5, <3>3 DEF Live
    <3>5. threads'[w.thread].blocked = Nothing
      BY <1>4, <3>3, <3>4
    <3>6. frames'[w.frame].fn = frames[w.frame].fn /\ frames'[w.frame].pc = frames[w.frame].pc + 1
      BY <3>3, FinishFrames
    <3>7. w.frame = TopOf(w.thread)
      BY <3>3, TokenFrame
    <3>8. TopOf(w.thread)' = TopOf(w.thread)
      BY <1>6, <3>3 DEF TopOf
    <3>9. Arrived(n)
      BY <3>2, <3>4, <3>5, <3>6, <3>7, <3>8 DEF Arrived, Settled
    <3> QED
      BY <3>1, <3>2, <3>9
  <2>2. ASSUME NEW l \in marking \ ws
        PROVE  Untouched(l) /\ \A w \in WokenBy(k) : l.thread # w.thread
    <3>1. l \in marking /\ l # k /\ \A w \in WokenBy(k) : l # w
      OBVIOUS
    <3>2. \A w \in WokenBy(k) : w \in marking
      BY <1>1, WokenApart
    <3>3. l.thread # t /\ l.frame # k.frame
      BY <3>1, OtherTokens
    <3>4. \A w \in WokenBy(k) : l.thread # w.thread /\ l.frame # w.frame
      BY <3>1, <3>2, OtherTokens
    <3>5. l.thread \in Ids /\ l.thread \in Live /\ l.frame \in Ids /\ frames[l.frame] # NoFrame
      BY <3>1, TokenFrame
    <3>6. l.thread \in Live' /\ threads'[l.thread] # NoThread
      BY <1>5, <3>3, <3>5 DEF Live
    <3>7. threads'[l.thread].blocked = threads[l.thread].blocked
      BY <1>4, <3>4, <3>5, <3>6
    <3>8. frames'[l.frame].fn = frames[l.frame].fn /\ frames'[l.frame].pc = frames[l.frame].pc
      BY <3>3, <3>4, <3>5, FinishFrames
    <3>9. TopOf(l.thread)' = TopOf(l.thread)
      BY <1>6, <3>3, <3>5 DEF TopOf
    <3> QED
      BY <3>4, <3>6, <3>7, <3>8, <3>9 DEF Untouched, Undisturbed
  <2>3. \A n, m \in new : n.thread = m.thread => n = m
    <3> SUFFICES ASSUME NEW v \in WokenBy(k), NEW w \in WokenBy(k),
                        Falls(v).thread = Falls(w).thread
                 PROVE  Falls(v) = Falls(w)
      OBVIOUS
    <3>1. v \in marking /\ w \in marking /\ v.thread = w.thread
      BY <1>1, <2>1, WokenApart
    <3>2. v = w
      BY <3>1 DEF NetInv, OneToken
    <3> QED
      BY <3>2
  <2>4. \A u \in Live' : \/ \E n \in new : n.thread = u
                         \/ \E l \in marking \ ws : l.thread = u
    <3> SUFFICES ASSUME NEW u \in Live'
                 PROVE  \/ \E n \in new : n.thread = u
                        \/ \E l \in marking \ ws : l.thread = u
      OBVIOUS
    <3>1. u \in Live /\ u # t
      BY <1>5 DEF Live
    <3>2. PICK l \in marking : l.thread = u
      BY <3>1 DEF NetInv, OneToken
    <3>3. l # k
      BY <3>1, <3>2
    <3>4. CASE l \in WokenBy(k)
      BY <2>1, <3>2, <3>4
    <3>5. CASE l \notin WokenBy(k)
      BY <3>2, <3>3, <3>5
    <3> QED
      BY <3>4, <3>5
  <2>5. marking' = (marking \ ws) \union new /\ prog' = prog
    BY <1>2
  <2>6. \A n \in new : \E w \in WokenBy(k) : n = Falls(w)
    OBVIOUS
  <2> HIDE DEF ws, new
  <2>7. Retold(ws, new)
    <3>1. \A l \in marking \ ws : Untouched(l)
      BY <2>2
    <3>2. \A n \in new : Arrived(n)
      BY <2>1, <2>6
    <3>3. \A n \in new, l \in marking \ ws : n.thread # l.thread
      BY <2>1, <2>2, <2>6
    <3> QED
      BY <2>3, <2>4, <2>5, <3>1, <3>2, <3>3 DEF Retold
  <2> QED
    BY <2>5, <2>7, OneTokenKept
<1> QED
  BY <1>7, <1>8, <1>9, <1>10, <1>11 DEF NetInv

-----------------------------------------------------------------------------
(* create_thread *)

(* The frames given to the members that run are free, and all different. *)
LEMMA FramesFor ==
  ASSUME NetInv, NEW fs \in Seq(Functions), HasRoom(fs)
  PROVE  /\ Cardinality(Born(fs)) \in Nat
         /\ \A i \in Born(fs) : /\ NthFrame(fs, i) \in Ids /\ frames[NthFrame(fs, i)] = NoFrame
                                /\ NthFrame(fs, i) < alloc.frame + Cardinality(Born(fs))
         /\ \A i, k \in Born(fs) : NthFrame(fs, i) = NthFrame(fs, k) => i = k
<1> DEFINE Before(i) == {j \in Born(fs) : j < i}
<1>1. IsFiniteSet(Born(fs)) /\ Born(fs) \subseteq 1..Len(fs)
  <2>1. Born(fs) \subseteq 1..Len(fs)
    BY DEF Born
  <2> QED
    BY <2>1, FS_Interval, FS_Subset
<1>2. alloc.frame \in Nat \ {0} /\ MaxId \in Nat
  BY NetAssumption DEF NetInv, NetTypes
<1>3. Cardinality(Born(fs)) \in Nat
  BY <1>1, FS_CardinalityType
<1>4. ASSUME NEW i \in Born(fs)
      PROVE  /\ IsFiniteSet(Before(i)) /\ Cardinality(Before(i)) \in Nat
             /\ Cardinality(Before(i)) < Cardinality(Born(fs))
  <2>1. Before(i) \subseteq Born(fs) /\ i \notin Before(i) /\ i \in Born(fs)
    BY <1>1
  <2>2. IsFiniteSet(Before(i)) /\ Cardinality(Before(i)) \in Nat
    BY <1>1, <2>1, FS_Subset, FS_CardinalityType
  <2>3. Before(i) \union {i} \subseteq Born(fs)
    BY <2>1
  <2>4. Cardinality(Before(i) \union {i}) = Cardinality(Before(i)) + 1
    BY <2>1, <2>2, FS_AddElement
  <2>5. Cardinality(Before(i) \union {i}) <= Cardinality(Born(fs))
    BY <1>1, <2>3, FS_Subset
  <2> HIDE DEF Before
  <2> QED
    BY <1>3, <2>2, <2>4, <2>5
<1>5. ASSUME NEW i \in Born(fs), NEW k \in Born(fs), i < k
      PROVE  Cardinality(Before(i)) < Cardinality(Before(k))
  <2>1. Before(i) \union {i} \subseteq Before(k) /\ i \notin Before(i)
    <3>1. \A j \in Born(fs) : j \in Int
      BY <1>1
    <3> QED
      BY <1>5, <3>1
  <2>2. Cardinality(Before(i) \union {i}) = Cardinality(Before(i)) + 1
    BY <1>4, <2>1, FS_AddElement
  <2>3. Cardinality(Before(i) \union {i}) <= Cardinality(Before(k))
    BY <1>4, <2>1, FS_Subset
  <2>4. Cardinality(Before(i)) \in Nat /\ Cardinality(Before(k)) \in Nat
    BY <1>4
  <2> HIDE DEF Before
  <2> QED
    BY <2>2, <2>3, <2>4
<1>6. \A i \in Born(fs) : NthFrame(fs, i) = alloc.frame + Cardinality(Before(i))
  BY DEF NthFrame
<1>7. alloc.frame + Cardinality(Born(fs)) - 1 <= MaxId
  BY DEF HasRoom
<1> HIDE DEF Before
<1>8. ASSUME NEW i \in Born(fs)
      PROVE  /\ NthFrame(fs, i) \in Ids
             /\ NthFrame(fs, i) >= alloc.frame
             /\ NthFrame(fs, i) < alloc.frame + Cardinality(Born(fs))
  BY <1>2, <1>3, <1>4, <1>6, <1>7 DEF Ids
<1>9. ASSUME NEW i \in Born(fs), NEW k \in Born(fs), NthFrame(fs, i) = NthFrame(fs, k)
      PROVE  i = k
  <2>1. i \in Int /\ k \in Int
    BY <1>1
  <2>2. Cardinality(Before(i)) = Cardinality(Before(k))
    BY <1>2, <1>4, <1>6, <1>9
  <2>3. ~(i < k) /\ ~(k < i)
    BY <1>4, <1>5, <2>2
  <2> QED
    BY <2>1, <2>3
<1>10. \A i \in Born(fs) : frames[NthFrame(fs, i)] = NoFrame
  BY <1>8 DEF NetInv, Unborn
<1> QED
  BY <1>3, <1>8, <1>9, <1>10

(* The threads being created were never created before. *)
LEMMA ThreadsFor ==
  ASSUME NetInv, NEW fs \in Seq(Functions), HasRoom(fs)
  PROVE  /\ Len(fs) \in Nat /\ DOMAIN fs = 1..Len(fs) /\ Born(fs) \subseteq DOMAIN fs
         /\ \A i \in DOMAIN fs : /\ NthThread(i) \in Ids /\ threads[NthThread(i)] = NoThread
                                 /\ NthThread(i) < alloc.thread + Len(fs)
                                 /\ NthThread(i) - alloc.thread + 1 = i /\ fs[i] \in Functions
         /\ \A i, j \in DOMAIN fs : NthThread(i) = NthThread(j) => i = j
<1>1. alloc.thread \in Nat \ {0} /\ MaxId \in Nat
  BY NetAssumption DEF NetInv, NetTypes
<1>2. Len(fs) \in Nat /\ DOMAIN fs = 1..Len(fs) /\ Born(fs) \subseteq DOMAIN fs
  BY DEF Born
<1>3. alloc.thread + Len(fs) - 1 <= MaxId
  BY DEF HasRoom
<1> DEFINE a == alloc.thread
           n == Len(fs)
<1>4. ASSUME NEW i \in DOMAIN fs
      PROVE  /\ NthThread(i) \in Ids /\ NthThread(i) >= alloc.thread
             /\ NthThread(i) < alloc.thread + Len(fs) /\ NthThread(i) - alloc.thread + 1 = i
  <2>1. i \in 1..n /\ a \in Nat \ {0} /\ MaxId \in Nat /\ a + n - 1 <= MaxId /\ n \in Nat
    BY <1>1, <1>2, <1>3
  <2>2. NthThread(i) = a + i - 1
    BY DEF NthThread
  <2> HIDE DEF a, n
  <2>3. /\ NthThread(i) \in Ids /\ NthThread(i) >= a
        /\ NthThread(i) < a + n /\ NthThread(i) - a + 1 = i
    BY <2>1, <2>2 DEF Ids
  <2> QED
    BY <2>3 DEF a, n
<1>5. \A i \in DOMAIN fs : threads[NthThread(i)] = NoThread
  BY <1>4 DEF NetInv, Unborn
<1>6. \A i, j \in DOMAIN fs : NthThread(i) = NthThread(j) => i = j
  <2> SUFFICES ASSUME NEW i \in DOMAIN fs, NEW j \in DOMAIN fs, NthThread(i) = NthThread(j)
               PROVE  i = j
    OBVIOUS
  <2>1. NthThread(i) - alloc.thread + 1 = i /\ NthThread(j) - alloc.thread + 1 = j
    BY <1>4
  <2> HIDE DEF a, n
  <2> QED
    BY <2>1
<1>7. \A i \in DOMAIN fs : fs[i] \in Functions
  OBVIOUS
<1> QED
  BY <1>2, <1>4, <1>5, <1>6, <1>7

(* The records of the new threads *)
LEMMA NewThreads ==
  ASSUME NetInv, NEW fs \in Seq(Functions), HasRoom(fs), NEW parent \in Ids \union {None}
  PROVE  LET w == WithNewThreads(threads, fs, parent) IN
         /\ w \in ThreadStore
         /\ \A u \in Ids : (\A i \in DOMAIN fs : u # NthThread(i)) => w[u] = threads[u]
         /\ \A i \in DOMAIN fs :
              /\ w[NthThread(i)] # NoThread /\ w[NthThread(i)].parent = parent
              /\ w[NthThread(i)].stack = IF i \in Born(fs) THEN <<NthFrame(fs, i)>> ELSE <<>>
              /\ w[NthThread(i)].blocked = Nothing
<1> DEFINE w == WithNewThreads(threads, fs, parent)
<1>1. \A u \in Ids : (\A i \in DOMAIN fs : u # NthThread(i)) => w[u] = threads[u]
  BY DEF WithNewThreads
<1>2. ASSUME NEW i \in DOMAIN fs
      PROVE  LET st == IF i \in Born(fs) THEN <<NthFrame(fs, i)>> ELSE <<>> IN
             /\ w[NthThread(i)] \in ThreadState /\ w[NthThread(i)].parent = parent
             /\ w[NthThread(i)].stack = st /\ w[NthThread(i)].blocked = Nothing
  <2> DEFINE st == IF i \in Born(fs) THEN <<NthFrame(fs, i)>> ELSE <<>>
             z == NewThread(fs[i], st, parent)
  <2>1. NthThread(i) \in Ids /\ NthThread(i) - alloc.thread + 1 = i /\ fs[i] \in Functions
    BY ThreadsFor
  <2>2. w[NthThread(i)] = z
    BY <2>1 DEF WithNewThreads
  <2>3. st \in Seq(Ids)
    BY FramesFor
  <2> HIDE DEF st
  <2>4. z \in ThreadState /\ z.parent = parent /\ z.stack = st /\ z.blocked = Nothing
    BY <2>1, <2>3 DEF NewThread, ThreadState
  <2> HIDE DEF z
  <2> QED
    BY <2>2, <2>4 DEF st
<1>3. w = [u \in Ids |-> w[u]]
  BY DEF WithNewThreads
<1> HIDE DEF w
<1>4. threads \in ThreadStore
  BY DEF NetInv, NetTypes
<1>5. \A u \in Ids : w[u] \in ThreadState \union {NoThread}
  BY <1>1, <1>2, <1>4 DEF ThreadStore
<1>6. w \in ThreadStore
  BY <1>3, <1>5 DEF ThreadStore
<1>7. \A i \in DOMAIN fs : w[NthThread(i)] # NoThread
  BY <1>2, NetAssumption
<1> QED
  BY <1>1, <1>2, <1>6, <1>7 DEF w

(* The frames of the new threads *)
LEMMA NewFrames ==
  ASSUME NetInv, NEW fs \in Seq(Functions), HasRoom(fs)
  PROVE  LET w == WithNewFrames(frames, fs) IN
         /\ w \in FrameStore
         /\ \A f \in Ids : (\A i \in Born(fs) : f # NthFrame(fs, i)) => w[f] = frames[f]
         /\ \A i \in Born(fs) : /\ w[NthFrame(fs, i)] # NoFrame
                                /\ w[NthFrame(fs, i)].fn = fs[i] /\ w[NthFrame(fs, i)].pc = 1
<1> DEFINE w == WithNewFrames(frames, fs)
<1>1. \A f \in Ids : (\A i \in Born(fs) : f # NthFrame(fs, i)) => w[f] = frames[f]
  BY DEF WithNewFrames
<1>2. ASSUME NEW i \in Born(fs)
      PROVE  /\ w[NthFrame(fs, i)] \in FrameState
             /\ w[NthFrame(fs, i)].fn = fs[i] /\ w[NthFrame(fs, i)].pc = 1
  <2> DEFINE f == NthFrame(fs, i)
             j == CHOOSE j \in Born(fs) : f = NthFrame(fs, j)
             g == fs[j]
             z == NewFrame(g, SlotInit[g], NoReturn)
  <2>1. j \in Born(fs) /\ f = NthFrame(fs, j)
    OBVIOUS
  <2>2. j = i
    BY <2>1, FramesFor
  <2>3. f \in Ids /\ g \in Functions /\ g = fs[i]
    BY <2>2, FramesFor, ThreadsFor
  <2>4. \E l \in Born(fs) : f = NthFrame(fs, l)
    OBVIOUS
  <2>5. w[f] = z
    BY <2>3, <2>4 DEF WithNewFrames
  <2>6. NoReturn \in [pc : Nat, dst : Destinations]
    BY DEF NoReturn, Destinations
  <2> HIDE DEF f, j, g
  <2>7. SlotInit[g] \in [Locals -> Values]
    BY <2>3, DeclarationsAssumption
  <2>8. z \in FrameState /\ z.fn = g /\ z.pc = 1
    BY <2>3, <2>6, <2>7, NewFrameTyped
  <2> HIDE DEF z
  <2> QED
    BY <2>3, <2>5, <2>8 DEF f
<1>3. w = [f \in Ids |-> w[f]]
  BY DEF WithNewFrames
<1> HIDE DEF w
<1>4. frames \in FrameStore
  BY DEF NetInv, NetTypes
<1>5. \A f \in Ids : w[f] \in FrameState \union {NoFrame}
  BY <1>1, <1>2, <1>4 DEF FrameStore
<1>6. w \in FrameStore
  BY <1>3, <1>5 DEF FrameStore
<1> QED
  BY <1>1, <1>2, <1>6, NetAssumption DEF w

(* place_control for one token *)
LEMMA PlacedOne ==
  ASSUME NEW frs \in FrameStore, NEW n, n.frame \in Ids, frs[n.frame] \in FrameState,
         n.at[3] \in Nat \ {0}
  PROVE  LET w == Placed(frs, {n}) IN
         /\ w \in FrameStore /\ \A f \in Ids : f # n.frame => w[f] = frs[f]
         /\ w[n.frame] \in FrameState /\ w[n.frame].fn = frs[n.frame].fn
         /\ w[n.frame].ret = frs[n.frame].ret /\ w[n.frame].pc = n.at[3]
<1> DEFINE w == Placed(frs, {n})
           g == n.frame
           x == frs[g]
           p == n.at[3]
           y == [x EXCEPT !.pc = p]
<1>1. \A f \in Ids : f # g => w[f] = frs[f]
  BY DEF Placed
<1>2. w[g] = y
  <2>1. (CHOOSE k \in {n} : k.frame = g) = n
    OBVIOUS
  <2> QED
    BY <2>1 DEF Placed
<1>3. y \in FrameState /\ y.fn = x.fn /\ y.ret = x.ret /\ y.pc = p
  <2> HIDE DEF x, p
  <2> QED
    BY DEF FrameState, x, p
<1>4. w = [f \in Ids |-> w[f]]
  BY DEF Placed
<1> HIDE DEF w, y
<1>5. \A f \in Ids : w[f] \in FrameState \union {NoFrame}
  BY <1>1, <1>2, <1>3 DEF FrameStore
<1>6. w \in FrameStore
  BY <1>4, <1>5 DEF FrameStore
<1> QED
  BY <1>1, <1>2, <1>3, <1>6 DEF w

(* A step of token k, which becomes own, that creates the threads fs as
   children of the scope p, if p is one. *)
CreatesTokens(k, own, fs) ==
  /\ marking' = (marking \ {k}) \union ({own} \union StartTokens(fs))
  /\ own \in Tokens /\ own.thread = k.thread /\ own.frame = k.frame /\ Settled(own)
CreatesFrames(k, fs) ==
  /\ frames' \in FrameStore
  /\ \A f \in Ids : (\A i \in Born(fs) : f # NthFrame(fs, i)) =>
       /\ frames'[f] = NoFrame <=> frames[f] = NoFrame
       /\ frames[f] # NoFrame => frames'[f].fn = frames[f].fn /\ frames'[f].ret = frames[f].ret
       /\ frames[f] # NoFrame /\ f # k.frame => frames'[f].pc = frames[f].pc
  /\ \A i \in Born(fs) : /\ frames'[NthFrame(fs, i)] # NoFrame
                         /\ frames'[NthFrame(fs, i)].fn = fs[i] /\ frames'[NthFrame(fs, i)].pc = 1
CreatesRecords(k, fs, p) ==
  /\ threads' \in ThreadStore
  /\ \A u \in Ids : (\A i \in DOMAIN fs : u # NthThread(i)) =>
       /\ threads'[u] = NoThread <=> threads[u] = NoThread
       /\ threads[u] # NoThread => /\ threads'[u].stack = threads[u].stack
                                   /\ threads'[u].parent = threads[u].parent
       /\ threads[u] # NoThread /\ u # k.thread => threads'[u].blocked = threads[u].blocked
  /\ \A i \in DOMAIN fs :
       /\ threads'[NthThread(i)] # NoThread /\ threads'[NthThread(i)].parent = p
       /\ threads'[NthThread(i)].stack = IF i \in Born(fs) THEN <<NthFrame(fs, i)>> ELSE <<>>
       /\ threads'[NthThread(i)].blocked = Nothing
  /\ finished' = finished \union {NthThread(i) : i \in DOMAIN fs \ Born(fs)}
CreatesScope(fs, p) ==
  /\ scopes' \in ScopeStore
  /\ \A s \in Ids : /\ scopes[s] # NoScope => scopes'[s] = scopes[s]
                    /\ s >= alloc'.scope => scopes'[s] = NoScope
  /\ p # None /\ Born(fs) # {} => /\ scopes'[p] # NoScope
                                  /\ \A i \in Born(fs) : NthThread(i) \in scopes'[p].remaining
  /\ alloc' \in [thread : Nat \ {0}, frame : Nat \ {0}, scope : Nat \ {0}, handle : Nat \ {0}]
  /\ alloc'.thread = alloc.thread + Len(fs)
  /\ alloc'.frame = alloc.frame + Cardinality(Born(fs))

Creates(k, own, fs, p) ==
  /\ prog' = prog /\ data' = data /\ buf' = buf
  /\ CreatesTokens(k, own, fs) /\ CreatesFrames(k, fs) /\ CreatesRecords(k, fs, p)
  /\ CreatesScope(fs, p)

(* The threads that live afterwards, and their stacks *)
LEMMA CreationStacks ==
  ASSUME NetInv, NEW k \in marking, NEW own, NEW fs \in Seq(Functions), HasRoom(fs),
         NEW p \in Ids \union {None}, Creates(k, own, fs, p)
  PROVE  /\ \A u \in Ids : u \in Live' <=> u \in Live \/ \E i \in Born(fs) : u = NthThread(i)
         /\ \A u \in Ids : u \in Live => /\ \A i \in DOMAIN fs : u # NthThread(i)
                                         /\ StackOf(u)' = StackOf(u)
                                         /\ threads'[u].parent = threads[u].parent
         /\ \A u \in Ids : \A i \in Born(fs) :
              u = NthThread(i) => StackOf(u)' = <<NthFrame(fs, i)>>
         /\ \A u \in Ids : u \notin Live' => StackOf(u)' = <<>>
<1>1. /\ Born(fs) \subseteq DOMAIN fs
      /\ \A i \in DOMAIN fs : NthThread(i) \in Ids /\ threads[NthThread(i)] = NoThread
      /\ \A i, j \in DOMAIN fs : NthThread(i) = NthThread(j) => i = j
  BY ThreadsFor
<1>2. CreatesRecords(k, fs, p)
  BY DEF Creates
<1>3. finished \subseteq {u \in Ids : threads[u] # NoThread}
  BY DEF NetInv, NetTypes
<1>4. \A u \in Ids : threads[u] # NoThread => \A i \in DOMAIN fs : u # NthThread(i)
  BY <1>1
<1>5. ASSUME NEW u \in Ids, \A i \in DOMAIN fs : u # NthThread(i)
      PROVE  /\ u \in Live' <=> u \in Live
             /\ StackOf(u)' = StackOf(u)
             /\ threads[u] # NoThread => threads'[u].parent = threads[u].parent
  <2>1. u \in finished' <=> u \in finished
    BY <1>2, <1>5 DEF CreatesRecords
  <2> QED
    BY <1>2, <1>5, <2>1 DEF CreatesRecords, Live, StackOf
<1>6. ASSUME NEW i \in DOMAIN fs, NEW u \in Ids, u = NthThread(i)
      PROVE  /\ u \in Live' <=> i \in Born(fs)
             /\ StackOf(u)' = IF i \in Born(fs) THEN <<NthFrame(fs, i)>> ELSE <<>>
  <2>1. u \in finished' <=> i \notin Born(fs)
    BY <1>1, <1>2, <1>3, <1>6 DEF CreatesRecords
  <2>2. /\ threads'[u] # NoThread
        /\ threads'[u].stack = IF i \in Born(fs) THEN <<NthFrame(fs, i)>> ELSE <<>>
    BY <1>2, <1>6 DEF CreatesRecords
  <2> QED
    BY <1>1, <2>1, <2>2 DEF Live, StackOf
<1>7. ASSUME NEW u \in Ids
      PROVE  u \in Live' <=> u \in Live \/ \E i \in Born(fs) : u = NthThread(i)
  <2>1. u \in Live => threads[u] # NoThread
    BY DEF Live
  <2> QED
    BY <1>1, <1>4, <1>5, <1>6, <2>1
<1>8. ASSUME NEW u \in Ids, u \in Live
      PROVE  /\ \A i \in DOMAIN fs : u # NthThread(i)
             /\ StackOf(u)' = StackOf(u) /\ threads'[u].parent = threads[u].parent
  <2>1. threads[u] # NoThread
    BY <1>8 DEF Live
  <2> QED
    BY <1>4, <1>5, <2>1
<1>9. ASSUME NEW u \in Ids, u \notin Live'
      PROVE  StackOf(u)' = <<>>
  <2>1. CASE \E i \in DOMAIN fs : u = NthThread(i)
    BY <1>6, <1>9, <2>1
  <2>2. CASE \A i \in DOMAIN fs : u # NthThread(i)
    BY <1>5, <1>9, <2>2 DEF NetInv, StacksOwn
  <2> QED
    BY <2>1, <2>2
<1>10. \A u \in Ids : \A i \in Born(fs) : u = NthThread(i) => StackOf(u)' = <<NthFrame(fs, i)>>
  BY <1>1, <1>6
<1> QED
  BY <1>7, <1>8, <1>9, <1>10

(* Creation keeps the invariant. *)
LEMMA CreationKeeps ==
  ASSUME NetInv, NEW k \in marking, NEW own, NEW fs \in Seq(Functions), HasRoom(fs),
         NEW p \in Ids \union {None}, Creates(k, own, fs, p)
  PROVE  NetInv'
<1>1. /\ Born(fs) \subseteq DOMAIN fs /\ Len(fs) \in Nat
      /\ \A i \in DOMAIN fs : /\ NthThread(i) \in Ids /\ threads[NthThread(i)] = NoThread
                              /\ NthThread(i) < alloc.thread + Len(fs) /\ fs[i] \in Functions
      /\ \A i, j \in DOMAIN fs : NthThread(i) = NthThread(j) => i = j
  BY ThreadsFor
<1>2. /\ \A i \in Born(fs) : /\ NthFrame(fs, i) \in Ids /\ frames[NthFrame(fs, i)] = NoFrame
                             /\ NthFrame(fs, i) < alloc.frame + Cardinality(Born(fs))
      /\ \A i, j \in Born(fs) : NthFrame(fs, i) = NthFrame(fs, j) => i = j
      /\ Cardinality(Born(fs)) \in Nat
  BY FramesFor
<1>3. /\ prog' = prog /\ data' = data /\ buf' = buf
      /\ CreatesTokens(k, own, fs) /\ CreatesFrames(k, fs) /\ CreatesRecords(k, fs, p)
      /\ CreatesScope(fs, p)
  BY DEF Creates
<1>4. /\ \A u \in Ids : u \in Live' <=> u \in Live \/ \E i \in Born(fs) : u = NthThread(i)
      /\ \A u \in Ids : u \in Live => /\ \A i \in DOMAIN fs : u # NthThread(i)
                                      /\ StackOf(u)' = StackOf(u)
                                      /\ threads'[u].parent = threads[u].parent
      /\ \A u \in Ids : \A i \in Born(fs) : u = NthThread(i) => StackOf(u)' = <<NthFrame(fs, i)>>
      /\ \A u \in Ids : u \notin Live' => StackOf(u)' = <<>>
  BY CreationStacks
<1>5. \A n \in StartTokens(fs) : \E i \in Born(fs) :
        /\ n = [at |-> <<"control", fs[i], 1>>, thread |-> NthThread(i), frame |-> NthFrame(fs, i)]
        /\ n \in Tokens /\ n.at \in StatementPlace /\ n.at[1] = "control" /\ n.at[2] = fs[i]
        /\ n.at[3] = 1 /\ n.thread = NthThread(i) /\ n.frame = NthFrame(fs, i)
  <2> SUFFICES ASSUME NEW i \in Born(fs)
               PROVE  LET n == ControlToken(NthThread(i), NthFrame(fs, i), fs[i], 1) IN
                      /\ n = [at |-> <<"control", fs[i], 1>>, thread |-> NthThread(i),
                              frame |-> NthFrame(fs, i)]
                      /\ n \in Tokens /\ n.at \in StatementPlace /\ n.at[1] = "control"
                      /\ n.at[2] = fs[i] /\ n.at[3] = 1
                      /\ n.thread = NthThread(i) /\ n.frame = NthFrame(fs, i)
    BY DEF StartTokens
  <2> DEFINE n == ControlToken(NthThread(i), NthFrame(fs, i), fs[i], 1)
             t == NthThread(i)
             f == NthFrame(fs, i)
             a == <<"control", fs[i], 1>>
  <2>1. t \in Ids /\ f \in Ids /\ fs[i] \in Functions
    BY <1>1, <1>2
  <2>2. a \in StatementPlace /\ a[1] = "control" /\ a[2] = fs[i] /\ a[3] = 1
    BY <2>1 DEF StatementPlace
  <2>3. n = [at |-> a, thread |-> t, frame |-> f]
    BY DEF ControlToken, Control
  <2> HIDE DEF n, t, f, a
  <2>4. n \in Tokens /\ n.at = a /\ n.thread = t /\ n.frame = f
    BY <2>1, <2>2, <2>3 DEF Tokens
  <2> QED
    BY <2>2, <2>3, <2>4 DEF n, t, f, a
<1>6. NetTypes'
  <2>1. marking' \subseteq Tokens
    BY <1>3, <1>5 DEF CreatesTokens, NetInv, NetTypes
  <2>2. frames' \in FrameStore /\ threads' \in ThreadStore /\ scopes' \in ScopeStore
    BY <1>3 DEF CreatesFrames, CreatesRecords, CreatesScope
  <2>3. finished' \subseteq {u \in Ids : threads'[u] # NoThread}
    <3> SUFFICES ASSUME NEW u \in finished'
                 PROVE  u \in Ids /\ threads'[u] # NoThread
      OBVIOUS
    <3>1. CASE \E i \in DOMAIN fs : u = NthThread(i)
      BY <1>1, <1>3, <3>1 DEF CreatesRecords
    <3>2. CASE \A i \in DOMAIN fs : u # NthThread(i)
      <4>1. u \in finished
        BY <1>3, <3>2 DEF CreatesRecords
      <4>2. u \in Ids /\ threads[u] # NoThread
        BY <4>1 DEF NetInv, NetTypes
      <4> QED
        BY <1>3, <3>2, <4>2 DEF CreatesRecords
    <3> QED
      BY <3>1, <3>2
  <2>4. alloc' \in [thread : Nat \ {0}, frame : Nat \ {0}, scope : Nat \ {0}, handle : Nat \ {0}]
    BY <1>3 DEF CreatesScope
  <2> QED
    BY <1>3, <2>1, <2>2, <2>3, <2>4 DEF NetInv, NetTypes
<1>7. StacksOwn'
  <2>1. \A u \in Ids : StackOf(u)' # <<>> <=> u \in Live'
    <3> SUFFICES ASSUME NEW u \in Ids, u \in Live'
                 PROVE  StackOf(u)' # <<>>
      BY <1>4
    <3>1. CASE u \in Live
      BY <1>4, <3>1 DEF NetInv, StacksOwn
    <3>2. CASE \E i \in Born(fs) : u = NthThread(i)
      BY <1>4, <3>2
    <3> QED
      BY <1>4, <3>1, <3>2
  <2>2. ASSUME NEW u \in Ids, NEW i \in DOMAIN StackOf(u)'
        PROVE  \/ /\ u \in Live /\ i \in DOMAIN StackOf(u) /\ StackOf(u)'[i] = StackOf(u)[i]
                  /\ StackOf(u)[i] \in Ids /\ frames[StackOf(u)[i]] # NoFrame
                  /\ \A j \in Born(fs) : StackOf(u)[i] # NthFrame(fs, j)
               \/ \E j \in Born(fs) : /\ u = NthThread(j) /\ i = 1
                                      /\ StackOf(u)'[i] = NthFrame(fs, j)
    <3>1. CASE u \in Live
      <4>1. i \in DOMAIN StackOf(u) /\ StackOf(u)'[i] = StackOf(u)[i]
        BY <1>4, <3>1
      <4>2. StackOf(u)[i] \in Ids /\ frames[StackOf(u)[i]] # NoFrame
        BY <4>1, StackFrames DEF NetInv, StacksOwn
      <4> QED
        BY <1>2, <3>1, <4>1, <4>2
    <3>2. CASE \E j \in Born(fs) : u = NthThread(j)
      <4>1. PICK j \in Born(fs) : u = NthThread(j)
        BY <3>2
      <4>2. StackOf(u)' = <<NthFrame(fs, j)>>
        BY <1>4, <4>1
      <4> QED
        BY <4>1, <4>2
    <3>3. CASE u \notin Live'
      BY <1>4, <3>3
    <3> QED
      BY <1>4, <3>1, <3>2, <3>3
  <2>3. \A u \in Ids : \A i \in DOMAIN StackOf(u)' :
          /\ frames'[StackOf(u)'[i]] # NoFrame
          /\ i > 1 => frames'[StackOf(u)'[i]].ret.pc # 0
          /\ \/ i \in DOMAIN StackOf(u) /\ StackOf(u)'[i] = StackOf(u)[i]
             \/ frames[StackOf(u)'[i]] = NoFrame
    <3> SUFFICES ASSUME NEW u \in Ids, NEW i \in DOMAIN StackOf(u)'
                 PROVE  /\ frames'[StackOf(u)'[i]] # NoFrame
                        /\ i > 1 => frames'[StackOf(u)'[i]].ret.pc # 0
                        /\ \/ i \in DOMAIN StackOf(u) /\ StackOf(u)'[i] = StackOf(u)[i]
                           \/ frames[StackOf(u)'[i]] = NoFrame
      OBVIOUS
    <3>1. CASE /\ u \in Live /\ i \in DOMAIN StackOf(u) /\ StackOf(u)'[i] = StackOf(u)[i]
               /\ StackOf(u)[i] \in Ids /\ frames[StackOf(u)[i]] # NoFrame
               /\ \A j \in Born(fs) : StackOf(u)[i] # NthFrame(fs, j)
      <4>1. i > 1 => frames[StackOf(u)[i]].ret.pc # 0
        BY <3>1 DEF NetInv, StacksOwn
      <4>2. /\ frames'[StackOf(u)[i]] # NoFrame
            /\ frames'[StackOf(u)[i]].ret = frames[StackOf(u)[i]].ret
        BY <1>3, <3>1 DEF CreatesFrames
      <4> QED
        BY <3>1, <4>1, <4>2
    <3>2. CASE \E j \in Born(fs) : u = NthThread(j) /\ i = 1 /\ StackOf(u)'[i] = NthFrame(fs, j)
      BY <1>2, <1>3, <3>2 DEF CreatesFrames
    <3> QED
      BY <2>2, <3>1, <3>2
  <2>4. \A u, v \in Ids : \A i \in DOMAIN StackOf(u)', j \in DOMAIN StackOf(v)' :
          frames[StackOf(u)'[i]] = NoFrame /\ StackOf(u)'[i] = StackOf(v)'[j] => u = v /\ i = j
    <3> SUFFICES ASSUME NEW u \in Ids, NEW v \in Ids, NEW i \in DOMAIN StackOf(u)',
                        NEW j \in DOMAIN StackOf(v)', frames[StackOf(u)'[i]] = NoFrame,
                        StackOf(u)'[i] = StackOf(v)'[j]
                 PROVE  u = v /\ i = j
      OBVIOUS
    <3>1. PICK a \in Born(fs) : u = NthThread(a) /\ i = 1 /\ StackOf(u)'[i] = NthFrame(fs, a)
      BY <2>2
    <3>2. PICK b \in Born(fs) : v = NthThread(b) /\ j = 1 /\ StackOf(v)'[j] = NthFrame(fs, b)
      BY <2>2
    <3>3. a = b
      BY <1>2, <3>1, <3>2
    <3> QED
      BY <3>1, <3>2, <3>3
  <2> QED
    BY <2>1, <2>3, <2>4, StacksOwnKept
<1>8. Unborn'
  <2>1. ASSUME NEW u \in Ids, u >= alloc'.thread
        PROVE  threads'[u] = NoThread
    <3>1. alloc'.thread = alloc.thread + Len(fs) /\ alloc.thread \in Nat /\ u \in Nat
      BY <1>3 DEF CreatesScope, NetInv, NetTypes, Ids
    <3>2. u >= alloc.thread
      BY <1>1, <2>1, <3>1
    <3>3. \A i \in DOMAIN fs : u # NthThread(i)
      <4> SUFFICES ASSUME NEW i \in DOMAIN fs
                   PROVE  ~(NthThread(i) >= alloc'.thread)
        BY <2>1
      <4>1. NthThread(i) < alloc'.thread /\ NthThread(i) \in Nat /\ alloc'.thread \in Nat
        BY <1>1, <3>1 DEF Ids
      <4> HIDE DEF Ids
      <4> QED
        BY <4>1
    <3>4. threads[u] = NoThread
      BY <3>2 DEF NetInv, Unborn
    <3> QED
      BY <1>3, <3>3, <3>4 DEF CreatesRecords
  <2>2. ASSUME NEW f \in Ids, f >= alloc'.frame
        PROVE  frames'[f] = NoFrame
    <3>1. alloc'.frame = alloc.frame + Cardinality(Born(fs)) /\ alloc.frame \in Nat /\ f \in Nat
      BY <1>3 DEF CreatesScope, NetInv, NetTypes, Ids
    <3>2. f >= alloc.frame
      BY <1>2, <2>2, <3>1
    <3>3. \A i \in Born(fs) : f # NthFrame(fs, i)
      <4> SUFFICES ASSUME NEW i \in Born(fs)
                   PROVE  ~(NthFrame(fs, i) >= alloc'.frame)
        BY <2>2
      <4>1. NthFrame(fs, i) < alloc'.frame /\ NthFrame(fs, i) \in Nat /\ alloc'.frame \in Nat
        BY <1>2, <3>1 DEF Ids
      <4> QED
        BY <4>1
    <3>4. frames[f] = NoFrame
      BY <3>2 DEF NetInv, Unborn
    <3> QED
      BY <1>3, <3>3, <3>4 DEF CreatesFrames
  <2>3. \A s \in Ids : s >= alloc'.scope => scopes'[s] = NoScope
    BY <1>3 DEF CreatesScope
  <2> QED
    BY <2>1, <2>2, <2>3 DEF Unborn
<1>9. MembersAwaited'
  <2> SUFFICES ASSUME NEW u \in Live', threads'[u].parent # None
               PROVE  /\ scopes'[threads'[u].parent] # NoScope
                      /\ u \in scopes'[threads'[u].parent].remaining
    BY DEF MembersAwaited
  <2>1. u \in Ids
    BY DEF Live
  <2>2. CASE u \in Live
    <3> DEFINE q == threads[u].parent
    <3>1. threads'[u].parent = q
      BY <1>4, <2>1, <2>2
    <3>2. scopes[q] # NoScope /\ u \in scopes[q].remaining
      BY <2>2, <3>1 DEF NetInv, MembersAwaited
    <3>3. q \in Ids
      <4>1. threads[u] \in ThreadState
        BY <2>2 DEF Live, NetInv, NetTypes, ThreadStore
      <4> QED
        BY <3>1, <4>1 DEF ThreadState
    <3>4. scopes'[q] = scopes[q]
      BY <1>3, <3>2, <3>3 DEF CreatesScope
    <3> QED
      BY <3>1, <3>2, <3>4
  <2>3. CASE \E i \in Born(fs) : u = NthThread(i)
    <3>1. PICK i \in Born(fs) : u = NthThread(i)
      BY <2>3
    <3>2. threads'[u].parent = p
      BY <1>1, <1>3, <3>1 DEF CreatesRecords
    <3> QED
      BY <1>3, <3>1, <3>2 DEF CreatesScope
  <2> QED
    BY <1>4, <2>1, <2>2, <2>3
<1>10. OneToken'
  <2>1. \A u \in Ids : u \in Live => u \in Live' /\ TopOf(u)' = TopOf(u)
    BY <1>4 DEF TopOf
  <2>2. k.thread \in Ids /\ k.thread \in Live /\ k.frame = TopOf(k.thread)
    BY TokenFrame
  <2> DEFINE ws == {k}
             new == {own} \union StartTokens(fs)
  <2>3. ASSUME NEW l \in marking \ ws
        PROVE  Untouched(l) /\ l.thread # k.thread
    <3>1. /\ l.thread # k.thread /\ l.frame # k.frame /\ l.thread \in Live /\ l.thread \in Ids
          /\ l.frame \in Ids /\ frames[l.frame] # NoFrame /\ threads[l.thread] # NoThread
      BY OtherTokens, TokenFrame
    <3>2. \A i \in Born(fs) : l.frame # NthFrame(fs, i)
      BY <1>2, <3>1
    <3>3. frames'[l.frame].fn = frames[l.frame].fn /\ frames'[l.frame].pc = frames[l.frame].pc
      BY <1>3, <3>1, <3>2 DEF CreatesFrames
    <3>4. \A i \in DOMAIN fs : l.thread # NthThread(i)
      BY <1>1, <3>1
    <3>5. threads'[l.thread].blocked = threads[l.thread].blocked
      BY <1>3, <3>1, <3>4 DEF CreatesRecords
    <3>6. l.thread \in Live' /\ TopOf(l.thread)' = TopOf(l.thread)
      BY <2>1, <3>1
    <3> QED
      BY <3>1, <3>3, <3>5, <3>6 DEF Untouched, Undisturbed
  <2>4. own.thread = k.thread /\ own.frame = k.frame /\ Settled(own)
    BY <1>3 DEF CreatesTokens
  <2>5. Arrived(own)
    BY <2>1, <2>2, <2>4 DEF Arrived
  <2>6. ASSUME NEW n \in StartTokens(fs)
        PROVE  Arrived(n) /\ \E i \in Born(fs) : n.thread = NthThread(i)
    <3>1. PICK i \in Born(fs) :
            /\ n.at \in StatementPlace /\ n.at[1] = "control" /\ n.at[2] = fs[i]
            /\ n.at[3] = 1 /\ n.thread = NthThread(i) /\ n.frame = NthFrame(fs, i)
      BY <1>5
    <3>2. n.thread \in Ids
      BY <1>1, <3>1
    <3>3. n.thread \in Live'
      BY <1>4, <3>1, <3>2
    <3>4. StackOf(n.thread)' = <<n.frame>>
      BY <1>4, <3>1, <3>2
    <3>5. TopOf(n.thread)' = n.frame
      BY <3>4 DEF TopOf
    <3>6. threads'[n.thread].blocked = Nothing
      BY <1>1, <1>3, <3>1 DEF CreatesRecords
    <3>7. frames'[n.frame].fn = fs[i] /\ frames'[n.frame].pc = 1
      BY <1>3, <3>1 DEF CreatesFrames
    <3> QED
      BY <3>1, <3>3, <3>5, <3>6, <3>7 DEF Arrived, Settled
  <2>7. \A i \in Born(fs) : \A u \in Ids : u \in Live => u # NthThread(i)
    BY <1>1, <1>4
  <2>8. \A n, m \in StartTokens(fs) : n.thread = m.thread => n = m
    <3> SUFFICES ASSUME NEW n \in StartTokens(fs), NEW m \in StartTokens(fs), n.thread = m.thread
                 PROVE  n = m
      OBVIOUS
    <3>1. PICK i \in Born(fs) :
            /\ n = [at |-> <<"control", fs[i], 1>>, thread |-> NthThread(i), frame |-> NthFrame(fs, i)]
            /\ n.thread = NthThread(i)
      BY <1>5
    <3>2. PICK j \in Born(fs) :
            /\ m = [at |-> <<"control", fs[j], 1>>, thread |-> NthThread(j), frame |-> NthFrame(fs, j)]
            /\ m.thread = NthThread(j)
      BY <1>5
    <3>3. i = j
      BY <1>1, <3>1, <3>2
    <3> QED
      BY <3>1, <3>2, <3>3
  <2>9. \A u \in Live' : \/ \E n \in new : n.thread = u
                         \/ \E l \in marking \ ws : l.thread = u
    <3> SUFFICES ASSUME NEW u \in Live'
                 PROVE  \/ \E n \in new : n.thread = u
                        \/ \E l \in marking \ ws : l.thread = u
      OBVIOUS
    <3>1. u \in Ids
      BY DEF Live
    <3>2. CASE u \in Live
      <4>1. PICK l \in marking : l.thread = u
        BY <3>2 DEF NetInv, OneToken
      <4>2. CASE l = k
        BY <2>4, <4>1, <4>2
      <4>3. CASE l # k
        BY <4>1, <4>3
      <4> QED
        BY <4>2, <4>3
    <3>3. CASE \E i \in Born(fs) : u = NthThread(i)
      <4>1. PICK i \in Born(fs) : u = NthThread(i)
        BY <3>3
      <4>2. ControlToken(NthThread(i), NthFrame(fs, i), fs[i], 1) \in StartTokens(fs)
        BY DEF StartTokens
      <4>3. ControlToken(NthThread(i), NthFrame(fs, i), fs[i], 1).thread = u
        BY <4>1 DEF ControlToken
      <4> QED
        BY <4>2, <4>3
    <3> QED
      BY <1>4, <3>1, <3>2, <3>3
  <2>10. marking' = (marking \ ws) \union new
    BY <1>3 DEF CreatesTokens
  <2>11. \A l \in marking \ ws : l.thread \in Ids /\ l.thread \in Live
    BY TokenFrame
  <2>12. \A n \in new : n = own \/ n \in StartTokens(fs)
    OBVIOUS
  <2> HIDE DEF ws, new
  <2>13. Retold(ws, new)
    <3>1. \A n \in new : Arrived(n)
      BY <2>5, <2>6, <2>12
    <3>2. \A n, m \in new : n.thread = m.thread => n = m
      BY <2>2, <2>4, <2>6, <2>7, <2>8, <2>12
    <3>3. \A n \in new, l \in marking \ ws : n.thread # l.thread
      BY <2>3, <2>4, <2>6, <2>7, <2>11, <2>12
    <3>4. \A l \in marking \ ws : Untouched(l)
      BY <2>3
    <3> QED
      BY <2>9, <2>10, <3>1, <3>2, <3>3, <3>4 DEF Retold
  <2> QED
    BY <1>3, <2>13, OneTokenKept
<1> QED
  BY <1>6, <1>7, <1>8, <1>9, <1>10 DEF NetInv

Counters == [thread : Nat \ {0}, frame : Nat \ {0}, scope : Nat \ {0}, handle : Nat \ {0}]

(* The counters a spawn leaves are counters. *)
LEMMA ThreadCounted ==
  ASSUME NEW a \in Counters, NEW c \in Nat, NEW b,
         b = [a EXCEPT !.thread = @ + 1, !.handle = @ + 1, !.frame = @ + c]
  PROVE  /\ b.thread = a.thread + 1 /\ b.scope = a.scope /\ b.frame = a.frame + c
         /\ b \in Counters
<1>1. PICK t \in Nat \ {0}, f \in Nat \ {0}, s \in Nat \ {0}, h \in Nat \ {0} :
        a = [thread |-> t, frame |-> f, scope |-> s, handle |-> h]
  BY DEF Counters
<1>2. b = [thread |-> t + 1, frame |-> f + c, scope |-> s, handle |-> h + 1]
  BY <1>1
<1>3. t + 1 \in Nat \ {0} /\ f + c \in Nat \ {0} /\ h + 1 \in Nat \ {0}
  BY <1>1
<1> QED
  BY <1>1, <1>2, <1>3 DEF Counters

(* A scope takes one identity, and as many others as it has members. *)
ScopeCount(a, b, n, c) == b = [a EXCEPT !.thread = @ + n, !.scope = @ + 1, !.frame = @ + c]
(* What a scope leaves are counters. *)
LEMMA ScopeCounted ==
  ASSUME NEW a \in Counters, NEW c \in Nat, NEW n \in Nat, NEW b, ScopeCount(a, b, n, c)
  PROVE  /\ b.thread = a.thread + n /\ b.scope = a.scope + 1 /\ b.frame = a.frame + c
         /\ b \in Counters
<1>1. PICK t \in Nat \ {0}, f \in Nat \ {0}, s \in Nat \ {0}, h \in Nat \ {0} :
        a = [thread |-> t, frame |-> f, scope |-> s, handle |-> h]
  BY DEF Counters
<1>2. b = [thread |-> t + n, frame |-> f + c, scope |-> s + 1, handle |-> h]
  BY <1>1 DEF ScopeCount
<1>3. t + n \in Nat \ {0} /\ f + c \in Nat \ {0} /\ s + 1 \in Nat \ {0}
  BY <1>1
<1> QED
  BY <1>1, <1>2, <1>3 DEF Counters

(* Spawn creates one thread, and binds it. *)
LEMMA SpawnCreates ==
  ASSUME NetInv, NEW k \in marking, Spawn(k)
  PROVE  /\ Statement(k).f \in Functions /\ Statement(k).h \in HandleNames /\ k.at[1] = "control"
         /\ Creates(k, Falls(k), <<Statement(k).f>>, None)
<1> DEFINE o   == Statement(k)
           fs  == <<o.f>>
           hid == alloc.handle
           t   == k.thread
           f   == k.frame
           wf  == WithNewFrames(frames, fs)
           wt  == WithNewThreads(threads, fs, None)
           pf  == Placed(wf, {Falls(k)})
           new == alloc.thread
           x   == wt[t]
           y   == [x EXCEPT !.children[hid] = new]
           z   == [pf[f] EXCEPT !.handles[o.h] = hid]
<1>1. k.at[1] = "control" /\ k.at \in StatementPlace /\ o.f \in Functions /\ o.h \in HandleNames
  BY Enabled, OpFields, ControlStands DEF Spawn
<1>2. fs \in Seq(Functions) /\ Len(fs) = 1 /\ DOMAIN fs = {1} /\ hid \in Ids /\ HasRoom(fs)
  BY <1>1 DEF Spawn, CreateThreads
<1>3. /\ prog' = prog /\ data' = data /\ buf' = buf /\ scopes' = scopes
      /\ finished' = finished \union {NthThread(i) : i \in DOMAIN fs \ Born(fs)}
      /\ marking' = (marking \ {k}) \union ({Falls(k)} \union StartTokens(fs))
      /\ frames' = [pf EXCEPT ![f].handles[o.h] = hid]
      /\ threads' = [wt EXCEPT ![t].children[hid] = new]
      /\ alloc' = [alloc EXCEPT !.thread = @ + 1, !.handle = @ + 1,
                                !.frame = @ + Cardinality(Born(fs))]
  BY DEF Spawn, CreateThreads, OnlyThreads, dataVars
<1> HIDE DEF fs, o
<1>4. /\ t \in Ids /\ t \in Live /\ threads[t] \in ThreadState /\ threads[t] # NoThread
      /\ f \in Ids /\ frames[f] \in FrameState /\ frames[f] # NoFrame
  BY TokenFrame
<1>5. /\ Falls(k) \in Tokens /\ Falls(k).thread = t /\ Falls(k).frame = f
      /\ Falls(k).at \in StatementPlace /\ Falls(k).at[1] = "control"
      /\ Falls(k).at[2] = frames[f].fn /\ Falls(k).at[3] = frames[f].pc + 1
  BY <1>1, FallPlaced
<1>6. /\ Born(fs) \subseteq DOMAIN fs
      /\ \A i \in DOMAIN fs : NthThread(i) \in Ids /\ threads[NthThread(i)] = NoThread
  BY <1>2, ThreadsFor
<1>7. new \in Ids
  <2>1. NthThread(1) \in Ids /\ NthThread(1) = alloc.thread + 1 - 1
    BY <1>2, <1>6 DEF NthThread
  <2>2. alloc.thread \in Nat
    BY DEF NetInv, NetTypes
  <2> QED
    BY <2>1, <2>2
<1>8. CreatesFrames(k, fs) /\ frames'[f].fn = frames[f].fn /\ frames'[f].pc = frames[f].pc + 1
  <2>1. /\ wf \in FrameStore
        /\ \A g \in Ids : (\A i \in Born(fs) : g # NthFrame(fs, i)) => wf[g] = frames[g]
        /\ \A i \in Born(fs) : /\ wf[NthFrame(fs, i)] # NoFrame
                               /\ wf[NthFrame(fs, i)].fn = fs[i] /\ wf[NthFrame(fs, i)].pc = 1
    BY <1>2, NewFrames
  <2>2. /\ \A i \in Born(fs) : NthFrame(fs, i) # f /\ NthFrame(fs, i) \in Ids
        /\ wf[f] = frames[f]
    BY <1>2, <1>4, <2>1, FramesFor
  <2> HIDE DEF wf
  <2>3. frames[f].pc + 1 \in Nat \ {0}
    BY <1>4 DEF FrameState
  <2>4. /\ pf \in FrameStore /\ \A g \in Ids : g # f => pf[g] = wf[g]
        /\ pf[f] \in FrameState /\ pf[f].fn = frames[f].fn
        /\ pf[f].ret = frames[f].ret /\ pf[f].pc = frames[f].pc + 1
    <3>1. PICK n : n = Falls(k)
      OBVIOUS
    <3>2. PICK g : g = f
      OBVIOUS
    <3>3. /\ n.frame = g /\ n.at[3] = frames[g].pc + 1 /\ g \in Ids
          /\ wf[g] = frames[g] /\ wf[g] \in FrameState /\ n.at[3] \in Nat \ {0}
      BY <1>4, <1>5, <2>2, <2>3, <3>1, <3>2
    <3>4. PICK h : h = Placed(wf, {n})
      OBVIOUS
    <3>5. pf = h
      BY <3>1, <3>4
    <3>6. /\ h \in FrameStore /\ \A e \in Ids : e # g => h[e] = wf[e]
          /\ h[g] \in FrameState /\ h[g].fn = wf[g].fn
          /\ h[g].ret = wf[g].ret /\ h[g].pc = n.at[3]
      BY <2>1, <3>3, <3>4, PlacedOne
    <3> HIDE DEF pf
    <3>7. /\ h \in FrameStore /\ \A e \in Ids : e # g => h[e] = wf[e]
          /\ h[g] \in FrameState /\ h[g].fn = frames[g].fn
          /\ h[g].ret = frames[g].ret /\ h[g].pc = frames[g].pc + 1
      BY <3>3, <3>6
    <3> HIDE DEF f
    <3> QED
      BY <3>2, <3>5, <3>7
  <2> HIDE DEF pf
  <2>5. z \in FrameState /\ z.fn = pf[f].fn /\ z.pc = pf[f].pc /\ z.ret = pf[f].ret
    <3> DEFINE q == pf[f]
               hs == [q.handles EXCEPT ![o.h] = hid]
    <3>1. q \in FrameState
      BY <2>4
    <3>2. z = [q EXCEPT !.handles = hs]
      OBVIOUS
    <3> HIDE DEF q, z
    <3>3. hs \in [HandleNames -> Ids \union {None}]
      BY <1>2, <3>1 DEF FrameState
    <3> HIDE DEF hs
    <3>4. z \in FrameState /\ z.fn = q.fn /\ z.pc = q.pc /\ z.ret = q.ret
      BY <3>1, <3>2, <3>3 DEF FrameState
    <3> QED
      BY <3>4 DEF q
  <2>6. frames' = [pf EXCEPT ![f] = z]
    BY <1>3
  <2> HIDE DEF z
  <2>7. frames' \in FrameStore /\ frames'[f] = z /\ \A g \in Ids : g # f => frames'[g] = wf[g]
    BY <1>4, <2>4, <2>5, <2>6 DEF FrameStore
  <2>8. z # NoFrame
    BY <2>5, NetAssumption
  <2> QED
    BY <1>4, <2>1, <2>2, <2>4, <2>5, <2>7, <2>8 DEF CreatesFrames
<1>9. CreatesRecords(k, fs, None) /\ threads'[t].blocked = threads[t].blocked
  <2>1. /\ wt \in ThreadStore
        /\ \A u \in Ids : (\A i \in DOMAIN fs : u # NthThread(i)) => wt[u] = threads[u]
        /\ \A i \in DOMAIN fs :
             /\ wt[NthThread(i)] # NoThread /\ wt[NthThread(i)].parent = None
             /\ wt[NthThread(i)].stack = IF i \in Born(fs) THEN <<NthFrame(fs, i)>> ELSE <<>>
             /\ wt[NthThread(i)].blocked = Nothing
    BY <1>2, NewThreads
  <2>2. (\A i \in DOMAIN fs : NthThread(i) # t) /\ wt[t] = threads[t]
    BY <1>4, <1>6, <2>1
  <2> HIDE DEF wt
  <2>3. /\ y \in ThreadState /\ y.stack = x.stack /\ y.parent = x.parent
        /\ y.blocked = x.blocked
    <3> DEFINE cs == [x.children EXCEPT ![hid] = new]
    <3>1. x \in ThreadState
      BY <1>4, <2>2
    <3>2. y = [x EXCEPT !.children = cs]
      OBVIOUS
    <3> HIDE DEF x, new
    <3>3. cs \in [Ids -> Ids \union {None}]
      BY <1>7, <3>1 DEF ThreadState
    <3> HIDE DEF y, cs
    <3> QED
      BY <3>1, <3>2, <3>3 DEF ThreadState
  <2>4. threads' = [wt EXCEPT ![t] = y]
    BY <1>3
  <2> HIDE DEF y
  <2>5. threads' \in ThreadStore /\ threads'[t] = y /\ \A u \in Ids : u # t => threads'[u] = wt[u]
    BY <1>4, <2>1, <2>3, <2>4 DEF ThreadStore
  <2>6. y # NoThread
    BY <2>3, NetAssumption
  <2>7. threads'[t].blocked = threads[t].blocked
    BY <2>2, <2>3, <2>5
  <2>8. CreatesRecords(k, fs, None)
    BY <1>3, <1>4, <1>6, <2>1, <2>2, <2>3, <2>5, <2>6 DEF CreatesRecords
  <2> QED
    BY <2>7, <2>8
<1>10. CreatesScope(fs, None)
  <2>1. scopes' \in ScopeStore
    BY <1>3 DEF NetInv, NetTypes
  <2>2. /\ alloc'.thread = alloc.thread + Len(fs) /\ alloc'.scope = alloc.scope
        /\ alloc'.frame = alloc.frame + Cardinality(Born(fs))
        /\ alloc' \in [thread : Nat \ {0}, frame : Nat \ {0}, scope : Nat \ {0}, handle : Nat \ {0}]
    <3>1. Cardinality(Born(fs)) \in Nat
      BY <1>2, FramesFor
    <3>2. alloc \in Counters
      BY DEF NetInv, NetTypes, Counters
    <3>3. PICK c \in Nat : c = Cardinality(Born(fs))
      BY <3>1
    <3>4. PICK a \in Counters : a = alloc
      BY <3>2
    <3>5. PICK b : b = alloc'
      OBVIOUS
    <3>6. b = [a EXCEPT !.thread = @ + 1, !.handle = @ + 1, !.frame = @ + c]
      BY <1>3, <3>3, <3>4, <3>5
    <3>7. /\ b.thread = a.thread + 1 /\ b.scope = a.scope /\ b.frame = a.frame + c
          /\ b \in Counters
      <4>1. a \in Counters /\ c \in Nat
        BY <3>3, <3>4
      <4> QED
        BY ONLY ZenonT(40), <3>6, <4>1, ThreadCounted
    <3> QED
      BY <1>2, <3>3, <3>4, <3>5, <3>7 DEF Counters
  <2>3. \A s \in Ids : s >= alloc.scope => scopes[s] = NoScope
    BY DEF NetInv, Unborn
  <2> QED
    BY <1>3, <2>1, <2>2, <2>3 DEF CreatesScope
<1>11. Settled(Falls(k))
  <2>1. threads'[t].blocked = Nothing
    BY <1>1, <1>9, ControlStands
  <2> QED
    BY <1>5, <1>8, <2>1 DEF Settled
<1>12. CreatesTokens(k, Falls(k), fs)
  BY <1>3, <1>5, <1>11 DEF CreatesTokens
<1>13. Creates(k, Falls(k), fs, None)
  BY <1>3, <1>8, <1>9, <1>10, <1>12 DEF Creates
<1> QED
  BY <1>1, <1>13 DEF fs, o

LEMMA SpawnKeeps ==
  ASSUME NetInv, NEW k \in marking, Spawn(k)
  PROVE  NetInv'
<1>1. Statement(k).f \in Functions /\ Creates(k, Falls(k), <<Statement(k).f>>, None)
  BY SpawnCreates
<1>2. HasRoom(<<Statement(k).f>>)
  BY DEF Spawn, CreateThreads
<1>3. <<Statement(k).f>> \in Seq(Functions)
  BY <1>1
<1>4. PICK fs \in Seq(Functions) : fs = <<Statement(k).f>>
  BY <1>3
<1>5. Creates(k, Falls(k), fs, None) /\ HasRoom(fs)
  BY <1>1, <1>2, <1>4
<1> QED
  BY <1>5, CreationKeeps

(* What a scope leaves where it goes on at once, for want of a live member. *)
ScopeEnds(k, fs, s) ==
  /\ Born(fs) = {}
  /\ marking' = (marking \ {k}) \union {Falls(k)}
  /\ frames' = Placed(frames, {Falls(k)})
  /\ threads' = WithNewThreads(threads, fs, s)
  /\ scopes' = scopes

(* What it leaves where it waits, at the token own, for its live members. *)
ScopeWaits(k, own, fs, s) ==
  /\ Born(fs) # {}
  /\ \E r \in ScopeState :
       /\ r = [owner |-> k.thread, frame |-> k.frame, sid |-> own.at[3],
               remaining |-> {NthThread(i) : i \in Born(fs)}]
       /\ scopes' = [scopes EXCEPT ![s] = r]
  /\ marking' = (marking \ {k}) \union StartTokens(fs) \union {own}
  /\ frames' = WithNewFrames(frames, fs)
  /\ threads' = Blocked(WithNewThreads(threads, fs, s), k.thread, own.at)

(* What every scope does. *)
ScopeOpens(fs, s) ==
  /\ HasRoom(fs) /\ s = alloc.scope /\ s \in Ids
  /\ finished' = finished \union {NthThread(i) : i \in DOMAIN fs \ Born(fs)}
  /\ alloc' = [alloc EXCEPT !.thread = @ + Len(fs), !.scope = @ + 1,
                            !.frame = @ + Cardinality(Born(fs))]
  /\ prog' = prog /\ data' = data /\ buf' = buf

(* The scope's identity was none before. *)
LEMMA ScopeOpened ==
  ASSUME NetInv, NEW fs \in Seq(Functions), NEW s, ScopeOpens(fs, s)
  PROVE  /\ scopes[s] = NoScope /\ \A q \in Ids : q >= alloc'.scope => q # s /\ scopes[q] = NoScope
         /\ alloc' \in [thread : Nat \ {0}, frame : Nat \ {0}, scope : Nat \ {0}, handle : Nat \ {0}]
         /\ alloc'.thread = alloc.thread + Len(fs)
         /\ alloc'.frame = alloc.frame + Cardinality(Born(fs))
<1>1. PICK a \in Counters : a = alloc
  BY DEF NetInv, NetTypes, Counters
<1>2. PICK c \in Nat : c = Cardinality(Born(fs))
  BY FramesFor DEF ScopeOpens
<1>3. PICK n \in Nat : n = Len(fs)
  OBVIOUS
<1>4. PICK b : b = alloc'
  OBVIOUS
<1>5. ScopeCount(a, b, n, c)
  BY <1>1, <1>2, <1>3, <1>4 DEF ScopeOpens, ScopeCount
<1>6. /\ b.thread = a.thread + n /\ b.scope = a.scope + 1 /\ b.frame = a.frame + c
      /\ b \in Counters
  BY <1>5, ScopeCounted
<1>7. \A q \in Ids : q >= a.scope => scopes[q] = NoScope
  BY <1>1 DEF NetInv, Unborn
<1>8. s = a.scope /\ s \in Ids /\ s \in Nat
  BY <1>1 DEF ScopeOpens, Ids
<1>9. scopes[s] = NoScope
  BY <1>7, <1>8
<1>10. \A q \in Ids : q >= b.scope => q # s /\ scopes[q] = NoScope
  <2> SUFFICES ASSUME NEW q \in Ids, q >= b.scope
               PROVE  q # s /\ scopes[q] = NoScope
    OBVIOUS
  <2>1. q \in Nat /\ q >= s + 1
    BY <1>6, <1>8 DEF Ids
  <2>2. q # s /\ q >= s
    BY <1>8, <2>1
  <2> QED
    BY <1>7, <1>8, <2>2
<1> QED
  BY <1>1, <1>2, <1>3, <1>4, <1>6, <1>9, <1>10 DEF Counters

(* The members of a scope with nobody live are finished threads. *)
LEMMA ScopeEndsCreates ==
  ASSUME NetInv, NEW k \in marking, k.at \in StatementPlace, k.at[1] = "control",
         NEW fs \in Seq(Functions), NEW s, ScopeOpens(fs, s), ScopeEnds(k, fs, s)
  PROVE  Creates(k, Falls(k), fs, s)
<1> DEFINE wt == WithNewThreads(threads, fs, s)
           pf == Placed(frames, {Falls(k)})
           t  == k.thread
           f  == k.frame
<1>1. HasRoom(fs) /\ s \in Ids
  BY DEF ScopeOpens
<1>2. /\ t \in Ids /\ t \in Live /\ threads[t] # NoThread
      /\ f \in Ids /\ frames[f] \in FrameState /\ frames[f] # NoFrame
  BY TokenFrame
<1>3. /\ Falls(k) \in Tokens /\ Falls(k).thread = t /\ Falls(k).frame = f
      /\ Falls(k).at \in StatementPlace /\ Falls(k).at[1] = "control"
      /\ Falls(k).at[2] = frames[f].fn /\ Falls(k).at[3] = frames[f].pc + 1
  BY FallPlaced
<1>4. /\ frames' \in FrameStore /\ \A g \in Ids : g # f => frames'[g] = frames[g]
      /\ frames'[f] \in FrameState /\ frames'[f].fn = frames[f].fn
      /\ frames'[f].ret = frames[f].ret /\ frames'[f].pc = frames[f].pc + 1
  <2>1. PICK n : n = Falls(k)
    OBVIOUS
  <2>2. PICK g : g = f
    OBVIOUS
  <2>3. PICK w : w = frames
    OBVIOUS
  <2>4. frames[f].pc + 1 \in Nat \ {0}
    BY <1>2 DEF FrameState
  <2>5. /\ n.frame = g /\ g \in Ids /\ w[g] \in FrameState /\ w \in FrameStore
        /\ n.at[3] = w[g].pc + 1 /\ n.at[3] \in Nat \ {0}
    BY <1>2, <1>3, <2>1, <2>2, <2>3, <2>4 DEF NetInv, NetTypes
  <2>6. PICK h : h = Placed(w, {n})
    OBVIOUS
  <2>7. frames' = h
    BY <2>1, <2>3, <2>6 DEF ScopeEnds
  <2>8. /\ h \in FrameStore /\ \A e \in Ids : e # g => h[e] = w[e]
        /\ h[g] \in FrameState /\ h[g].fn = w[g].fn /\ h[g].ret = w[g].ret /\ h[g].pc = n.at[3]
    BY <2>5, <2>6, PlacedOne
  <2> HIDE DEF f
  <2> QED
    BY <2>2, <2>3, <2>5, <2>7, <2>8
<1>5. CreatesFrames(k, fs)
  <2>1. frames'[f] # NoFrame
    BY <1>4, NetAssumption
  <2> QED
    BY <1>2, <1>4, <2>1 DEF CreatesFrames, ScopeEnds
<1>6. /\ threads' \in ThreadStore
      /\ \A u \in Ids : (\A i \in DOMAIN fs : u # NthThread(i)) => threads'[u] = threads[u]
      /\ \A i \in DOMAIN fs :
           /\ threads'[NthThread(i)] # NoThread /\ threads'[NthThread(i)].parent = s
           /\ threads'[NthThread(i)].stack = IF i \in Born(fs) THEN <<NthFrame(fs, i)>> ELSE <<>>
           /\ threads'[NthThread(i)].blocked = Nothing
  <2>1. threads' = wt
    BY DEF ScopeEnds
  <2>2. /\ wt \in ThreadStore
        /\ \A u \in Ids : (\A i \in DOMAIN fs : u # NthThread(i)) => wt[u] = threads[u]
        /\ \A i \in DOMAIN fs :
             /\ wt[NthThread(i)] # NoThread /\ wt[NthThread(i)].parent = s
             /\ wt[NthThread(i)].stack = IF i \in Born(fs) THEN <<NthFrame(fs, i)>> ELSE <<>>
             /\ wt[NthThread(i)].blocked = Nothing
    BY <1>1, NewThreads
  <2> HIDE DEF wt
  <2> QED
    BY <2>1, <2>2
<1>7. CreatesRecords(k, fs, s)
  BY <1>6 DEF CreatesRecords, ScopeOpens
<1>8. threads'[t].blocked = Nothing
  <2>1. \A i \in DOMAIN fs : t # NthThread(i)
    BY <1>1, <1>2, ThreadsFor
  <2>2. threads[t].blocked = Nothing
    BY ControlStands
  <2> QED
    BY <1>2, <1>6, <2>1, <2>2
<1>9. CreatesScope(fs, s)
  <2>1. scopes' = scopes /\ scopes \in ScopeStore /\ Born(fs) = {}
    BY DEF ScopeEnds, NetInv, NetTypes
  <2> QED
    BY <2>1, ScopeOpened DEF CreatesScope
<1>10. StartTokens(fs) = {}
  BY DEF StartTokens, ScopeEnds
<1>11. Settled(Falls(k))
  BY <1>3, <1>4, <1>8 DEF Settled
<1>12. CreatesTokens(k, Falls(k), fs)
  BY <1>3, <1>10, <1>11 DEF CreatesTokens, ScopeEnds
<1> QED
  BY <1>5, <1>7, <1>9, <1>12 DEF Creates, ScopeOpens

(* The owner of a scope with live members waits for them. *)
LEMMA ScopeWaitsCreates ==
  ASSUME NetInv, NEW k \in marking, NEW own \in Tokens, own.at \in StatementPlace,
         own.at[1] = "scope", own.at[2] = frames[k.frame].fn, own.at[3] = frames[k.frame].pc,
         own.thread = k.thread, own.frame = k.frame,
         NEW fs \in Seq(Functions), NEW s, ScopeOpens(fs, s), ScopeWaits(k, own, fs, s)
  PROVE  Creates(k, own, fs, s)
<1> DEFINE wt == WithNewThreads(threads, fs, s)
           wf == WithNewFrames(frames, fs)
           t  == k.thread
           f  == k.frame
           x  == wt[t]
           y  == [x EXCEPT !.blocked = own.at]
<1>1. HasRoom(fs) /\ s \in Ids
  BY DEF ScopeOpens
<1>2. /\ t \in Ids /\ t \in Live /\ threads[t] \in ThreadState /\ threads[t] # NoThread
      /\ f \in Ids /\ frames[f] \in FrameState /\ frames[f] # NoFrame
  BY TokenFrame
<1>3. /\ frames' \in FrameStore
      /\ \A g \in Ids : (\A i \in Born(fs) : g # NthFrame(fs, i)) => frames'[g] = frames[g]
      /\ \A i \in Born(fs) : /\ frames'[NthFrame(fs, i)] # NoFrame
                             /\ frames'[NthFrame(fs, i)].fn = fs[i]
                             /\ frames'[NthFrame(fs, i)].pc = 1
  <2>1. frames' = wf
    BY DEF ScopeWaits
  <2>2. /\ wf \in FrameStore
        /\ \A g \in Ids : (\A i \in Born(fs) : g # NthFrame(fs, i)) => wf[g] = frames[g]
        /\ \A i \in Born(fs) : /\ wf[NthFrame(fs, i)] # NoFrame
                               /\ wf[NthFrame(fs, i)].fn = fs[i] /\ wf[NthFrame(fs, i)].pc = 1
    BY <1>1, NewFrames
  <2> HIDE DEF wf
  <2> QED
    BY <2>1, <2>2
<1>4. CreatesFrames(k, fs)
  BY <1>3 DEF CreatesFrames
<1>5. frames'[f] = frames[f]
  BY <1>1, <1>2, <1>3, FramesFor
<1>6. CreatesRecords(k, fs, s) /\ threads'[t].blocked = own.at
  <2>1. /\ wt \in ThreadStore
        /\ \A u \in Ids : (\A i \in DOMAIN fs : u # NthThread(i)) => wt[u] = threads[u]
        /\ \A i \in DOMAIN fs :
             /\ wt[NthThread(i)] # NoThread /\ wt[NthThread(i)].parent = s
             /\ wt[NthThread(i)].stack = IF i \in Born(fs) THEN <<NthFrame(fs, i)>> ELSE <<>>
             /\ wt[NthThread(i)].blocked = Nothing
    BY <1>1, NewThreads
  <2>2. (\A i \in DOMAIN fs : NthThread(i) \in Ids /\ NthThread(i) # t) /\ wt[t] = threads[t]
    BY <1>1, <1>2, <2>1, ThreadsFor
  <2> HIDE DEF wt
  <2>3. y \in ThreadState /\ y.stack = x.stack /\ y.parent = x.parent /\ y.blocked = own.at
    <3>1. x \in ThreadState
      BY <1>2, <2>2
    <3>2. own.at \in Place
      BY DEF Place
    <3> HIDE DEF x
    <3> QED
      BY <3>1, <3>2 DEF ThreadState
  <2>4. threads' = [wt EXCEPT ![t] = y]
    BY DEF ScopeWaits, Blocked, wt
  <2> HIDE DEF y
  <2>5. threads' \in ThreadStore /\ threads'[t] = y /\ \A u \in Ids : u # t => threads'[u] = wt[u]
    BY <1>2, <2>1, <2>3, <2>4 DEF ThreadStore
  <2>6. y # NoThread
    BY <2>3, NetAssumption
  <2>7. threads'[t].blocked = own.at
    BY <2>3, <2>5
  <2>8. CreatesRecords(k, fs, s)
    BY <1>2, <2>1, <2>2, <2>3, <2>5, <2>6 DEF CreatesRecords, ScopeOpens
  <2> QED
    BY <2>7, <2>8
<1>7. CreatesScope(fs, s)
  <2>0. PICK r \in ScopeState :
          /\ r = [owner |-> k.thread, frame |-> k.frame, sid |-> own.at[3],
                  remaining |-> {NthThread(i) : i \in Born(fs)}]
          /\ scopes' = [scopes EXCEPT ![s] = r]
    BY DEF ScopeWaits
  <2>1. scopes' = [scopes EXCEPT ![s] = r] /\ r.remaining = {NthThread(i) : i \in Born(fs)}
    BY <2>0
  <2>2. scopes \in ScopeStore
    BY DEF NetInv, NetTypes
  <2>3. r # NoScope
    BY <2>1, NetAssumption
  <2>4. scopes' \in ScopeStore /\ scopes'[s] = r /\ \A q \in Ids : q # s => scopes'[q] = scopes[q]
    BY <1>1, <2>1, <2>2 DEF ScopeStore
  <2>5. \A q \in Ids : scopes[q] # NoScope => scopes'[q] = scopes[q]
    BY <2>4, ScopeOpened
  <2>6. \A q \in Ids : q >= alloc'.scope => scopes'[q] = NoScope
    BY <2>4, ScopeOpened
  <2>7. scopes'[s] # NoScope /\ \A i \in Born(fs) : NthThread(i) \in scopes'[s].remaining
    BY <2>1, <2>3, <2>4
  <2> QED
    BY <2>4, <2>5, <2>6, <2>7, ScopeOpened DEF CreatesScope
<1>8. Settled(own)
  BY <1>5, <1>6 DEF Settled
<1>9. CreatesTokens(k, own, fs)
  BY <1>8 DEF CreatesTokens, ScopeWaits
<1> QED
  BY <1>4, <1>6, <1>7, <1>9 DEF Creates, ScopeOpens

(* Where the owner of a scope waits *)
OwnToken(k) == [k EXCEPT !.at = ScopeWait(FrameOfToken(k).fn, FrameOfToken(k).pc)]

LEMMA OwnPlaced ==
  ASSUME NetInv, NEW k \in marking, k.at \in StatementPlace, k.at[1] = "control"
  PROVE  /\ OwnToken(k) \in Tokens /\ OwnToken(k).at \in StatementPlace
         /\ OwnToken(k).at[1] = "scope" /\ OwnToken(k).at[2] = frames[k.frame].fn
         /\ OwnToken(k).at[3] = frames[k.frame].pc
         /\ OwnToken(k).thread = k.thread /\ OwnToken(k).frame = k.frame
         /\ OwnToken(k).at = ScopeWait(FrameOfToken(k).fn, FrameOfToken(k).pc)
<1>1. PICK own : own = OwnToken(k)
  OBVIOUS
<1>2. PICK p : p = ScopeWait(FrameOfToken(k).fn, FrameOfToken(k).pc)
  OBVIOUS
<1>3. /\ p \in StatementPlace /\ p[1] = "scope"
      /\ p[2] = frames[k.frame].fn /\ p[3] = frames[k.frame].pc
  BY <1>2, TokenFrame DEF ScopeWait, StatementPlace, FrameState, FrameOfToken
<1>4. own = [k EXCEPT !.at = p]
  BY <1>1, <1>2 DEF OwnToken
<1>5. own \in Tokens /\ own.at = p /\ own.thread = k.thread /\ own.frame = k.frame
  BY <1>3, <1>4, ControlStands, TokenMoves
<1> QED
  BY <1>1, <1>2, <1>3, <1>5

(* Scope creates its members at once, and waits for those that live. *)
LEMMA ScopeIs ==
  ASSUME NetInv, NEW k \in marking, Scope(k)
  PROVE  /\ k.at[1] = "control" /\ k.at \in StatementPlace /\ Statement(k).fs \in Seq(Functions)
         /\ ScopeOpens(Statement(k).fs, alloc.scope)
         /\ \/ ScopeEnds(k, Statement(k).fs, alloc.scope)
            \/ ScopeWaits(k, OwnToken(k), Statement(k).fs, alloc.scope)
<1> DEFINE q  == Statement(k).fs
           fn == FrameOfToken(k).fn
           sid == FrameOfToken(k).pc
           rem == {NthThread(i) : i \in Born(q)}
<1>1. k.at[1] = "control" /\ k.at \in StatementPlace /\ q \in Seq(Functions)
  BY Enabled, OpFields, ControlStands DEF Scope
<1>2. PICK fs \in Seq(Functions) : fs = q
  BY <1>1
<1>3. PICK s : s = alloc.scope
  OBVIOUS
<1>4. ScopeOpens(fs, s)
  BY <1>2, <1>3 DEF Scope, CreateThreads, OnlyThreads, dataVars, ScopeOpens
<1>5. CASE rem = {}
  <2>1. ScopeEnds(k, fs, s)
    BY <1>2, <1>3, <1>5 DEF Scope, ScopeEnds
  <2> QED
    BY <1>1, <1>2, <1>3, <1>4, <2>1
<1>6. CASE rem # {}
  <2>1. PICK own : own = OwnToken(k)
    OBVIOUS
  <2>2. own.at[3] = sid /\ own.at = ScopeWait(fn, sid) /\ own = [k EXCEPT !.at = ScopeWait(fn, sid)]
    BY <1>1, <2>1, OwnPlaced DEF OwnToken, FrameOfToken
  <2>3. PICK r : r = [owner |-> k.thread, frame |-> k.frame, sid |-> own.at[3], remaining |-> rem]
    OBVIOUS
  <2>4. r \in ScopeState /\ rem = {NthThread(i) : i \in Born(fs)} /\ Born(fs) # {}
    <3>1. rem \subseteq Ids
      BY <1>2, <1>4, ThreadsFor DEF ScopeOpens
    <3>2. k.thread \in Ids /\ k.frame \in Ids /\ sid \in Nat \ {0}
      BY TokenFrame DEF FrameState, FrameOfToken
    <3>3. rem = {NthThread(i) : i \in Born(fs)} /\ Born(fs) # {}
      BY <1>2, <1>6
    <3> HIDE DEF rem
    <3>4. r \in ScopeState
      BY <2>2, <2>3, <3>1, <3>2 DEF ScopeState
    <3> QED
      BY <3>3, <3>4
  <2>5. /\ scopes' = [scopes EXCEPT ![s] = r]
        /\ marking' = (marking \ {k}) \union StartTokens(fs) \union {own}
        /\ frames' = WithNewFrames(frames, fs)
        /\ threads' = Blocked(WithNewThreads(threads, fs, s), k.thread, own.at)
    BY <1>2, <1>3, <1>6, <2>2, <2>3 DEF Scope
  <2> HIDE DEF rem
  <2>6. ScopeWaits(k, own, fs, s)
    BY <2>3, <2>4, <2>5 DEF ScopeWaits
  <2> QED
    BY <1>1, <1>2, <1>3, <1>4, <2>1, <2>6
<1> QED
  BY <1>5, <1>6

LEMMA ScopeCreates ==
  ASSUME NetInv, NEW k \in marking, Scope(k)
  PROVE  \/ /\ ScopeEnds(k, Statement(k).fs, alloc.scope)
            /\ Creates(k, Falls(k), Statement(k).fs, alloc.scope)
         \/ /\ ScopeWaits(k, OwnToken(k), Statement(k).fs, alloc.scope)
            /\ Creates(k, OwnToken(k), Statement(k).fs, alloc.scope)
<1>0. PICK fs \in Seq(Functions) : fs = Statement(k).fs
  BY ScopeIs
<1>1. PICK s, own : fs = Statement(k).fs /\ s = alloc.scope /\ own = OwnToken(k)
  BY <1>0
<1>2. /\ k.at[1] = "control" /\ k.at \in StatementPlace /\ ScopeOpens(fs, s)
      /\ ScopeEnds(k, fs, s) \/ ScopeWaits(k, own, fs, s)
  BY <1>1, ScopeIs
<1>3. CASE ScopeEnds(k, fs, s)
  BY <1>1, <1>2, <1>3, ScopeEndsCreates
<1>4. CASE ScopeWaits(k, own, fs, s)
  <2>1. Creates(k, own, fs, s)
    BY <1>1, <1>2, <1>4, OwnPlaced, ScopeWaitsCreates
  <2> QED
    BY <1>1, <1>4, <2>1
<1> QED
  BY <1>2, <1>3, <1>4

LEMMA ScopeKeeps ==
  ASSUME NetInv, NEW k \in marking, Scope(k)
  PROVE  NetInv'
<1>0. PICK fs \in Seq(Functions) : fs = Statement(k).fs
  BY ScopeIs
<1>1. PICK s, own : fs = Statement(k).fs /\ s = alloc.scope /\ own = OwnToken(k)
  BY <1>0
<1>2. HasRoom(fs) /\ s \in Ids
  <2>1. ScopeOpens(fs, s)
    BY <1>1, ScopeIs
  <2> QED
    BY <2>1 DEF ScopeOpens
<1>3. Creates(k, Falls(k), fs, s) \/ Creates(k, own, fs, s)
  BY <1>1, ScopeCreates
<1> QED
  BY <1>2, <1>3, CreationKeeps

-----------------------------------------------------------------------------
(* The invariant of the net *)

(* One thread, at the entry function's first statement or already finished. *)
LEMMA InitHolds == Init => NetInv
<1> SUFFICES ASSUME Init
             PROVE  NetInv
  OBVIOUS
<1> DEFINE born == Entry \in Nobody
           ff   == NewFrame(Entry, SlotInit[Entry], NoReturn)
           tt   == NewThread(Entry, IF born THEN <<>> ELSE <<1>>, None)
           k1   == ControlToken(1, 1, Entry, 1)
<1>1. Entry \in Functions /\ 1 \in Ids /\ None \notin Ids
  BY FunctionsAssumption, NetAssumption DEF Ids, None
<1>2. ff \in FrameState /\ ff.fn = Entry /\ ff.pc = 1
  <2>1. SlotInit[Entry] \in [Locals -> Values]
    BY <1>1, DeclarationsAssumption
  <2>2. NoReturn \in [pc : Nat, dst : Destinations]
    BY DEF NoReturn, Destinations
  <2> QED
    BY <1>1, <2>1, <2>2 DEF NewFrame, FrameState
<1>3. tt \in ThreadState /\ tt.stack = IF born THEN <<>> ELSE <<1>>
  BY <1>1 DEF NewThread, ThreadState
<1>4. tt.parent = None /\ tt.blocked = Nothing
  BY DEF NewThread
<1>5. k1 \in Tokens /\ k1.at \in StatementPlace /\ k1.at[1] = "control" /\ k1.at[2] = Entry
      /\ k1.at[3] = 1 /\ k1.thread = 1 /\ k1.frame = 1
  BY <1>1 DEF ControlToken, Control, Tokens, StatementPlace
<1>6. /\ prog \in Programs /\ marking = (IF born THEN {} ELSE {k1})
      /\ data = SharedInit /\ buf = [c \in Channels |-> <<>>]
      /\ frames = [f \in Ids |-> IF f = 1 /\ ~born THEN ff ELSE NoFrame]
      /\ threads = [t \in Ids |-> IF t # 1 THEN NoThread ELSE tt]
      /\ scopes = [s \in Ids |-> NoScope]
      /\ finished = IF born THEN {1} ELSE {}
      /\ alloc = [thread |-> 2, frame |-> IF born THEN 1 ELSE 2, scope |-> 1, handle |-> 1]
  BY DEF Init
<1> HIDE DEF ff, tt, k1
<1>7. ff # NoFrame /\ tt # NoThread
  BY <1>2, <1>3, NetAssumption
<1>8. /\ \A t \in Ids : t \in Live <=> t = 1 /\ ~born
      /\ \A t \in Ids : StackOf(t) = IF t = 1 /\ ~born THEN <<1>> ELSE <<>>
  BY <1>1, <1>3, <1>6, <1>7 DEF Live, StackOf
<1>9. NetTypes
  <2>1. data \in [Shared -> Values] /\ buf \in [Channels -> Seq(Values)]
    BY <1>6, DeclarationsAssumption
  <2>2. frames \in FrameStore /\ threads \in ThreadStore /\ scopes \in ScopeStore
    BY <1>2, <1>3, <1>6 DEF FrameStore, ThreadStore, ScopeStore
  <2>3. finished \subseteq {t \in Ids : threads[t] # NoThread}
    BY <1>1, <1>6, <1>7
  <2>4. alloc \in [thread : Nat \ {0}, frame : Nat \ {0}, scope : Nat \ {0}, handle : Nat \ {0}]
    BY <1>6
  <2> QED
    BY <1>5, <1>6, <2>1, <2>2, <2>3, <2>4 DEF NetTypes
<1>10. StacksOwn
  <2>1. \A t \in Ids : \A i \in DOMAIN StackOf(t) : t = 1 /\ ~born /\ i = 1 /\ StackOf(t)[i] = 1
    BY <1>8
  <2>2. ~born => frames[1] # NoFrame
    BY <1>1, <1>6, <1>7
  <2> QED
    BY <1>8, <2>1, <2>2 DEF StacksOwn
<1>11. Unborn
  BY <1>6 DEF Unborn, Ids
<1>12. MembersAwaited
  BY <1>1, <1>4, <1>6, <1>8 DEF MembersAwaited, Live
<1>13. OneToken
  <2>1. CASE born
    BY <1>6, <1>8, <2>1 DEF OneToken, Live
  <2>2. CASE ~born
    <3>1. TopOf(1) = 1
      BY <1>1, <1>8, <2>2 DEF TopOf
    <3>2. frames[1] = ff /\ threads[1] = tt /\ 1 \in Live
      BY <1>1, <1>6, <1>8, <2>2
    <3>3. Right(k1)
      BY <1>2, <1>4, <1>5, <3>1, <3>2 DEF Right, Pc
    <3> QED
      BY <1>5, <1>6, <1>8, <2>2, <3>3 DEF OneToken, Live
  <2> QED
    BY <2>1, <2>2
<1> QED
  BY <1>9, <1>10, <1>11, <1>12, <1>13 DEF NetInv

(* Every transition keeps the invariant. *)
LEMMA FireKeeps ==
  ASSUME NetInv, NEW k \in marking, Fire(k)
  PROVE  NetInv'
<1>1. CASE FireData(k)
  BY <1>1, DataKeeps
<1>2. CASE FireLock(k)
  BY <1>2, LocksKeep
<1>3. CASE FireSemaphore(k)
  BY <1>3, SemaphoreKeeps
<1>4. CASE FireChannel(k)
  BY <1>4, ChannelsKeep
<1>5. CASE FireControl(k)
  BY <1>5, JumpsKeep, CallKeeps, ReturnInnerKeeps, ReturnFinalKeeps DEF FireControl
<1>6. CASE FireThread(k)
  BY <1>6, SpawnKeeps, ScopeKeeps, JoinReadyKeeps, JoinBlockKeeps DEF FireThread
<1> QED
  BY <1>1, <1>2, <1>3, <1>4, <1>5, <1>6 DEF Fire

(* A firing, or none, keeps the invariant. *)
LEMMA NextHolds == NetInv /\ [Next]_vars => NetInv'
<1> SUFFICES ASSUME NetInv, [Next]_vars
             PROVE  NetInv'
  OBVIOUS
<1>1. CASE Next
  BY <1>1, FireKeeps DEF Next
<1>2. CASE UNCHANGED vars
  <2>1. NetTypes'
    BY <1>2 DEF vars, dataVars, storeVars, NetInv, NetTypes
  <2>2. StacksOwn' /\ Unborn' /\ MembersAwaited'
    BY <1>2 DEF vars, storeVars, NetInv, StacksOwn, Unborn, MembersAwaited, StackOf, Live
  <2>3. OneToken'
    BY <1>2
       DEF vars, storeVars, NetInv, OneToken, Right, TopOf, StackOf, Live, Pc, StandsAt
  <2> QED
    BY <2>1, <2>2, <2>3 DEF NetInv
<1> QED
  BY <1>1, <1>2

(* Marking, frames, threads and scopes of every reachable state of the net
   agree: the invariant behind TokensExact. *)
THEOREM NetInvariant == Spec => []NetInv
BY NextHolds, InitHolds, PTL DEF Spec

(* The marking is the blocking record of the store: every live thread has one
   token, it stands in the thread's top frame, at that frame's statement or at
   the wait place `blocked` names. *)
THEOREM TokensAreExact == Spec => []TokensExact
<1>1. NetInv => TokensExact
  <2> SUFFICES ASSUME NetInv
               PROVE  TokensExact
    OBVIOUS
  <2>1. ASSUME NEW t \in Live
        PROVE  Cardinality({k \in marking : k.thread = t}) = 1
    <3>1. PICK k \in marking : k.thread = t
      BY DEF NetInv, OneToken
    <3>2. {l \in marking : l.thread = t} = {k}
      BY <3>1 DEF NetInv, OneToken
    <3> QED
      BY <3>2, FS_Singleton
  <2>2. ASSUME NEW k \in marking
        PROVE  LET th == threads[k.thread] IN
               /\ k.thread \in Live /\ k.frame = th.stack[Len(th.stack)]
               /\ th.blocked = IF k.at[1] = "control" THEN Nothing ELSE k.at
               /\ IF k.at \in StatementPlace
                  THEN k.at[2] = frames[k.frame].fn /\ k.at[3] = Pc(k.frame)
                  ELSE StandsAt(frames[k.frame]).op \in {k.at[1], "wait"}
    <3>1. k.frame = threads[k.thread].stack[Len(threads[k.thread].stack)]
      BY TokenFrame DEF TopOf
    <3> QED
      BY <3>1 DEF NetInv, OneToken, Right
  <2> QED
    BY <2>1, <2>2 DEF TokensExact
<1> QED
  BY <1>1, NetInvariant, PTL
=============================================================================
