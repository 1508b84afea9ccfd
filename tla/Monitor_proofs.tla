--------------------------- MODULE Monitor_proofs ---------------------------
(***************************************************************************)
(* Proofs that what `monitor` makes of the events of a generated program   *)
(* is true of the program, for every program and every contract: its       *)
(* counts of the channels, whom it believes to hold what, and the verdicts *)
(* that follow.                                                            *)
(***************************************************************************)
EXTENDS Monitored, FiniteSetTheorems, TLAPS

-----------------------------------------------------------------------------
(* Types, and what each stage of a helper is for *)
Tagged == Functions \X Nat \X Nat
Stages == {"at", "taken", "recorded", "asleep", "woken", "offered", "woken2", "children", "returned"}
ThreadRec == [fn : Functions, pc : Nat \ {0}, stage : Stages]
StageFits(t) ==
  /\ thread[t].stage = "taken" => InBody(t) /\ Statement(t).op \in {"lock", "wait", "acquire"}
  /\ thread[t].stage = "recorded" => InBody(t) /\ event_at_attempt(Statement(t))
TypeInv ==
  /\ gprog \in Programs
  /\ thread \in [DOMAIN thread -> ThreadRec]
  /\ DOMAIN thread \subseteq Tagged /\ IsFiniteSet(DOMAIN thread)
  /\ \A t \in DOMAIN thread : thread[t].pc <= Len(Body(t)) + 1 /\ StageFits(t)
  /\ owner \in [Mutexes -> Tagged \union {NoOwner}]
  /\ queue \in [Channels -> Seq(Tagged)]

(* A thread was started by a scope some thread has begun, and the entry by none. *)
StartedBy(u, p) ==
  /\ thread[p].fn = u[1] /\ IsScope(gprog, u[1], u[2])
  /\ u[3] \in DOMAIN gprog[u[1]][u[2]].fs /\ thread[u].fn = MemberOf(u[1], u)
  /\ thread[p].pc > u[2] \/ (thread[p].pc = u[2] /\ thread[p].stage = "children")
Started ==
  \A u \in DOMAIN thread : \/ u = MainTag /\ thread[u].fn = Entry
                           \/ \E p \in DOMAIN thread : StartedBy(u, p)

(* The fields of the operations that matter here *)
LEMMA Fields ==
  ASSUME NEW o \in Operation
  PROVE  /\ o.op \in {"lock", "unlock"} => o.m \in Mutexes
         /\ o.op = "wait" => o.cv \in Condvars /\ o.m \in Mutexes
         /\ o.op \in {"notify", "notify_all"} => o.cv \in Condvars
         /\ o.op \in {"acquire", "release"} => o.s \in Semaphores
         /\ o.op \in {"send", "recv"} => o.c \in Channels
         /\ o.op = "scope" => o.fs \in Seq(Functions)
BY DEF Operation, DataOp, SyncOp, ChannelOp, ThreadOp, ControlOp

(* The statement a thread is at, and the body it runs *)
LEMMA StatementTyped ==
  ASSUME TypeInv, NEW t \in DOMAIN thread, InBody(t)
  PROVE  /\ Statement(t) \in Operation
         /\ thread[t].fn \in Functions /\ thread[t].pc \in 1..Len(Body(t))
         /\ Body(t) \in Seq(Operation)
<1>1. thread[t].fn \in Functions /\ gprog \in Programs
  BY DEF TypeInv, ThreadRec
<1>2. gprog[thread[t].fn] \in Seq(Operation)
  BY <1>1, ProgramsAssumption
<1> QED
  BY <1>1, <1>2 DEF InBody, Statement, Body

(* A started thread, and the body it runs *)
LEMMA ThreadTyped ==
  ASSUME TypeInv, NEW t \in DOMAIN thread
  PROVE  /\ thread[t] \in ThreadRec /\ t \in Tagged /\ t # NoOwner
         /\ thread[t].fn \in Functions /\ thread[t].pc \in Nat \ {0} /\ thread[t].stage \in Stages
         /\ Body(t) \in Seq(Operation)
<1>1. thread[t] \in ThreadRec /\ t \in Tagged /\ gprog \in Programs
  BY DEF TypeInv
<1>2. t # NoOwner
  BY <1>1, TagsAssumption DEF Tagged
<1>3. thread[t].fn \in Functions /\ thread[t].pc \in Nat \ {0} /\ thread[t].stage \in Stages
  BY <1>1 DEF ThreadRec
<1> QED
  BY <1>1, <1>2, <1>3, ProgramsAssumption DEF Body

(* What a record says *)
LEMMA Recorded ==
  ASSUME TypeInv, NEW t \in DOMAIN thread, InBody(t), is_observable(Statement(t)), Record(t)
  PROVE  /\ event' # NoEvent /\ event'.tag = t /\ event'.op = Statement(t).op
         /\ event'.r = ResourceOf(Statement(t))
<1>1. PICK e : e = [tag |-> t, sid |-> Sid(thread[t].fn, thread[t].pc),
                    op |-> Statement(t).op, r |-> ResourceOf(Statement(t))]
  OBVIOUS
<1>2. ResourceOf(Statement(t)) \in Resources \union {NoResource}
  BY StatementTyped, Fields DEF ResourceOf, Resources
<1>3. e \in Events
  <2>1. Sid(thread[t].fn, thread[t].pc) \in Functions \X Nat
    BY ThreadTyped DEF Sid
  <2>2. t \in Functions \X Nat \X Nat /\ Statement(t).op \in Observable
    BY ThreadTyped DEF Tagged, is_observable
  <2> QED
    BY <1>1, <1>2, <2>1, <2>2 DEF Events
<1>4. e # NoEvent
  BY <1>3, TagsAssumption
<1> QED
  BY <1>1, <1>4 DEF Record

(* The alignment finds the contract name of what the contract is about. *)
LEMMA Aligned ==
  ASSUME NEW r \in Holdable \union Channels
  PROVE  Align(NameOf[r]) = ContractName[r] /\ ContractName[r] # Unaligned
<1> DEFINE n == NameOf[r]
           c == ContractName[r]
<1>1. c \in Contract /\ c # Unaligned
  BY NamesAssumption
<1>2. CASE n \in DOMAIN Overrides /\ Overrides[n] = c
  BY <1>1, <1>2 DEF Align
<1>3. CASE n \notin DOMAIN Overrides /\ n = c
  BY <1>1, <1>3 DEF Align
<1>4. CASE /\ n \notin DOMAIN Overrides \union Contract /\ n.mod = ""
           /\ IF InMain(n) \in Contract THEN c = InMain(n)
              ELSE {x \in Contract : x.name = n.name} = {c}
  <2>1. CASE InMain(n) \in Contract
    BY <1>1, <1>4, <2>1 DEF Align
  <2>2. CASE InMain(n) \notin Contract
    <3> DEFINE same == {x \in Contract : x.name = n.name}
    <3>1. same = {c} /\ n \notin DOMAIN Overrides /\ n \notin Contract /\ n.mod = ""
      BY <1>4, <2>2
    <3>2. c \in same /\ same # {}
      BY <3>1
    <3>3. Align(n) = CHOOSE x \in same : TRUE
      BY <3>1, <3>2, <2>2, Zenon DEF Align
    <3>4. (CHOOSE x \in same : TRUE) \in same
      BY <3>2
    <3> QED
      BY <1>1, <3>1, <3>3, <3>4
  <2> QED
    BY <2>1, <2>2
<1>5. \/ n \in DOMAIN Overrides /\ Overrides[n] = c
      \/ n \notin DOMAIN Overrides /\ n = c
      \/ /\ n \notin DOMAIN Overrides \union Contract /\ n.mod = ""
         /\ IF InMain(n) \in Contract THEN c = InMain(n)
            ELSE {x \in Contract : x.name = n.name} = {c}
  BY NamesAssumption, Zenon
<1> QED
  BY <1>2, <1>3, <1>4, <1>5

(* A contract name belongs to one resource. *)
LEMMA NamedIs ==
  ASSUME NEW r \in Holdable
  PROVE  Named(ContractName[r]) = r
BY NamesAssumption DEF Named

-----------------------------------------------------------------------------
(* How a step leaves the threads: t moves, another one is only woken. *)
Undisturbed(T, u) ==
  /\ T[u].fn = thread[u].fn /\ T[u].pc = thread[u].pc
  /\ \/ T[u].stage = thread[u].stage
     \/ thread[u].stage = "asleep" /\ T[u].stage = "woken"
     \/ thread[u].stage = "offered" /\ T[u].stage = "woken2"
Moved(T, t, pc, stage) ==
  /\ T \in [DOMAIN thread -> ThreadRec]
  /\ T[t].fn = thread[t].fn /\ T[t].pc = pc /\ T[t].stage = stage
  /\ \A u \in DOMAIN thread \ {t} : Undisturbed(T, u)

(* Entering a stage of a helper moves t and no other thread, *)
LEMMA Staged ==
  ASSUME TypeInv, NEW t \in DOMAIN thread, NEW s \in Stages
  PROVE  Moved([thread EXCEPT ![t].stage = s], t, thread[t].pc, s)
<1>1. thread \in [DOMAIN thread -> ThreadRec]
  BY DEF TypeInv
<1> QED
  BY <1>1 DEF Moved, Undisturbed, ThreadRec

(* and so does going on to the next statement; *)
LEMMA Returned ==
  ASSUME TypeInv, NEW t \in DOMAIN thread
  PROVE  Moved(Return(t), t, thread[t].pc + 1, "at")
<1>1. thread \in [DOMAIN thread -> ThreadRec]
  BY DEF TypeInv
<1>2. thread[t].pc + 1 \in Nat \ {0} /\ "at" \in Stages
  BY <1>1 DEF ThreadRec, Stages
<1> QED
  BY <1>1, <1>2 DEF Moved, Undisturbed, ThreadRec, Return

(* waking another thread as well is a move of t still. *)
LEMMA Woken ==
  ASSUME TypeInv, NEW t \in DOMAIN thread, NEW T, NEW pc, NEW s, Moved(T, t, pc, s),
         NEW u \in DOMAIN thread, u # t, NEW w,
         \/ thread[u].stage = "asleep" /\ w = "woken"
         \/ thread[u].stage = "offered" /\ w = "woken2"
  PROVE  Moved([T EXCEPT ![u].stage = w], t, pc, s)
<1>1. T \in [DOMAIN thread -> ThreadRec] /\ w \in Stages
  BY DEF Moved, Stages
<1>2. Undisturbed(T, u)
  BY DEF Moved
<1>3. [T EXCEPT ![u].stage = w] \in [DOMAIN thread -> ThreadRec]
  BY <1>1 DEF ThreadRec
<1>4. Undisturbed([T EXCEPT ![u].stage = w], u)
  <2>1. [T EXCEPT ![u].stage = w][u] = [T[u] EXCEPT !.stage = w] /\ T[u] \in ThreadRec
    BY <1>1
  <2> QED
    BY <1>2, <2>1 DEF Undisturbed, ThreadRec
<1>5. \A v \in DOMAIN thread : v # u => [T EXCEPT ![u].stage = w][v] = T[v]
  BY <1>1
<1> QED
  BY <1>3, <1>4, <1>5 DEF Moved, Undisturbed

(* Where a step takes the thread that takes it *)
Legit(t, pc, stage) ==
  /\ \/ pc = thread[t].pc + 1 /\ stage = "at" /\ InBody(t)
     \/ /\ pc = thread[t].pc
        /\ stage = "taken" => InBody(t) /\ Statement(t).op \in {"lock", "wait", "acquire"}
        /\ stage = "recorded" => Announce(t)
  /\ thread[t].stage = "children" => pc = thread[t].pc + 1
Moves(t) == \E pc, s : Legit(t, pc, s) /\ Moved(thread', t, pc, s)

(* Every step but the start of a scope's children moves one thread so. *)
LEMMA AllMove ==
  ASSUME TypeInv, NEW t \in DOMAIN thread, GStep(t), ~StartChildren(t)
  PROVE  Moves(t) /\ gprog' = gprog
<1> USE DEF Stages
<1>p. ASSUME NEW s \in Stages, Stage(t, s)
      PROVE  Moved(thread', t, thread[t].pc, s)
  BY <1>p, Staged DEF Stage
<1>r. thread' = Return(t) => Moved(thread', t, thread[t].pc + 1, "at")
  BY Returned
<1>i. ASSUME NEW k, NEW s, At(t, k, s) PROVE InBody(t) /\ Statement(t).op = k /\ thread[t].stage = s
  BY <1>i DEF At
<1>1. CASE Announce(t)
  <2>1. Stage(t, "recorded") /\ Legit(t, thread[t].pc, "recorded")
    BY <1>1 DEF Announce, Legit
  <2>2. Moved(thread', t, thread[t].pc, "recorded")
    BY <2>1, <1>p
  <2> QED
    BY <1>1, <2>1, <2>2 DEF Moves, Announce
<1>2. CASE Report(t)
  <2>1. InBody(t)
    BY <1>2 DEF Report, TypeInv, StageFits
  <2>2. Legit(t, thread[t].pc + 1, "at")
    BY <2>1 DEF Legit
  <2> QED
    BY <1>2, <1>r, <2>2 DEF Moves, Report
<1>3. CASE TakeMutex(t)
  <2>1. Stage(t, "taken") /\ Legit(t, thread[t].pc, "taken")
    BY <1>3, <1>i DEF TakeMutex, Legit
  <2>2. Moved(thread', t, thread[t].pc, "taken")
    BY <2>1, <1>p
  <2> QED
    BY <1>3, <2>1, <2>2 DEF Moves, TakeMutex
<1>4. CASE Reacquire(t)
  <2>1. Stage(t, "taken") /\ Legit(t, thread[t].pc, "taken")
    BY <1>4, <1>i DEF Reacquire, Legit
  <2>2. Moved(thread', t, thread[t].pc, "taken")
    BY <2>1, <1>p
  <2> QED
    BY <1>4, <2>1, <2>2 DEF Moves, Reacquire
<1>5. CASE TakePermits(t)
  <2>1. Stage(t, "taken") /\ Legit(t, thread[t].pc, "taken")
    BY <1>5, <1>i DEF TakePermits, Legit
  <2>2. Moved(thread', t, thread[t].pc, "taken")
    BY <2>1, <1>p
  <2> QED
    BY <1>5, <2>1, <2>2 DEF Moves, TakePermits
<1>6. CASE Sleep(t)
  <2>1. Stage(t, "asleep") /\ Legit(t, thread[t].pc, "asleep")
    BY <1>6, <1>i DEF Sleep, Legit
  <2>2. Moved(thread', t, thread[t].pc, "asleep")
    BY <2>1, <1>p
  <2> QED
    BY <1>6, <2>1, <2>2 DEF Moves, Sleep
<1>7. CASE LeaveFunction(t)
  <2>1. Stage(t, "returned") /\ Legit(t, thread[t].pc, "returned")
    BY <1>7, <1>i DEF LeaveFunction, Legit
  <2>2. Moved(thread', t, thread[t].pc, "returned")
    BY <2>1, <1>p
  <2> QED
    BY <1>7, <2>1, <2>2 DEF Moves, LeaveFunction
<1>8. CASE DropGuard(t) \/ AddPermits(t) \/ JoinChildren(t) \/ Skip(t)
  <2>1. thread' = Return(t) /\ gprog' = gprog
    BY <1>8 DEF DropGuard, AddPermits, JoinChildren, Skip
  <2>2. InBody(t)
    BY <1>8 DEF DropGuard, AddPermits, JoinChildren, Skip, At
  <2>3. Legit(t, thread[t].pc + 1, "at")
    BY <2>2 DEF Legit
  <2> QED
    BY <1>r, <2>1, <2>3 DEF Moves
<1>l. InBody(t) => Legit(t, thread[t].pc + 1, "at")
  BY DEF Legit
<1>9. CASE NotifyOne(t)
  <2>1. InBody(t) /\ thread[t].stage = "recorded" /\ gprog' = gprog
    BY <1>9, <1>i DEF NotifyOne
  <2>2. Wakes(Return(t), Sleepers(Statement(t).cv), "woken")
    BY <1>9 DEF NotifyOne
  <2>3. Moved(Return(t), t, thread[t].pc + 1, "at")
    BY Returned
  <2>4. CASE thread' = Return(t)
    BY <2>1, <2>3, <2>4, <1>l DEF Moves
  <2>5. CASE \E u \in Sleepers(Statement(t).cv) : thread' = [Return(t) EXCEPT ![u].stage = "woken"]
    <3>1. PICK u \in Sleepers(Statement(t).cv) : thread' = [Return(t) EXCEPT ![u].stage = "woken"]
      BY <2>5
    <3>2. u \in DOMAIN thread /\ thread[u].stage = "asleep" /\ u # t
      BY <2>1, <3>1 DEF Sleepers, At
    <3>3. Moved(thread', t, thread[t].pc + 1, "at")
      BY <2>3, <3>1, <3>2, Woken
    <3> QED
      BY <2>1, <3>3, <1>l DEF Moves
  <2> QED
    BY <2>2, <2>4, <2>5 DEF Wakes
<1>10. CASE NotifyAll(t)
  <2>1. InBody(t) /\ thread[t].stage = "recorded" /\ gprog' = gprog
    BY <1>10, <1>i DEF NotifyAll
  <2>2. Moved(Return(t), t, thread[t].pc + 1, "at") /\ t \notin Sleepers(Statement(t).cv)
    BY <2>1, Returned DEF Sleepers, At
  <2>3. \A u \in DOMAIN thread : thread'[u] =
            IF u \in Sleepers(Statement(t).cv) THEN [thread[u] EXCEPT !.stage = "woken"]
                                               ELSE Return(t)[u]
    BY <1>10 DEF NotifyAll
  <2>4. DOMAIN thread' = DOMAIN thread /\ thread' = [u \in DOMAIN thread' |-> thread'[u]]
    BY <1>10 DEF NotifyAll
  <2>5. ASSUME NEW u \in DOMAIN thread
        PROVE  thread'[u] \in ThreadRec /\ (u # t => Undisturbed(thread', u))
    <3>1. thread[u] \in ThreadRec
      BY ThreadTyped
    <3>2. Return(t)[u] \in ThreadRec
      BY <2>2 DEF Moved
    <3>3. CASE u \in Sleepers(Statement(t).cv)
      BY <2>3, <3>1, <3>3 DEF Undisturbed, ThreadRec, Sleepers, At
    <3>4. CASE u \notin Sleepers(Statement(t).cv)
      <4>1. thread'[u] = Return(t)[u]
        BY <2>3, <3>4
      <4> QED
        BY <2>2, <3>2, <4>1 DEF Moved, Undisturbed
    <3> QED
      BY <3>3, <3>4
  <2>6. thread' \in [DOMAIN thread -> ThreadRec]
    BY <2>4, <2>5
  <2>7. thread'[t] = Return(t)[t]
    BY <2>2, <2>3
  <2>8. Moved(thread', t, thread[t].pc + 1, "at")
    BY <2>2, <2>5, <2>6, <2>7 DEF Moved
  <2> QED
    BY <2>1, <2>8, <1>l DEF Moves
<1>11. CASE Push(t)
  <2> DEFINE c == Statement(t).c
  <2>1. InBody(t) /\ Statement(t).op = "send" /\ gprog' = gprog /\ thread[t].stage # "children"
    BY <1>11, <1>i DEF Push
  <2>2. CASE Stage(t, "asleep")
    <3>1. Moved(thread', t, thread[t].pc, "asleep")
      BY <2>2, <1>p
    <3>2. Legit(t, thread[t].pc, "asleep")
      BY <2>1 DEF Legit
    <3> QED
      BY <2>1, <3>1, <3>2 DEF Moves
  <2>3. CASE Wakes(IF Capacity[c] = 0 THEN [thread EXCEPT ![t].stage = "offered"]
                                      ELSE Return(t),
                   SleepingReceivers(c), "woken")
    <3>1. PICK T : T = IF Capacity[c] = 0 THEN [thread EXCEPT ![t].stage = "offered"]
                                          ELSE Return(t)
      OBVIOUS
    <3>2. \E pc, s : Legit(t, pc, s) /\ Moved(T, t, pc, s)
      <4>1. CASE Capacity[c] = 0
        <5>1. Moved(T, t, thread[t].pc, "offered")
          BY <3>1, <4>1, Staged
        <5>2. Legit(t, thread[t].pc, "offered")
          BY <2>1 DEF Legit
        <5> QED
          BY <5>1, <5>2
      <4>2. CASE Capacity[c] # 0
        BY <2>1, <3>1, <4>2, Returned, <1>l
      <4> QED
        BY <4>1, <4>2
    <3>3. PICK pc, s : Legit(t, pc, s) /\ Moved(T, t, pc, s)
      BY <3>2
    <3>4. Wakes(T, SleepingReceivers(c), "woken")
      BY <2>3, <3>1
    <3>5. CASE thread' = T
      BY <2>1, <3>3, <3>5 DEF Moves
    <3>6. ASSUME NEW u \in SleepingReceivers(c), thread' = [T EXCEPT ![u].stage = "woken"]
          PROVE  Moves(t)
      <4>1. u \in DOMAIN thread /\ thread[u].stage = "asleep" /\ u # t
        BY <2>1 DEF SleepingReceivers, OnChannel, At
      <4>2. Moved(thread', t, pc, s)
        BY <3>3, <3>6, <4>1, Woken
      <4> QED
        BY <3>3, <4>2 DEF Moves
    <3> QED
      BY <2>1, <3>4, <3>5, <3>6 DEF Wakes
  <2> QED
    BY <1>11, <2>2, <2>3 DEF Push
<1>12. CASE AwaitEmpty(t)
  <2>1. InBody(t) /\ thread[t].stage # "children" /\ gprog' = gprog
    BY <1>12, <1>i DEF AwaitEmpty
  <2>2. Moved(thread', t, thread[t].pc + 1, "at") \/ Moved(thread', t, thread[t].pc, "offered")
    BY <1>12, Returned, Staged DEF AwaitEmpty
  <2>3. Legit(t, thread[t].pc, "offered")
    BY <2>1 DEF Legit
  <2> QED
    BY <2>1, <2>2, <2>3, <1>l DEF Moves
<1>13. CASE Pop(t)
  <2> DEFINE c == Statement(t).c
  <2>1. InBody(t) /\ Statement(t).op = "recv" /\ gprog' = gprog /\ thread[t].stage # "children"
    BY <1>13, <1>i DEF Pop
  <2>2. CASE Stage(t, "asleep")
    <3>1. Moved(thread', t, thread[t].pc, "asleep")
      BY <2>2, <1>p
    <3>2. Legit(t, thread[t].pc, "asleep")
      BY <2>1 DEF Legit
    <3> QED
      BY <2>1, <3>1, <3>2 DEF Moves
  <2>3. CASE WakesSender(t, c)
    <3>1. Moved(Return(t), t, thread[t].pc + 1, "at")
      BY Returned
    <3>2. CASE thread' = Return(t)
      BY <2>1, <3>1, <3>2, <1>l DEF Moves
    <3>3. ASSUME NEW u \in SleepingSenders(c),
                 thread' = [Return(t) EXCEPT ![u].stage = IF @ = "offered" THEN "woken2" ELSE "woken"]
          PROVE  Moves(t)
      <4>1. u \in DOMAIN thread /\ thread[u].stage \in {"asleep", "offered"} /\ u # t
        BY <2>1 DEF SleepingSenders, OnChannel, At
      <4>2. Return(t)[u].stage = thread[u].stage
        BY <4>1 DEF Return
      <4>3. PICK w : w = IF thread[u].stage = "offered" THEN "woken2" ELSE "woken"
        OBVIOUS
      <4>4. thread' = [Return(t) EXCEPT ![u].stage = w]
        BY <3>3, <4>2, <4>3
      <4>5. Moved(thread', t, thread[t].pc + 1, "at")
        BY <3>1, <4>1, <4>3, <4>4, Woken
      <4> QED
        BY <2>1, <4>5, <1>l DEF Moves
    <3> QED
      BY <2>1, <2>3, <3>2, <3>3 DEF WakesSender
  <2> QED
    BY <1>13, <2>2, <2>3 DEF Pop
<1> QED
  BY <1>1, <1>2, <1>3, <1>4, <1>5, <1>6, <1>7, <1>8, <1>9, <1>10, <1>11, <1>12, <1>13
     DEF GStep, SyncStep

(* A tag names one thread. *)
LEMMA NewTags ==
  ASSUME TypeInv, Started, NEW t \in DOMAIN thread, At(t, "scope", "recorded"),
         NEW u \in child_tags(thread[t].fn, thread[t].pc)
  PROVE  u \notin DOMAIN thread
<1> DEFINE f == thread[t].fn
           k == thread[t].pc
<1>1. f \in Functions /\ k \in Nat \ {0} /\ gprog \in Programs
  BY ThreadTyped DEF TypeInv
<1>2. IsScope(gprog, f, k)
  BY DEF At, InBody, Statement, IsScope
<1>3. PICK n \in DOMAIN gprog[f][k].fs : u = <<f, k, n>>
  BY DEF child_tags
<1>4. u # MainTag /\ u[1] = f /\ u[2] = k
  BY <1>1, <1>3 DEF MainTag
<1>5. ASSUME NEW q \in DOMAIN thread, NEW r \in DOMAIN thread, StartedBy(q, r), thread[q].fn = f
      PROVE  /\ f # Entry
             /\ \A p \in DOMAIN thread, v \in DOMAIN thread :
                  StartedBy(p, v) /\ thread[p].fn = f => p = q
  <2>1. /\ q \in Tagged /\ q[1] \in Functions /\ IsScope(gprog, q[1], q[2])
        /\ q[3] \in DOMAIN gprog[q[1]][q[2]].fs /\ gprog[q[1]][q[2]].fs[q[3]] = f
    BY <1>5, ThreadTyped DEF StartedBy, MemberOf, Tagged
  <2>2. q[2] \in DOMAIN gprog[q[1]] /\ k \in DOMAIN gprog[f]
    BY <2>1, <1>2 DEF IsScope
  <2>3. f # Entry
    BY <1>1, <1>2, <2>1, <2>2, TagsAssumption
  <2>4. ASSUME NEW p \in DOMAIN thread, NEW v \in DOMAIN thread, StartedBy(p, v), thread[p].fn = f
        PROVE  p = q
    <3>1. /\ p \in Tagged /\ p[1] \in Functions /\ IsScope(gprog, p[1], p[2])
          /\ p[3] \in DOMAIN gprog[p[1]][p[2]].fs /\ gprog[p[1]][p[2]].fs[p[3]] = f
      BY <2>4, ThreadTyped DEF StartedBy, MemberOf, Tagged
    <3>2. p[2] \in DOMAIN gprog[p[1]]
      BY <3>1 DEF IsScope
    <3>3. <<p[1], p[2], p[3]>> = <<q[1], q[2], q[3]>>
      BY <1>1, <1>2, <2>1, <2>2, <3>1, <3>2, TagsAssumption
    <3> QED
      BY <2>1, <3>1, <3>3 DEF Tagged
  <2> QED
    BY <2>3, <2>4
<1>6. ASSUME u \in DOMAIN thread PROVE FALSE
  <2>1. PICK p \in DOMAIN thread : StartedBy(u, p)
    BY <1>4, <1>6 DEF Started
  <2>2. thread[p].fn = f /\ p # t
    <3>1. thread[t].pc = k /\ thread[t].stage = "recorded" /\ k \in Int
      BY <1>1 DEF At
    <3>2. thread[p].fn = f /\ (thread[p].pc > k \/ (thread[p].pc = k /\ thread[p].stage = "children"))
      BY <1>4, <2>1 DEF StartedBy
    <3> QED
      BY <3>1, <3>2
  <2>3. \/ p = MainTag /\ f = Entry
        \/ \E r \in DOMAIN thread : StartedBy(p, r)
    BY <2>2 DEF Started
  <2>4. \/ t = MainTag /\ f = Entry
        \/ \E r \in DOMAIN thread : StartedBy(t, r)
    BY DEF Started
  <2> QED
    BY <1>5, <2>2, <2>3, <2>4
<1> QED
  BY <1>6

(* ... and the threads a scope starts are new. *)
Begun(t) ==
  LET new == child_tags(thread[t].fn, thread[t].pc) IN
  /\ new \cap DOMAIN thread = {} /\ new \subseteq Tagged /\ IsFiniteSet(new)
  /\ thread' \in [DOMAIN thread \union new -> ThreadRec]
  /\ thread'[t].fn = thread[t].fn /\ thread'[t].pc = thread[t].pc /\ thread'[t].stage = "children"
  /\ \A u \in DOMAIN thread \ {t} : thread'[u] = thread[u]
  /\ \A u \in new : /\ u[1] = thread[t].fn /\ u[2] = thread[t].pc
                    /\ u[3] \in DOMAIN gprog[u[1]][u[2]].fs
                    /\ thread'[u].fn = MemberOf(u[1], u)
                    /\ thread'[u].pc = 1 /\ thread'[u].stage = "at"

(* What a scope's start does to the threads *)
LEMMA StartingThreads ==
  ASSUME TypeInv, Started, NEW t \in DOMAIN thread, StartChildren(t)
  PROVE  Begun(t)
<1> DEFINE f == thread[t].fn
           k == thread[t].pc
           new == child_tags(f, k)
           old == [thread EXCEPT ![t].stage = "children"]
<1>1. At(t, "scope", "recorded") /\ f \in Functions /\ k \in Nat
  BY ThreadTyped DEF StartChildren
<1>2. Statement(t) \in Operation /\ Statement(t).op = "scope" /\ Statement(t) = gprog[f][k]
  BY <1>1, StatementTyped DEF At, Statement
<1>3. gprog[f][k].fs \in Seq(Functions)
  BY <1>2, Fields
<1>4. new \cap DOMAIN thread = {}
  BY <1>1, NewTags
<1>5. new \subseteq Tagged
  BY <1>1, <1>3 DEF child_tags, Tagged
<1>6. IsFiniteSet(new)
  <2> DEFINE I == DOMAIN gprog[f][k].fs
  <2>1. I = 1..Len(gprog[f][k].fs) /\ Len(gprog[f][k].fs) \in Nat
    BY <1>3
  <2>2. IsFiniteSet(I)
    BY <2>1, FS_Interval
  <2> DEFINE tag == [i \in I |-> <<f, k, i>>]
  <2>3. tag \in Surjection(I, new)
    BY Zenon DEF Surjection, child_tags
  <2> HIDE DEF I, new, tag
  <2> QED
    BY <2>2, <2>3, FS_Surjection
<1>7. thread' = [u \in DOMAIN thread \union new |->
                   IF u \in new THEN Fresh(MemberOf(f, u))
                   ELSE IF u = t THEN [thread[t] EXCEPT !.stage = "children"]
                   ELSE thread[u]]
  BY DEF StartChildren
<1>8. DOMAIN thread' = DOMAIN thread \union new /\ thread' = [x \in DOMAIN thread' |-> thread'[x]]
  BY <1>7
<1>t. thread \in [DOMAIN thread -> ThreadRec]
  BY DEF TypeInv
<1>9. \A u \in DOMAIN thread : thread'[u] = old[u]
  <2>1. ASSUME NEW u \in DOMAIN thread PROVE thread'[u] = old[u]
    <3>1. u \notin new
      BY <1>4
    <3>2. thread'[u] = IF u = t THEN [thread[t] EXCEPT !.stage = "children"] ELSE thread[u]
      BY <1>7, <3>1
    <3> QED
      BY <1>t, <3>2
  <2> QED
    BY <2>1
<1>10. \A u \in new : thread'[u] = Fresh(MemberOf(f, u))
  BY <1>7
<1>11. Moved(old, t, k, "children")
  BY Staged DEF Stages
<1>12. ASSUME NEW u \in new
       PROVE  /\ u[1] = f /\ u[2] = k /\ u[3] \in DOMAIN gprog[f][k].fs
              /\ MemberOf(f, u) \in Functions
  BY <1>3 DEF child_tags, MemberOf
<1> HIDE DEF new
<1>13. \A u \in new : thread'[u] \in ThreadRec
  <2>1. ASSUME NEW u \in new PROVE thread'[u] \in ThreadRec
    <3>1. thread'[u] = Fresh(MemberOf(f, u)) /\ MemberOf(f, u) \in Functions
      BY <1>10, <1>12
    <3> QED
      BY <3>1 DEF Fresh, ThreadRec, Stages
  <2> QED
    BY <2>1
<1>14. \A u \in DOMAIN thread : thread'[u] \in ThreadRec
  BY <1>9, <1>11 DEF Moved
<1>15. thread' \in [DOMAIN thread \union new -> ThreadRec]
  BY <1>8, <1>13, <1>14
<1>16. \A u \in DOMAIN thread \ {t} : thread'[u] = thread[u]
  <2>1. thread \in [DOMAIN thread -> ThreadRec]
    BY DEF TypeInv
  <2> QED
    BY <1>9, <2>1
<1>17. thread'[t].fn = f /\ thread'[t].pc = k /\ thread'[t].stage = "children"
  BY <1>9, <1>11 DEF Moved
<1>18. \A u \in new : thread'[u].fn = MemberOf(u[1], u) /\ thread'[u].pc = 1 /\ thread'[u].stage = "at"
  <2>1. ASSUME NEW u \in new
        PROVE  thread'[u].fn = MemberOf(u[1], u) /\ thread'[u].pc = 1 /\ thread'[u].stage = "at"
    <3>1. thread'[u] = Fresh(MemberOf(f, u)) /\ u[1] = f
      BY <1>10, <1>12
    <3> QED
      BY <3>1 DEF Fresh
  <2> QED
    BY <2>1
<1> QED
  BY <1>4, <1>5, <1>6, <1>12, <1>15, <1>16, <1>17, <1>18 DEF Begun, new
(* The mutexes are owned by threads, and the buffers hold them. *)
LEMMA OwnersTyped ==
  ASSUME TypeInv, NEW t \in DOMAIN thread, GStep(t)
  PROVE  owner' \in [Mutexes -> Tagged \union {NoOwner}] /\ queue' \in [Channels -> Seq(Tagged)]
<1>1. owner \in [Mutexes -> Tagged \union {NoOwner}] /\ queue \in [Channels -> Seq(Tagged)]
  BY DEF TypeInv
<1>2. t \in Tagged
  BY ThreadTyped
<1>3. CASE TakeMutex(t)
  BY <1>1, <1>2, <1>3 DEF TakeMutex
<1>4. CASE Reacquire(t)
  BY <1>1, <1>2, <1>4 DEF Reacquire
<1>5. CASE DropGuard(t)
  BY <1>1, <1>5 DEF DropGuard
<1>6. CASE Sleep(t)
  BY <1>1, <1>6 DEF Sleep
<1>7. CASE LeaveFunction(t)
  BY <1>1, <1>7 DEF LeaveFunction
<1>8. CASE Push(t)
  <2> DEFINE c == Statement(t).c
  <2>1. CASE queue' = queue
    BY <1>1, <1>8, <2>1 DEF Push
  <2>2. CASE queue' = [queue EXCEPT ![c] = Append(@, t)]
    <3>1. c \in Channels
      BY <1>8, StatementTyped, Fields DEF Push, At
    <3>2. queue[c] \in Seq(Tagged) /\ Append(queue[c], t) \in Seq(Tagged)
      BY <1>1, <1>2, <3>1
    <3> QED
      BY <1>1, <1>8, <2>2, <3>2 DEF Push
  <2> QED
    BY <1>8, <2>1, <2>2 DEF Push
<1>9. CASE Pop(t)
  <2> DEFINE c == Statement(t).c
  <2>1. CASE queue' = queue
    BY <1>1, <1>9, <2>1 DEF Pop
  <2>2. CASE queue[c] # <<>> /\ queue' = [queue EXCEPT ![c] = Tail(@)]
    <3>1. c \in Channels
      BY <1>9, StatementTyped, Fields DEF Pop, At
    <3>2. queue[c] \in Seq(Tagged) /\ Tail(queue[c]) \in Seq(Tagged)
      BY <1>1, <3>1, <2>2
    <3> QED
      BY <1>1, <1>9, <2>2, <3>2 DEF Pop
  <2> QED
    BY <1>9, <2>1, <2>2 DEF Pop
<1>10. CASE UNCHANGED <<owner, queue>>
  BY <1>1, <1>10
<1> QED
  BY <1>3, <1>4, <1>5, <1>6, <1>7, <1>8, <1>9, <1>10
     DEF GStep, SyncStep, Announce, Report, NotifyOne, NotifyAll, TakePermits, AddPermits,
         AwaitEmpty, StartChildren, JoinChildren, Skip

(* A step keeps the types, *)
LEMMA TypesKept ==
  ASSUME TypeInv, Started, NEW t \in DOMAIN thread, GStep(t)
  PROVE  TypeInv'
<1>1. owner' \in [Mutexes -> Tagged \union {NoOwner}] /\ queue' \in [Channels -> Seq(Tagged)]
  BY OwnersTyped
<1>2. gprog' = gprog
  BY AllMove DEF StartChildren
<1>3. CASE StartChildren(t)
  <2> DEFINE new == child_tags(thread[t].fn, thread[t].pc)
  <2>1. Begun(t)
    BY <1>3, StartingThreads
  <2>2. DOMAIN thread' = DOMAIN thread \union new /\ thread' \in [DOMAIN thread' -> ThreadRec]
    BY <2>1 DEF Begun
  <2>3. DOMAIN thread' \subseteq Tagged /\ IsFiniteSet(DOMAIN thread')
    <3>1. DOMAIN thread \subseteq Tagged /\ IsFiniteSet(DOMAIN thread)
      BY DEF TypeInv
    <3>2. new \subseteq Tagged /\ IsFiniteSet(new)
      BY <2>1 DEF Begun
    <3> HIDE DEF new
    <3> QED
      BY <2>2, <3>1, <3>2, FS_Union
  <2>4. ASSUME NEW u \in DOMAIN thread'
        PROVE  thread'[u].pc <= Len(Body(u))' + 1 /\ StageFits(u)'
    <3>1. CASE u = t
      <4>1. thread'[u].fn = thread[t].fn /\ thread'[u].pc = thread[t].pc /\ thread'[u].stage = "children"
        BY <2>1, <3>1 DEF Begun
      <4>2. thread[t].pc <= Len(Body(t)) + 1
        BY DEF TypeInv
      <4>3. Body(u)' = Body(t)
        BY <1>2, <4>1 DEF Body
      <4> QED
        BY <4>1, <4>2, <4>3 DEF StageFits
    <3>2. CASE u \in DOMAIN thread /\ u # t
      <4>1. thread'[u] = thread[u]
        BY <2>1, <3>2 DEF Begun
      <4>2. thread[u].pc <= Len(Body(u)) + 1 /\ StageFits(u)
        BY <3>2 DEF TypeInv
      <4> QED
        BY <1>2, <4>1, <4>2 DEF Body, StageFits, InBody, Statement
    <3>3. CASE u \in new
      <4>1. thread'[u].pc = 1 /\ thread'[u].stage = "at"
        BY <2>1, <3>3 DEF Begun
      <4>2. Len(Body(u))' \in Nat
        <5>1. thread'[u].fn \in Functions /\ gprog' \in Programs
          BY <1>2, <2>2 DEF ThreadRec, TypeInv
        <5>2. gprog'[thread'[u].fn] \in Seq(Operation)
          BY <5>1, ProgramsAssumption
        <5> QED
          BY <5>2 DEF Body
      <4> QED
        BY <4>1, <4>2 DEF StageFits
    <3> QED
      BY <2>2, <3>1, <3>2, <3>3
  <2> HIDE DEF new
  <2> QED
    BY <1>1, <1>2, <2>2, <2>3, <2>4 DEF TypeInv
<1>4. CASE ~StartChildren(t)
  <2>1. PICK pc, s : Legit(t, pc, s) /\ Moved(thread', t, pc, s)
    BY <1>4, AllMove DEF Moves
  <2>2. DOMAIN thread' = DOMAIN thread /\ thread' \in [DOMAIN thread' -> ThreadRec]
    BY <2>1 DEF Moved
  <2>3. DOMAIN thread' \subseteq Tagged /\ IsFiniteSet(DOMAIN thread')
    BY <2>2 DEF TypeInv
  <2>4. ASSUME NEW u \in DOMAIN thread'
        PROVE  thread'[u].pc <= Len(Body(u))' + 1 /\ StageFits(u)'
    <3>1. thread'[u].fn = thread[u].fn /\ Body(u)' = Body(u)
      BY <1>2, <2>1, <2>2 DEF Moved, Undisturbed, Body
    <3>2. thread[u].pc <= Len(Body(u)) + 1 /\ StageFits(u) /\ Body(u) \in Seq(Operation)
      BY <2>2, ThreadTyped DEF TypeInv
    <3>3. CASE thread'[u].pc = thread[u].pc
      <4>1. InBody(u)' = InBody(u) /\ Statement(u)' = Statement(u)
        BY <1>2, <3>1, <3>3 DEF InBody, Statement
      <4>2. \/ thread'[u].stage = thread[u].stage
            \/ thread'[u].stage \in {"woken", "woken2"}
            \/ u = t /\ thread'[u].stage = s /\ thread'[u].pc = pc
        BY <2>1, <2>2 DEF Moved, Undisturbed
      <4>3. CASE u = t /\ thread'[u].stage = s /\ thread'[u].pc = pc
        <5>1. pc = thread[t].pc /\ pc \in Nat
          BY <3>3, <4>3, ThreadTyped
        <5>2. /\ s = "taken" => InBody(t) /\ Statement(t).op \in {"lock", "wait", "acquire"}
              /\ s = "recorded" => InBody(t) /\ event_at_attempt(Statement(t))
          BY <2>1, <5>1 DEF Legit, Announce
        <5>3. event_at_attempt(Statement(u)') = event_at_attempt(Statement(u))
          BY <4>1
        <5> QED
          BY <3>1, <3>2, <3>3, <4>1, <4>3, <5>2, <5>3 DEF StageFits, event_at_attempt
      <4> QED
        BY <3>1, <3>2, <3>3, <4>1, <4>2, <4>3 DEF StageFits, event_at_attempt
    <3>4. CASE thread'[u].pc # thread[u].pc
      <4>1. u = t /\ thread'[u].pc = pc /\ thread'[u].stage = s
        BY <2>1, <2>2, <3>4 DEF Moved, Undisturbed
      <4>2. pc = thread[t].pc + 1 /\ s = "at" /\ InBody(t)
        BY <2>1, <3>4, <4>1 DEF Legit
      <4>3. thread[t].pc \in 1..Len(Body(t))
        BY <4>2, StatementTyped
      <4> QED
        BY <3>1, <3>2, <4>1, <4>2, <4>3 DEF StageFits
    <3> QED
      BY <3>3, <3>4
  <2> QED
    BY <1>1, <1>2, <2>2, <2>3, <2>4 DEF TypeInv
<1> QED
  BY <1>3, <1>4

(* and every thread has its scope. *)
LEMMA StartsKept ==
  ASSUME TypeInv, Started, NEW t \in DOMAIN thread, GStep(t)
  PROVE  Started'
<1>1. gprog' = gprog
  BY AllMove DEF StartChildren
<1>2. /\ DOMAIN thread \subseteq DOMAIN thread'
      /\ \A u \in DOMAIN thread :
           /\ thread'[u].fn = thread[u].fn
           /\ \/ thread'[u].pc = thread[u].pc
              \/ thread'[u].pc = thread[u].pc + 1
           /\ thread[u].stage = "children" =>
                 thread'[u].pc = thread[u].pc + 1 \/ thread'[u].stage = "children"
  <2>1. CASE StartChildren(t)
    BY <2>1, StartingThreads DEF Begun
  <2>2. CASE ~StartChildren(t)
    <3>1. PICK pc, s : Legit(t, pc, s) /\ Moved(thread', t, pc, s)
      BY <2>2, AllMove DEF Moves
    <3>2. DOMAIN thread' = DOMAIN thread
      BY <3>1 DEF Moved
    <3>3. ASSUME NEW u \in DOMAIN thread, u # t
          PROVE  /\ thread'[u].fn = thread[u].fn /\ thread'[u].pc = thread[u].pc
                 /\ thread[u].stage = "children" => thread'[u].stage = "children"
      BY <3>1, <3>3 DEF Moved, Undisturbed
    <3>4. /\ thread'[t].fn = thread[t].fn /\ thread'[t].pc = pc
          /\ pc = thread[t].pc \/ pc = thread[t].pc + 1
          /\ thread[t].stage = "children" => pc = thread[t].pc + 1
      BY <3>1 DEF Moved, Legit
    <3> QED
      BY <3>2, <3>3, <3>4
  <2> QED
    BY <2>1, <2>2
<1>3. ASSUME NEW u \in DOMAIN thread, NEW p \in DOMAIN thread, StartedBy(u, p)
      PROVE  StartedBy(u, p)'
  <2>1. thread[p].pc \in Nat /\ u \in Tagged /\ u[2] \in Nat
    BY ThreadTyped DEF Tagged
  <2>2. /\ thread[p].fn = u[1] /\ IsScope(gprog, u[1], u[2])
        /\ u[3] \in DOMAIN gprog[u[1]][u[2]].fs /\ thread[u].fn = MemberOf(u[1], u)
        /\ thread[p].pc > u[2] \/ (thread[p].pc = u[2] /\ thread[p].stage = "children")
    BY <1>3 DEF StartedBy
  <2>3. thread'[p].pc > u[2] \/ (thread'[p].pc = u[2] /\ thread'[p].stage = "children")
    BY <1>2, <2>1, <2>2
  <2>4. MemberOf(u[1], u)' = MemberOf(u[1], u)
    BY <1>1 DEF MemberOf
  <2> QED
    BY <1>1, <1>2, <2>2, <2>3, <2>4 DEF StartedBy
<1>4. ASSUME NEW u \in DOMAIN thread
      PROVE  \/ u = MainTag /\ thread'[u].fn = Entry
             \/ \E p \in DOMAIN thread' : StartedBy(u, p)'
  BY <1>2, <1>3 DEF Started
<1>5. ASSUME NEW u \in DOMAIN thread', u \notin DOMAIN thread
      PROVE  \E p \in DOMAIN thread' : StartedBy(u, p)'
  <2>1. StartChildren(t)
    BY <1>5, AllMove DEF Moves, Moved
  <2>2. Begun(t) /\ t \in DOMAIN thread'
    BY <1>2, <2>1, StartingThreads
  <2>3. u \in child_tags(thread[t].fn, thread[t].pc)
    BY <1>5, <2>2 DEF Begun
  <2>4. /\ u[1] = thread[t].fn /\ u[2] = thread[t].pc /\ u[3] \in DOMAIN gprog[u[1]][u[2]].fs
        /\ thread'[u].fn = MemberOf(u[1], u)
        /\ thread'[t].fn = thread[t].fn /\ thread'[t].pc = thread[t].pc /\ thread'[t].stage = "children"
    BY <2>2, <2>3 DEF Begun
  <2>5. IsScope(gprog, u[1], u[2])
    BY <2>1, <2>4 DEF StartChildren, At, InBody, Statement, IsScope
  <2>6. MemberOf(u[1], u)' = MemberOf(u[1], u)
    BY <1>1 DEF MemberOf
  <2>7. StartedBy(u, t)'
    BY <1>1, <2>4, <2>5, <2>6 DEF StartedBy
  <2> QED
    BY <2>2, <2>7
<1>6. \A u \in DOMAIN thread' : \/ u = MainTag /\ thread'[u].fn = Entry
                                \/ \E p \in DOMAIN thread' : StartedBy(u, p)'
  BY <1>4, <1>5
<1> QED
  BY <1>6 DEF Started

-----------------------------------------------------------------------------
(* The operations on a channel that are recorded and not yet done *)
ChannelOps == {"send", "recv"}
Flight == {"recorded", "asleep", "woken"}
Flying(u, k, c) ==
  /\ thread[u].stage \in Flight
  /\ InBody(u) /\ Statement(u).op = k /\ Statement(u).c = c

(* Who has an operation of kind k on c in flight *)
LEMMA FlightMembers ==
  ASSUME NEW k, NEW c, NEW u
  PROVE  u \in OnChannel(k, c, Flight) <=> u \in DOMAIN thread /\ Flying(u, k, c)
BY DEF OnChannel, Flying, At

(* Finitely many threads do. *)
LEMMA FlightFinite ==
  ASSUME TypeInv, NEW k, NEW c
  PROVE  IsFiniteSet(OnChannel(k, c, Flight)) /\ InFlight(k, c) \in Nat
<1>1. OnChannel(k, c, Flight) \subseteq DOMAIN thread /\ IsFiniteSet(DOMAIN thread)
  BY DEF OnChannel, TypeInv
<1>2. IsFiniteSet(OnChannel(k, c, Flight))
  BY <1>1, FS_Subset
<1> QED
  BY <1>2, FS_CardinalityType DEF InFlight, Flight

(* A step of t leaves what the others have in flight. *)
LEMMA OthersFly ==
  ASSUME TypeInv, Started, NEW t \in DOMAIN thread, GStep(t), NEW k, NEW c, NEW u, u # t
  PROVE  u \in OnChannel(k, c, Flight)' <=> u \in OnChannel(k, c, Flight)
<1>m. /\ u \in OnChannel(k, c, Flight)' <=> u \in DOMAIN thread' /\ Flying(u, k, c)'
      /\ u \in OnChannel(k, c, Flight) <=> u \in DOMAIN thread /\ Flying(u, k, c)
  BY FlightMembers DEF OnChannel, Flying, At
<1>g. gprog' = gprog
  BY AllMove DEF StartChildren
<1>1. CASE StartChildren(t)
  <2>1. Begun(t)
    BY <1>1, StartingThreads
  <2>2. CASE u \in DOMAIN thread
    <3>1. thread'[u] = thread[u] /\ u \in DOMAIN thread'
      BY <2>1, <2>2 DEF Begun
    <3> QED
      BY <1>m, <1>g, <2>2, <3>1 DEF Flying, InBody, Statement
  <2>3. CASE u \notin DOMAIN thread
    <3>1. u \in DOMAIN thread' => thread'[u].stage = "at"
      BY <2>1, <2>3 DEF Begun
    <3> QED
      BY <1>m, <2>3, <3>1 DEF Flying, Flight
  <2> QED
    BY <2>2, <2>3
<1>2. CASE ~StartChildren(t)
  <2>1. DOMAIN thread' = DOMAIN thread /\ (u \in DOMAIN thread => Undisturbed(thread', u))
    BY <1>2, AllMove DEF Moves, Moved
  <2>2. u \in DOMAIN thread => (Flying(u, k, c)' <=> Flying(u, k, c))
    BY <1>g, <2>1 DEF Undisturbed, Flying, InBody, Statement, Flight
  <2> QED
    BY <1>m, <2>1, <2>2
<1> QED
  BY <1>1, <1>2

(* A thread that is at no operation on a channel changes no count. *)
LEMMA StepsElsewhere ==
  ASSUME TypeInv, Started, NEW t \in DOMAIN thread, GStep(t),
         ~(InBody(t) /\ Statement(t).op \in ChannelOps)
  PROVE  /\ \A k \in ChannelOps : \A c : OnChannel(k, c, Flight)' = OnChannel(k, c, Flight)
         /\ queue' = queue
         /\ event' # NoEvent => event'.op \notin ChannelOps
<1>g. gprog' = gprog /\ thread[t].pc \in Nat
  BY AllMove, ThreadTyped DEF StartChildren
<1>1. t \in DOMAIN thread' /\ thread'[t].fn = thread[t].fn
      /\ \/ thread'[t].pc = thread[t].pc
         \/ thread'[t].stage = "at"
  <2>1. CASE StartChildren(t)
    BY <2>1, StartingThreads DEF Begun
  <2>2. CASE ~StartChildren(t)
    BY <2>2, AllMove DEF Moves, Moved, Legit
  <2> QED
    BY <2>1, <2>2
<1>2. ASSUME NEW k \in ChannelOps, NEW c
      PROVE  ~Flying(t, k, c) /\ ~Flying(t, k, c)'
  BY <1>g, <1>1 DEF Flying, Flight, InBody, Statement
<1>3. ASSUME NEW k \in ChannelOps, NEW c
      PROVE  OnChannel(k, c, Flight)' = OnChannel(k, c, Flight)
  <2>1. t \notin OnChannel(k, c, Flight)
    BY <1>2 DEF OnChannel, Flying, At
  <2>2. t \notin OnChannel(k, c, Flight)'
    BY <1>2 DEF OnChannel, Flying, At
  <2> QED
    BY <2>1, <2>2, OthersFly
<1>4. ~Push(t) /\ ~Pop(t) /\ ~AwaitEmpty(t)
  BY DEF Push, Pop, AwaitEmpty, At, ChannelOps
<1>5. queue' = queue
  BY <1>4 DEF GStep, SyncStep, Announce, Report, TakeMutex, DropGuard, Sleep, Reacquire, NotifyOne,
         NotifyAll, TakePermits, AddPermits, StartChildren, JoinChildren, LeaveFunction, Skip
<1>6. ASSUME event' # NoEvent PROVE event'.op \notin ChannelOps
  <2>1. Announce(t) \/ Report(t)
    BY <1>4, <1>6 DEF GStep, SyncStep, TakeMutex, DropGuard, Sleep, Reacquire, NotifyOne, Quiet,
         NotifyAll, TakePermits, AddPermits, StartChildren, JoinChildren, LeaveFunction, Skip
  <2>2. Record(t) /\ InBody(t)
    BY <2>1 DEF Announce, Report, TypeInv, StageFits
  <2>3. event'.op = Statement(t).op
    BY <2>2 DEF Record
  <2> QED
    BY <2>2, <2>3
<1> QED
  BY <1>3, <1>5, <1>6

(* The steps at an operation on a channel *)
Announced(t, k, c) ==
  /\ t \notin OnChannel(k, c, Flight) /\ t \in OnChannel(k, c, Flight)'
  /\ queue' = queue
  /\ event' # NoEvent /\ event'.op = k /\ event'.r = c
Sent(t, c) ==
  /\ t \in OnChannel("send", c, Flight) /\ t \notin OnChannel("send", c, Flight)'
  /\ queue' = [queue EXCEPT ![c] = Append(@, t)] /\ event' = NoEvent
Received(t, c) ==
  /\ t \in OnChannel("recv", c, Flight) /\ t \notin OnChannel("recv", c, Flight)'
  /\ queue[c] # <<>> /\ queue' = [queue EXCEPT ![c] = Tail(@)] /\ event' = NoEvent
Waits(t, k, c) ==
  /\ t \in OnChannel(k, c, Flight) <=> t \in OnChannel(k, c, Flight)'
  /\ queue' = queue /\ event' = NoEvent

(* A thread at an operation announces it, waits, or does it. *)
LEMMA StepsOnChannels ==
  ASSUME TypeInv, Started, NEW t \in DOMAIN thread, GStep(t),
         InBody(t), NEW k \in ChannelOps, k = Statement(t).op, NEW c, c = Statement(t).c
  PROVE  \/ Announced(t, k, c) \/ Waits(t, k, c)
         \/ (k = "send" /\ Sent(t, c)) \/ (k = "recv" /\ Received(t, c))
<1>g. gprog' = gprog
  BY AllMove DEF StartChildren
<1>t. thread \in [DOMAIN thread -> ThreadRec]
  BY DEF TypeInv
<1>1. CASE Announce(t)
  <2>1. thread' = [thread EXCEPT ![t].stage = "recorded"] /\ Record(t) /\ queue' = queue
        /\ thread[t].stage = "at"
    BY <1>1 DEF Announce, Stage
  <2>2. /\ thread'[t] = [thread[t] EXCEPT !.stage = "recorded"]
        /\ t \in DOMAIN thread' /\ thread[t] \in ThreadRec
    BY <2>1, <1>t
  <2>3. Flying(t, k, c)'
    BY <1>g, <2>2 DEF Flying, InBody, Statement, Flight, ThreadRec
  <2>4. ~Flying(t, k, c)
    BY <2>1 DEF Flying, Flight
  <2>5. t \notin OnChannel(k, c, Flight)
    BY <2>4 DEF OnChannel, Flying, At
  <2>6. t \in OnChannel(k, c, Flight)'
    BY <2>2, <2>3 DEF OnChannel, Flying, At
  <2>7. event' # NoEvent /\ event'.op = k /\ event'.r = ResourceOf(Statement(t))
    BY <2>1, Recorded DEF is_observable, Observable, ChannelOps
  <2>8. ResourceOf(Statement(t)) = c
    BY DEF ResourceOf, ChannelOps
  <2> QED
    BY <2>1, <2>5, <2>6, <2>7, <2>8 DEF Announced
<1>2. CASE Push(t)
  <2>1. k = "send" /\ thread[t].stage \in Flight /\ event' = NoEvent
    BY <1>2 DEF Push, At, Flight, Quiet
  <2>2. t \in OnChannel("send", c, Flight)
    BY <2>1 DEF OnChannel, At
  <2>3. CASE Stage(t, "asleep") /\ UNCHANGED queue
    <3>1. /\ thread'[t] = [thread[t] EXCEPT !.stage = "asleep"]
          /\ t \in DOMAIN thread' /\ thread[t] \in ThreadRec
      BY <2>3, <1>t DEF Stage
    <3>2. Flying(t, k, c)'
      BY <1>g, <3>1 DEF Flying, InBody, Statement, Flight, ThreadRec
    <3>3. t \in OnChannel(k, c, Flight)'
      BY <3>1, <3>2 DEF OnChannel, Flying, At
    <3> QED
      BY <2>1, <2>2, <2>3, <3>3 DEF Waits
  <2>4. CASE /\ queue' = [queue EXCEPT ![c] = Append(@, t)]
             /\ Wakes(IF Capacity[c] = 0 THEN [thread EXCEPT ![t].stage = "offered"]
                                         ELSE Return(t), SleepingReceivers(c), "woken")
    <3>1. PICK T : T = IF Capacity[c] = 0 THEN [thread EXCEPT ![t].stage = "offered"] ELSE Return(t)
      OBVIOUS
    <3>2. T[t].stage \in {"offered", "at"}
      <4>1. [thread EXCEPT ![t].stage = "offered"][t].stage = "offered" /\ Return(t)[t].stage = "at"
        BY <1>t DEF Return, ThreadRec
      <4> QED
        BY <3>1, <4>1
    <3>3. Wakes(T, SleepingReceivers(c), "woken")
      BY <2>4, <3>1
    <3>4. thread'[t].stage = T[t].stage
      <4>1. CASE thread' = T
        BY <4>1
      <4>2. ASSUME NEW u \in SleepingReceivers(c), thread' = [T EXCEPT ![u].stage = "woken"]
            PROVE  thread'[t].stage = T[t].stage
        <5>1. u # t
          BY <2>1, <2>2, <4>2 DEF SleepingReceivers, OnChannel, At
        <5> QED
          BY <4>2, <5>1
      <4> QED
        BY <3>3, <4>1, <4>2 DEF Wakes
    <3>5. t \notin OnChannel("send", c, Flight)'
      BY <3>2, <3>4 DEF OnChannel, At, Flight
    <3> QED
      BY <2>1, <2>2, <2>4, <3>5 DEF Sent
  <2> QED
    BY <1>2, <2>3, <2>4 DEF Push
<1>3. CASE Pop(t)
  <2>1. k = "recv" /\ thread[t].stage \in Flight /\ event' = NoEvent
    BY <1>3 DEF Pop, At, Flight, Quiet
  <2>2. t \in OnChannel("recv", c, Flight)
    BY <2>1 DEF OnChannel, At
  <2>3. CASE Stage(t, "asleep") /\ UNCHANGED queue
    <3>1. /\ thread'[t] = [thread[t] EXCEPT !.stage = "asleep"]
          /\ t \in DOMAIN thread' /\ thread[t] \in ThreadRec
      BY <2>3, <1>t DEF Stage
    <3>2. Flying(t, k, c)'
      BY <1>g, <3>1 DEF Flying, InBody, Statement, Flight, ThreadRec
    <3>3. t \in OnChannel(k, c, Flight)'
      BY <3>1, <3>2 DEF OnChannel, Flying, At
    <3> QED
      BY <2>1, <2>2, <2>3, <3>3 DEF Waits
  <2>4. CASE queue[c] # <<>> /\ queue' = [queue EXCEPT ![c] = Tail(@)] /\ WakesSender(t, c)
    <3>1. Return(t)[t].stage = "at"
      BY <1>t DEF Return, ThreadRec
    <3>2. thread'[t].stage = "at"
      <4>1. CASE thread' = Return(t)
        BY <3>1, <4>1
      <4>2. ASSUME NEW u \in SleepingSenders(c),
                   thread' = [Return(t) EXCEPT ![u].stage = IF @ = "offered" THEN "woken2" ELSE "woken"]
            PROVE  thread'[t].stage = "at"
        <5>1. u # t
          BY <2>1, <2>2, <4>2 DEF SleepingSenders, OnChannel, At
        <5> QED
          BY <3>1, <4>2, <5>1
      <4> QED
        BY <2>4, <4>1, <4>2 DEF WakesSender
    <3>3. t \notin OnChannel("recv", c, Flight)'
      BY <3>2 DEF OnChannel, At, Flight
    <3> QED
      BY <2>1, <2>2, <2>4, <3>3 DEF Received
  <2> QED
    BY <1>3, <2>3, <2>4 DEF Pop
<1>4. CASE AwaitEmpty(t)
  <2>1. queue' = queue /\ event' = NoEvent /\ thread[t].stage = "woken2"
    BY <1>4 DEF AwaitEmpty, At, Quiet
  <2>2. thread'[t].stage \in {"at", "offered"}
    <3>1. thread' = Return(t) \/ thread' = [thread EXCEPT ![t].stage = "offered"]
      BY <1>4 DEF AwaitEmpty
    <3> QED
      BY <1>t, <3>1 DEF Return, ThreadRec
  <2>3. t \notin OnChannel(k, c, Flight) /\ t \notin OnChannel(k, c, Flight)'
    BY <2>1, <2>2 DEF OnChannel, At, Flight
  <2> QED
    BY <2>1, <2>3 DEF Waits
<1>5. ~Report(t)
  BY DEF Report, TypeInv, StageFits, ChannelOps
<1>6. Announce(t) \/ Push(t) \/ Pop(t) \/ AwaitEmpty(t)
  BY <1>5 DEF GStep, SyncStep, TakeMutex, DropGuard, Sleep, Reacquire, NotifyOne, NotifyAll, ChannelOps,
         TakePermits, AddPermits, StartChildren, JoinChildren, LeaveFunction, Skip, At
<1> QED
  BY <1>1, <1>2, <1>3, <1>4, <1>6

(* The counts *)
CountsRight ==
  /\ chan \in [DOMAIN chan -> Int]
  /\ \A c \in Channels :
       At0(chan, ContractName[c], 0) = Len(queue[c]) + InFlight("send", c) - InFlight("recv", c)
MonitorInv == TypeInv /\ Started /\ CountsRight

(* One operation more in flight, *)
LEMMA Joins ==
  ASSUME TypeInv, Started, NEW t \in DOMAIN thread, GStep(t), NEW k, NEW c,
         t \notin OnChannel(k, c, Flight), t \in OnChannel(k, c, Flight)'
  PROVE  InFlight(k, c)' = InFlight(k, c) + 1
<1> DEFINE S == OnChannel(k, c, Flight)
           N == OnChannel(k, c, Flight)'
<1>1. IsFiniteSet(S)
  BY FlightFinite
<1>2. \A u : u # t => (u \in N <=> u \in S)
  BY OthersFly
<1>3. N = S \union {t}
  BY <1>2
<1>4. InFlight(k, c) = Cardinality(S) /\ InFlight(k, c)' = Cardinality(N)
  BY DEF InFlight, Flight
<1>5. Cardinality(S) \in Nat
  BY <1>1, FS_CardinalityType
<1>6. t \notin S
  OBVIOUS
<1> HIDE DEF S, N
<1> QED
  BY <1>1, <1>3, <1>4, <1>5, <1>6, FS_AddElement

(* one less, *)
LEMMA Departs ==
  ASSUME TypeInv, Started, NEW t \in DOMAIN thread, GStep(t), NEW k, NEW c,
         t \in OnChannel(k, c, Flight), t \notin OnChannel(k, c, Flight)'
  PROVE  InFlight(k, c)' = InFlight(k, c) - 1
<1> DEFINE S == OnChannel(k, c, Flight)
           N == OnChannel(k, c, Flight)'
<1>1. IsFiniteSet(S)
  BY FlightFinite
<1>2. \A u : u # t => (u \in N <=> u \in S)
  BY OthersFly
<1>3. N = S \ {t}
  BY <1>2
<1>4. InFlight(k, c) = Cardinality(S) /\ InFlight(k, c)' = Cardinality(N)
  BY DEF InFlight, Flight
<1>5. Cardinality(S) \in Nat
  BY <1>1, FS_CardinalityType
<1>6. t \in S
  OBVIOUS
<1> HIDE DEF S, N
<1> QED
  BY <1>1, <1>3, <1>4, <1>5, <1>6, FS_RemoveElement

(* or as many as before *)
LEMMA Stays ==
  ASSUME TypeInv, Started, NEW t \in DOMAIN thread, GStep(t), NEW k, NEW c,
         t \in OnChannel(k, c, Flight) <=> t \in OnChannel(k, c, Flight)'
  PROVE  InFlight(k, c)' = InFlight(k, c)
<1>1. \A u : u \in OnChannel(k, c, Flight)' <=> u \in OnChannel(k, c, Flight)
  BY OthersFly
<1>2. OnChannel(k, c, Flight)' = OnChannel(k, c, Flight)
  BY <1>1
<1> QED
  BY <1>2 DEF InFlight, Flight

(* t is at one operation on one channel. *)
LEMMA Elsewhere ==
  ASSUME TypeInv, Started, NEW t \in DOMAIN thread, GStep(t), InBody(t), Statement(t).op \in ChannelOps,
         ~(thread'[t].stage \in Flight /\ thread'[t].pc # thread[t].pc),
         NEW k \in ChannelOps, NEW c, k # Statement(t).op \/ c # Statement(t).c
  PROVE  InFlight(k, c)' = InFlight(k, c)
<1>1. gprog' = gprog /\ t \in DOMAIN thread' /\ thread'[t].fn = thread[t].fn
  <2>1. CASE StartChildren(t)
    BY <2>1, StartingThreads, AllMove DEF Begun, StartChildren
  <2>2. CASE ~StartChildren(t)
    BY <2>2, AllMove DEF Moves, Moved
  <2> QED
    BY <2>1, <2>2
<1>2. t \notin OnChannel(k, c, Flight)
  BY DEF OnChannel, At
<1>3. ~Flying(t, k, c)'
  BY <1>1 DEF Flying, InBody, Statement
<1>4. t \notin OnChannel(k, c, Flight)'
  BY <1>3 DEF OnChannel, Flying, At
<1> QED
  BY <1>2, <1>4, Stays

(* A step that goes on to another statement leaves nothing of it in flight. *)
LEMMA NoJump ==
  ASSUME TypeInv, Started, NEW t \in DOMAIN thread, GStep(t)
  PROVE  ~(thread'[t].stage \in Flight /\ thread'[t].pc # thread[t].pc)
<1>1. CASE StartChildren(t)
  BY <1>1, StartingThreads DEF Begun
<1>2. CASE ~StartChildren(t)
  BY <1>2, AllMove DEF Moves, Moved, Legit, Flight
<1> QED
  BY <1>1, <1>2

(* What operation op on r adds to the messages in channel c *)
Adds(op, r, c) == IF op = "send" /\ r = c THEN 1 ELSE IF op = "recv" /\ r = c THEN -1 ELSE 0

(* What the monitor does with an event *)
LEMMA Counted ==
  ASSUME CountsRight, NEW tag, NEW op, NEW r, Replay(tag, op, NameOf[r]),
         op \in ChannelOps => r \in Channels
  PROVE  /\ chan' \in [DOMAIN chan' -> Int]
         /\ op \notin ChannelOps => chan' = chan
         /\ \A c \in Channels :
              At0(chan', ContractName[c], 0) = At0(chan, ContractName[c], 0) + Adds(op, r, c)
<1> USE DEF Adds
<1> DEFINE n == Align(NameOf[r])
<1>1. chan' = CASE n # Unaligned /\ op = "send" -> Put0(chan, n, At0(chan, n, 0) + 1)
                [] n # Unaligned /\ op = "recv" -> Put0(chan, n, At0(chan, n, 0) - 1)
                [] OTHER                        -> chan
  BY DEF Replay
<1>c. chan \in [DOMAIN chan -> Int]
  BY DEF CountsRight
<1>2. ASSUME op \notin ChannelOps PROVE chan' = chan
  BY <1>1, <1>2 DEF ChannelOps
<1>3. \A x : At0(chan, x, 0) \in Int
  BY <1>c DEF At0
<1>4. ASSUME op \in ChannelOps
      PROVE  /\ chan' \in [DOMAIN chan' -> Int]
             /\ \A c \in Channels :
                  At0(chan', ContractName[c], 0) =
                    At0(chan, ContractName[c], 0) +
                      (IF op = "send" /\ r = c THEN 1 ELSE IF op = "recv" /\ r = c THEN -1 ELSE 0)
  <2>1. r \in Channels /\ n = ContractName[r] /\ n # Unaligned
    BY <1>4, Aligned
  <2>2. PICK d \in Int : d = IF op = "send" THEN 1 ELSE -1
    OBVIOUS
  <2>3. chan' = Put0(chan, n, At0(chan, n, 0) + d)
    <3>1. CASE op = "send"
      BY <1>1, <2>1, <2>2, <3>1
    <3>2. CASE op = "recv"
      <4>1. chan' = Put0(chan, n, At0(chan, n, 0) - 1)
        BY <1>1, <2>1, <3>2
      <4>2. At0(chan, n, 0) - 1 = At0(chan, n, 0) + d
        BY <1>3, <2>2, <3>2
      <4> QED
        BY <4>1, <4>2
    <3> QED
      BY <1>4, <3>1, <3>2 DEF ChannelOps
  <2> HIDE DEF n
  <2>4. At0(chan, n, 0) + d \in Int
    BY <1>3
  <2>5. chan' \in [DOMAIN chan' -> Int]
    BY <1>c, <2>3, <2>4 DEF Put0
  <2>6. ASSUME NEW c \in Channels
        PROVE  At0(chan', ContractName[c], 0) =
                 At0(chan, ContractName[c], 0) +
                   (IF op = "send" /\ r = c THEN 1 ELSE IF op = "recv" /\ r = c THEN -1 ELSE 0)
    <3>1. CASE c = r
      BY <1>4, <2>1, <2>2, <2>3, <3>1 DEF Put0, At0, ChannelOps
    <3>2. CASE c # r
      <4>1. ContractName[c] # n
        BY <2>1, <3>2, NamesAssumption
      <4>2. At0(chan', ContractName[c], 0) = At0(chan, ContractName[c], 0)
        BY <2>3, <4>1 DEF Put0, At0
      <4> QED
        BY <1>3, <3>2, <4>2
    <3> QED
      BY <3>1, <3>2
  <2> QED
    BY <2>5, <2>6
<1>5. ASSUME op \notin ChannelOps, NEW c \in Channels
      PROVE  At0(chan', ContractName[c], 0) =
               At0(chan, ContractName[c], 0) +
                 (IF op = "send" /\ r = c THEN 1 ELSE IF op = "recv" /\ r = c THEN -1 ELSE 0)
  BY <1>2, <1>3, <1>5 DEF ChannelOps
<1> QED
  BY <1>2, <1>4, <1>5, <1>c
(* Initially all counts are zero. *)
LEMMA CountsInit ==
  ASSUME MonitoredInit
  PROVE  MonitorInv
<1>1. /\ gprog \in Programs /\ thread = [t \in {MainTag} |-> Fresh(Entry)]
      /\ owner = [m \in Mutexes |-> NoOwner] /\ queue = [c \in Channels |-> <<>>] /\ chan = << >>
  BY DEF MonitoredInit, GInit, MInit
<1>2. MainTag \in Tagged /\ Fresh(Entry) \in ThreadRec
  BY FunctionsAssumption DEF MainTag, Tagged, Fresh, ThreadRec, Stages
<1>3. DOMAIN thread = {MainTag} /\ thread[MainTag] = Fresh(Entry)
  BY <1>1
<1>4. thread[MainTag].fn = Entry /\ thread[MainTag].pc = 1 /\ thread[MainTag].stage = "at"
  BY <1>3 DEF Fresh
<1>5. TypeInv
  <2>1. gprog[Entry] \in Seq(Operation)
    BY <1>1, ProgramsAssumption, FunctionsAssumption
  <2>2. thread[MainTag].pc <= Len(Body(MainTag)) + 1 /\ StageFits(MainTag)
    BY <1>4, <2>1 DEF Body, StageFits
  <2>3. IsFiniteSet({MainTag})
    BY FS_Singleton
  <2>4. owner \in [Mutexes -> Tagged \union {NoOwner}] /\ queue \in [Channels -> Seq(Tagged)]
    BY <1>1
  <2>5. thread \in [DOMAIN thread -> ThreadRec]
    BY <1>1, <1>2
  <2> QED
    BY <1>1, <1>2, <1>3, <2>2, <2>3, <2>4, <2>5 DEF TypeInv
<1>6. Started
  BY <1>3, <1>4 DEF Started
<1>7. CountsRight
  <2>1. chan \in [DOMAIN chan -> Int] /\ \A x : At0(chan, x, 0) = 0
    BY <1>1 DEF At0
  <2>2. ASSUME NEW k, NEW c PROVE InFlight(k, c) = 0
    <3>1. OnChannel(k, c, Flight) = {}
      BY <1>3, <1>4 DEF OnChannel, Flight, At
    <3> QED
      BY <3>1, FS_EmptySet DEF InFlight, Flight
  <2>3. ASSUME NEW c \in Channels
        PROVE  At0(chan, ContractName[c], 0) = Len(queue[c]) + InFlight("send", c) - InFlight("recv", c)
    <3>1. Len(queue[c]) = 0
      BY <1>1
    <3> QED
      BY <2>1, <2>2, <3>1
  <2> QED
    BY <2>1, <2>3 DEF CountsRight
<1> QED
  BY <1>5, <1>6, <1>7 DEF MonitorInv

(* A step changes the count of a channel as it changes what is in it and in flight. *)
LEMMA Balanced ==
  ASSUME TypeInv, Started, NEW t \in DOMAIN thread, GStep(t), NEW c \in Channels
  PROVE  Len(queue'[c]) + InFlight("send", c)' - InFlight("recv", c)' =
           Len(queue[c]) + InFlight("send", c) - InFlight("recv", c) +
             (IF event' # NoEvent /\ event'.op = "send" /\ event'.r = c THEN 1
              ELSE IF event' # NoEvent /\ event'.op = "recv" /\ event'.r = c THEN -1 ELSE 0)
<1>1. queue \in [Channels -> Seq(Tagged)] /\ InFlight("send", c) \in Nat /\ InFlight("recv", c) \in Nat
  BY FlightFinite DEF TypeInv
<1>l. Len(queue[c]) \in Nat
  BY <1>1
<1>2. CASE ~(InBody(t) /\ Statement(t).op \in ChannelOps)
  <2>1. /\ OnChannel("send", c, Flight)' = OnChannel("send", c, Flight)
        /\ OnChannel("recv", c, Flight)' = OnChannel("recv", c, Flight)
        /\ queue' = queue /\ (event' # NoEvent => event'.op \notin ChannelOps)
    BY <1>2, StepsElsewhere DEF ChannelOps
  <2>2. InFlight("send", c)' = InFlight("send", c) /\ InFlight("recv", c)' = InFlight("recv", c)
    BY <2>1 DEF InFlight, Flight
  <2> QED
    BY <1>1, <1>l, <2>1, <2>2 DEF ChannelOps
<1>3. CASE InBody(t) /\ Statement(t).op \in ChannelOps
  <2>k. PICK k : k = Statement(t).op
    OBVIOUS
  <2>d. PICK d : d = Statement(t).c
    OBVIOUS
  <2>1. k \in ChannelOps /\ d \in Channels
    BY <1>3, <2>k, <2>d, StatementTyped, Fields DEF ChannelOps
  <2>2. \/ Announced(t, k, d) \/ Waits(t, k, d)
        \/ (k = "send" /\ Sent(t, d)) \/ (k = "recv" /\ Received(t, d))
    BY <1>3, <2>1, <2>k, <2>d, StepsOnChannels
  <2>3. ASSUME NEW j \in ChannelOps, j # k \/ c # d
        PROVE  InFlight(j, c)' = InFlight(j, c)
    BY <1>3, <2>3, <2>k, <2>d, Elsewhere, NoJump
  <2>4. CASE Announced(t, k, d)
    <3>1. queue' = queue /\ event' # NoEvent /\ event'.op = k /\ event'.r = d
      BY <2>4 DEF Announced
    <3>2. InFlight(k, d)' = InFlight(k, d) + 1
      BY <2>4, Joins DEF Announced
    <3>3. CASE c = d
      BY <1>1, <1>l, <2>1, <2>3, <3>1, <3>2, <3>3 DEF ChannelOps
    <3>4. CASE c # d
      BY <1>1, <1>l, <2>1, <2>3, <3>1, <3>4 DEF ChannelOps
    <3> QED
      BY <3>3, <3>4
  <2>5. CASE Waits(t, k, d)
    <3>1. queue' = queue /\ event' = NoEvent
      BY <2>5 DEF Waits
    <3>2. InFlight(k, d)' = InFlight(k, d)
      BY <2>5, Stays DEF Waits
    <3>3. \A j \in ChannelOps : InFlight(j, c)' = InFlight(j, c)
      BY <2>1, <2>3, <3>2
    <3> QED
      BY <1>1, <1>l, <3>1, <3>3 DEF ChannelOps
  <2>6. CASE k = "send" /\ Sent(t, d)
    <3>1. queue' = [queue EXCEPT ![d] = Append(@, t)] /\ event' = NoEvent
      BY <2>6 DEF Sent
    <3>2. InFlight("send", d)' = InFlight("send", d) - 1
      BY <2>6, Departs DEF Sent
    <3>3. CASE c = d
      <4>1. InFlight("recv", c)' = InFlight("recv", c)
        BY <2>3, <2>6 DEF ChannelOps
      <4>s. Sent(t, c)
        BY <2>6, <3>3
      <4>d. InFlight("send", c)' = InFlight("send", c) - 1
        BY <4>s, Departs DEF Sent
      <4>2. Len(queue'[c]) = Len(queue[c]) + 1
        BY <1>1, <3>1, <3>3, ThreadTyped
      <4> QED
        BY <1>1, <1>l, <3>1, <4>1, <4>2, <4>d
    <3>4. CASE c # d
      <4>1. InFlight("recv", c)' = InFlight("recv", c) /\ InFlight("send", c)' = InFlight("send", c)
        BY <2>3, <3>4 DEF ChannelOps
      <4>2. queue'[c] = queue[c]
        BY <1>1, <3>1, <3>4
      <4> QED
        BY <1>1, <1>l, <3>1, <4>1, <4>2
    <3> QED
      BY <3>3, <3>4
  <2>7. CASE k = "recv" /\ Received(t, d)
    <3>1. queue[d] # <<>> /\ queue' = [queue EXCEPT ![d] = Tail(@)] /\ event' = NoEvent
      BY <2>7 DEF Received
    <3>2. InFlight("recv", d)' = InFlight("recv", d) - 1
      BY <2>7, Departs DEF Received
    <3>3. CASE c = d
      <4>1. InFlight("send", c)' = InFlight("send", c)
        BY <2>3, <2>7 DEF ChannelOps
      <4>s. Received(t, c)
        BY <2>7, <3>3
      <4>d. InFlight("recv", c)' = InFlight("recv", c) - 1
        BY <4>s, Departs DEF Received
      <4>2. Len(queue'[c]) = Len(queue[c]) - 1
        BY <1>1, <3>1, <3>3
      <4>e. Len(queue'[c]) + InFlight("send", c)' - InFlight("recv", c)' =
              (Len(queue[c]) - 1) + InFlight("send", c) - (InFlight("recv", c) - 1)
        BY <4>1, <4>2, <4>d
      <4>f. (IF event' # NoEvent /\ event'.op = "send" /\ event'.r = c THEN 1
             ELSE IF event' # NoEvent /\ event'.op = "recv" /\ event'.r = c THEN -1 ELSE 0) = 0
        BY <3>1
      <4>g. PICK l, i, j : l = Len(queue[c]) /\ i = InFlight("send", c) /\ j = InFlight("recv", c)
        OBVIOUS
      <4>h. l \in Int /\ i \in Int /\ j \in Int
        BY <1>1, <1>l, <4>g
      <4>i. (l - 1) + i - (j - 1) = l + i - j + 0
        BY <4>h
      <4> QED
        BY <4>e, <4>f, <4>g, <4>i
    <3>4. CASE c # d
      <4>1. InFlight("recv", c)' = InFlight("recv", c) /\ InFlight("send", c)' = InFlight("send", c)
        BY <2>3, <3>4 DEF ChannelOps
      <4>2. queue'[c] = queue[c]
        BY <1>1, <3>1, <3>4
      <4> QED
        BY <1>1, <1>l, <3>1, <4>1, <4>2
    <3> QED
      BY <3>3, <3>4
  <2> QED
    BY <2>2, <2>4, <2>5, <2>6, <2>7
<1> QED
  BY <1>2, <1>3

(* An event of an operation on a channel names a channel. *)
LEMMA EventsTyped ==
  ASSUME TypeInv, Started, NEW t \in DOMAIN thread, GStep(t), event' # NoEvent, event'.op \in ChannelOps
  PROVE  event'.r \in Channels
<1>1. InBody(t) /\ Statement(t).op \in ChannelOps
  BY StepsElsewhere
<1>2. PICK k, c : k = Statement(t).op /\ c = Statement(t).c
  OBVIOUS
<1>3. Announced(t, k, c)
  BY <1>1, <1>2, StepsOnChannels DEF Waits, Sent, Received
<1> QED
  BY <1>1, <1>2, <1>3, StatementTyped, Fields DEF Announced, ChannelOps

(* So what the monitor counts changes as what there is to count. *)
LEMMA CountsKept ==
  ASSUME MonitorInv, NEW t \in DOMAIN thread, GStep(t),
         \/ event' = NoEvent /\ UNCHANGED mvars
         \/ event' # NoEvent /\ Replay(event'.tag, event'.op, NameOf[event'.r])
  PROVE  MonitorInv'
<1>1. TypeInv /\ Started /\ CountsRight
  BY DEF MonitorInv
<1>2. TypeInv' /\ Started'
  BY <1>1, TypesKept, StartsKept
<1> DEFINE Step(c) == IF event' # NoEvent /\ event'.op = "send" /\ event'.r = c THEN 1
                      ELSE IF event' # NoEvent /\ event'.op = "recv" /\ event'.r = c THEN -1 ELSE 0
<1>3. /\ chan' \in [DOMAIN chan' -> Int]
      /\ \A c \in Channels :
           At0(chan', ContractName[c], 0) = At0(chan, ContractName[c], 0) + Step(c)
  <2>1. CASE event' = NoEvent /\ UNCHANGED mvars
    <3>1. chan' = chan /\ chan \in [DOMAIN chan -> Int]
      BY <1>1, <2>1 DEF mvars, CountsRight
    <3>2. \A c \in Channels : At0(chan, ContractName[c], 0) \in Int /\ Step(c) = 0
      BY <2>1, <3>1 DEF At0
    <3> QED
      BY <3>1, <3>2
  <2>2. CASE event' # NoEvent /\ Replay(event'.tag, event'.op, NameOf[event'.r])
    <3>1. event'.op \in ChannelOps => event'.r \in Channels
      BY <1>1, <2>2, EventsTyped
    <3>2. PICK tag, op, r : tag = event'.tag /\ op = event'.op /\ r = event'.r
      OBVIOUS
    <3>q. op \in ChannelOps => r \in Channels
      BY <3>1, <3>2
    <3>r. Replay(tag, op, NameOf[r])
      BY <2>2, <3>2
    <3>3. /\ chan' \in [DOMAIN chan' -> Int]
          /\ op \notin ChannelOps => chan' = chan
          /\ \A c \in Channels :
               At0(chan', ContractName[c], 0) = At0(chan, ContractName[c], 0) + Adds(op, r, c)
      <4>1. CountsRight
        BY <1>1
      <4> QED
        BY ONLY Zenon, <3>q, <3>r, <4>1, Counted
    <3>4. \A c \in Channels : Step(c) = Adds(op, r, c)
      BY <2>2, <3>2 DEF Adds
    <3> HIDE DEF Step
    <3> QED
      BY <3>3, <3>4
  <2> QED
    BY <2>1, <2>2
<1>4. ASSUME NEW c \in Channels
      PROVE  At0(chan', ContractName[c], 0) =
               Len(queue'[c]) + InFlight("send", c)' - InFlight("recv", c)'
  <2>1. At0(chan, ContractName[c], 0) = Len(queue[c]) + InFlight("send", c) - InFlight("recv", c)
    BY <1>1 DEF CountsRight
  <2>2. Len(queue'[c]) + InFlight("send", c)' - InFlight("recv", c)' =
          Len(queue[c]) + InFlight("send", c) - InFlight("recv", c) + Step(c)
    BY <1>1, Balanced
  <2> HIDE DEF Step
  <2> QED
    BY <1>3, <2>1, <2>2
<1>5. CountsRight'
  BY <1>3, <1>4 DEF CountsRight, At0
<1> QED
  BY <1>2, <1>5 DEF MonitorInv

(* A stuttering step changes none of it. *)
LEMMA CountsStutter ==
  ASSUME MonitorInv, UNCHANGED <<gvars, mvars, witnessed>>
  PROVE  MonitorInv'
<1>1. /\ gprog' = gprog /\ thread' = thread /\ owner' = owner /\ queue' = queue /\ chan' = chan
  BY DEF gvars, mvars
<1>2. TypeInv' = TypeInv
  BY <1>1 DEF TypeInv, StageFits, Body, InBody, Statement
<1>3. Started' = Started
  BY <1>1 DEF Started, StartedBy, MemberOf
<1>4. CountsRight' = CountsRight
  BY <1>1 DEF CountsRight, At0, InFlight, OnChannel, At, InBody, Statement
<1> QED
  BY <1>2, <1>3, <1>4 DEF MonitorInv

(* The counts are right in every state. *)
LEMMA CountsAlways == MonitoredSpec => []MonitorInv
<1>1. MonitoredInit => MonitorInv
  BY CountsInit
<1>2. MonitorInv /\ [MonitoredStep]_<<gvars, mvars, witnessed>> => MonitorInv'
  <2>1. ASSUME MonitorInv, MonitoredStep PROVE MonitorInv'
    BY <2>1, CountsKept DEF MonitoredStep, GNext
  <2> QED
    BY <2>1, CountsStutter
<1> QED
  BY <1>1, <1>2, PTL DEF MonitoredSpec

(* The monitor's count of a channel is its contents, up to what is recorded
   and not yet done. *)
THEOREM CountsExact == MonitoredSpec => []ChannelCountExact
<1>1. MonitorInv => ChannelCountExact
  <2>1. ASSUME MonitorInv, NEW c \in Channels, ContractName[c] \in DOMAIN chan
        PROVE  chan[ContractName[c]] = Len(queue[c]) + InFlight("send", c) - InFlight("recv", c)
    BY <2>1 DEF MonitorInv, CountsRight, At0
  <2> QED
    BY <2>1 DEF ChannelCountExact
<1> QED
  BY <1>1, CountsAlways, PTL

-----------------------------------------------------------------------------
(* Who the monitor believes to hold what *)
Through(u) == IF thread[u].stage = "recorded" THEN thread[u].pc + 1 ELSE thread[u].pc
OpenSince(u, r) == \E a \in 1..(thread[u].pc - 1) : StillOpen(Body(u), r, a, Through(u))
BelievedOpen ==
  \A r \in Holdable : \A u \in Holders(ContractName[r]) : u \in DOMAIN thread /\ OpenSince(u, r)
Locking(u, m) == thread[u].stage = "taken" /\ Statement(u).op = "lock" /\ Statement(u).m = m
OwnersHold ==
  \A m \in Mutexes :
    /\ \A u \in Holders(ContractName[m]) : owner[m] = u
    /\ \A u \in DOMAIN thread : Locking(u, m) => owner[m] = u

Takes == {"lock", "acquire"}
Gives == {"unlock", "release"}

(* An event is that of the statement the thread is at. *)
LEMMA EventIs ==
  ASSUME TypeInv, NEW t \in DOMAIN thread, GStep(t), event' # NoEvent
  PROVE  /\ InBody(t) /\ event'.tag = t /\ event'.op = Statement(t).op
         /\ event'.r = ResourceOf(Statement(t))
         /\ \/ Announce(t) /\ event_at_attempt(Statement(t))
            \/ Report(t) /\ Statement(t).op \in {"lock", "wait", "acquire"}
<1>1. Announce(t) \/ Report(t)
  BY DEF GStep, SyncStep, TakeMutex, DropGuard, Sleep, Reacquire, NotifyOne, Quiet, Push, Pop, AwaitEmpty,
         NotifyAll, TakePermits, AddPermits, StartChildren, JoinChildren, LeaveFunction, Skip
<1>2. Record(t) /\ InBody(t)
  BY <1>1 DEF Announce, Report, TypeInv, StageFits
<1>3. Announce(t) => event_at_attempt(Statement(t))
  BY DEF Announce
<1>4. Report(t) => Statement(t).op \in {"lock", "wait", "acquire"}
  BY DEF Report, TypeInv, StageFits
<1>5. is_observable(Statement(t))
  BY <1>1, <1>3, <1>4 DEF event_at_attempt, is_observable, Observable
<1> QED
  BY <1>1, <1>2, <1>3, <1>4, <1>5, Recorded

(* What a statement that takes or gives back names *)
LEMMA EventHoldable ==
  ASSUME TypeInv, NEW t \in DOMAIN thread, InBody(t)
  PROVE  /\ Statement(t).op = "lock" =>
              ResourceOf(Statement(t)) = Statement(t).m /\ Statement(t).m \in Mutexes
         /\ Statement(t).op \in Takes \union Gives => ResourceOf(Statement(t)) \in Holdable
BY StatementTyped, Fields DEF ResourceOf, Takes, Gives, Holdable

(* What a step makes of who is believed to hold r *)
LEMMA Believed ==
  ASSUME NEW tag, NEW op, NEW r, Replay(tag, op, NameOf[r]),
         op \in Takes \union Gives => r \in Holdable, NEW q \in Holdable
  PROVE  Holders(ContractName[q])' =
           IF op \in Takes /\ q = r THEN Holders(ContractName[q]) \union {tag}
           ELSE IF op \in Gives /\ q = r THEN Holders(ContractName[q]) \ {tag}
           ELSE Holders(ContractName[q])
<1> DEFINE n == Align(NameOf[r])
           c == ContractName[q]
<1>1. held' = CASE n # Unaligned /\ op \in Takes -> Put0(held, n, At0(held, n, {}) \union {tag})
                [] n # Unaligned /\ op \in Gives -> Removed(tag, n)
                [] OTHER                         -> held
  BY DEF Replay, Takes, Gives
<1>t. op \in Takes => op \notin Gives
  BY DEF Takes, Gives
<1>2. CASE op \notin Takes \union Gives
  <2>1. held' = held
    BY <1>1, <1>2
  <2> QED
    BY <1>2, <2>1 DEF Holders
<1>3. CASE op \in Takes
  <2>1. n = ContractName[r] /\ n # Unaligned
    BY <1>3, Aligned
  <2>2. held' = Put0(held, n, At0(held, n, {}) \union {tag})
    BY <1>1, <1>3, <1>t, <2>1
  <2>3. CASE q = r
    BY <1>3, <2>1, <2>2, <2>3 DEF Put0, At0, Holders
  <2>4. CASE q # r
    <3>1. c # n
      BY <1>3, <2>1, <2>4, NamesAssumption
    <3> HIDE DEF n, c
    <3>2. Holders(c)' = Holders(c)
      BY <2>2, <3>1 DEF Put0, Holders
    <3> QED
      BY <1>t, <1>3, <2>4, <3>2 DEF c
  <2> QED
    BY <2>3, <2>4
<1>4. CASE op \in Gives
  <2>1. n = ContractName[r] /\ n # Unaligned
    BY <1>4, Aligned
  <2>2. held' = Removed(tag, n)
    BY <1>1, <1>4, <1>t, <2>1
  <2>3. CASE q = r
    <3>1. Holders(n)' = Holders(n) \ {tag}
      BY <2>2 DEF Removed, Holders
    <3> QED
      BY <1>t, <1>4, <2>1, <2>3, <3>1
  <2>4. CASE q # r
    <3>1. c # n
      BY <1>4, <2>1, <2>4, NamesAssumption
    <3> HIDE DEF n, c
    <3>2. Holders(c)' = Holders(c)
      BY <2>2, <3>1 DEF Removed, Holders
    <3> QED
      BY <1>t, <1>4, <2>4, <3>2 DEF c
  <2> QED
    BY <2>3, <2>4
<1> QED
  BY <1>2, <1>3, <1>4

Watched ==
  \/ event' = NoEvent /\ UNCHANGED mvars
  \/ event' # NoEvent /\ Replay(event'.tag, event'.op, NameOf[event'.r])

(* A step adds t to the holders of what it reports to have taken, takes it from
   those of what it announces to give back, and leaves all others alone. *)
LEMMA HoldersStep ==
  ASSUME TypeInv, NEW t \in DOMAIN thread, GStep(t), Watched, NEW q \in Holdable
  PROVE  LET c == ContractName[q]
             at == InBody(t) /\ ResourceOf(Statement(t)) = q
         IN  \/ /\ Holders(c)' = Holders(c)
                /\ ~(Announce(t) /\ at /\ Statement(t).op \in Gives)
             \/ /\ Report(t) /\ at /\ Statement(t).op \in Takes
                /\ Holders(c)' = Holders(c) \union {t}
             \/ /\ Announce(t) /\ at /\ Statement(t).op \in Gives
                /\ Holders(c)' = Holders(c) \ {t}
<1> DEFINE c == ContractName[q]
           at == InBody(t) /\ ResourceOf(Statement(t)) = q
<1>1. CASE event' = NoEvent
  <2>1. held' = held
    BY <1>1 DEF Watched, mvars
  <2>2. ~Announce(t)
    <3>1. ASSUME Announce(t) PROVE FALSE
      <4>1. InBody(t) /\ is_observable(Statement(t)) /\ Record(t)
        BY <3>1 DEF Announce, is_observable, Observable, event_at_attempt
      <4> QED
        BY <1>1, <4>1, Recorded
    <3> QED
      BY <3>1
  <2> QED
    BY <2>1, <2>2 DEF Holders
<1>2. CASE event' # NoEvent
  <2>1. PICK tag, op, r : tag = event'.tag /\ op = event'.op /\ r = event'.r
    OBVIOUS
  <2>2. Replay(tag, op, NameOf[r])
    <3>1. Replay(event'.tag, event'.op, NameOf[event'.r])
      BY <1>2 DEF Watched
    <3> QED
      BY <2>1, <3>1
  <2>3. /\ InBody(t) /\ tag = t /\ op = Statement(t).op /\ r = ResourceOf(Statement(t))
        /\ \/ Announce(t) /\ event_at_attempt(Statement(t))
           \/ Report(t) /\ Statement(t).op \in {"lock", "wait", "acquire"}
    BY <1>2, <2>1, EventIs
  <2>4. op \in Takes \union Gives => r \in Holdable
    BY <2>3, EventHoldable
  <2>5. Holders(ContractName[q])' =
           IF op \in Takes /\ q = r THEN Holders(ContractName[q]) \union {tag}
           ELSE IF op \in Gives /\ q = r THEN Holders(ContractName[q]) \ {tag}
           ELSE Holders(ContractName[q])
    BY <2>2, <2>4, Believed
  <2>6. op \in Takes => Report(t)
    BY <2>3 DEF Takes, event_at_attempt
  <2>7. op \in Gives => Announce(t) /\ op \notin Takes
    BY <2>3 DEF Gives, Takes
  <2>8. CASE op \in Takes /\ q = r
    BY <2>3, <2>5, <2>6, <2>8
  <2>9. CASE op \in Gives /\ q = r
    BY <2>3, <2>5, <2>7, <2>9
  <2>10. CASE ~(op \in Takes /\ q = r) /\ ~(op \in Gives /\ q = r)
    BY <2>3, <2>5, <2>10
  <2> QED
    BY <2>8, <2>9, <2>10
<1> QED
  BY <1>1, <1>2

(* Only what gives a thing back passes a statement that does. *)
LEMMA Releasing ==
  ASSUME NEW t \in DOMAIN thread, GStep(t), InBody(t), Statement(t).op \in Gives
  PROVE  Announce(t) \/ thread[t].stage = "recorded" \/ Report(t)
BY DEF Gives, GStep, SyncStep, TakeMutex, DropGuard, Sleep, Reacquire, NotifyOne, NotifyAll, TakePermits,
       AddPermits, Push, AwaitEmpty, Pop, StartChildren, JoinChildren, LeaveFunction, Skip, At

(* What a thread has open stays open unless it announces to give it back. *)
LEMMA OpenKept ==
  ASSUME TypeInv, Started, NEW t \in DOMAIN thread, GStep(t), NEW r \in Holdable,
         NEW u \in DOMAIN thread, OpenSince(u, r),
         ~(u = t /\ Announce(t) /\ ResourceOf(Statement(t)) = r /\ Statement(t).op \in Gives)
  PROVE  u \in DOMAIN thread' /\ OpenSince(u, r)'
<1>g. gprog' = gprog /\ thread[u].pc \in Nat \ {0} /\ Body(u) \in Seq(Operation)
  BY AllMove, ThreadTyped DEF StartChildren
<1>1. PICK a \in 1..(thread[u].pc - 1) : StillOpen(Body(u), r, a, Through(u))
  BY DEF OpenSince
<1> DEFINE b == Body(u)
<1>s. /\ b[a].op \in {"lock", "acquire"} /\ ResourceOf(b[a]) = r
      /\ \A k \in (a + 1)..(Through(u) - 1) : b[k].op \in {"unlock", "release"} => ResourceOf(b[k]) # r
  BY <1>1 DEF StillOpen
<1>2. CASE u # t
  <2>1. /\ u \in DOMAIN thread' /\ thread'[u].fn = thread[u].fn /\ thread'[u].pc = thread[u].pc
        /\ thread'[u].stage = "recorded" <=> thread[u].stage = "recorded"
    <3>1. CASE StartChildren(t)
      BY <1>2, <3>1, StartingThreads DEF Begun
    <3>2. CASE ~StartChildren(t)
      BY <1>2, <3>2, AllMove DEF Moves, Moved, Undisturbed
    <3> QED
      BY <3>1, <3>2
  <2>2. Body(u)' = Body(u) /\ Through(u)' = Through(u)
    BY <1>g, <2>1 DEF Body, Through
  <2>3. StillOpen(Body(u)', r, a, Through(u)')
    BY <1>1, <2>2
  <2> QED
    BY <2>1, <2>3 DEF OpenSince
<1>3. CASE u = t
  <2> DEFINE pc == thread[t].pc
  <2>1. /\ t \in DOMAIN thread' /\ thread'[t].fn = thread[t].fn
        /\ \/ /\ thread'[t].pc = pc
              /\ thread'[t].stage = "recorded" => thread[t].stage = "recorded" \/ Announce(t)
           \/ thread'[t].pc = pc + 1 /\ thread'[t].stage = "at" /\ InBody(t)
    <3>1. CASE StartChildren(t)
      BY <3>1, StartingThreads DEF Begun
    <3>2. CASE ~StartChildren(t)
      <4>1. PICK q, s : Legit(t, q, s) /\ Moved(thread', t, q, s)
        BY <3>2, AllMove DEF Moves
      <4>2. /\ t \in DOMAIN thread' /\ thread'[t].fn = thread[t].fn
            /\ \/ thread'[t].pc = pc /\ thread'[t].stage = s
               \/ thread'[t].pc = pc + 1 /\ thread'[t].stage = "at" /\ InBody(t)
        BY <4>1 DEF Legit, Moved
      <4>3. thread'[t].pc = pc /\ s = "recorded" => Announce(t)
        <5>1. thread'[t].pc = q /\ pc \in Nat
          BY <4>1, ThreadTyped DEF Moved
        <5> QED
          BY <4>1, <5>1 DEF Legit
      <4> QED
        BY <4>2, <4>3
    <3> QED
      BY <3>1, <3>2
  <2>2. Body(t)' = Body(t)
    BY <1>g, <2>1 DEF Body
  <2>3. InBody(t) => b[pc] = Statement(t)
    BY <1>3 DEF Body, Statement
  <2>4. CASE /\ thread'[t].pc = pc
             /\ thread'[t].stage = "recorded" => thread[t].stage = "recorded" \/ Announce(t)
    <3>1. CASE thread'[t].stage # "recorded"
      <4>1. Through(t)' = pc
        BY <2>4, <3>1 DEF Through
      <4>2. \A k \in (a + 1)..(pc - 1) : k \in (a + 1)..(Through(u) - 1)
        BY <1>g, <1>3 DEF Through
      <4>3. StillOpen(b, r, a, pc)
        BY <1>s, <4>2 DEF StillOpen
      <4> QED
        BY <1>3, <2>1, <2>2, <2>4, <4>1, <4>3 DEF OpenSince
    <3>2. CASE thread'[t].stage = "recorded" /\ thread[t].stage = "recorded"
      <4>1. Through(t)' = Through(t)
        BY <2>4, <3>2 DEF Through
      <4> QED
        BY <1>1, <1>3, <2>1, <2>2, <2>4, <4>1 DEF OpenSince
    <3>3. CASE thread'[t].stage = "recorded" /\ Announce(t)
      <4>1. Through(t)' = pc + 1 /\ Through(t) = pc /\ InBody(t)
        BY <2>4, <3>3 DEF Through, Announce
      <4>2. b[pc].op \in {"unlock", "release"} => ResourceOf(b[pc]) # r
        BY <1>3, <2>3, <3>3, <4>1 DEF Gives
      <4>3. \A k \in (a + 1)..((pc + 1) - 1) : b[k].op \in {"unlock", "release"} => ResourceOf(b[k]) # r
        <5>1. \A k \in (a + 1)..((pc + 1) - 1) : k = pc \/ k \in (a + 1)..(Through(u) - 1)
          BY <1>g, <1>3, <4>1
        <5> QED
          BY <1>s, <4>2, <5>1
      <4>4. StillOpen(b, r, a, pc + 1)
        BY <1>s, <4>3 DEF StillOpen
      <4> QED
        BY <1>3, <2>1, <2>2, <2>4, <4>1, <4>4 DEF OpenSince
    <3> QED
      BY <2>4, <3>1, <3>2, <3>3
  <2>5. CASE thread'[t].pc = pc + 1 /\ thread'[t].stage = "at" /\ InBody(t)
    <3>1. Through(t)' = pc + 1
      BY <2>5 DEF Through
    <3>2. b[pc].op \in {"unlock", "release"} /\ thread[t].stage # "recorded" => FALSE
      <4>1. ~Announce(t)
        <5>1. Announce(t) => thread'[t].pc = pc
          BY DEF Announce, Stage, TypeInv, ThreadRec
        <5> QED
          BY <1>g, <1>3, <2>5, <5>1
      <4>2. ~Report(t) \/ Statement(t).op \notin Gives
        BY DEF Report, TypeInv, StageFits, Gives
      <4> QED
        BY <2>3, <2>5, <4>1, <4>2, Releasing DEF Gives
    <3>3. \A k \in (a + 1)..((pc + 1) - 1) : b[k].op \in {"unlock", "release"} => ResourceOf(b[k]) # r
      <4>1. CASE thread[t].stage = "recorded"
        BY <1>s, <1>3, <4>1 DEF Through
      <4>2. CASE thread[t].stage # "recorded"
        <5>1. \A k \in (a + 1)..((pc + 1) - 1) : k = pc \/ k \in (a + 1)..(Through(u) - 1)
          BY <1>g, <1>3, <4>2 DEF Through
        <5> QED
          BY <1>s, <3>2, <4>2, <5>1
      <4> QED
        BY <4>1, <4>2
    <3>4. StillOpen(b, r, a, pc + 1)
      BY <1>s, <3>3 DEF StillOpen
    <3>5. a \in 1..((pc + 1) - 1)
      BY <1>g, <1>3
    <3> QED
      BY <1>3, <2>1, <2>2, <2>5, <3>1, <3>4, <3>5 DEF OpenSince
  <2> QED
    BY <2>1, <2>4, <2>5, <1>3
<1> QED
  BY <1>2, <1>3

(* The monitor believes a thread to hold only what it has open. *)
LEMMA BelievedKept ==
  ASSUME TypeInv, Started, BelievedOpen, NEW t \in DOMAIN thread, GStep(t), Watched
  PROVE  BelievedOpen'
<1>1. ASSUME NEW r \in Holdable, NEW u \in Holders(ContractName[r])'
      PROVE  u \in DOMAIN thread' /\ OpenSince(u, r)'
  <2>h. LET c == ContractName[r]
            at == InBody(t) /\ ResourceOf(Statement(t)) = r
        IN  \/ /\ Holders(c)' = Holders(c)
               /\ ~(Announce(t) /\ at /\ Statement(t).op \in Gives)
            \/ /\ Report(t) /\ at /\ Statement(t).op \in Takes
               /\ Holders(c)' = Holders(c) \union {t}
            \/ /\ Announce(t) /\ at /\ Statement(t).op \in Gives
               /\ Holders(c)' = Holders(c) \ {t}
    BY HoldersStep
  <2>1. CASE /\ u \in Holders(ContractName[r])
             /\ ~(u = t /\ Announce(t) /\ ResourceOf(Statement(t)) = r /\ Statement(t).op \in Gives)
    <3>1. u \in DOMAIN thread /\ OpenSince(u, r)
      BY <2>1 DEF BelievedOpen
    <3> QED
      BY <2>1, <3>1, OpenKept
  <2>2. CASE /\ u = t /\ Report(t) /\ InBody(t) /\ ResourceOf(Statement(t)) = r
             /\ Statement(t).op \in Takes
    <3> DEFINE pc == thread[t].pc
    <3>1. thread' = Return(t) /\ gprog' = gprog /\ pc \in Nat \ {0}
      BY <2>2, ThreadTyped DEF Report
    <3>2. Moved(thread', t, pc + 1, "at")
      BY <3>1, Returned
    <3>3. /\ thread'[t].fn = thread[t].fn /\ thread'[t].pc = pc + 1 /\ thread'[t].stage = "at"
          /\ t \in DOMAIN thread'
      BY <3>2 DEF Moved
    <3>4. Body(t)' = Body(t) /\ Through(t)' = pc + 1
      BY <3>1, <3>3 DEF Body, Through
    <3>5. Body(t)[pc] = Statement(t)
      BY DEF Body, Statement
    <3>6. StillOpen(Body(t), r, pc, pc + 1)
      BY <2>2, <3>1, <3>5 DEF StillOpen, Takes
    <3>7. pc \in 1..((pc + 1) - 1)
      BY <3>1
    <3> QED
      BY <2>2, <3>3, <3>4, <3>6, <3>7 DEF OpenSince
  <2>3. ASSUME Announce(t), u = t PROVE InBody(t)
    BY <2>3 DEF Announce
  <2> QED
    BY <2>h, <2>1, <2>2, <2>3
<1> QED
  BY <1>1 DEF BelievedOpen

(* A thread that gives up a mutex is not believed to hold it. *)
LEMMA NotGivenUp ==
  ASSUME TypeInv, BelievedOpen, Waitless, GuardsReturned,
         NEW t \in DOMAIN thread, GStep(t), NEW m \in Mutexes, owner[m] = t, owner'[m] # t
  PROVE  t \notin Holders(ContractName[m])
<1>b. /\ thread[t].pc \in Nat \ {0} /\ thread[t].pc <= Len(Body(t)) + 1 /\ Body(t) \in Seq(Operation)
      /\ thread[t].fn \in Functions /\ t # NoOwner /\ Body(t) = gprog[thread[t].fn]
  BY ThreadTyped DEF TypeInv, Body
<1>o. owner \in [Mutexes -> Tagged \union {NoOwner}]
  BY DEF TypeInv
<1> SUFFICES ASSUME t \in Holders(ContractName[m]) PROVE FALSE
  OBVIOUS
<1>1. PICK a \in 1..(thread[t].pc - 1) : StillOpen(Body(t), m, a, Through(t))
  BY DEF BelievedOpen, Holdable, OpenSince
<1>2. CASE DropGuard(t)
  <2>1. InBody(t) /\ Statement(t).op = "unlock" /\ thread[t].stage = "recorded"
    BY <1>2 DEF DropGuard, At
  <2>2. Statement(t).m = m
    BY <1>2, <1>o DEF DropGuard
  <2>3. ResourceOf(Statement(t)) = m
    BY <2>1, <2>2 DEF ResourceOf
  <2>4. thread[t].pc \in (a + 1)..(Through(t) - 1)
    BY <1>b, <2>1 DEF Through
  <2> QED
    BY <1>1, <2>1, <2>3, <2>4 DEF StillOpen, Body, Statement
<1>3. CASE Sleep(t)
  BY <1>3, <1>b DEF Sleep, At, InBody, Statement, Waitless
<1>4. CASE LeaveFunction(t)
  <2> DEFINE j == thread[t].pc
  <2>1. Through(t) = j
    BY <1>4 DEF LeaveFunction, Through
  <2>2. j \in Exits(Body(t))
    <3>1. CASE InBody(t)
      BY <1>4, <1>b, <3>1 DEF LeaveFunction, Exits, Body, Statement, InBody
    <3>2. CASE ~InBody(t)
      <4>1. j = Len(Body(t)) + 1
        BY <1>b, <3>2 DEF InBody, Body
      <4> QED
        BY <1>b, <4>1 DEF Exits
    <3> QED
      BY <3>1, <3>2
  <2> QED
    BY <1>1, <1>b, <2>1, <2>2 DEF GuardsReturned
<1>5. CASE TakeMutex(t) \/ Reacquire(t)
  BY <1>5, <1>b, <1>o DEF TakeMutex, Reacquire
<1>6. CASE owner' = owner
  BY <1>6
<1> QED
  BY <1>2, <1>3, <1>4, <1>5, <1>6
     DEF GStep, SyncStep, Announce, Report, NotifyOne, NotifyAll, TakePermits, AddPermits, Push, Pop,
         AwaitEmpty, StartChildren, JoinChildren, Skip

(* Only its owner gives up a mutex. *)
LEMMA OwnerKept ==
  ASSUME TypeInv, NEW t \in DOMAIN thread, GStep(t), NEW m \in Mutexes, owner[m] # t, owner[m] # NoOwner
  PROVE  owner'[m] = owner[m]
<1>o. owner \in [Mutexes -> Tagged \union {NoOwner}]
  BY DEF TypeInv
<1>1. CASE TakeMutex(t) \/ Reacquire(t)
  BY <1>1, <1>o DEF TakeMutex, Reacquire
<1>2. CASE DropGuard(t) \/ Sleep(t)
  BY <1>2, <1>o DEF DropGuard, Sleep
<1>3. CASE LeaveFunction(t)
  BY <1>3, <1>o DEF LeaveFunction
<1>4. CASE owner' = owner
  BY <1>4
<1> QED
  BY <1>1, <1>2, <1>3, <1>4
     DEF GStep, SyncStep, Announce, Report, NotifyOne, NotifyAll, TakePermits, AddPermits, Push, Pop,
         AwaitEmpty, StartChildren, JoinChildren, Skip

(* The owner of a mutex is who is believed to hold it, and who took it last. *)
LEMMA OwnersKept ==
  ASSUME TypeInv, Started, BelievedOpen, OwnersHold, Waitless, GuardsReturned,
         NEW t \in DOMAIN thread, GStep(t), Watched
  PROVE  OwnersHold'
<1>g. gprog' = gprog
  BY AllMove DEF StartChildren
<1>1. ASSUME NEW m \in Mutexes, NEW u \in Holders(ContractName[m])'
      PROVE  owner'[m] = u
  <2>0. m \in Holdable
    BY DEF Holdable
  <2>h. LET c == ContractName[m]
            at == InBody(t) /\ ResourceOf(Statement(t)) = m
        IN  \/ /\ Holders(c)' = Holders(c)
               /\ ~(Announce(t) /\ at /\ Statement(t).op \in Gives)
            \/ /\ Report(t) /\ at /\ Statement(t).op \in Takes
               /\ Holders(c)' = Holders(c) \union {t}
            \/ /\ Announce(t) /\ at /\ Statement(t).op \in Gives
               /\ Holders(c)' = Holders(c) \ {t}
    BY <2>0, HoldersStep
  <2>1. CASE u \in Holders(ContractName[m])
    <3>1. owner[m] = u /\ u \in DOMAIN thread
      BY <2>0, <2>1 DEF OwnersHold, BelievedOpen
    <3>2. u # NoOwner
      BY <3>1, ThreadTyped
    <3>3. CASE u = t
      BY <2>1, <3>1, <3>3, NotGivenUp
    <3>4. CASE u # t
      BY <3>1, <3>2, <3>4, OwnerKept
    <3> QED
      BY <3>3, <3>4
  <2>2. CASE /\ u = t /\ Report(t) /\ InBody(t) /\ ResourceOf(Statement(t)) = m
             /\ Statement(t).op \in Takes
    <3>1. Statement(t).op = "lock" /\ Statement(t).m = m
      <4>1. Statement(t).op = "acquire" => ResourceOf(Statement(t)) \in Semaphores
        BY <2>2, StatementTyped, Fields DEF ResourceOf
      <4>2. Statement(t).op = "lock"
        BY <2>2, <4>1, NamesAssumption DEF Takes
      <4> QED
        BY <2>2, <4>2 DEF ResourceOf
    <3>2. Locking(t, m) /\ owner' = owner
      BY <2>2, <3>1 DEF Locking, Report
    <3> QED
      BY <2>2, <3>2 DEF OwnersHold
  <2> QED
    BY <2>h, <2>1, <2>2
<1>2. ASSUME NEW m \in Mutexes, NEW u \in DOMAIN thread', Locking(u, m)'
      PROVE  owner'[m] = u
  <2>1. CASE u # t
    <3>1. ~StartChildren(t) \/ u \in DOMAIN thread
      <4>1. StartChildren(t) /\ u \notin DOMAIN thread => thread'[u].stage = "at"
        BY <2>1, StartingThreads DEF Begun
      <4> QED
        BY <1>2, <4>1 DEF Locking
    <3>2. /\ u \in DOMAIN thread /\ thread'[u].fn = thread[u].fn /\ thread'[u].pc = thread[u].pc
          /\ thread[u].stage = "taken"
      <4>1. CASE StartChildren(t)
        BY <1>2, <2>1, <3>1, <4>1, StartingThreads DEF Begun, Locking
      <4>2. CASE ~StartChildren(t)
        BY <1>2, <2>1, <4>2, AllMove DEF Moves, Moved, Undisturbed, Locking
      <4> QED
        BY <4>1, <4>2
    <3>3. Statement(u)' = Statement(u)
      BY <1>g, <3>2 DEF Statement
    <3>4. owner[m] = u
      BY <1>2, <3>2, <3>3 DEF Locking, OwnersHold
    <3>5. u # NoOwner
      BY <3>2, ThreadTyped
    <3> QED
      BY <2>1, <3>4, <3>5, OwnerKept
  <2>2. CASE u = t
    <3>1. thread'[t].stage = "taken"
      BY <1>2, <2>2 DEF Locking
    <3>2. ~StartChildren(t)
      BY <3>1, StartingThreads DEF Begun
    <3>3. PICK q, s : Legit(t, q, s) /\ Moved(thread', t, q, s)
      BY <3>2, AllMove DEF Moves
    <3>4. s = "taken" /\ q = thread[t].pc /\ InBody(t) /\ thread'[t].pc = q /\ thread'[t].fn = thread[t].fn
      BY <3>1, <3>3 DEF Legit, Moved
    <3>5. Statement(t)' = Statement(t)
      BY <1>g, <3>4 DEF Statement
    <3>6. Statement(t).op = "lock" /\ Statement(t).m = m
      BY <1>2, <2>2, <3>5 DEF Locking
    <3>7. ~LeaveFunction(t) /\ ~Announce(t) /\ ~Report(t)
      <4>1. thread[t].pc \in Nat
        BY ThreadTyped
      <4>2. ~Report(t)
        <5>1. Report(t) => Moved(thread', t, thread[t].pc + 1, "at")
          BY Returned DEF Report
        <5> QED
          BY <3>1, <5>1 DEF Moved
      <4>3. ~Announce(t)
        BY <3>6 DEF Announce, event_at_attempt
      <4>4. ~LeaveFunction(t)
        BY <3>4, <3>6 DEF LeaveFunction
      <4> QED
        BY <4>2, <4>3, <4>4
    <3>8. TakeMutex(t)
      BY <3>6, <3>7 DEF GStep, SyncStep, DropGuard, Sleep, Reacquire, NotifyOne, NotifyAll, TakePermits,
       AddPermits, Push, AwaitEmpty, Pop, StartChildren, JoinChildren, Skip, At
    <3> QED
      BY <2>2, <3>6, <3>8 DEF TakeMutex, TypeInv
  <2> QED
    BY <2>1, <2>2
<1>3. \A m \in Mutexes : \A u \in Holders(ContractName[m])' : owner'[m] = u
  BY <1>1
<1>4. \A m \in Mutexes : \A u \in DOMAIN thread' : Locking(u, m)' => owner'[m] = u
  BY <1>2
<1> QED
  BY <1>3, <1>4 DEF OwnersHold

-----------------------------------------------------------------------------
(* A nonempty set of indices has a least one: what is below all of it would
   otherwise be closed under successors. *)
LEMMA LeastIndex ==
  ASSUME NEW n \in Nat, NEW U, U \subseteq 1..n, U # {}
  PROVE  \E i \in U : \A j \in U : i <= j
<1> SUFFICES ASSUME \A i \in U : \E j \in U : j < i
             PROVE  FALSE
  OBVIOUS
<1> DEFINE L == {m \in 0..n : \A j \in U : m <= j}
           C == L \ {0}
           f == [m \in L |-> m + 1]
<1>1. IsFiniteSet(L) /\ 0 \in L
  <2>1. IsFiniteSet(0..n) /\ L \subseteq 0..n
    BY FS_Interval
  <2>2. \A j \in U : 0 <= j
    OBVIOUS
  <2>3. 0 \in L
    BY <2>2
  <2> HIDE DEF L
  <2> QED
    BY <2>1, <2>3, FS_Subset
<1>2. IsFiniteSet(C) /\ Cardinality(C) = Cardinality(L) - 1 /\ Cardinality(L) \in Nat
  <2> HIDE DEF L
  <2> QED
    BY <1>1, FS_RemoveElement, FS_CardinalityType
<1>3. f \in [L -> C]
  <2> SUFFICES ASSUME NEW m \in L
               PROVE  m + 1 \in C
    OBVIOUS
  <2>1. m \in Nat /\ \A j \in U : m <= j
    OBVIOUS
  <2>2. m \notin U
    <3>1. ASSUME m \in U PROVE FALSE
      <4>1. PICK j \in U : j < m
        BY <3>1
      <4>2. j \in Nat /\ m <= j
        BY <2>1
      <4> QED
        BY <2>1, <4>1, <4>2
    <3> QED
      BY <3>1
  <2>3. \A j \in U : j \in Nat /\ j <= n /\ m + 1 <= j
    BY <2>1, <2>2
  <2>4. m + 1 \in 0..n
    <3>1. PICK j : j \in U
      OBVIOUS
    <3>2. m \in Nat /\ m + 1 <= j /\ j <= n /\ j \in Nat
      BY <2>1, <2>3, <3>1
    <3> HIDE DEF L
    <3> QED
      BY <3>2
  <2> QED
    BY <2>1, <2>3, <2>4
<1>4. \A x, y \in L : f[x] = f[y] => x = y
  OBVIOUS
<1> HIDE DEF L, C, f
<1>5. \E x, y \in L : x # y /\ f[x] = f[y]
  BY <1>1, <1>2, <1>3, FS_PigeonHole
<1> QED
  BY <1>4, <1>5

(* The first that cannot be decided is none of those that can. *)
LEMMA Undecided ==
  ASSUME NEW n \in Nat, NEW vs, DOMAIN vs = 1..n, \E i \in DOMAIN vs : vs[i] \notin Decided
  PROVE  FirstUndecided(vs) \notin Decided
<1> DEFINE U == {i \in 1..n : vs[i] \notin Decided}
<1>1. U \subseteq 1..n /\ U # {}
  OBVIOUS
<1>2. PICK i \in U : \A j \in U : i <= j
  <2> HIDE DEF U
  <2> QED
    BY <1>1, LeastIndex
<1>3. i \in DOMAIN vs /\ vs[i] \notin Decided /\ \A j \in 1 .. i - 1 : vs[j] \in Decided
  BY <1>2
<1>4. PICK l : l = CHOOSE k \in DOMAIN vs : /\ vs[k] \notin Decided
                                            /\ \A j \in 1 .. k - 1 : vs[j] \in Decided
  OBVIOUS
<1>5. vs[l] \notin Decided
  BY <1>3, <1>4
<1> QED
  BY <1>4, <1>5 DEF FirstUndecided

(* The values of `and` and `or` are those of some operand, or of all. *)
LEMMA AllSome ==
  ASSUME NEW n \in Nat, NEW vs, DOMAIN vs = 1..n
  PROVE  /\ All(vs) = "true" => \A i \in DOMAIN vs : vs[i] = "true"
         /\ All(vs) = "false" => \E i \in DOMAIN vs : vs[i] = "false"
         /\ Some(vs) = "true" => \E i \in DOMAIN vs : vs[i] = "true"
         /\ Some(vs) = "false" => \A i \in DOMAIN vs : vs[i] = "false"
<1>1. CASE \E i \in DOMAIN vs : vs[i] \notin Decided
  <2>1. FirstUndecided(vs) \notin Decided
    BY <1>1, Undecided
  <2> QED
    BY <1>1, <2>1 DEF All, Some, Decided
<1>2. CASE \A i \in DOMAIN vs : vs[i] \in Decided
  BY <1>2 DEF All, Some, Decided
<1> QED
  BY <1>1, <1>2

-----------------------------------------------------------------------------
(* What is believed to be held is held. *)
Covers ==
  \A r \in Holdable :
    LET c == ContractName[r] IN
    /\ Holders(c) \subseteq RealHolders(c) /\ Holders(c) \subseteq DOMAIN thread
    /\ IsFiniteSet(RealHolders(c))

(* Who has an acquisition of s open has permits of it left. *)
LEMMA PermitsAreHeld ==
  ASSUME TypeInv, BelievedOpen, PermitsCovered, NEW s \in Semaphores, NEW u \in Holders(ContractName[s])
  PROVE  u \in DOMAIN thread /\ PermitsHeld(u, s) > 0
<1> DEFINE b == Body(u)
           j == thread[u].pc
<1>1. u \in DOMAIN thread /\ OpenSince(u, s)
  BY DEF BelievedOpen, Holdable
<1>2. /\ j \in Nat \ {0} /\ j <= Len(b) + 1 /\ b \in Seq(Operation)
      /\ thread[u].fn \in Functions /\ b = gprog[thread[u].fn] /\ StageFits(u)
  BY <1>1, ThreadTyped DEF TypeInv, Body
<1>3. PICK a \in 1..(j - 1) : StillOpen(b, s, a, Through(u))
  BY <1>1 DEF OpenSince
<1>4. StillOpen(b, s, a, j)
  <2>1. \A k \in (a + 1)..(j - 1) : k \in (a + 1)..(Through(u) - 1)
    BY <1>2 DEF Through
  <2> QED
    BY <1>3, <2>1 DEF StillOpen
<1>5. j \in 1..(Len(b) + 1)
  BY <1>2
<1>6. Balance(b, s, j - 1, j) > 0 /\ (j \in DOMAIN b => Balance(b, s, j, j) > 0)
  <2>1. \E x \in 1..(j - 1) : StillOpen(b, s, x, j)
    BY <1>4
  <2> HIDE DEF j
  <2> QED
    BY <1>2, <1>5, <2>1 DEF PermitsCovered
<1>7. thread[u].stage = "taken" => j \in DOMAIN b
  BY <1>2 DEF StageFits, InBody
<1> QED
  BY <1>1, <1>6, <1>7 DEF PermitsHeld

(* What is believed to be held is held. *)
LEMMA BeliefsHold ==
  ASSUME TypeInv, BelievedOpen, OwnersHold, PermitsCovered
  PROVE  Covers
<1>1. ASSUME NEW r \in Holdable
      PROVE  /\ Holders(ContractName[r]) \subseteq RealHolders(ContractName[r])
             /\ Holders(ContractName[r]) \subseteq DOMAIN thread
             /\ IsFiniteSet(RealHolders(ContractName[r]))
  <2> DEFINE c == ContractName[r]
  <2>1. Named(c) = r
    BY NamedIs
  <2>2. Holders(c) \subseteq DOMAIN thread
    BY DEF BelievedOpen
  <2>3. CASE r \in Mutexes
    <3>1. RealHolders(c) = {owner[r]} \ {NoOwner}
      BY <2>1, <2>3 DEF RealHolders
    <3>2. IsFiniteSet({owner[r]} \ {NoOwner})
      <4>1. IsFiniteSet({owner[r]}) /\ {owner[r]} \ {NoOwner} \subseteq {owner[r]}
        BY FS_Singleton
      <4> QED
        BY <4>1, FS_Subset
    <3>3. \A u \in Holders(c) : owner[r] = u /\ u # NoOwner
      BY <2>2, <2>3, ThreadTyped DEF OwnersHold
    <3> QED
      BY <2>2, <3>1, <3>2, <3>3
  <2>4. CASE r \in Semaphores
    <3>1. r \notin Mutexes
      BY <2>4, NamesAssumption
    <3>2. RealHolders(c) = {t \in DOMAIN thread : PermitsHeld(t, r) > 0}
      BY <2>1, <3>1 DEF RealHolders
    <3>3. IsFiniteSet(RealHolders(c))
      <4>1. RealHolders(c) \subseteq DOMAIN thread /\ IsFiniteSet(DOMAIN thread)
        BY <3>2 DEF TypeInv
      <4> QED
        BY <4>1, FS_Subset
    <3>4. \A u \in Holders(c) : u \in DOMAIN thread /\ PermitsHeld(u, r) > 0
      BY <2>4, PermitsAreHeld
    <3> QED
      BY <2>2, <3>2, <3>3, <3>4
  <2> QED
    BY <2>3, <2>4 DEF Holdable
<1> QED
  BY <1>1 DEF Covers

(* So an atom that turns false as more is held is false where the monitor says
   so, and one that turns true is true. *)
LEMMA AtomsJudged ==
  ASSUME Covers, NEW p
  PROVE  /\ AtomOf(p, Falling) /\ Atom(p) = "false" => RealAtom(p) = FALSE
         /\ AtomOf(p, Rising) /\ Atom(p) = "true" => RealAtom(p) = TRUE
<1>1. ASSUME NEW c \in {ContractName[r] : r \in Holdable}
      PROVE  /\ Holders(c) \subseteq RealHolders(c) /\ Holders(c) \subseteq DOMAIN thread
             /\ IsFiniteSet(RealHolders(c))
  BY DEF Covers
<1>i. \A k, v : /\ If(k, v) = "false" => ~v
                /\ If(k, v) = "true" => v
  BY DEF If
<1>2. ASSUME NEW rs, rs \subseteq {ContractName[r] : r \in Holdable}, HoldsAll(rs)
      PROVE  ReallyHoldsAll(rs)
  <2>1. PICK t \in UNION {Holders(r) : r \in rs} : \A r \in rs : t \in Holders(r)
    BY <1>2 DEF HoldsAll
  <2>2. t \in DOMAIN thread
    BY <1>1, <1>2, <2>1
  <2>3. \A r \in rs : t \in RealHolders(r)
    BY <1>1, <1>2, <2>1
  <2> QED
    BY <2>2, <2>3 DEF ReallyHoldsAll
<1>3. ASSUME AtomOf(p, Falling), Atom(p) = "false"
      PROVE  RealAtom(p) = FALSE
  <2>1. CASE p.k = "mutex_free"
    <3>1. Holders(p.r) # {} /\ p.r \in {ContractName[r] : r \in Holdable}
      BY <1>3, <1>i, <2>1 DEF Atom, AtomOf
    <3>2. RealHolders(p.r) # {}
      BY <1>1, <3>1
    <3> QED
      BY <2>1, <3>2 DEF RealAtom
  <2>2. CASE p.k = "mutex_exclusive"
    <3>1. ~(Cardinality(Holders(p.r)) <= 1) /\ p.r \in {ContractName[r] : r \in Holdable}
      BY <1>3, <1>i, <2>2 DEF Atom, AtomOf
    <3>2. Holders(p.r) \subseteq RealHolders(p.r) /\ IsFiniteSet(RealHolders(p.r))
      BY <1>1, <3>1
    <3>3. /\ Cardinality(Holders(p.r)) <= Cardinality(RealHolders(p.r))
          /\ Cardinality(Holders(p.r)) \in Nat /\ Cardinality(RealHolders(p.r)) \in Nat
      BY <3>2, FS_Subset, FS_CardinalityType
    <3>4. ~(Cardinality(RealHolders(p.r)) <= 1)
      BY <3>1, <3>3
    <3> QED
      BY <2>2, <3>4 DEF RealAtom
  <2>3. CASE p.k = "never_holds_all"
    <3>1. HoldsAll(p.rs) /\ p.rs \subseteq {ContractName[r] : r \in Holdable}
      BY <1>3, <1>i, <2>3 DEF Atom, AtomOf
    <3>2. ReallyHoldsAll(p.rs)
      BY <1>2, <3>1
    <3> QED
      BY <2>3, <3>2 DEF RealAtom
  <2> QED
    BY <1>3, <2>1, <2>2, <2>3 DEF AtomOf, Falling
<1>4. ASSUME AtomOf(p, Rising), Atom(p) = "true"
      PROVE  RealAtom(p) = TRUE
  <2>1. CASE p.k = "mutex_held"
    <3>1. Holders(p.r) # {} /\ p.r \in {ContractName[r] : r \in Holdable}
      BY <1>4, <1>i, <2>1 DEF Atom, AtomOf
    <3>2. RealHolders(p.r) # {}
      BY <1>1, <3>1
    <3> QED
      BY <2>1, <3>2 DEF RealAtom
  <2>2. CASE p.k = "holds_all"
    <3>1. HoldsAll(p.rs) /\ p.rs \subseteq {ContractName[r] : r \in Holdable}
      BY <1>4, <1>i, <2>2 DEF Atom, AtomOf
    <3>2. ReallyHoldsAll(p.rs)
      BY <1>2, <3>1
    <3> QED
      BY <2>2, <3>2 DEF RealAtom, ReallyHoldsAll
  <2> QED
    BY <1>4, <2>1, <2>2 DEF AtomOf, Rising
<1> QED
  BY <1>3, <1>4

-----------------------------------------------------------------------------
(* No operations, no permits *)
LEMMA NothingPermitted ==
  ASSUME NEW b, NEW s, NEW op
  PROVE  PermitsOf(b, s, op, {}) = 0
<1> DEFINE Is(f) == f = [x \in SUBSET {} |->
                           IF x = {} THEN 0
                           ELSE LET y == CHOOSE z \in x : TRUE IN b[y].n + f[x \ {y}]]
           f == CHOOSE iter : Is(iter)
<1>1. PermitsOf(b, s, op, {}) = f[{}]
  BY DEF PermitsOf, MapThenSumSet, MapThenFoldSet
<1>2. Is([x \in SUBSET {} |-> 0])
  OBVIOUS
<1>3. Is(f)
  <2> HIDE DEF Is
  <2> QED
    BY <1>2
<1>4. f[{}] = 0
  <2> HIDE DEF f
  <2> QED
    BY <1>3
<1> QED
  BY <1>1, <1>4

(* What the monitor evaluates a clause to *)
Judged(p) ==
  /\ Turns(p, Falling, Rising) /\ eval_predicate(p) = "false" => Real(p) = FALSE
  /\ Turns(p, Rising, Falling) /\ eval_predicate(p) = "true" => Real(p) = TRUE

(* A clause of such atoms is as the monitor evaluates it, in one direction. *)
LEMMA ClausesJudged ==
  ASSUME Covers, NEW c \in Clauses
  PROVE  Judged(c.pred)
<1> PICK p : p = c.pred
  OBVIOUS
<1>a. \A q : /\ AtomOf(q, Falling) /\ Atom(q) = "false" => RealAtom(q) = FALSE
             /\ AtomOf(q, Rising) /\ Atom(q) = "true" => RealAtom(q) = TRUE
  BY AtomsJudged
<1>1. CASE p.k = "not"
  <2>1. eval_predicate(p) = Negated(Atom(p.of)) /\ Real(p) = ~RealAtom(p.of)
    BY <1>1 DEF eval_predicate, Real
  <2>2. /\ Negated(Atom(p.of)) = "false" => Atom(p.of) = "true"
        /\ Negated(Atom(p.of)) = "true" => Atom(p.of) = "false"
    BY DEF Negated
  <2>3. /\ Turns(p, Falling, Rising) => AtomOf(p.of, Rising)
        /\ Turns(p, Rising, Falling) => AtomOf(p.of, Falling)
    BY <1>1 DEF Turns
  <2> QED
    BY <1>a, <2>1, <2>2, <2>3 DEF Judged
<1>2. CASE p.k \in {"and", "or"}
  <2> DEFINE vs == [i \in DOMAIN p.ps |-> Atom(p.ps[i])]
  <2>1. Len(p.ps) \in Nat /\ DOMAIN p.ps = 1..Len(p.ps)
    BY <1>2, ClausesAssumption
  <2>2. \A i \in DOMAIN p.ps : vs[i] = Atom(p.ps[i])
    OBVIOUS
  <2>3. DOMAIN vs = 1..Len(p.ps)
    BY <2>1
  <2>4. /\ All(vs) = "true" => \A i \in DOMAIN vs : vs[i] = "true"
        /\ All(vs) = "false" => \E i \in DOMAIN vs : vs[i] = "false"
        /\ Some(vs) = "true" => \E i \in DOMAIN vs : vs[i] = "true"
        /\ Some(vs) = "false" => \A i \in DOMAIN vs : vs[i] = "false"
    <3> HIDE DEF vs
    <3> QED
      BY <2>1, <2>3, AllSome
  <2>5. /\ Turns(p, Falling, Rising) => \A i \in DOMAIN p.ps : AtomOf(p.ps[i], Falling)
        /\ Turns(p, Rising, Falling) => \A i \in DOMAIN p.ps : AtomOf(p.ps[i], Rising)
    BY <1>2 DEF Turns
  <2>6. CASE p.k = "and"
    <3>1. /\ eval_predicate(p) = All(vs)
          /\ Real(p) = \A i \in DOMAIN p.ps : RealAtom(p.ps[i])
      BY <2>6 DEF eval_predicate, Real
    <3> HIDE DEF vs
    <3>2. ASSUME Turns(p, Falling, Rising), eval_predicate(p) = "false" PROVE Real(p) = FALSE
      <4>1. PICK i \in DOMAIN p.ps : Atom(p.ps[i]) = "false"
        BY <2>1, <2>2, <2>3, <2>4, <3>1, <3>2
      <4>2. RealAtom(p.ps[i]) = FALSE
        BY <1>a, <2>5, <3>2, <4>1
      <4> QED
        BY <3>1, <4>2
    <3>3. ASSUME Turns(p, Rising, Falling), eval_predicate(p) = "true" PROVE Real(p) = TRUE
      <4>1. \A i \in DOMAIN p.ps : RealAtom(p.ps[i]) = TRUE
        BY <1>a, <2>1, <2>2, <2>3, <2>4, <2>5, <3>1, <3>3
      <4> QED
        BY <3>1, <4>1
    <3> QED
      BY <3>2, <3>3 DEF Judged
  <2>7. CASE p.k = "or"
    <3>1. /\ eval_predicate(p) = Some(vs)
          /\ Real(p) = \E i \in DOMAIN p.ps : RealAtom(p.ps[i])
      BY <2>7 DEF eval_predicate, Real
    <3> HIDE DEF vs
    <3>2. ASSUME Turns(p, Falling, Rising), eval_predicate(p) = "false" PROVE Real(p) = FALSE
      <4>1. \A i \in DOMAIN p.ps : RealAtom(p.ps[i]) = FALSE
        BY <1>a, <2>1, <2>2, <2>3, <2>4, <2>5, <3>1, <3>2
      <4> QED
        BY <3>1, <4>1
    <3>3. ASSUME Turns(p, Rising, Falling), eval_predicate(p) = "true" PROVE Real(p) = TRUE
      <4>1. PICK i \in DOMAIN p.ps : Atom(p.ps[i]) = "true"
        BY <2>1, <2>2, <2>3, <2>4, <3>1, <3>3
      <4>2. RealAtom(p.ps[i]) = TRUE
        BY <1>a, <2>5, <3>3, <4>1
      <4> QED
        BY <3>1, <4>2
    <3> QED
      BY <3>2, <3>3 DEF Judged
  <2> QED
    BY <1>2, <2>6, <2>7
<1>3. CASE p.k \notin {"not", "and", "or"}
  <2>1. eval_predicate(p) = Atom(p) /\ Real(p) = RealAtom(p)
    BY <1>3 DEF eval_predicate, Real
  <2>2. /\ Turns(p, Falling, Rising) => AtomOf(p, Falling)
        /\ Turns(p, Rising, Falling) => AtomOf(p, Rising)
    BY <1>3 DEF Turns
  <2> QED
    BY <1>a, <2>1, <2>2 DEF Judged
<1> QED
  BY <1>1, <1>2, <1>3

(* Where nothing is held, a clause is what it turns from. *)
LEMMA ClausesAtFirst ==
  ASSUME \A r \in Holdable : RealHolders(ContractName[r]) = {}, NEW c \in Clauses
  PROVE  /\ Turns(c.pred, Falling, Rising) => Real(c.pred) = TRUE
         /\ Turns(c.pred, Rising, Falling) => Real(c.pred) = FALSE
<1> PICK p : p = c.pred
  OBVIOUS
<1>a. ASSUME NEW q
      PROVE  /\ AtomOf(q, Falling) => RealAtom(q) = TRUE
             /\ AtomOf(q, Rising) => RealAtom(q) = FALSE
  <2>1. Cardinality({}) = 0
    BY FS_EmptySet
  <2>2. CASE q.k \in {"mutex_free", "mutex_exclusive", "mutex_held"}
    <3>1. AtomOf(q, Falling) \/ AtomOf(q, Rising) => RealHolders(q.r) = {}
      BY <2>2 DEF AtomOf
    <3>2. CASE q.k = "mutex_free"
      BY <3>1, <3>2 DEF RealAtom, AtomOf, Rising
    <3>3. CASE q.k = "mutex_exclusive"
      BY <2>1, <3>1, <3>3 DEF RealAtom, AtomOf, Rising
    <3>4. CASE q.k = "mutex_held"
      BY <3>1, <3>4 DEF RealAtom, AtomOf, Falling
    <3> QED
      BY <2>2, <3>2, <3>3, <3>4
  <2>3. CASE q.k \in {"holds_all", "never_holds_all"}
    <3>1. ASSUME AtomOf(q, Falling) \/ AtomOf(q, Rising) PROVE ~ReallyHoldsAll(q.rs)
      <4>1. q.rs # {} /\ q.rs \subseteq {ContractName[r] : r \in Holdable}
        BY <2>3, <3>1 DEF AtomOf
      <4>2. PICK x : x \in q.rs /\ RealHolders(x) = {}
        BY <4>1
      <4> QED
        BY <4>2 DEF ReallyHoldsAll
    <3>2. CASE q.k = "holds_all"
      BY <3>1, <3>2 DEF RealAtom, AtomOf, Falling, ReallyHoldsAll
    <3>3. CASE q.k = "never_holds_all"
      BY <3>1, <3>3 DEF RealAtom, AtomOf, Rising
    <3> QED
      BY <2>3, <3>2, <3>3
  <2> QED
    BY <2>2, <2>3 DEF AtomOf, Falling, Rising
<1>1. CASE p.k = "not"
  <2>1. Real(p) = ~RealAtom(p.of)
    BY <1>1 DEF Real
  <2>3. /\ Turns(p, Falling, Rising) => AtomOf(p.of, Rising)
        /\ Turns(p, Rising, Falling) => AtomOf(p.of, Falling)
    BY <1>1 DEF Turns
  <2> QED
    BY <1>a, <2>1, <2>3
<1>2. CASE p.k \in {"and", "or"}
  <2>1. /\ Turns(p, Falling, Rising) => 1 \in DOMAIN p.ps /\ \A i \in DOMAIN p.ps : AtomOf(p.ps[i], Falling)
        /\ Turns(p, Rising, Falling) => 1 \in DOMAIN p.ps /\ \A i \in DOMAIN p.ps : AtomOf(p.ps[i], Rising)
    BY <1>2, ClausesAssumption DEF Turns
  <2>2. /\ Turns(p, Falling, Rising) => \A i \in DOMAIN p.ps : RealAtom(p.ps[i]) = TRUE
        /\ Turns(p, Rising, Falling) => \A i \in DOMAIN p.ps : RealAtom(p.ps[i]) = FALSE
    BY <1>a, <2>1
  <2>3. CASE p.k = "and"
    <3>1. Real(p) = \A i \in DOMAIN p.ps : RealAtom(p.ps[i])
      BY <2>3 DEF Real
    <3> QED
      BY <2>1, <2>2, <3>1
  <2>4. CASE p.k = "or"
    <3>1. Real(p) = \E i \in DOMAIN p.ps : RealAtom(p.ps[i])
      BY <2>4 DEF Real
    <3> QED
      BY <2>1, <2>2, <3>1
  <2> QED
    BY <1>2, <2>3, <2>4
<1>3. CASE p.k \notin {"not", "and", "or"}
  <2>1. Real(p) = RealAtom(p)
    BY <1>3 DEF Real
  <2>2. /\ Turns(p, Falling, Rising) => AtomOf(p, Falling)
        /\ Turns(p, Rising, Falling) => AtomOf(p, Rising)
    BY <1>3 DEF Turns
  <2> QED
    BY <1>a, <2>1, <2>2
<1> QED
  BY <1>1, <1>2, <1>3

-----------------------------------------------------------------------------
HoldInv ==
  /\ MonitorInv /\ BelievedOpen
  /\ Waitless /\ GuardsReturned => OwnersHold

(* Initially nobody is believed to hold anything. *)
LEMMA HoldInit ==
  ASSUME MonitoredInit
  PROVE  HoldInv
<1>1. MonitorInv
  BY CountsInit
<1>2. /\ \A r : Holders(r) = {}
      /\ thread = [t \in {MainTag} |-> Fresh(Entry)]
  BY DEF MonitoredInit, MInit, GInit, Holders
<1>3. BelievedOpen
  BY <1>2 DEF BelievedOpen
<1>4. OwnersHold
  BY <1>2 DEF OwnersHold, Locking, Fresh
<1> QED
  BY <1>1, <1>3, <1>4 DEF HoldInv

(* A step and its event keep the beliefs true, *)
LEMMA HoldKept ==
  ASSUME HoldInv, NEW t \in DOMAIN thread, GStep(t), Watched
  PROVE  HoldInv'
<1>1. MonitorInv' /\ TypeInv /\ Started
  BY CountsKept DEF HoldInv, MonitorInv, Watched
<1>2. BelievedOpen'
  BY <1>1, BelievedKept DEF HoldInv
<1>3. gprog' = gprog
  BY <1>1, AllMove DEF StartChildren
<1>4. Waitless' = Waitless /\ GuardsReturned' = GuardsReturned
  BY <1>3 DEF Waitless, GuardsReturned
<1>5. ASSUME Waitless, GuardsReturned PROVE OwnersHold'
  BY <1>1, <1>5, OwnersKept DEF HoldInv
<1> QED
  BY <1>1, <1>2, <1>4, <1>5 DEF HoldInv

(* and so does a stuttering step, *)
LEMMA HoldStutter ==
  ASSUME HoldInv, UNCHANGED <<gvars, mvars, witnessed>>
  PROVE  HoldInv'
<1>1. MonitorInv'
  BY CountsStutter DEF HoldInv
<1>2. gprog' = gprog /\ thread' = thread /\ owner' = owner /\ held' = held
  BY DEF gvars, mvars
<1>3. BelievedOpen' = BelievedOpen
  BY <1>2 DEF BelievedOpen, OpenSince, Through, Body, Holders
<1>4. OwnersHold' = OwnersHold
  BY <1>2 DEF OwnersHold, Locking, Statement, Holders
<1>5. Waitless' = Waitless /\ GuardsReturned' = GuardsReturned
  BY <1>2 DEF Waitless, GuardsReturned
<1> QED
  BY <1>1, <1>3, <1>4, <1>5 DEF HoldInv

(* in every state of a run. *)
LEMMA HoldAlways == MonitoredSpec => []HoldInv
<1>1. MonitoredInit => HoldInv
  BY HoldInit
<1>2. HoldInv /\ [MonitoredStep]_<<gvars, mvars, witnessed>> => HoldInv'
  <2>1. ASSUME HoldInv, MonitoredStep PROVE HoldInv'
    BY <2>1, HoldKept DEF MonitoredStep, GNext, Watched
  <2> QED
    BY <2>1, HoldStutter
<1> QED
  BY <1>1, <1>2, PTL DEF MonitoredSpec

Tellable == Waitless /\ GuardsReturned /\ PermitsCovered
AllJudged == Tellable => \A c \in Clauses : Judged(c.pred)

(* So the monitor's evaluation is right where it matters, always. *)
LEMMA AlwaysJudged == MonitoredSpec => []AllJudged
<1>1. HoldInv => AllJudged
  <2>1. ASSUME HoldInv, Tellable PROVE Covers
    BY <2>1, BeliefsHold DEF HoldInv, MonitorInv, Tellable
  <2> QED
    BY <2>1, ClausesJudged DEF AllJudged
<1> QED
  BY <1>1, HoldAlways, PTL

(* What was observed was so. *)
Witnessed(c) ==
  /\ Turns(c.pred, Falling, Rising) =>
       TRUE \in witnessed[c] /\ ("false" \in observed[c] => FALSE \in witnessed[c])
  /\ Turns(c.pred, Rising, Falling) =>
       FALSE \in witnessed[c] /\ ("true" \in observed[c] => TRUE \in witnessed[c])
WitnessInv == Tellable => \A c \in Clauses : Witnessed(c)

(* Initially nothing is held. *)
LEMMA NothingHeld ==
  ASSUME MonitoredInit, NEW r \in Holdable
  PROVE  RealHolders(ContractName[r]) = {}
<1>1. /\ thread = [t \in {MainTag} |-> Fresh(Entry)] /\ owner = [m \in Mutexes |-> NoOwner]
  BY DEF MonitoredInit, GInit
<1>2. Named(ContractName[r]) = r
  BY NamedIs
<1>3. CASE r \in Mutexes
  BY <1>1, <1>2, <1>3 DEF RealHolders
<1>4. CASE r \notin Mutexes
  <2>1. RealHolders(ContractName[r]) = {t \in DOMAIN thread : PermitsHeld(t, r) > 0}
    BY <1>2, <1>4 DEF RealHolders
  <2>2. ASSUME NEW t \in DOMAIN thread PROVE ~(PermitsHeld(t, r) > 0)
    <3>1. thread[t].pc = 1 /\ thread[t].stage = "at"
      BY <1>1 DEF Fresh
    <3>2. PermitsHeld(t, r) = Balance(Body(t), r, 0, 1)
      BY <3>1 DEF PermitsHeld
    <3>3. 1..0 = {} /\ 1..(1 - 1) = {}
      OBVIOUS
    <3>4. Balance(Body(t), r, 0, 1) = 0
      BY <3>3, NothingPermitted DEF Balance
    <3> QED
      BY <3>2, <3>4
  <2> QED
    BY <2>1, <2>2
<1> QED
  BY <1>3, <1>4

(* The first observation is witnessed, *)
LEMMA WitnessInit ==
  ASSUME MonitoredInit, AllJudged
  PROVE  WitnessInv
<1>1. ASSUME NEW c \in Clauses
      PROVE  /\ Turns(c.pred, Falling, Rising) => Real(c.pred) = TRUE
             /\ Turns(c.pred, Rising, Falling) => Real(c.pred) = FALSE
  BY NothingHeld, ClausesAtFirst
<1>2. ASSUME NEW c \in Clauses
      PROVE  witnessed[c] = {Real(c.pred)} /\ observed[c] = {eval_predicate(c.pred)}
  BY DEF MonitoredInit, MInit
<1>3. ASSUME Tellable, NEW c \in Clauses
      PROVE  Witnessed(c)
  <2>1. Judged(c.pred)
    BY <1>3 DEF AllJudged
  <2> QED
    BY <1>1, <1>2, <2>1 DEF Witnessed, Judged
<1> QED
  BY <1>3 DEF WitnessInv

(* every later one is, *)
LEMMA WitnessKept ==
  ASSUME HoldInv, WitnessInv, AllJudged', MonitoredStep
  PROVE  WitnessInv'
<1>1. gprog' = gprog
  BY AllMove DEF HoldInv, MonitorInv, MonitoredStep, GNext, StartChildren
<1>2. Tellable' = Tellable
  BY <1>1 DEF Tellable, Waitless, GuardsReturned, PermitsCovered
<1>3. ASSUME Tellable, NEW c \in Clauses
      PROVE  Witnessed(c)'
  <2>1. Witnessed(c)
    BY <1>3 DEF WitnessInv
  <2>2. Judged(c.pred)'
    BY <1>2, <1>3 DEF AllJudged
  <2>3. witnessed'[c] = witnessed[c] \union {Real(c.pred)'}
    BY DEF MonitoredStep, Witness
  <2>4. \/ observed'[c] = observed[c]
        \/ observed'[c] = observed[c] \union {eval_predicate(c.pred)'}
    BY DEF MonitoredStep, Replay, Observes, mvars
  <2>5. /\ Turns(c.pred, Falling, Rising) /\ eval_predicate(c.pred)' = "false" => Real(c.pred)' = FALSE
        /\ Turns(c.pred, Rising, Falling) /\ eval_predicate(c.pred)' = "true" => Real(c.pred)' = TRUE
    BY <2>2 DEF Judged
  <2>6. /\ Turns(c.pred, Falling, Rising) =>
             TRUE \in witnessed'[c] /\ ("false" \in observed'[c] => FALSE \in witnessed'[c])
        /\ Turns(c.pred, Rising, Falling) =>
             FALSE \in witnessed'[c] /\ ("true" \in observed'[c] => TRUE \in witnessed'[c])
    BY <2>1, <2>3, <2>4, <2>5 DEF Witnessed
  <2> QED
    BY <2>6 DEF Witnessed
<1> QED
  BY <1>2, <1>3 DEF WitnessInv

(* and so are all of them. *)
LEMMA WitnessAlways == MonitoredSpec => []WitnessInv
<1>1. MonitoredInit /\ AllJudged => WitnessInv
  BY WitnessInit
<1>2. HoldInv /\ WitnessInv /\ AllJudged' /\ [MonitoredStep]_<<gvars, mvars, witnessed>> => WitnessInv'
  <2>1. ASSUME WitnessInv, UNCHANGED <<gvars, mvars, witnessed>> PROVE WitnessInv'
    <3>1. gprog' = gprog /\ witnessed' = witnessed /\ observed' = observed
      BY <2>1 DEF gvars, mvars
    <3>2. Tellable' = Tellable
      BY <3>1 DEF Tellable, Waitless, GuardsReturned, PermitsCovered
    <3> QED
      BY <2>1, <3>1, <3>2 DEF WitnessInv, Witnessed
  <2> QED
    BY <2>1, WitnessKept
<1> QED
  BY <1>1, <1>2, HoldAlways, AlwaysJudged, PTL DEF MonitoredSpec

(* A FAIL of the monitor is a state the program was in, and so is what it
   claims to have reached. *)
THEOREM VerdictsAreReal == MonitoredSpec => []VerdictsReal
<1>1. WitnessInv => VerdictsReal
  <2>1. ASSUME WitnessInv, Tellable, NEW c \in Clauses, Monotone(c.pred)
        PROVE  /\ "false" \in observed[c] => FALSE \in witnessed[c]
               /\ "true" \in observed[c] => TRUE \in witnessed[c]
    BY <2>1 DEF WitnessInv, Witnessed, Monotone
  <2>2. ASSUME NEW c \in Clauses
        PROVE  /\ c.kind \in {"safety", "always"} /\ ResultFor(c) = "FAIL" => "false" \in observed[c]
               /\ ModeOf(c.kind) = "Exists" /\ ResultFor(c) = "PASS_bounded" => "true" \in observed[c]
    BY DEF ResultFor, Status, ModeOf
  <2>3. ASSUME WitnessInv, Tellable, NEW c \in Clauses, Monotone(c.pred)
        PROVE  /\ c.kind \in {"safety", "always"} /\ ResultFor(c) = "FAIL" => FALSE \in witnessed[c]
               /\ ModeOf(c.kind) = "Exists" /\ ResultFor(c) = "PASS_bounded" => TRUE \in witnessed[c]
    BY <2>1, <2>2, <2>3
  <2> QED
    BY <2>3 DEF VerdictsReal, Tellable
<1> QED
  BY <1>1, WitnessAlways, PTL
=============================================================================
