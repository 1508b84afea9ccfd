----------------------------- MODULE Generated -----------------------------
(***************************************************************************)
(* The Rust program that `codegen` writes, running: one match arm per      *)
(* statement, std mutexes and condvars, and the cir_trace runtime, whose   *)
(* record() appends to one global buffer.  Each helper of the runtime is   *)
(* two steps, the operation and its record, in the order the helper has,   *)
(* so that other threads may run in between.                               *)
(*                                                                         *)
(* Statements on data (stores, branches, calls) are left out: they record  *)
(* nothing.  Threads come from `scope` alone; the Rust of a `spawn`        *)
(* declares its join handle in an inner block, where no `join` finds it.   *)
(* std's condvars wake up only when notified, as the documents assume.     *)
(***************************************************************************)
EXTENDS ConcIR

CONSTANTS
  NoEvent,         \* no event was recorded by the last step
  NoOwner,         \* a mutex nobody holds
  NoResource       \* the empty resource name of a scope's event

VARIABLES
  gprog,           \* the program
  thread,          \* the started threads, by tag
  owner,           \* who holds each std::sync::Mutex
  permits,         \* the counts of the runtime's Semaphores
  queue,           \* the buffers of the runtime's Channels: who sent each item
  event            \* the event the last step recorded

gvars == <<gprog, thread, owner, permits, queue, event>>

-----------------------------------------------------------------------------
(* child_tags: the i-th child of a scope is t<sid>_<i>. The sids of different
   functions differ here, so the tags do: the generator only asks that a sid be
   unique in its function. *)
Sid(f, pc)   == <<f, pc>>
MainTag      == <<Entry, 0, 0>>
child_tags(f, pc) == {<<f, pc, i>> : i \in DOMAIN gprog[f][pc].fs}
MemberOf(f, tag)  == gprog[f][tag[2]].fs[tag[3]]

Observable == {"lock", "unlock", "wait", "notify", "notify_all",
               "acquire", "release", "send", "recv", "scope"}
is_observable(o) == o.op \in Observable
event_at_attempt(o) ==
  o.op \in {"unlock", "notify", "notify_all", "release", "send", "recv", "scope"}

(* The resource an event names; none for a scope. *)
ResourceOf(o) ==
  CASE o.op \in {"lock", "unlock"}                -> o.m
    [] o.op \in {"wait", "notify", "notify_all"}  -> o.cv
    [] o.op \in {"acquire", "release"}            -> o.s
    [] o.op \in {"send", "recv"}                  -> o.c
    [] OTHER                                      -> NoResource

StatementsOf(f) == {<<f, i>> : i \in DOMAIN gprog[f]}
Tags == {MainTag} \union
  UNION {UNION {child_tags(f, i) : i \in {i \in DOMAIN gprog[f] : gprog[f][i].op = "scope"}}
           : f \in Functions}

(* A tag names one thread: a function that opens scopes is the entry or a
   member of one scope, once. What stands for no owner or event is none. *)
Resources == Mutexes \union Condvars \union Semaphores \union Channels
Events == [tag : Functions \X Nat \X Nat, sid : Functions \X Nat, op : Observable,
           r : Resources \union {NoResource}]
IsScope(p, f, i) == i \in DOMAIN p[f] /\ p[f][i].op = "scope"
ASSUME TagsAssumption ==
  /\ NoOwner \notin Functions \X Nat \X Nat
  /\ NoEvent \notin Events
  /\ \A p \in Programs : \A f, g, h \in Functions : \A i \in DOMAIN p[f], j \in DOMAIN p[g] :
       IsScope(p, f, i) /\ IsScope(p, g, j) /\ (\E n \in DOMAIN p[h] : IsScope(p, h, n)) =>
         \A k \in DOMAIN p[f][i].fs, l \in DOMAIN p[g][j].fs :
           p[f][i].fs[k] = h /\ p[g][j].fs[l] = h => h # Entry /\ <<f, i, k>> = <<g, j, l>>

-----------------------------------------------------------------------------
(* A thread is at a match arm, and at a stage of the helper it calls there:
   "at" it, "taken" what it must still record, "recorded" what it must still
   do, "asleep" on a condvar, "woken", or, in a rendezvous, "offered" and
   "woken2" once its item is in the buffer. *)
Fresh(f) == [fn |-> f, pc |-> 1, stage |-> "at"]

Statement(t) == gprog[thread[t].fn][thread[t].pc]
InBody(t)    == thread[t].pc \in DOMAIN gprog[thread[t].fn]
At(t, k, stage) == thread[t].stage = stage /\ InBody(t) /\ Statement(t).op = k

GInit ==
  /\ gprog \in Programs
  /\ thread = [t \in {MainTag} |-> Fresh(Entry)]
  /\ owner = [m \in Mutexes |-> NoOwner]
  /\ permits = Permits
  /\ queue = [c \in Channels |-> <<>>]
  /\ event = NoEvent

-----------------------------------------------------------------------------
Stage(t, s) == thread' = [thread EXCEPT ![t].stage = s]
Return(t)   == [thread EXCEPT ![t].pc = @ + 1, ![t].stage = "at"]

Record(t) == event' = [tag |-> t, sid |-> Sid(thread[t].fn, thread[t].pc),
                       op |-> Statement(t).op, r |-> ResourceOf(Statement(t))]
Quiet     == event' = NoEvent

(* notify_one wakes one of the sleepers, if there is one. *)
Wakes(threads, sleepers, stage) ==
  \/ sleepers = {} /\ thread' = threads
  \/ \E u \in sleepers : thread' = [threads EXCEPT ![u].stage = stage]

(* record first, act later *)
Announce(t) ==
  /\ thread[t].stage = "at" /\ InBody(t) /\ event_at_attempt(Statement(t))
  /\ Stage(t, "recorded") /\ Record(t)
  /\ UNCHANGED <<gprog, owner, permits, queue>>

(* act first, record later *)
Report(t) ==
  /\ thread[t].stage = "taken"
  /\ thread' = Return(t) /\ Record(t)
  /\ UNCHANGED <<gprog, owner, permits, queue>>

TakeMutex(t) ==
  /\ At(t, "lock", "at") /\ owner[Statement(t).m] = NoOwner
  /\ owner' = [owner EXCEPT ![Statement(t).m] = t]
  /\ Stage(t, "taken") /\ Quiet
  /\ UNCHANGED <<gprog, permits, queue>>

(* take() of a guard this call does not have drops nothing. *)
DropGuard(t) ==
  /\ At(t, "unlock", "recorded")
  /\ owner' = IF owner[Statement(t).m] = t
              THEN [owner EXCEPT ![Statement(t).m] = NoOwner] ELSE owner
  /\ thread' = Return(t) /\ Quiet
  /\ UNCHANGED <<gprog, permits, queue>>

(* Condvar::wait. Without the guard the expect() panics, and no step follows. *)
Sleep(t) ==
  /\ At(t, "wait", "at") /\ owner[Statement(t).m] = t
  /\ owner' = [owner EXCEPT ![Statement(t).m] = NoOwner]
  /\ Stage(t, "asleep") /\ Quiet
  /\ UNCHANGED <<gprog, permits, queue>>

Reacquire(t) ==
  /\ At(t, "wait", "woken") /\ owner[Statement(t).m] = NoOwner
  /\ owner' = [owner EXCEPT ![Statement(t).m] = t]
  /\ Stage(t, "taken") /\ Quiet
  /\ UNCHANGED <<gprog, permits, queue>>

Sleepers(cv) == {u \in DOMAIN thread : At(u, "wait", "asleep") /\ Statement(u).cv = cv}

NotifyOne(t) ==
  /\ At(t, "notify", "recorded")
  /\ Wakes(Return(t), Sleepers(Statement(t).cv), "woken") /\ Quiet
  /\ UNCHANGED <<gprog, owner, permits, queue>>

NotifyAll(t) ==
  /\ At(t, "notify_all", "recorded")
  /\ thread' = [u \in DOMAIN thread |->
                  IF u \in Sleepers(Statement(t).cv) THEN [thread[u] EXCEPT !.stage = "woken"]
                                                     ELSE Return(t)[u]]
  /\ Quiet
  /\ UNCHANGED <<gprog, owner, permits, queue>>

TakePermits(t) ==
  /\ At(t, "acquire", "at") /\ permits[Statement(t).s] >= Statement(t).n
  /\ permits' = [permits EXCEPT ![Statement(t).s] = @ - Statement(t).n]
  /\ Stage(t, "taken") /\ Quiet
  /\ UNCHANGED <<gprog, owner, queue>>

AddPermits(t) ==
  /\ At(t, "release", "recorded")
  /\ permits' = [permits EXCEPT ![Statement(t).s] = @ + Statement(t).n]
  /\ thread' = Return(t) /\ Quiet
  /\ UNCHANGED <<gprog, owner, queue>>

-----------------------------------------------------------------------------
(* Channel::send and Channel::recv: one critical section of the buffer's mutex
   per step. Two condvars, one for the senders and one for the receivers; a
   sender of a rendezvous sleeps on the first until the buffer is empty. *)
OnChannel(k, c, stages) ==
  {u \in DOMAIN thread : \E s \in stages : At(u, k, s) /\ Statement(u).c = c}
SleepingReceivers(c) == OnChannel("recv", c, {"asleep"})
SleepingSenders(c)   == OnChannel("send", c, {"asleep", "offered"})

Push(t) ==
  /\ At(t, "send", "recorded") \/ At(t, "send", "woken")
  /\ LET c == Statement(t).c IN
     \/ /\ Capacity[c] > 0 /\ Len(queue[c]) >= Capacity[c]
        /\ Stage(t, "asleep") /\ UNCHANGED queue
     \/ /\ Capacity[c] = 0 \/ Len(queue[c]) < Capacity[c]
        /\ queue' = [queue EXCEPT ![c] = Append(@, t)]
        /\ Wakes(IF Capacity[c] = 0 THEN [thread EXCEPT ![t].stage = "offered"]
                                    ELSE Return(t),
                 SleepingReceivers(c), "woken")
  /\ Quiet
  /\ UNCHANGED <<gprog, owner, permits>>

(* `while !b.is_empty()` of a rendezvous *)
AwaitEmpty(t) ==
  /\ At(t, "send", "woken2")
  /\ thread' = IF queue[Statement(t).c] = <<>> THEN Return(t)
               ELSE [thread EXCEPT ![t].stage = "offered"]
  /\ Quiet
  /\ UNCHANGED <<gprog, owner, permits, queue>>

WakesNobody(t, c) == thread' = Return(t)                            \* mutant
WakesSender(t, c) ==
  \/ SleepingSenders(c) = {} /\ thread' = Return(t)
  \/ \E u \in SleepingSenders(c) :
       thread' = [Return(t) EXCEPT ![u].stage = IF @ = "offered" THEN "woken2" ELSE "woken"]

Pop(t) ==
  /\ At(t, "recv", "recorded") \/ At(t, "recv", "woken")
  /\ LET c == Statement(t).c IN
     \/ queue[c] = <<>> /\ Stage(t, "asleep") /\ UNCHANGED queue
     \/ /\ queue[c] # <<>>
        /\ queue' = [queue EXCEPT ![c] = Tail(@)]
        /\ WakesSender(t, c)
  /\ Quiet
  /\ UNCHANGED <<gprog, owner, permits>>

-----------------------------------------------------------------------------
(* A scope starts its children and joins them. *)
StartChildren(t) ==
  /\ At(t, "scope", "recorded")
  /\ LET new == child_tags(thread[t].fn, thread[t].pc) IN
     thread' = [u \in DOMAIN thread \union new |->
                  IF u \in new THEN Fresh(MemberOf(thread[t].fn, u))
                  ELSE IF u = t THEN [thread[t] EXCEPT !.stage = "children"]
                  ELSE thread[u]]
  /\ Quiet
  /\ UNCHANGED <<gprog, owner, permits, queue>>

JoinChildren(t) ==
  /\ At(t, "scope", "children")
  /\ \A u \in child_tags(thread[t].fn, thread[t].pc) : thread[u].stage = "returned"
  /\ thread' = Return(t) /\ Quiet
  /\ UNCHANGED <<gprog, owner, permits, queue>>

(* A return drops the guards the function still has, and records nothing. *)
LeaveFunction(t) ==
  /\ thread[t].stage = "at"
  /\ InBody(t) => Statement(t).op = "return"
  /\ Stage(t, "returned")
  /\ owner' = [m \in Mutexes |-> IF owner[m] = t THEN NoOwner ELSE owner[m]]
  /\ Quiet
  /\ UNCHANGED <<gprog, permits, queue>>

Skip(t) ==
  /\ At(t, "nop", "at")
  /\ thread' = Return(t) /\ Quiet
  /\ UNCHANGED <<gprog, owner, permits, queue>>

SyncStep(t) ==
  \/ Announce(t) \/ Report(t)
  \/ TakeMutex(t) \/ DropGuard(t) \/ Sleep(t) \/ Reacquire(t)
  \/ NotifyOne(t) \/ NotifyAll(t) \/ TakePermits(t) \/ AddPermits(t)

GStep(t) ==
  \/ SyncStep(t)
  \/ Push(t) \/ AwaitEmpty(t) \/ Pop(t)
  \/ StartChildren(t) \/ JoinChildren(t) \/ LeaveFunction(t) \/ Skip(t)

GNext == \E t \in DOMAIN thread : GStep(t)
=============================================================================
