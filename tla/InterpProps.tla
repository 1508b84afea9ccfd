----------------------------- MODULE InterpProps -----------------------------
(***************************************************************************)
(* What the reference interpreter promises about every program, whatever   *)
(* the program does: the properties checked by the MCInterp runs.          *)
(***************************************************************************)
EXTENDS Interp

Waiting(k, r) == {t \in Ids : status[t] = k /\ on[t] = r}
FunctionIn(q) == \A v, w \in q : v[1] = w[1] => v = w

(* A thread is queued at a resource exactly when its BlockReason names that
   resource, and once: step_thread, resume_thread and step_notify change the
   queue and the status in separate statements, for their own thread and for
   the thread they complete. *)
WaitQueuesExact ==
  /\ \A c \in Channels :
       /\ {w[1] : w \in sendq[c]} = Waiting("send", c) /\ FunctionIn(sendq[c])
       /\ recvq[c] = Waiting("recv", c)
  /\ \A cv \in Condvars :
       {w[1] : w \in cvq[cv]} = Waiting("wait", cv) /\ FunctionIn(cvq[cv])
  /\ \A s \in Semaphores :
       {w[1] : w \in semq[s]} = Waiting("acquire", s) /\ FunctionIn(semq[s])

(* A blocked thread still stands at the statement that blocked it, so that the
   advance of whoever completes it skips that statement and no other; a
   notified waiter asks for the mutex its own `wait` names, and the scope an
   owner waits for is open and its own. *)
Stands(t) ==
  LET o == Op(t)
      r == on[t]
  IN  /\ AtStatement(t)
      /\ status[t] = "lock"    => o.op \in {"lock", "wait"} /\ o.m = r
      /\ status[t] = "send"    => o.op = "send" /\ o.c = r
      /\ status[t] = "recv"    => o.op = "recv" /\ o.c = r
      /\ status[t] = "acquire" => o.op = "acquire" /\ o.s = r
      /\ status[t] = "wait"    => o.op = "wait" /\ o.cv = r /\ <<t, o.m>> \in cvq[r]
      /\ status[t] = "join"    => o.op = "join" /\ Fr(t).handles[o.h] = r
      /\ status[t] = "scope"   => /\ o.op = "scope"
                                 /\ scope[r] # NoScope /\ scope[r].owner = t
BlockedAtItsStatement == \A t \in Ids : status[t] \in Blocking => Stands(t)

(* "Cap-0 never has both sides waiting" (the comment in resume_thread that
   calls its own pairing defensive). *)
RendezvousExclusive ==
  \A c \in Channels : Capacity[c] = 0 =>
     buf[c] = <<>> /\ (sendq[c] = {} \/ recvq[c] = {})

(* No race of a late receiver, a resumed sender and a new sender overfills a
   buffer, and no race of a resumed and a new acquirer overdraws a semaphore
   that starts non-negative. *)
ResourcesBounded ==
  /\ \A c \in Channels : Len(buf[c]) <= Capacity[c]
  /\ \A s \in Semaphores : Permits[s] >= 0 => sem[s] \in 0..MaxPermits

(* "This is checked for *every* value-entry path, not only explicit
   assignments": no assignment, load, store, swap, message, argument or return
   puts a value outside the declared domain of where it lands, nor half of a
   step's effects when it would (the callee's return type and the caller's
   destination are two checks). *)
DomainsRespected == InitialValuesTyped =>
  /\ \A r \in Shared : shared[r] \in SharedType[r]
  /\ \A c \in Channels : \A i \in DOMAIN buf[c] : buf[c][i] \in ChannelType[c]
  /\ \A f \in Ids : frame[f] # NoFrame =>
       \A x \in Locals : frame[f].locals[x] \in SlotType[frame[f].fn][x]

(* A thread blocked in `join` waits for a child that exists and has not
   finished: finish_thread wakes joiners once, at the finish, so a join that
   blocked on a finished or reclaimed child would wait for ever. *)
JoinersWaitForLiveChild ==
  \A t \in Ids : status[t] = "join" => children[t][on[t]] \in Live

(* A handle name bound in a frame always stands for a child of the thread
   (E402 "has no child" cannot happen) and two names never share a child, so
   no join reclaims a thread another join still names. *)
Bindings == {b \in Live \X Ids \X HandleNames :
               /\ \E i \in DOMAIN stack[b[1]] : stack[b[1]][i] = b[2]
               /\ frame[b[2]].handles[b[3]] # None}
HandlesResolve ==
  \A b, d \in Bindings :
    LET child(x) == children[x[1]][frame[x[2]].handles[x[3]]] IN
    /\ child(b) # None /\ status[child(b)] # "absent"
    /\ child(b) = child(d) => b = d

(* A scope record lists exactly its unfinished members, is never empty, and
   its owner waits for it at the frame the record names: the owner is released
   by the last member, neither earlier nor never. *)
ScopesExact ==
  \A s \in Ids : scope[s] # NoScope =>
    LET sc == scope[s] IN
    /\ sc.remaining = Members(s) \cap Live /\ sc.remaining # {}
    /\ status[sc.owner] = "scope" /\ on[sc.owner] = s /\ Top(sc.owner) = sc.frame

(* The allocated frames are those on the stacks, each once; live threads have a
   frame to run and the others have none; `finished` is the finished threads. *)
FramesOwned ==
  /\ \A f \in Ids : frame[f] # NoFrame <=>
       \E t \in Ids : \E i \in DOMAIN stack[t] : stack[t][i] = f
  /\ \A t, u \in Ids : \A i \in DOMAIN stack[t], j \in DOMAIN stack[u] :
       stack[t][i] = stack[u][j] => t = u /\ i = j
  /\ \A t \in Ids : stack[t] # <<>> <=> t \in Live
  /\ finished = {t \in Ids : status[t] = "done"}

(* The analysis bounds hold at every state, whichever thread spawns, opens a
   scope or calls. *)
WithinLimits ==
  /\ Cardinality(Live) <= MaxThreads
  /\ \A t \in Ids : Len(stack[t]) <= MaxFrames

(* A mutex changes hands only by being free in between, and only its holder
   frees it, at an `unlock` or by starting to wait. *)
MutexHandover ==
  [][\A m \in Mutexes : mutex'[m] # mutex[m] =>
       \/ mutex[m] = None
       \/ /\ mutex'[m] = None
          /\ LET t == mutex[m] IN
             status[t] = "run" /\ Op(t).op \in {"unlock", "wait"} /\ Op(t).m = m]_vars

(* A thread that waits on a condvar runs again only after a notify moved it to
   the queue of its mutex, and only holding that mutex. *)
WaiterRegainsLock ==
  [][\A t \in Ids :
       /\ status[t] = "wait" => status'[t] \in {"wait", "lock"}
       /\ status[t] = "lock" /\ status'[t] # "lock" =>
            status'[t] = "run" /\ mutex'[on[t]] = t]_vars

(* A message leaves a sender with the value it had when the sender blocked,
   and messages leave the buffer from its head. *)
MessagesInOrder ==
  [][\A c \in Channels : Capacity[c] > 0 =>
       /\ \A w \in sendq[c] \ sendq'[c] : buf'[c] = Append(buf[c], w[2])
       /\ \/ buf'[c] = buf[c]
          \/ buf[c] # <<>> /\ buf'[c] = Tail(buf[c])
          \/ \E v \in Values : buf'[c] = Append(buf[c], v)]_vars

(* An identity that was reclaimed is never given to another thread. *)
IdentitiesFresh ==
  [][\A t \in Ids : status[t] = "absent" /\ status'[t] # "absent" =>
       /\ t >= next.thread /\ t < next'.thread
       /\ t \notin {mutex[m] : m \in Mutexes}]_vars

-----------------------------------------------------------------------------
(* The inductive invariant *)

(* Identities not handed out yet name nothing. *)
Fresh ==
  /\ \A t \in Ids : t >= next.thread => status[t] = "absent"
  /\ \A f \in Ids : f >= next.frame => frame[f] = NoFrame
  /\ \A s \in Ids : s >= next.scope => scope[s] = NoScope
  /\ \A t \in Ids : status[t] # "absent" => parent[t] < next.scope
  /\ \A k \in Mutexes : mutex[k] < next.thread

(* A frame that was called knows where to return to. *)
CallsReturn ==
  \A t \in Ids : \A i \in DOMAIN stack[t] : i > 1 => frame[stack[t][i]].ret.pc # 0

IInv == TypeOK /\ WaitQueuesExact /\ ScopesExact /\ FramesOwned /\ Fresh /\ CallsReturn

(* A thread that waits stands at its statement, for a scope or a handle that
   was handed out. *)
Firm(u) == Stands(u) /\ (status[u] \in {"join", "scope"} => on[u] \in Ids)
WaitersStand == \A u \in Ids : status[u] \in Blocking => Firm(u)

(* Whoever a thread can name as its child was spawned, is not in a scope and
   was not reclaimed, and no two handles name one child. *)
ChildrenExact ==
  \A t, h \in Ids : children[t][h] # None =>
    /\ h < next.handle
    /\ status[children[t][h]] # "absent" /\ parent[children[t][h]] = None
    /\ \A u, k \in Ids : children[u][k] = children[t][h] => u = t /\ k = h

HandleAt(t, i, n) == frame[stack[t][i]].handles[n]

(* A handle bound in a frame of a thread names a child of that thread, and no
   other binding of the thread holds it. *)
HandlesExact ==
  \A t \in Ids : \A i \in DOMAIN stack[t], n \in HandleNames : HandleAt(t, i, n) # None =>
    /\ children[t][HandleAt(t, i, n)] # None
    /\ \A j \in DOMAIN stack[t], m \in HandleNames :
         HandleAt(t, j, m) = HandleAt(t, i, n) => j = i /\ m = n

(* A joiner waits for a child that has not finished. *)
JoinersFit == \A u \in Ids : status[u] = "join" => children[u][on[u]] \in Live

Named == WaitersStand /\ ChildrenExact /\ HandlesExact /\ JoinersFit

(* A frame, a store of frames, the shared variables and the messages, those
   of blocked senders included, within their domains *)
SlotsTyped(x)  == \A y \in Locals : x.locals[y] \in SlotType[x.fn][y]
StoreTyped(g)  == \A f \in Ids : g[f] # NoFrame => SlotsTyped(g[f])
SharedTyped(s) == \A r \in Shared : s[r] \in SharedType[r]
MessagesTyped  ==
  \A c \in Channels : /\ \A i \in DOMAIN buf[c] : buf[c][i] \in ChannelType[c]
                      /\ \A w \in sendq[c] : w[2] \in ChannelType[c]

InDomains == StoreTyped(frame) /\ SharedTyped(shared) /\ MessagesTyped

(* What every run keeps, of whatever system runs the machine. *)
Sound == IInv /\ Named /\ InDomains

-----------------------------------------------------------------------------
(* What the documents say of it, and the code does not do *)

(* "The net may place at most `bound` tokens on that body" *)
FunctionBoundRespected ==
  \A f \in Functions : Bound[f] # NoBound => Cardinality(Active(f)) <= Bound[f]

(* "a scope reclaims its members when it completes": a thread that belongs to
   a scope outlives it nowhere. *)
ScopeReclaimsMembers ==
  \A t \in Ids : status[t] # "absent" /\ parent[t] # None =>
     scope[parent[t]] # NoScope
=============================================================================
