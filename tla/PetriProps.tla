----------------------------- MODULE PetriProps -----------------------------
(***************************************************************************)
(* What the Petri backend promises: its marking and its store tell one     *)
(* story, and the net does nothing the reference interpreter does not.     *)
(***************************************************************************)
EXTENDS Petri

Pc(f) == frames[f].pc

(* A live thread has exactly one token in all the places of the net, for its
   top frame; `blocked_at` names the place of that token when it waits and is
   empty when it has control; a token in a place of a statement stands where
   the pc of its frame says, and one in a place of a resource at a statement
   that uses it. Only place_control moves a pc, so every waking transition has
   to take, put and unblock on its own. *)
TokensExact ==
  /\ \A t \in Live : Cardinality({k \in marking : k.thread = t}) = 1
  /\ \A k \in marking :
       LET th == threads[k.thread] IN
       /\ k.thread \in Live /\ k.frame = th.stack[Len(th.stack)]
       /\ th.blocked = IF k.at[1] = "control" THEN Nothing ELSE k.at
       /\ IF k.at \in StatementPlace
          THEN k.at[2] = frames[k.frame].fn /\ k.at[3] = Pc(k.frame)
          ELSE StandsAt(frames[k.frame]).op \in {k.at[1], "wait"}

-----------------------------------------------------------------------------
(* The state of the interpreter that a state of the net stands for *)

TokenOf(t) == CHOOSE k \in marking : k.thread = t

StatusOf(t) ==
  IF threads[t] = NoThread THEN "absent"
  ELSE IF t \in finished THEN "done"
  ELSE IF TokenOf(t).at[1] = "control" THEN "run" ELSE TokenOf(t).at[1]

ReasonOf(t) ==
  IF t \notin Live THEN Nothing
  ELSE LET k == TokenOf(t) IN
       CASE k.at[1] = "control" -> Nothing
         [] k.at[1] = "join"  -> FrameOfToken(k).handles[Statement(k).h]
         [] k.at[1] = "scope" ->
              CHOOSE s \in Ids : scopes[s] # NoScope /\ scopes[s].owner = t
         [] OTHER -> k.at[2]

ChildrenOf(t) == IF threads[t] = NoThread THEN [h \in Ids |-> None] ELSE threads[t].children
ParentOf(t)   == IF threads[t] = NoThread THEN None ELSE threads[t].parent
StackOf(t)    == IF threads[t] = NoThread THEN <<>> ELSE threads[t].stack

ScopeOf(s) == IF scopes[s] = NoScope THEN NoScope
              ELSE [owner |-> scopes[s].owner, frame |-> scopes[s].frame,
                    remaining |-> scopes[s].remaining]

(* The net also records the fall-through places it returned from. *)
StatementsOf(positions) == {p \in positions : p[2] <= Len(prog[p[1]])}

Statuses   == [t \in Ids |-> StatusOf(t)]
Reasons    == [t \in Ids |-> ReasonOf(t)]
Stacks     == [t \in Ids |-> StackOf(t)]
ChildMaps  == [t \in Ids |-> ChildrenOf(t)]
Parents    == [t \in Ids |-> ParentOf(t)]
ScopesOpen == [s \in Ids |-> ScopeOf(s)]
Acquirers  == [s \in Semaphores |-> {<<k.thread, k.count>> : k \in In(SemWait(s))}]
Waiters    == [c \in Condvars |-> {<<k.thread, k.lock>> : k \in In(Condvar(c))}]
Senders    == [c \in Channels |-> {<<k.thread, k.value>> : k \in In(ChannelSend(c))}]
Receivers  == [c \in Channels |-> Threads(In(ChannelRecv(c)))]
Past       == StatementsOf(reached)

(* What stands for a missing scope is none of the interpreter's either. *)
ASSUME MappingAssumption == NoScope \notin [owner : Ids, frame : Ids, remaining : SUBSET Ids]

I == INSTANCE InterpProps WITH
  status <- Statuses, on <- Reasons, stack <- Stacks, children <- ChildMaps, parent <- Parents,
  frame <- frames, scope <- ScopesOpen, shared <- data,
  semq <- Acquirers, cvq <- Waiters, sendq <- Senders, recvq <- Receivers,
  reached <- Past, next <- alloc

(* The two engines agree (backend-usage.md:272 on condvars, backend-design.md:154
   on returns): every firing of the net is a step of the interpreter, on the threads, frames, values, queues
   and completions alike. *)
ImplementsInterp == I!Spec

-----------------------------------------------------------------------------
(* What the documents say of it, and the code does not do *)

(* "Body-less ("nobody") function, no effects | yes | no-op | no-op": a call of
   one leaves the caller's stack alone and control right after the call. *)
TransparentCallIsNoOp ==
  [][\A k \in marking :
       Enables(k, "call") /\ Statement(k).f \in Nobody /\ k \notin marking' =>
         /\ threads'[k.thread].stack = threads[k.thread].stack
         /\ Falls(k) \in marking']_vars
=============================================================================
