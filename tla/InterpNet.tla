----------------------------- MODULE InterpNet -----------------------------
(***************************************************************************)
(* The other direction: every step of the interpreter is a firing of the   *)
(* net.  Two history variables record what only the net's state keeps: the *)
(* function each thread started in, and the fall-through places left.      *)
(***************************************************************************)
EXTENDS Interp

CONSTANT NoThread

VARIABLES
  entry,     \* the function each thread was created for
  ends       \* the ends of bodies where an implicit return happened

MembersOf(t) == IF Op(t).op = "spawn" THEN <<Op(t).f>> ELSE Op(t).fs

HInit == Init /\ entry = [t \in Ids |-> Entry] /\ ends = {}

HNext ==
  /\ ~Faulted
  /\ \E t \in Ids :
       /\ Step(t)
       /\ entry' = [u \in Ids |-> IF status[u] = "absent" /\ status'[u] # "absent"
                                  THEN MembersOf(t)[u - next.thread + 1] ELSE entry[u]]
       /\ ends' = ends \union IF status[t] = "run" /\ ~AtStatement(t)
                              THEN {<<Fr(t).fn, Fr(t).pc>>} ELSE {}

HSpec == HInit /\ [][HNext]_<<vars, entry, ends>>

-----------------------------------------------------------------------------
(* The net state that an interpreter state stands for *)

Place(t) ==
  CASE status[t] = "run" -> <<"control", Fr(t).fn, Fr(t).pc>>
    [] status[t] \in {"join", "scope"} -> <<status[t], Fr(t).fn, Fr(t).pc>>
    [] OTHER -> <<status[t], on[t]>>

Plain(t) == [at |-> Place(t), thread |-> t, frame |-> Top(t)]
Tokens ==
        {Plain(t) : t \in {t \in Live : status[t] \notin {"send", "acquire", "wait"}}}
  \cup  UNION {{[at |-> <<"send", c>>, thread |-> w[1], frame |-> Top(w[1]), value |-> w[2]]
                  : w \in sendq[c]} : c \in Channels}
  \cup  UNION {{[at |-> <<"acquire", s>>, thread |-> w[1], frame |-> Top(w[1]), count |-> w[2]]
                  : w \in semq[s]} : s \in Semaphores}
  \cup  UNION {{[at |-> <<"wait", c>>, thread |-> w[1], frame |-> Top(w[1]), lock |-> w[2]]
                  : w \in cvq[c]} : c \in Condvars}

ThreadOf(t) ==
  IF status[t] = "absent" THEN NoThread
  ELSE [entry |-> entry[t], stack |-> stack[t], children |-> children[t],
        parent |-> parent[t],
        blocked |-> IF status[t] \in Blocking THEN Place(t) ELSE Nothing]

NetScopeOf(s) ==
  IF scope[s] = NoScope THEN NoScope
  ELSE [owner |-> scope[s].owner, frame |-> scope[s].frame,
        sid |-> frame[scope[s].frame].pc, remaining |-> scope[s].remaining]

N == INSTANCE Petri WITH
  marking <- Tokens,
  data    <- shared,
  frames  <- frame,
  threads <- [t \in Ids |-> ThreadOf(t)],
  scopes  <- [s \in Ids |-> NetScopeOf(s)],
  reached <- reached \union ends,
  alloc   <- next

(* The two engines agree in the other direction as well: the net can
   fire whatever the interpreter does, and so loses no behaviour. *)
NetImplements == N!Spec
=============================================================================
