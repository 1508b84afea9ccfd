----------------------------- MODULE LockProps -----------------------------
(* What a program that passes the lock checks cannot do in the interpreter. *)
EXTENDS Interp, Locks

(* What the passes take for granted and nothing checks: a function that
   requires locks is only called, and it gives back what it required, whole
   (they "may be intentionally transferred", locks.rs:172).  Only a Var is
   protected: a swap is on an Atomic. *)
Assumed(p) ==
  /\ RequiresHeld[Entry] = {}
  /\ \A f \in Functions : \A i \in DOMAIN p[f] :
       /\ p[f][i].op = "spawn" => RequiresHeld[p[f][i].f] = {}
       /\ p[f][i].op = "scope" => \A j \in DOMAIN p[f][i].fs : RequiresHeld[p[f][i].fs[j]] = {}
       /\ p[f][i].op = "cas" => p[f][i].r \notin DOMAIN Protection
  /\ \A f \in Functions : \A x \in Visited(p, f) :
       p[f][x[1]].op = "return" => RequiresHeld[f] \subseteq x[2]

Validated == {p \in Programs : Validates(p) /\ Assumed(p)}

Standing(t, kinds) == AtStatement(t) /\ Op(t).op \in kinds
Holds(t, m) == mutex[m] = t
Acts(t)     == stack'[t] # stack[t] \/ Fr(t)' # Fr(t)

(* In a validated program no thread unlocks a mutex or waits with a mutex it
   does not hold (E510, E511 end the run), whatever calls it is inside of and
   whatever others did meanwhile; and no thread ends with a mutex. *)
ValidatedNeverFaults ==
  prog \in Validated =>
    \A t \in Ids :
      /\ status[t] = "run" /\ Standing(t, {"unlock", "wait"}) => Holds(t, Op(t).m)
      /\ status[t] = "done" => \A m \in Mutexes : ~Holds(t, m)

(* In a validated program a protected Var is read and written by the holder of
   its lock alone: a thread about to access it, or blocked in a receive into
   it, has the lock, and when its value changes the holder is the thread that
   moves, be it by its own step or by a sender's (E309, locks.rs:417). *)
ProtectedByLock ==
  [][(prog \in Validated) =>
       \A r \in DOMAIN Protection :
         /\ \A t \in Ids :
              /\ status[t] \in {"run", "recv"} /\ AtStatement(t) /\ r \in Accesses(Op(t))
              => Holds(t, Protection[r])
         /\ shared'[r] # shared[r] =>
              \E t \in Ids : /\ Holds(t, Protection[r])
                             /\ Acts(t)]_vars
=============================================================================
