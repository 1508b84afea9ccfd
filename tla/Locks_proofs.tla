----------------------------- MODULE Locks_proofs -----------------------------
(***************************************************************************)
(* Proof that the lock passes of the validator are sound for the reference *)
(* interpreter: what they find on the paths of single functions holds of   *)
(* every thread of every run, whatever it calls and whoever runs with it.  *)
(***************************************************************************)
EXTENDS LockProps, Interp_proofs, SequenceTheorems

-----------------------------------------------------------------------------
(* The lock sets of a stack of calls *)

(* Where a frame is, and what its return does. *)
At(fr) == [fn |-> fr.fn, pc |-> fr.pc, ret |-> fr.ret]
Places == [fn : Functions, pc : Nat \ {0}, ret : RetAddr]

Stmt(p, x) == p[x.fn][x.pc]

(* The passes found that a frame may be where it is with locks a.  A function
   without a body returns at once. *)
OnPath(p, x, a) ==
  IF p[x.fn] = <<>> THEN x.pc = 1 /\ a = RequiresHeld[x.fn]
  ELSE x.pc \in DOMAIN p[x.fn] /\ <<x.pc, a>> \in Visited(p, x.fn)

(* Frame x, with locks a, called frame y. *)
CallOf(p, x, y, a) ==
  /\ x.pc \in DOMAIN p[x.fn] /\ Stmt(p, x).op = "call" /\ Stmt(p, x).f = y.fn
  /\ RequiresHeld[y.fn] \subseteq a
  /\ y.ret = [pc |-> x.pc + 1, dst |-> Stmt(p, x).dst]

(* What frame i answers for itself: a callee answers for the locks it requires. *)
Own(s, a, i) == IF i + 1 \in DOMAIN s THEN a[i] \ RequiresHeld[s[i + 1].fn] ELSE a[i]

(* The lock sets a fit the frames s of a thread that is due the locks d. *)
Fits(p, s, a, d) ==
  /\ \A i \in DOMAIN s : OnPath(p, s[i], a[i])
  /\ \A i \in DOMAIN s : i + 1 \in DOMAIN s => CallOf(p, s[i], s[i + 1], a[i])
  /\ RequiresHeld[s[1].fn] = {}
  /\ \A m \in Mutexes : m \in d <=> \E i \in DOMAIN s : m \in Own(s, a, i)
  /\ \A m \in Mutexes, i, j \in DOMAIN s : m \in Own(s, a, i) /\ m \in Own(s, a, j) => i = j

Sets(s) == [DOMAIN s -> SUBSET Mutexes]
Carries(p, s, d) ==
  IF s = <<>> THEN d = {} ELSE \E a \in Sets(s) : Fits(p, s, a, d)

(* What the passes establish of the statement a frame is at. *)
LEMMA PathClean ==
  ASSUME NEW p \in Validated, NEW x \in Places, NEW a \in SUBSET Mutexes, OnPath(p, x, a),
         p[x.fn] # <<>>
  PROVE  /\ x.pc \in DOMAIN p[x.fn] /\ Clean(x.fn, Stmt(p, x), a)
         /\ Stmt(p, x).op = "return" => a = RequiresHeld[x.fn]
         /\ \A j \in Goes(Stmt(p, x), x.pc) :
              /\ j \in DOMAIN p[x.fn]
              /\ <<j, Leaves(Stmt(p, x), a)>> \in Visited(p, x.fn)
<1> DEFINE f == x.fn
           v == <<x.pc, a>>
           o == Stmt(p, x)
<1>1. f \in Functions /\ v \in Visited(p, f) /\ x.pc \in DOMAIN p[f] /\ v[1] = x.pc /\ v[2] = a
  BY DEF OnPath, Places
<1>2. /\ AlwaysReturns(p[f]) /\ Exhausted(p, f)
      /\ \A y \in Visited(p, f) : Clean(f, p[f][y[1]], y[2])
      /\ \A y \in Visited(p, f) : p[f][y[1]].op = "return" => RequiresHeld[f] \subseteq y[2]
  BY <1>1 DEF Validated, Validates, Assumed
<1>3. Clean(f, o, a) /\ (o.op = "return" => a = RequiresHeld[f])
  <2>1. Clean(f, p[f][v[1]], v[2]) /\ (p[f][v[1]].op = "return" => RequiresHeld[f] \subseteq v[2])
    BY <1>1, <1>2
  <2>2. Clean(f, o, a) /\ (o.op = "return" => RequiresHeld[f] \subseteq a)
    BY <1>1, <2>1 DEF Stmt
  <2> QED
    BY <2>2 DEF Clean, NotReleased
<1>4. ASSUME NEW j \in Goes(o, x.pc)
      PROVE  j \in DOMAIN p[f] /\ <<j, Leaves(o, a)>> \in Visited(p, f)
  <2>1. j \in DOMAIN p[f]
    BY <1>1, <1>2 DEF AlwaysReturns, Stmt
  <2>2. j \in Follows(p[f], v[1]) /\ <<j, Leaves(p[f][v[1]], v[2])>> = <<j, Leaves(o, a)>>
    BY <1>1, <2>1 DEF Follows, Stmt
  <2>3. <<j, Leaves(o, a)>> \in Steps(p[f], Visited(p, f))
    BY <1>1, <2>2 DEF Steps
  <2> QED
    BY <1>2, <2>1, <2>3 DEF Exhausted
<1> QED
  BY <1>1, <1>3, <1>4

(* The top frame, and what it is at; it may be in a function without a body. *)
Last(s)    == s[Len(s)]
Empty(p, s) == p[Last(s).fn] = <<>>

(* The locks of the top frame are due to its thread. *)
LEMMA TopOwns ==
  ASSUME NEW p, NEW s \in Seq(Places), s # <<>>, NEW d \in SUBSET Mutexes,
         NEW a \in Sets(s), Fits(p, s, a, d)
  PROVE  /\ Len(s) \in DOMAIN s /\ a[Len(s)] \in SUBSET Mutexes /\ Last(s) \in Places
         /\ OnPath(p, Last(s), a[Len(s)])
         /\ Own(s, a, Len(s)) = a[Len(s)] /\ a[Len(s)] \subseteq d
         /\ \A i \in DOMAIN s : i # Len(s) => Own(s, a, i) \cap a[Len(s)] = {}
<1>1. Len(s) \in DOMAIN s /\ Len(s) + 1 \notin DOMAIN s
  OBVIOUS
<1>2. Own(s, a, Len(s)) = a[Len(s)] /\ a[Len(s)] \in SUBSET Mutexes /\ Last(s) \in Places
  BY <1>1 DEF Own, Sets, Last
<1> QED
  BY <1>1, <1>2 DEF Fits, Last

(* A thread moves inside a function: its locks change with its top frame's. *)
LEMMA MoveCarries ==
  ASSUME NEW p \in Validated, NEW s \in Seq(Places), s # <<>>, NEW d \in SUBSET Mutexes,
         Carries(p, s, d), ~Empty(p, s),
         NEW y \in Places, y.fn = Last(s).fn, y.ret = Last(s).ret,
         y.pc \in Goes(Stmt(p, Last(s)), Last(s).pc),
         Stmt(p, Last(s)).op = "lock" => Stmt(p, Last(s)).m \notin d
  PROVE  Carries(p, [s EXCEPT ![Len(s)] = y], Leaves(Stmt(p, Last(s)), d))
<1> DEFINE n == Len(s)
           x == Last(s)
           o == Stmt(p, x)
           z == [s EXCEPT ![n] = y]
           e == Leaves(o, d)
<1>1. PICK a \in Sets(s) : Fits(p, s, a, d)
  BY DEF Carries
<1> DEFINE l == Leaves(o, a[n])
           b == [a EXCEPT ![n] = l]
<1>2. /\ n \in DOMAIN s /\ a[n] \in SUBSET Mutexes /\ x \in Places /\ OnPath(p, x, a[n])
      /\ Own(s, a, n) = a[n] /\ a[n] \subseteq d
      /\ \A i \in DOMAIN s : i # n => Own(s, a, i) \cap a[n] = {}
      /\ n \in Nat /\ DOMAIN s = 1..n
  <2>1. n \in Nat /\ DOMAIN s = 1..n
    OBVIOUS
  <2> QED
    BY <1>1, <2>1, TopOwns
<1>3. /\ x.pc \in DOMAIN p[x.fn] /\ Clean(x.fn, o, a[n])
      /\ y.pc \in DOMAIN p[x.fn] /\ <<y.pc, l>> \in Visited(p, x.fn)
  BY <1>2, PathClean DEF Empty
<1>4. o.op \in {"lock", "unlock"} => o.m \in Mutexes
  <2>1. p[x.fn] \in Seq(Operation)
    BY <1>2, ProgramsAssumption DEF Validated, Places
  <2>2. o \in Operation
    BY <1>3, <2>1 DEF Stmt
  <2> QED
    BY <2>2 DEF Operation, DataOp, SyncOp, ChannelOp, ThreadOp, ControlOp
<1>5. l \in SUBSET Mutexes
  BY <1>2, <1>4 DEF Leaves
<1>6. /\ z \in Seq(Places) /\ DOMAIN z = DOMAIN s /\ z[n] = y
      /\ \A i \in DOMAIN s : i # n => z[i] = s[i]
      /\ \A i \in DOMAIN s : z[i].fn = s[i].fn /\ z[i].ret = s[i].ret
  BY <1>2 DEF Last
<1>7. b \in Sets(z) /\ b[n] = l /\ \A i \in DOMAIN s : i # n => b[i] = a[i]
  BY <1>2, <1>5, <1>6 DEF Sets
<1>8. x = s[n]
  BY DEF Last
<1> HIDE DEF z, b, l, o, x, n
<1>9. \A i \in DOMAIN s : OnPath(p, z[i], b[i])
  <2>1. OnPath(p, z[n], b[n])
    BY <1>3, <1>6, <1>7 DEF OnPath, Empty, x
  <2>2. \A i \in DOMAIN s : OnPath(p, s[i], a[i])
    BY <1>1 DEF Fits
  <2> QED
    BY <1>6, <1>7, <2>1, <2>2
<1>10. \A i \in DOMAIN s : i + 1 \in DOMAIN s => CallOf(p, z[i], z[i + 1], b[i])
  <2> SUFFICES ASSUME NEW i \in DOMAIN s, i + 1 \in DOMAIN s
               PROVE  CallOf(p, z[i], z[i + 1], b[i])
    OBVIOUS
  <2>1. i # n
    BY <1>2
  <2>2. CallOf(p, s[i], s[i + 1], a[i])
    BY <1>1 DEF Fits
  <2> QED
    BY <1>6, <1>7, <2>1, <2>2 DEF CallOf
<1>11. RequiresHeld[z[1].fn] = {}
  BY <1>1, <1>2, <1>6 DEF Fits
<1>12. /\ Own(z, b, n) = l
       /\ \A i \in DOMAIN s : i # n => Own(z, b, i) = Own(s, a, i)
  <2>1. n + 1 \notin DOMAIN s
    BY <1>2
  <2>2. Own(z, b, n) = l
    BY <1>6, <1>7, <2>1 DEF Own
  <2>3. ASSUME NEW i \in DOMAIN s, i # n
        PROVE  Own(z, b, i) = Own(s, a, i)
    <3>1. b[i] = a[i]
      BY <1>7, <2>3
    <3>2. i + 1 \in DOMAIN s => z[i + 1].fn = s[i + 1].fn
      BY <1>6
    <3> QED
      BY <1>6, <3>1, <3>2 DEF Own
  <2> QED
    BY <2>2, <2>3
<1>13. \A m \in Mutexes, i, j \in DOMAIN s :
         m \in Own(s, a, i) /\ m \in Own(s, a, j) => i = j
  BY <1>1 DEF Fits
<1>14. \A m \in Mutexes : m \in d <=> \E i \in DOMAIN s : m \in Own(s, a, i)
  BY <1>1 DEF Fits
<1>15. \A m \in Mutexes : m \in e <=> \E i \in DOMAIN s : m \in Own(z, b, i)
  <2>1. CASE o.op = "lock"
    <3>1. e = d \union {o.m} /\ l = a[n] \union {o.m}
      BY <2>1 DEF Leaves, l
    <3> QED
      BY <1>2, <1>12, <1>14, <3>1
  <2>2. CASE o.op = "unlock"
    <3>1. e = d \ {o.m} /\ l = a[n] \ {o.m} /\ o.m \in a[n]
      BY <1>3, <2>2 DEF Leaves, l, Clean, NotLocked
    <3> QED
      BY <1>2, <1>12, <1>14, <3>1
  <2>3. CASE o.op \notin {"lock", "unlock"}
    <3>1. e = d /\ l = a[n]
      BY <2>3 DEF Leaves, l
    <3> QED
      BY <1>2, <1>12, <1>14, <3>1
  <2> QED
    BY <2>1, <2>2, <2>3
<1>16. \A m \in Mutexes, i, j \in DOMAIN s :
         m \in Own(z, b, i) /\ m \in Own(z, b, j) => i = j
  <2>1. \A m \in Mutexes, i \in DOMAIN s : i # n /\ m \in Own(s, a, i) => m \notin l
    <3>1. l \subseteq a[n] \/ (o.op = "lock" /\ l = a[n] \union {o.m} /\ o.m \notin d)
      BY DEF Leaves, l, o, x
    <3> QED
      BY <1>2, <1>14, <3>1
  <2> QED
    BY <1>12, <1>13, <2>1
<1>17. Fits(p, z, b, e)
  BY <1>6, <1>9, <1>10, <1>11, <1>15, <1>16 DEF Fits
<1>18. z # <<>>
  BY <1>2, <1>6
<1> QED
  BY <1>7, <1>17, <1>18 DEF Carries, z, n, o, x

(* A thread calls a function: the callee answers for the locks it requires, and
   its caller for the others. *)
LEMMA CallCarries ==
  ASSUME NEW p \in Validated, NEW s \in Seq(Places), s # <<>>, NEW d \in SUBSET Mutexes,
         Carries(p, s, d), Last(s).pc \in DOMAIN p[Last(s).fn],
         Stmt(p, Last(s)).op = "call",
         NEW y \in Places, y.fn = Stmt(p, Last(s)).f, y.pc = 1,
         y.ret = [pc |-> Last(s).pc + 1, dst |-> Stmt(p, Last(s)).dst]
  PROVE  Carries(p, Append(s, y), d)
<1> DEFINE n == Len(s)
           x == Last(s)
           o == Stmt(p, x)
           z == Append(s, y)
           r == RequiresHeld[y.fn]
<1>1. PICK a \in Sets(s) : Fits(p, s, a, d)
  BY DEF Carries
<1> DEFINE b == [i \in DOMAIN z |-> IF i = n + 1 THEN r ELSE a[i]]
<1>2. n \in Nat /\ DOMAIN s = 1..n /\ x = s[n]
  BY DEF Last
<1>3. /\ n \in DOMAIN s /\ a[n] \in SUBSET Mutexes /\ x \in Places /\ OnPath(p, x, a[n])
      /\ Own(s, a, n) = a[n]
  <2>1. /\ Len(s) \in DOMAIN s /\ a[Len(s)] \in SUBSET Mutexes /\ Last(s) \in Places
        /\ OnPath(p, Last(s), a[Len(s)])
    BY <1>1, TopOwns
  <2>2. Len(s) + 1 \notin DOMAIN s
    OBVIOUS
  <2>3. Own(s, a, Len(s)) = a[Len(s)]
    BY <2>2 DEF Own
  <2> QED
    BY <2>1, <2>3
<1>4. /\ z # <<>> /\ DOMAIN z = 1..(n + 1) /\ z[n + 1] = y
      /\ \A i \in DOMAIN s : z[i] = s[i]
  BY <1>2
<1>5. r \in SUBSET Mutexes /\ r \subseteq a[n] /\ p[x.fn] # <<>>
  <2>1. p[x.fn] # <<>>
    OBVIOUS
  <2>2. Clean(x.fn, o, a[n])
    BY <1>3, <2>1, PathClean
  <2>3. r \subseteq a[n]
    BY <2>2 DEF Clean, CallsWithout
  <2> QED
    BY <1>3, <2>1, <2>3
<1> HIDE DEF z, x, n, o
<1>6. b \in Sets(z) /\ b[n + 1] = r /\ \A i \in DOMAIN s : b[i] = a[i]
  BY <1>2, <1>4, <1>5 DEF Sets
<1> HIDE DEF b
<1>7. OnPath(p, y, r)
  <2>1. CASE p[y.fn] = <<>>
    BY <2>1 DEF OnPath
  <2>2. CASE p[y.fn] # <<>>
    <3>1. Exhausted(p, y.fn) /\ p[y.fn] \in Seq(Operation)
      BY ProgramsAssumption DEF Validated, Validates, Places
    <3> QED
      BY <2>2, <3>1 DEF OnPath, Exhausted
  <2> QED
    BY <2>1, <2>2
<1>8. \A i \in DOMAIN z : OnPath(p, z[i], b[i])
  <2>1. \A i \in DOMAIN s : OnPath(p, s[i], a[i])
    BY <1>1 DEF Fits
  <2> QED
    BY <1>2, <1>4, <1>6, <1>7, <2>1
<1>9. CallOf(p, x, y, a[n])
  BY <1>5 DEF CallOf, o, x
<1>10. \A i \in DOMAIN z : i + 1 \in DOMAIN z => CallOf(p, z[i], z[i + 1], b[i])
  <2> SUFFICES ASSUME NEW i \in DOMAIN z, i + 1 \in DOMAIN z
               PROVE  CallOf(p, z[i], z[i + 1], b[i])
    OBVIOUS
  <2>1. CASE i = n
    BY <1>2, <1>3, <1>4, <1>6, <1>9, <2>1
  <2>2. CASE i # n
    <3>1. i \in DOMAIN s /\ i + 1 \in DOMAIN s
      BY <1>2, <1>4, <2>2
    <3>2. CallOf(p, s[i], s[i + 1], a[i])
      BY <1>1, <3>1 DEF Fits
    <3> QED
      BY <1>4, <1>6, <3>1, <3>2
  <2> QED
    BY <2>1, <2>2
<1>11. RequiresHeld[z[1].fn] = {}
  <2>1. 1 \in DOMAIN s
    BY <1>2, <1>3
  <2> QED
    BY <1>1, <1>4, <2>1 DEF Fits
<1>12. Own(z, b, n + 1) = r /\ Own(z, b, n) = a[n] \ r
  <2>1. n + 1 + 1 \notin DOMAIN z /\ n + 1 \in DOMAIN z
    BY <1>2, <1>4
  <2> QED
    BY <1>3, <1>4, <1>6, <2>1 DEF Own
<1>13. \A i \in DOMAIN s : i # n => Own(z, b, i) = Own(s, a, i)
  <2> SUFFICES ASSUME NEW i \in DOMAIN s, i # n PROVE Own(z, b, i) = Own(s, a, i)
    OBVIOUS
  <2>1. i + 1 \in DOMAIN s /\ i + 1 \in DOMAIN z
    BY <1>2, <1>4
  <2>2. z[i + 1] = s[i + 1] /\ b[i] = a[i]
    BY <1>4, <1>6, <2>1
  <2> QED
    BY <2>1, <2>2 DEF Own
<1>14. \A m \in Mutexes, i, j \in DOMAIN s :
         m \in Own(s, a, i) /\ m \in Own(s, a, j) => i = j
  BY <1>1 DEF Fits
<1>15. \A m \in Mutexes : m \in d <=> \E i \in DOMAIN s : m \in Own(s, a, i)
  BY <1>1 DEF Fits
<1>16. \A i \in DOMAIN z : i = n + 1 \/ (i \in DOMAIN s)
  BY <1>2, <1>4
<1>17. \A i \in DOMAIN s : i \in DOMAIN z /\ i # n + 1
  BY <1>2, <1>4
<1>18. n + 1 \in DOMAIN z
  BY <1>2, <1>4
<1>19. \A m \in Mutexes : m \in d <=> \E i \in DOMAIN z : m \in Own(z, b, i)
  BY <1>3, <1>5, <1>12, <1>13, <1>15, <1>16, <1>17, <1>18
<1>20. \A m \in Mutexes, i, j \in DOMAIN z :
         m \in Own(z, b, i) /\ m \in Own(z, b, j) => i = j
  BY <1>3, <1>5, <1>12, <1>13, <1>14, <1>16, <1>17, <1>18
<1>21. Fits(p, z, b, d)
  BY <1>8, <1>10, <1>11, <1>19, <1>20 DEF Fits
<1> QED
  BY <1>4, <1>6, <1>21 DEF Carries, z

(* A function returns with the locks it requires, whole, and its caller answers
   for them again. *)
LEMMA ReturnCarries ==
  ASSUME NEW p \in Validated, NEW s \in Seq(Places), NEW d \in SUBSET Mutexes,
         Carries(p, s, d), NEW k \in Nat \ {0}, Len(s) = k + 1,
         ~Empty(p, s) => Stmt(p, Last(s)).op = "return",
         NEW y \in Places, y.fn = s[k].fn, y.ret = s[k].ret,
         y.pc = Last(s).ret.pc
  PROVE  Carries(p, [SubSeq(s, 1, k) EXCEPT ![k] = y], d)
<1> DEFINE n == k + 1
           x == Last(s)
           w == s[k]
           z == [SubSeq(s, 1, k) EXCEPT ![k] = y]
           r == RequiresHeld[x.fn]
<1>1. PICK a \in Sets(s) : Fits(p, s, a, d)
  BY DEF Carries
<1> DEFINE b == [i \in 1..k |-> a[i]]
<1>2. /\ n = Len(s) /\ DOMAIN s = 1..n /\ x = s[n] /\ k \in DOMAIN s /\ n \in DOMAIN s
      /\ s # <<>>
  BY DEF Last
<1>3. /\ a[n] \in SUBSET Mutexes /\ a[k] \in SUBSET Mutexes /\ x \in Places /\ w \in Places
      /\ OnPath(p, x, a[n]) /\ Own(s, a, n) = a[n]
  <2>1. a[k] \in SUBSET Mutexes /\ w \in Places
    BY <1>2 DEF Sets
  <2>2. /\ Len(s) \in DOMAIN s /\ a[Len(s)] \in SUBSET Mutexes /\ Last(s) \in Places
        /\ OnPath(p, Last(s), a[Len(s)])
    BY <1>1, <1>2, TopOwns
  <2>3. Len(s) + 1 \notin DOMAIN s
    OBVIOUS
  <2>4. Own(s, a, Len(s)) = a[Len(s)]
    BY <2>3 DEF Own
  <2> QED
    BY <1>2, <2>1, <2>2, <2>4
<1>4. a[n] = r
  <2>1. CASE p[x.fn] = <<>>
    BY <1>3, <2>1 DEF OnPath
  <2>2. CASE p[x.fn] # <<>>
    BY <1>3, <2>2, PathClean DEF Empty
  <2> QED
    BY <2>1, <2>2
<1>5. /\ CallOf(p, w, x, a[k]) /\ OnPath(p, w, a[k])
      /\ w.pc \in DOMAIN p[w.fn]
  <2>1. CallOf(p, s[k], s[k + 1], a[k]) /\ OnPath(p, s[k], a[k])
    BY <1>1, <1>2 DEF Fits
  <2> QED
    BY <1>2, <2>1 DEF CallOf
<1>6. y.pc \in DOMAIN p[w.fn] /\ <<y.pc, a[k]>> \in Visited(p, w.fn)
  <2>1. p[w.fn] # <<>>
    BY <1>5
  <2>2. Goes(Stmt(p, w), w.pc) = {w.pc + 1} /\ Leaves(Stmt(p, w), a[k]) = a[k]
    BY <1>5 DEF CallOf, Goes, Leaves
  <2>3. y.pc = w.pc + 1
    BY <1>5 DEF CallOf
  <2> QED
    BY <1>3, <1>5, <2>1, <2>2, <2>3, PathClean
<1>7. OnPath(p, y, a[k])
  BY <1>5, <1>6 DEF OnPath
<1>8. /\ z # <<>> /\ DOMAIN z = 1..k /\ z[k] = y
      /\ \A i \in 1..k : i # k => z[i] = s[i]
      /\ \A i \in 1..k : z[i].fn = s[i].fn /\ z[i].ret = s[i].ret
  <2> DEFINE q == SubSeq(s, 1, k)
  <2>1. DOMAIN q = 1..k /\ \A i \in 1..k : q[i] = s[i]
    BY <1>2
  <2>2. z = [q EXCEPT ![k] = y]
    OBVIOUS
  <2> HIDE DEF q, z
  <2>3. DOMAIN z = 1..k /\ z[k] = y /\ \A i \in 1..k : i # k => z[i] = s[i]
    BY <1>2, <2>1, <2>2
  <2>4. z # <<>>
    BY <1>2, <2>3
  <2> QED
    BY <2>3, <2>4
<1>9. b \in Sets(z) /\ \A i \in 1..k : b[i] = a[i]
  BY <1>2, <1>8 DEF Sets
<1> HIDE DEF b, z, x, w, r
<1>10. \A i \in DOMAIN z : OnPath(p, z[i], b[i])
  <2>1. \A i \in DOMAIN s : OnPath(p, s[i], a[i])
    BY <1>1 DEF Fits
  <2> QED
    BY <1>2, <1>7, <1>8, <1>9, <2>1
<1>11. \A i \in DOMAIN z : i + 1 \in DOMAIN z => CallOf(p, z[i], z[i + 1], b[i])
  <2> SUFFICES ASSUME NEW i \in DOMAIN z, i + 1 \in DOMAIN z
               PROVE  CallOf(p, z[i], z[i + 1], b[i])
    OBVIOUS
  <2>1. i # k /\ i \in DOMAIN s /\ i + 1 \in DOMAIN s
    BY <1>2, <1>8
  <2>2. CallOf(p, s[i], s[i + 1], a[i])
    BY <1>1, <2>1 DEF Fits
  <2> QED
    BY <1>8, <1>9, <2>1, <2>2 DEF CallOf
<1>12. RequiresHeld[z[1].fn] = {}
  BY <1>1, <1>2, <1>8 DEF Fits
<1>13. Own(s, a, k) = a[k] \ r /\ Own(z, b, k) = a[k] /\ r \subseteq a[k]
  <2>1. k + 1 \notin DOMAIN z /\ k + 1 \in DOMAIN s /\ k \in 1..k
    BY <1>2, <1>8
  <2>2. s[k + 1] = x
    BY <1>2
  <2> QED
    BY <1>5, <1>9, <2>1, <2>2 DEF Own, CallOf, r
<1>14. \A i \in 1..k : i # k => Own(z, b, i) = Own(s, a, i)
  <2> SUFFICES ASSUME NEW i \in 1..k, i # k PROVE Own(z, b, i) = Own(s, a, i)
    OBVIOUS
  <2>1. i + 1 \in DOMAIN s /\ i + 1 \in DOMAIN z
    BY <1>2, <1>8
  <2>2. z[i + 1].fn = s[i + 1].fn /\ b[i] = a[i]
    BY <1>8, <1>9, <2>1
  <2> QED
    BY <2>1, <2>2 DEF Own
<1>15. \A m \in Mutexes, i, j \in DOMAIN s :
         m \in Own(s, a, i) /\ m \in Own(s, a, j) => i = j
  BY <1>1 DEF Fits
<1>16. \A m \in Mutexes : m \in d <=> \E i \in DOMAIN s : m \in Own(s, a, i)
  BY <1>1 DEF Fits
<1>17. /\ \A i \in DOMAIN s : i = n \/ i \in 1..k
       /\ \A i \in 1..k : i \in DOMAIN s /\ i # n
       /\ k \in 1..k
  BY <1>2
<1>18. \A m \in Mutexes : m \in d <=> \E i \in DOMAIN z : m \in Own(z, b, i)
  BY <1>2, <1>3, <1>4, <1>8, <1>13, <1>14, <1>16, <1>17
<1>19. \A m \in Mutexes, i, j \in DOMAIN z :
         m \in Own(z, b, i) /\ m \in Own(z, b, j) => i = j
  BY <1>2, <1>3, <1>4, <1>8, <1>13, <1>14, <1>15, <1>17
<1>20. Fits(p, z, b, d)
  BY <1>10, <1>11, <1>12, <1>18, <1>19 DEF Fits
<1> QED
  BY <1>8, <1>9, <1>20 DEF Carries, z

(* The function a thread began with returns without a lock. *)
LEMMA LastCarries ==
  ASSUME NEW p \in Validated, NEW s \in Seq(Places), NEW d \in SUBSET Mutexes,
         Carries(p, s, d), Len(s) = 1, ~Empty(p, s) => Stmt(p, Last(s)).op = "return"
  PROVE  d = {}
<1>1. s # <<>> /\ DOMAIN s = {1} /\ Last(s) = s[1]
  BY DEF Last
<1>2. PICK a \in Sets(s) : Fits(p, s, a, d)
  BY <1>1 DEF Carries
<1>3. a[1] \in SUBSET Mutexes /\ Last(s) \in Places /\ OnPath(p, Last(s), a[1]) /\ Own(s, a, 1) = a[1]
  <2>1. /\ Len(s) \in DOMAIN s /\ a[Len(s)] \in SUBSET Mutexes /\ Last(s) \in Places
        /\ OnPath(p, Last(s), a[Len(s)])
        /\ Own(s, a, Len(s)) = a[Len(s)] /\ a[Len(s)] \subseteq d
        /\ \A i \in DOMAIN s : i # Len(s) => Own(s, a, i) \cap a[Len(s)] = {}
    <3>1. a \in Sets(s) /\ s \in Seq(Places) /\ d \in SUBSET Mutexes /\ s # <<>> /\ Fits(p, s, a, d)
      BY <1>1, <1>2
    <3> QED
      BY ONLY Zenon, <3>1, TopOwns
  <2> QED
    BY <2>1
<1>4. a[1] = RequiresHeld[Last(s).fn]
  <2>1. CASE p[Last(s).fn] = <<>>
    BY <1>3, <2>1 DEF OnPath
  <2>2. CASE p[Last(s).fn] # <<>>
    BY <1>3, <2>2, PathClean DEF Empty
  <2> QED
    BY <2>1, <2>2
<1>5. a[1] = {}
  BY <1>1, <1>2, <1>4 DEF Fits
<1> QED
  BY <1>1, <1>2, <1>3, <1>5 DEF Fits

(* A new thread has no locks. *)
LEMMA FirstCarries ==
  ASSUME NEW p \in Validated, NEW y \in Places, RequiresHeld[y.fn] = {}, y.pc = 1
  PROVE  Carries(p, <<y>>, {})
<1> DEFINE s == <<y>>
           a == [i \in DOMAIN s |-> {}]
<1>1. s # <<>> /\ DOMAIN s = {1} /\ s[1] = y /\ a[1] = {} /\ 1 + 1 \notin DOMAIN s
  OBVIOUS
<1>2. a \in Sets(s)
  BY DEF Sets
<1>3. OnPath(p, y, {})
  <2>1. Exhausted(p, y.fn) /\ p[y.fn] \in Seq(Operation)
    BY ProgramsAssumption DEF Validated, Validates, Places
  <2> QED
    BY <2>1 DEF OnPath, Exhausted
<1>4. Own(s, a, 1) = {}
  BY <1>1 DEF Own
<1> HIDE DEF s, a
<1>5. Fits(p, s, a, {})
  BY <1>1, <1>3, <1>4 DEF Fits
<1> QED
  BY <1>1, <1>2, <1>5 DEF Carries, s

(* What the passes demand of a statement is due to the thread that is at it. *)
LEMMA CarriesChecked ==
  ASSUME NEW p \in Validated, NEW s \in Seq(Places), s # <<>>, NEW d \in SUBSET Mutexes,
         Carries(p, s, d), Last(s).pc \in DOMAIN p[Last(s).fn]
  PROVE  /\ Stmt(p, Last(s)).op \in {"unlock", "wait"} => Stmt(p, Last(s)).m \in d
         /\ \A r \in Accesses(Stmt(p, Last(s))) \cap DOMAIN Protection : Protection[r] \in d
<1>1. PICK a \in Sets(s) : Fits(p, s, a, d)
  BY DEF Carries
<1> DEFINE h == a[Len(s)]
<1>2. h \in SUBSET Mutexes /\ Last(s) \in Places /\ OnPath(p, Last(s), h) /\ h \subseteq d
  BY <1>1, TopOwns
<1>3. Clean(Last(s).fn, Stmt(p, Last(s)), h)
  <2>1. p[Last(s).fn] # <<>>
    OBVIOUS
  <2> QED
    BY <1>2, <2>1, PathClean
<1> QED
  BY <1>2, <1>3 DEF Clean, NotLocked, WaitsWithout, Unprotected

(* A returning function delivers its value under the lock of what it goes to. *)
LEMMA CarriesReturned ==
  ASSUME NEW p \in Validated, NEW s \in Seq(Places), NEW d \in SUBSET Mutexes,
         Carries(p, s, d), Len(s) > 1,
         ~Empty(p, s) => Stmt(p, Last(s)).op = "return",
         Last(s).ret.dst \in DOMAIN Protection
  PROVE  Protection[Last(s).ret.dst] \in d
<1> DEFINE k == Len(s) - 1
           w == s[k]
<1>1. PICK a \in Sets(s) : Fits(p, s, a, d)
  BY DEF Carries
<1>2. k \in DOMAIN s /\ k + 1 \in DOMAIN s /\ s[k + 1] = Last(s) /\ k + 1 = Len(s) /\ s # <<>>
  BY DEF Last
<1>3. CallOf(p, w, Last(s), a[k]) /\ OnPath(p, w, a[k]) /\ w \in Places /\ a[k] \in SUBSET Mutexes
  BY <1>1, <1>2 DEF Fits, Sets
<1> HIDE DEF k, w
<1>4. Clean(w.fn, Stmt(p, w), a[k]) /\ Last(s).ret.dst \in Accesses(Stmt(p, w))
  <2>1. p[w.fn] # <<>> /\ Stmt(p, w).op = "call" /\ Last(s).ret.dst = Stmt(p, w).dst
    BY <1>3 DEF CallOf
  <2>2. Stmt(p, w) \in [op : {"call"}, f : Functions, args : Seq(Exprs), dst : Destinations]
    <3>1. p[w.fn] \in Seq(Operation) /\ w.pc \in DOMAIN p[w.fn]
      BY <1>3, ProgramsAssumption DEF Validated, Places, CallOf
    <3>2. Stmt(p, w) \in Operation
      BY <3>1 DEF Stmt
    <3> QED
      BY <2>1, <3>2 DEF Operation, DataOp, SyncOp, ChannelOp, ThreadOp, ControlOp
  <2>3. Stmt(p, w).dst \in Writes(Stmt(p, w))
    BY <2>2 DEF Writes
  <2> QED
    BY <1>3, <2>1, <2>3, PathClean DEF Accesses
<1>5. Protection[Last(s).ret.dst] \in a[k]
  BY <1>4 DEF Clean, Unprotected
<1>6. a[Len(s)] \subseteq d /\ OnPath(p, Last(s), a[Len(s)]) /\ Last(s) \in Places /\ a[Len(s)] \in SUBSET Mutexes
  BY <1>1, <1>2, TopOwns
<1>7. a[Len(s)] = RequiresHeld[Last(s).fn]
  <2>1. CASE p[Last(s).fn] = <<>>
    BY <1>6, <2>1 DEF OnPath
  <2>2. CASE p[Last(s).fn] # <<>>
    BY <1>6, <2>2, PathClean DEF Empty
  <2> QED
    BY <2>1, <2>2
<1>8. Own(s, a, k) = a[k] \ a[Len(s)]
  BY <1>2, <1>7 DEF Own
<1>9. Own(s, a, k) \subseteq d
  BY <1>1, <1>2, <1>3, <1>8 DEF Fits
<1> QED
  BY <1>5, <1>6, <1>8, <1>9

(* A function with a body is always at one of its statements. *)
LEMMA CarriesInside ==
  ASSUME NEW p \in Validated, NEW s \in Seq(Places), s # <<>>, NEW d \in SUBSET Mutexes,
         Carries(p, s, d), ~Empty(p, s)
  PROVE  Last(s).pc \in DOMAIN p[Last(s).fn]
<1>1. PICK a \in Sets(s) : Fits(p, s, a, d)
  BY DEF Carries
<1>2. OnPath(p, Last(s), a[Len(s)])
  BY <1>1, TopOwns
<1> QED
  BY <1>2 DEF OnPath, Empty

-----------------------------------------------------------------------------
(* The threads of a state *)

View(u) == [i \in DOMAIN stack[u] |-> At(frame[stack[u][i]])]

(* A thread that waits at a condvar, or for the mutex it waited with, gets
   that mutex back. *)
Away(u) == status[u] \in {"wait", "lock"} /\ Op(u).op = "wait"
Held(u) == {m \in Mutexes : mutex[m] = u}
Due(u)  == Held(u) \union (IF Away(u) THEN {Op(u).m} ELSE {})

(* What every thread holds or gets back is what the passes found on its path,
   from the function it began with to the one it is in. *)
LocksFit == \A u \in Ids : Carries(prog, View(u), Due(u))

(* What a thread's step does to its places and its locks *)
Stays(u) == View(u)' = View(u) /\ Due(u)' = Due(u)
Passes(u, j) ==
  /\ AtStatement(u) /\ j \in Goes(Op(u), Fr(u).pc)
  /\ Op(u).op = "lock" => Op(u).m \notin Due(u)
  /\ View(u)' = [View(u) EXCEPT ![Len(View(u))] = [At(Fr(u)) EXCEPT !.pc = j]]
  /\ Due(u)' = Leaves(Op(u), Due(u))
Advances(u) == \E j \in Nat \ {0} : Passes(u, j)

(* The places of a thread are a sequence that ends where its top frame is. *)
LEMMA ViewTyped ==
  ASSUME IInv, NEW u \in Ids
  PROVE  /\ View(u) \in Seq(Places) /\ Len(View(u)) = Len(stack[u])
         /\ \A i \in DOMAIN stack[u] : frame[stack[u][i]] \in FrameState /\ stack[u][i] \in Ids
         /\ stack[u] = <<>> => View(u) = <<>>
         /\ stack[u] # <<>> => View(u) # <<>> /\ Last(View(u)) = At(Fr(u))
<1>1. stack[u] \in Seq(Ids) /\ DOMAIN stack[u] = 1..Len(stack[u]) /\ Len(stack[u]) \in Nat
  BY DEF IInv, TypeOK
<1>2. ASSUME NEW i \in DOMAIN stack[u]
      PROVE  stack[u][i] \in Ids /\ frame[stack[u][i]] \in FrameState
  <2>1. stack[u][i] \in Ids
    BY <1>1
  <2>2. frame[stack[u][i]] # NoFrame
    BY <2>1 DEF IInv, FramesOwned
  <2> QED
    BY <2>1, <2>2 DEF IInv, TypeOK
<1>3. ASSUME NEW i \in DOMAIN stack[u]
      PROVE  At(frame[stack[u][i]]) \in Places
  BY <1>2 DEF At, Places, FrameState
<1>4. View(u) \in Seq(Places) /\ Len(View(u)) = Len(stack[u])
  BY <1>1, <1>3 DEF View
<1>5. ASSUME stack[u] # <<>>
      PROVE  View(u) # <<>> /\ Last(View(u)) = At(Fr(u))
  <2>1. Len(stack[u]) \in DOMAIN stack[u]
    BY <1>1, <1>5
  <2>2. View(u)[Len(stack[u])] = At(Fr(u))
    BY <2>1 DEF View, Fr, Top
  <2>3. View(u) # <<>>
    BY <1>4, <1>5, <1>1
  <2> QED
    BY <1>4, <2>2, <2>3 DEF Last
<1>6. stack[u] = <<>> => View(u) = <<>>
  BY <1>1, <1>4
<1> QED
  BY <1>2, <1>4, <1>5, <1>6

(* What is due to a thread is a set of mutexes. *)
LEMMA DueTyped ==
  ASSUME IInv, WaitersStand, NEW u \in Ids
  PROVE  Due(u) \in SUBSET Mutexes
<1>1. Away(u) => Op(u).m \in Mutexes
  <2> SUFFICES ASSUME Away(u) PROVE Op(u).m \in Mutexes
    OBVIOUS
  <2>1. AtStatement(u) /\ Op(u).op = "wait"
    BY DEF Away, Blocking, WaitersStand, Firm, Stands
  <2> QED
    BY <2>1, Executing, OpFields
<1> QED
  BY <1>1 DEF Due, Held

(* A thread that stays or advances has the locks its path asks for. *)
LEMMA KeepsFit ==
  ASSUME IInv, WaitersStand, LocksFit, prog \in Validated, prog' = prog,
         NEW u \in Ids, Stays(u) \/ Advances(u)
  PROVE  Carries(prog, View(u), Due(u))'
<1>1. CASE Stays(u)
  BY <1>1 DEF LocksFit, Stays
<1>2. ASSUME NEW j \in Nat \ {0}, Passes(u, j)
      PROVE  Carries(prog, View(u), Due(u))'
  <2> DEFINE s == View(u)
             d == Due(u)
             y == [At(Fr(u)) EXCEPT !.pc = j]
  <2>1. stack[u] # <<>> /\ AtStatement(u)
    BY <1>2 DEF Passes, AtStatement
  <2>2. s \in Seq(Places) /\ s # <<>> /\ Last(s) = At(Fr(u)) /\ d \in SUBSET Mutexes
    BY <2>1, ViewTyped, DueTyped
  <2>3. /\ Last(s) \in Places /\ y \in Places /\ y.fn = Last(s).fn /\ y.ret = Last(s).ret
        /\ y.pc = j
    <3>1. Fr(u) \in FrameState
      BY <2>1, TopAllocated DEF IInv
    <3> QED
      BY <2>2, <3>1 DEF At, Places, FrameState
  <2>4. Stmt(prog, Last(s)) = Op(u) /\ Last(s).pc = Fr(u).pc /\ ~Empty(prog, s)
    BY <2>1, <2>2 DEF Stmt, At, Op, Body, Empty, AtStatement
  <2>5. Carries(prog, s, d)
    BY DEF LocksFit
  <2>6. j \in Goes(Stmt(prog, Last(s)), Last(s).pc)
    BY <1>2, <2>4 DEF Passes
  <2>7. Stmt(prog, Last(s)).op = "lock" => Stmt(prog, Last(s)).m \notin d
    BY <1>2, <2>4 DEF Passes
  <2>8. Carries(prog, [s EXCEPT ![Len(s)] = y], Leaves(Stmt(prog, Last(s)), d))
    <3> HIDE DEF s, d, y
    <3> QED
      BY <2>2, <2>3, <2>4, <2>5, <2>6, <2>7, MoveCarries
  <2> QED
    BY <1>2, <2>4, <2>8 DEF Passes
<1> QED
  BY <1>1, <1>2 DEF Advances

-----------------------------------------------------------------------------
(* Threads that stay where they are, and threads that go on *)

Asleep == {"wait", "lock"}
SamePlaces(u) ==
  stack'[u] = stack[u] /\ \A i \in DOMAIN stack[u] : At(frame'[stack[u][i]]) = At(frame[stack[u][i]])
SameHeld(u) == \A m \in Mutexes : mutex'[m] = u <=> mutex[m] = u
SameSleep(u) ==
  \/ status'[u] \in Asleep <=> status[u] \in Asleep
  \/ stack[u] # <<>> /\ Op(u).op # "wait"

(* A thread whose frames and mutexes no step touches stays, awake or asleep. *)
LEMMA Untouched ==
  ASSUME IInv, prog' = prog, NEW u \in Ids, SamePlaces(u), SameHeld(u), SameSleep(u)
  PROVE  Stays(u)
<1>1. View(u)' = View(u)
  BY DEF View, SamePlaces
<1>2. Held(u)' = Held(u)
  BY DEF Held, SameHeld
<1>3. CASE stack[u] # <<>>
  <2>1. /\ At(Fr(u))' = At(Fr(u))
    BY <1>3, TopAllocated DEF SamePlaces, Fr, Top, IInv
  <2>2. Op(u)' = Op(u)
    BY <2>1 DEF Op, Body, At
  <2> QED
    BY <1>1, <1>2, <1>3, <2>2 DEF Stays, Due, Away, SameSleep, Asleep
<1>4. CASE stack[u] = <<>>
  <2>1. status[u] \notin Asleep
    BY <1>4 DEF IInv, FramesOwned, Live, Asleep
  <2>2. ~Away(u) /\ ~Away(u)'
    BY <1>4, <2>1 DEF Away, SameSleep, Asleep
  <2> QED
    BY <1>1, <1>2, <2>2 DEF Stays, Due
<1> QED
  BY <1>3, <1>4

(* The top frame of u moves to statement j, and its other frames stay. *)
TopMoves(u, j) ==
  /\ stack'[u] = stack[u]
  /\ \A i \in DOMAIN stack[u] : i # Len(stack[u]) => At(frame'[stack[u][i]]) = At(frame[stack[u][i]])
  /\ At(frame'[Top(u)]) = [At(Fr(u)) EXCEPT !.pc = j]

(* The places of a thread whose top frame moves *)
LEMMA TopMovesView ==
  ASSUME IInv, NEW u \in Ids, stack[u] # <<>>, NEW j, TopMoves(u, j)
  PROVE  View(u)' = [View(u) EXCEPT ![Len(View(u))] = [At(Fr(u)) EXCEPT !.pc = j]]
<1> DEFINE n == Len(stack[u])
           y == [At(Fr(u)) EXCEPT !.pc = j]
<1>1. n \in DOMAIN stack[u] /\ Len(View(u)) = n
  BY TopAllocated, ViewTyped DEF IInv
<1>2. At(frame'[stack[u][n]]) = y
  BY DEF TopMoves, Top
<1>3. View(u)' = [i \in DOMAIN stack[u] |-> At(frame'[stack[u][i]])]
  BY DEF View, TopMoves, At
<1>4. [View(u) EXCEPT ![n] = y] = [i \in DOMAIN stack[u] |-> IF i = n THEN y ELSE At(frame[stack[u][i]])]
  BY DEF View
<1> HIDE DEF y, n
<1>5. \A i \in DOMAIN stack[u] :
        At(frame'[stack[u][i]]) = IF i = n THEN y ELSE At(frame[stack[u][i]])
  BY <1>2 DEF TopMoves, n
<1> QED
  BY <1>1, <1>3, <1>4, <1>5 DEF y, n

(* A thread that is awake before and after an operation other than on a mutex
   and moves inside its function. *)
LEMMA AwakeAdvances ==
  ASSUME IInv, prog' = prog, NEW u \in Ids, AtStatement(u), NEW j \in Nat \ {0}, TopMoves(u, j),
         SameHeld(u), status[u] \notin Asleep, status'[u] \notin Asleep,
         Op(u).op \notin {"lock", "unlock"}, j \in Goes(Op(u), Fr(u).pc)
  PROVE  Advances(u)
<1>1. stack[u] # <<>>
  BY DEF AtStatement
<1>2. View(u)' = [View(u) EXCEPT ![Len(View(u))] = [At(Fr(u)) EXCEPT !.pc = j]]
  BY <1>1, TopMovesView
<1>3. Due(u) = Held(u) /\ Due(u)' = Held(u)' /\ Held(u)' = Held(u)
  BY DEF Due, Away, Asleep, Held, SameHeld
<1>4. Leaves(Op(u), Due(u)) = Due(u)
  BY DEF Leaves
<1> QED
  BY <1>2, <1>3, <1>4 DEF Passes, Advances

(* Operations that fall through *)
Through(o) == o.op \notin {"goto", "branch", "switch", "return"}

(* The places of a thread after a step that moves the top frames of ts. *)
LEMMA PlacesMove ==
  ASSUME IInv, NEW ts \in SUBSET Ids, \A u \in ts : stack[u] # <<>>,
         NEW u \in Ids, stack'[u] = stack[u],
         \A i \in DOMAIN stack[u] :
           At(frame'[stack[u][i]]) =
             IF \E x \in ts : stack[u][i] = Top(x)
             THEN [At(frame[stack[u][i]]) EXCEPT !.pc = frame[stack[u][i]].pc + 1]
             ELSE At(frame[stack[u][i]])
  PROVE  /\ u \notin ts => SamePlaces(u)
         /\ u \in ts => TopMoves(u, Fr(u).pc + 1)
<1>1. ASSUME NEW i \in DOMAIN stack[u], NEW x \in ts, stack[u][i] = Top(x)
      PROVE  u = x /\ i = Len(stack[u])
  <2>1. Len(stack[x]) \in DOMAIN stack[x]
    BY TopAllocated DEF IInv
  <2> QED
    BY <1>1, <2>1 DEF IInv, FramesOwned, Top
<1>2. ASSUME u \notin ts
      PROVE  SamePlaces(u)
  BY <1>1, <1>2 DEF SamePlaces
<1>3. ASSUME u \in ts
      PROVE  TopMoves(u, Fr(u).pc + 1)
  <2>1. Len(stack[u]) \in DOMAIN stack[u] /\ Top(u) = stack[u][Len(stack[u])]
    BY <1>3, TopAllocated DEF IInv, Top
  <2>2. At(frame'[Top(u)]) = [At(Fr(u)) EXCEPT !.pc = Fr(u).pc + 1]
    BY <1>3, <2>1 DEF Fr
  <2>3. ASSUME NEW i \in DOMAIN stack[u], i # Len(stack[u])
        PROVE  At(frame'[stack[u][i]]) = At(frame[stack[u][i]])
    BY <1>1, <2>3
  <2> QED
    BY <2>2, <2>3 DEF TopMoves
<1> QED
  BY <1>2, <1>3

(* What an advance of the threads ts does to the places of all threads *)
LEMMA AdvancePlaces ==
  ASSUME IInv, stack' = stack, NEW ts \in SUBSET Ids, \A u \in ts : stack[u] # <<>>,
         NEW r \in Ids, stack[r] # <<>>, NEW dst, NEW v,
         frame' = Advance(frame, ts) \/ frame' = Advance(Put(frame, Top(r), dst, v), ts)
  PROVE  /\ \A u \in Ids \ ts : SamePlaces(u)
         /\ \A u \in ts : TopMoves(u, Fr(u).pc + 1)
<1>1. frame \in FrameStore /\ Top(r) \in Ids /\ frame[Top(r)] \in FrameState
  BY TopAllocated DEF IInv, TypeOK, FrameStore, Fr
<1>2. PICK g : g \in {frame, Put(frame, Top(r), dst, v)} /\ frame' = Advance(g, ts)
  OBVIOUS
<1>3. \A f \in Ids : frame[f] # NoFrame => At(g[f]) = At(frame[f]) /\ "pc" \in DOMAIN g[f]
                                           /\ "fn" \in DOMAIN g[f] /\ "ret" \in DOMAIN g[f]
  <2>0. \A f \in Ids : frame[f] # NoFrame => frame[f] \in FrameState
    BY <1>1 DEF FrameStore
  <2>1. CASE g = frame
    BY <2>0, <2>1 DEF FrameState
  <2>2. CASE g = Put(frame, Top(r), dst, v) /\ dst \in Locals
    <3> DEFINE x == frame[Top(r)]
               y == [x EXCEPT !.locals[dst] = v]
    <3>1. y.fn = x.fn /\ y.pc = x.pc /\ y.ret = x.ret /\ {"pc", "fn", "ret"} \subseteq DOMAIN y
      BY <1>1 DEF FrameState
    <3>2. g = [frame EXCEPT ![Top(r)] = y]
      BY <2>2 DEF Put
    <3> HIDE DEF y
    <3>3. \A f \in Ids : g[f] = IF f = Top(r) THEN y ELSE frame[f]
      BY <1>1, <3>2 DEF FrameStore
    <3> QED
      BY <2>0, <3>1, <3>3 DEF At, FrameState
  <2>3. CASE g = Put(frame, Top(r), dst, v) /\ dst \notin Locals
    BY <2>0, <2>3 DEF Put, FrameState
  <2> QED
    BY <1>2, <2>1, <2>2, <2>3
<1>4. \A f \in Ids : frame'[f] = IF \E x \in ts : f = Top(x)
                                 THEN [g[f] EXCEPT !.pc = @ + 1] ELSE g[f]
  BY <1>2 DEF Advance
<1>5. \A f \in Ids : frame[f] # NoFrame =>
        At(frame'[f]) = IF \E x \in ts : f = Top(x)
                        THEN [At(frame[f]) EXCEPT !.pc = frame[f].pc + 1] ELSE At(frame[f])
  <2> SUFFICES ASSUME NEW f \in Ids, frame[f] # NoFrame
               PROVE  At(frame'[f]) = IF \E x \in ts : f = Top(x)
                        THEN [At(frame[f]) EXCEPT !.pc = frame[f].pc + 1] ELSE At(frame[f])
    OBVIOUS
  <2>1. /\ g[f].fn = frame[f].fn /\ g[f].pc = frame[f].pc /\ g[f].ret = frame[f].ret
        /\ At(g[f]) = At(frame[f])
    BY <1>3 DEF At
  <2>2. CASE \E x \in ts : f = Top(x)
    <3> DEFINE y == [g[f] EXCEPT !.pc = @ + 1]
    <3>1. y.fn = frame[f].fn /\ y.ret = frame[f].ret /\ y.pc = frame[f].pc + 1
      BY <1>3, <2>1
    <3>2. frame'[f] = y
      BY <1>4, <2>2
    <3> HIDE DEF y
    <3> QED
      BY <2>2, <3>1, <3>2 DEF At
  <2>3. CASE ~\E x \in ts : f = Top(x)
    BY <1>4, <2>1, <2>3
  <2> QED
    BY <2>2, <2>3
<1>6. ASSUME NEW u \in Ids, NEW i \in DOMAIN stack[u]
      PROVE  stack[u][i] \in Ids /\ frame[stack[u][i]] # NoFrame
  <2>1. stack[u][i] \in Ids
    BY ViewTyped
  <2> QED
    BY <2>1 DEF IInv, FramesOwned
<1>7. ASSUME NEW u \in Ids
      PROVE  /\ u \notin ts => SamePlaces(u)
             /\ u \in ts => TopMoves(u, Fr(u).pc + 1)
  <2>1. \A i \in DOMAIN stack[u] :
          At(frame'[stack[u][i]]) =
            IF \E x \in ts : stack[u][i] = Top(x)
            THEN [At(frame[stack[u][i]]) EXCEPT !.pc = frame[stack[u][i]].pc + 1]
            ELSE At(frame[stack[u][i]])
    BY <1>5, <1>6
  <2> QED
    BY <2>1, PlacesMove
<1> QED
  BY <1>7

(* Every thread stays or advances. *)
Onward == \A u \in Ids : Stays(u) \/ Advances(u)

(* A step that moves the threads ts past their operations, none of them on a
   mutex, and leaves all mutexes alone. *)
LEMMA ThroughOnward ==
  ASSUME IInv, prog' = prog, stack' = stack, mutex' = mutex,
         NEW ts \in SUBSET Ids, NEW r \in Ids, stack[r] # <<>>, NEW dst, NEW v,
         frame' \in {Advance(frame, ts), Advance(Put(frame, Top(r), dst, v), ts)},
         \A u \in ts : /\ AtStatement(u) /\ Through(Op(u)) /\ Op(u).op \notin {"lock", "unlock"}
                       /\ status[u] \notin Asleep /\ status'[u] \notin Asleep,
         \A u \in Ids \ ts : SameSleep(u)
  PROVE  Onward
<1>1. \A u \in ts : stack[u] # <<>>
  BY DEF AtStatement
<1>2. /\ \A u \in Ids \ ts : SamePlaces(u)
      /\ \A u \in ts : TopMoves(u, Fr(u).pc + 1)
  <2>1. frame' = Advance(frame, ts) \/ frame' = Advance(Put(frame, Top(r), dst, v), ts)
    OBVIOUS
  <2> QED
    BY ONLY IInv, stack' = stack, ts \in SUBSET Ids, r \in Ids, stack[r] # <<>>, <1>1, <2>1, AdvancePlaces
<1>3. \A u \in Ids : SameHeld(u)
  BY DEF SameHeld
<1>4. ASSUME NEW u \in Ids \ ts
      PROVE  Stays(u)
  BY <1>2, <1>3, Untouched
<1>5. ASSUME NEW u \in ts
      PROVE  Advances(u)
  <2> DEFINE j == Fr(u).pc + 1
  <2>1. j \in Nat \ {0}
    BY <1>1, TopAllocated DEF IInv, FrameState
  <2>2. j \in Goes(Op(u), Fr(u).pc)
    BY DEF Goes, Through
  <2>3. TopMoves(u, j)
    BY <1>2
  <2> HIDE DEF j
  <2> QED
    BY <1>3, <2>1, <2>2, <2>3, AwakeAdvances
<1> QED
  BY <1>4, <1>5 DEF Onward

(* ... or only the thread t. *)
LEMMA OneOnward ==
  ASSUME IInv, prog' = prog, stack' = stack, mutex' = mutex, NEW t \in Ids,
         AtStatement(t), Through(Op(t)), Op(t).op \notin {"lock", "unlock"},
         status[t] \notin Asleep, status'[t] \notin Asleep, \A u \in Ids \ {t} : SameSleep(u),
         \/ frame' = Advance(frame, {t})
         \/ \E dst, v : frame' = Advance(Put(frame, Top(t), dst, v), {t})
  PROVE  Onward
<1> DEFINE ts == {t}
<1>1. stack[t] # <<>> /\ ts \in SUBSET Ids
  BY DEF AtStatement
<1>2. PICK dst, v : frame' \in {Advance(frame, ts), Advance(Put(frame, Top(t), dst, v), ts)}
  OBVIOUS
<1>3. /\ \A u \in ts : /\ AtStatement(u) /\ Through(Op(u)) /\ Op(u).op \notin {"lock", "unlock"}
                       /\ status[u] \notin Asleep /\ status'[u] \notin Asleep
      /\ \A u \in Ids \ ts : SameSleep(u)
  OBVIOUS
<1> HIDE DEF ts
<1> QED
  BY <1>1, <1>2, <1>3, ThroughOnward

(* A step that moves nobody and lets nobody fall asleep in a `wait`. *)
LEMMA NobodyMoves ==
  ASSUME IInv, prog' = prog, stack' = stack, frame' = frame, mutex' = mutex,
         \A u \in Ids : SameSleep(u)
  PROVE  Onward
BY Untouched DEF Onward, SamePlaces, SameHeld

(* A thread that blocks other than in a `wait` *)
LEMMA BlockOnward ==
  ASSUME IInv, prog' = prog, frame' = frame, mutex' = mutex, NEW t \in Ids,
         status[t] = "run", AtStatement(t), NEW why \in Blocking \ {"wait"}, NEW what,
         Block(t, why, what), why = "lock" => Op(t).op = "lock"
  PROVE  Onward
<1>1. /\ status'[t] = why /\ stack' = stack
      /\ \A u \in Ids : u # t => status'[u] = status[u]
  BY BlockStep
<1>2. stack[t] # <<>>
  BY DEF AtStatement
<1>3. \A u \in Ids : SameSleep(u)
  BY <1>1, <1>2 DEF SameSleep, Asleep, Blocking
<1> QED
  BY <1>1, <1>3, NobodyMoves

(* Operations on data, and calls of functions nobody runs *)
LEMMA DataOnward ==
  ASSUME IInv, NEW t \in Ids, DataStep(t) \/ CallTransparent(t)
  PROVE  Onward
<1>1. /\ AtStatement(t) /\ status[t] = "run" /\ Through(Op(t))
      /\ Op(t).op \notin {"lock", "unlock"}
  BY DEF DataStep, Nop, AssignLocal, LoadShared, StoreShared, AtomicCas, CallTransparent,
         Executes, Through
<1>2. status' = status /\ stack' = stack /\ mutex' = mutex /\ prog' = prog
  BY DEF DataStep, Nop, AssignLocal, LoadShared, StoreShared, AtomicCas, Assign,
         CallTransparent, OnlyData, OnlyStack, threadVars, syncVars
<1>3. frame' = Advance(frame, {t}) \/ \E dst, v : frame' = Advance(Put(frame, Top(t), dst, v), {t})
  BY DEF DataStep, Nop, AssignLocal, LoadShared, StoreShared, AtomicCas, Assign,
         CallTransparent
<1>4. \A u \in Ids \ {t} : SameSleep(u)
  BY <1>2 DEF SameSleep
<1>5. status[t] \notin Asleep /\ status'[t] \notin Asleep
  BY <1>1, <1>2 DEF Asleep
<1> QED
  BY <1>1, <1>2, <1>3, <1>4, <1>5, OneOnward

(* A thread that is awake moves to another statement of its function, which
   changes its top frame alone. *)
LEMMA TopOnward ==
  ASSUME IInv, prog' = prog, stack' = stack, mutex' = mutex, NEW t \in Ids, AtStatement(t),
         Op(t).op \notin {"lock", "unlock"}, NEW j \in Nat \ {0}, j \in Goes(Op(t), Fr(t).pc),
         NEW y, At(y) = [At(Fr(t)) EXCEPT !.pc = j],
         \A f \in Ids : frame'[f] = IF f = Top(t) THEN y ELSE frame[f],
         status[t] \notin Asleep, status'[t] \notin Asleep, \A u \in Ids \ {t} : SameSleep(u)
  PROVE  Onward
<1>1. Top(t) \in Ids /\ Len(stack[t]) \in DOMAIN stack[t] /\ Fr(t) = frame[Top(t)]
  BY TopAllocated DEF IInv, AtStatement, Fr
<1>2. \A u \in Ids : \A i \in DOMAIN stack[u] :
        /\ stack[u][i] \in Ids
        /\ stack[u][i] = Top(t) => u = t /\ i = Len(stack[u])
  BY <1>1, ViewTyped DEF IInv, FramesOwned, Top
<1>3. \A u \in Ids : SameHeld(u)
  BY DEF SameHeld
<1>4. TopMoves(t, j)
  BY <1>1, <1>2 DEF TopMoves
<1>5. Advances(t)
  BY <1>3, <1>4, AwakeAdvances
<1>6. ASSUME NEW u \in Ids, u # t
      PROVE  Stays(u)
  <2>1. SamePlaces(u)
    BY <1>2, <1>6 DEF SamePlaces
  <2> QED
    BY <1>3, <1>6, <2>1, Untouched
<1> QED
  BY <1>5, <1>6 DEF Onward

(* Jumps go where the passes follow them. *)
LEMMA JumpOnward ==
  ASSUME IInv, ~Faulted, NEW t \in Ids, Goto(t) \/ Branch(t) \/ Switch(t)
  PROVE  Onward
<1>1. AtStatement(t) /\ status[t] = "run" /\ Op(t).op \in {"goto", "branch", "switch"}
  BY DEF Goto, Branch, Switch, Executes
<1>2. status' = status /\ stack' = stack /\ mutex' = mutex /\ prog' = prog
  BY DEF Goto, Branch, Switch, Jump, OnlyData, threadVars, syncVars
<1>3. stack[t] # <<>> /\ Op(t) \in Operation
  BY <1>1, Executing
<1>4. PICK j \in Goes(Op(t), Fr(t).pc) : frame' = [frame EXCEPT ![Top(t)].pc = j]
  <2>1. CASE Goto(t)
    BY <2>1 DEF Goto, Executes, Jump, Goes
  <2>2. CASE Branch(t)
    BY <2>2 DEF Branch, Executes, Jump, Goes
  <2>3. CASE Switch(t)
    <3> DEFINE o == Op(t)
               v == Value(t, o.e)
    <3>1. o.op = "switch" /\ o.to \in [Values -> Target] /\ frame' = [frame EXCEPT ![Top(t)].pc = o.to[v]]
      BY <1>3, <2>3, OpFields DEF Switch, Executes, Jump
    <3>2. ~EvalFails(t, o)
      BY <1>1 DEF Faulted, Fails
    <3>3. v \in Values
      BY <3>1, <3>2, ValuesAssumption DEF EvalFails
    <3> QED
      BY <3>1, <3>3 DEF Goes
  <2> QED
    BY <2>1, <2>2, <2>3
<1>5. j \in Nat \ {0}
  BY <1>1, <1>3, OpFields DEF Goes, Target
<1>6. /\ frame \in FrameStore /\ Top(t) \in Ids /\ frame[Top(t)] \in FrameState
      /\ Fr(t) = frame[Top(t)] /\ Len(stack[t]) \in DOMAIN stack[t]
  BY <1>3, TopAllocated DEF IInv, TypeOK, FrameStore, Fr
<1> DEFINE y == [frame[Top(t)] EXCEPT !.pc = j]
<1>7. At(y) = [At(Fr(t)) EXCEPT !.pc = j]
  <2>1. y.fn = Fr(t).fn /\ y.ret = Fr(t).ret /\ y.pc = j
    BY <1>6 DEF FrameState
  <2> HIDE DEF y
  <2> QED
    BY <2>1 DEF At
<1>8. \A f \in Ids : frame'[f] = IF f = Top(t) THEN y ELSE frame[f]
  BY <1>4, <1>6 DEF FrameStore
<1> HIDE DEF y
<1>9. \A u \in Ids \ {t} : SameSleep(u)
  BY <1>2 DEF SameSleep
<1> QED
  BY <1>1, <1>2, <1>5, <1>7, <1>8, <1>9, TopOnward DEF Asleep

-----------------------------------------------------------------------------
(* Mutexes, condition variables, semaphores *)

(* A thread moves past an operation that may change its mutexes, and only its. *)
LEMMA LocksOnward ==
  ASSUME IInv, prog' = prog, stack' = stack, NEW t \in Ids, AtStatement(t), Through(Op(t)),
         frame' = Advance(frame, {t}), \A u \in Ids \ {t} : SameHeld(u) /\ SameSleep(u),
         Op(t).op = "lock" => Op(t).m \notin Due(t), Due(t)' = Leaves(Op(t), Due(t))
  PROVE  Onward
<1> DEFINE ts == {t}
           j  == Fr(t).pc + 1
<1>1. ts \in SUBSET Ids /\ stack[t] # <<>> /\ (\A u \in ts : stack[u] # <<>>)
  BY DEF AtStatement
<1>2. frame' = Advance(frame, ts)
  OBVIOUS
<1>3. /\ \A u \in Ids \ ts : SamePlaces(u)
      /\ \A u \in ts : TopMoves(u, Fr(u).pc + 1)
  <2> HIDE DEF ts
  <2> QED
    BY <1>1, <1>2, AdvancePlaces
<1>4. View(t)' = [View(t) EXCEPT ![Len(View(t))] = [At(Fr(t)) EXCEPT !.pc = j]]
  BY <1>1, <1>3, TopMovesView
<1>5. j \in Nat \ {0} /\ j \in Goes(Op(t), Fr(t).pc)
  BY <1>1, TopAllocated DEF IInv, FrameState, Goes, Through
<1> HIDE DEF j
<1>6. Advances(t)
  BY <1>4, <1>5 DEF Advances, Passes
<1>7. \A u \in Ids \ {t} : Stays(u)
  BY <1>3, Untouched
<1> QED
  BY <1>6, <1>7 DEF Onward

(* A free mutex has no holder. *)
LEMMA NotAnId == None \notin Ids
BY LimitsAssumption DEF None, Ids

(* A mutex goes to a thread that has passed its `lock`, and a thread that
   unlocks one has it. *)
LEMMA MutexOnward ==
  ASSUME IInv, ~Faulted, NEW t \in Ids, MutexLock(t) \/ MutexUnlock(t)
  PROVE  Onward
<1> DEFINE m == Op(t).m
<1>1. /\ AtStatement(t) /\ status[t] = "run" /\ stack[t] # <<>> /\ m \in Mutexes /\ prog' = prog
      /\ Op(t).op \in {"lock", "unlock"}
  BY Executing, OpFields DEF MutexLock, MutexUnlock, Executes, OnlySync
<1>2. mutex \in [Mutexes -> Ids \union {None}]
  BY DEF IInv, TypeOK
<1>3. CASE MutexLock(t)
  <2>1. Op(t).op = "lock"
    BY <1>3 DEF MutexLock, Executes
  <2>2. CASE Block(t, "lock", m) /\ UNCHANGED <<mutex, frame>>
    BY <1>1, <2>1, <2>2, BlockOnward DEF Blocking
  <2>3. CASE IsFree(m) /\ mutex' = [mutex EXCEPT ![m] = t] /\ frame' = Advance(frame, {t})
             /\ UNCHANGED threadVars
    <3>1. stack' = stack /\ status' = status /\ mutex[m] = None
      BY <2>3 DEF threadVars, IsFree
    <3>2. \A u \in Ids \ {t} : SameHeld(u) /\ SameSleep(u)
      BY <1>1, <1>2, <2>3, <3>1, NotAnId DEF SameHeld, SameSleep
    <3>3. Due(t) = Held(t) /\ m \notin Held(t) /\ Due(t)' = Held(t) \union {m}
      BY <1>1, <1>2, <2>3, <3>1, NotAnId DEF Due, Away, Held
    <3>4. Leaves(Op(t), Due(t)) = Due(t) \union {m} /\ Through(Op(t))
      BY <2>1 DEF Leaves, Through
    <3> QED
      BY <1>1, <2>3, <3>1, <3>2, <3>3, <3>4, LocksOnward
  <2> QED
    BY <1>3, <2>2, <2>3 DEF MutexLock
<1>4. CASE MutexUnlock(t)
  <2>1. /\ Op(t).op = "unlock" /\ mutex' = [mutex EXCEPT ![m] = None]
        /\ frame' = Advance(frame, {t}) /\ stack' = stack /\ status' = status
    BY <1>4 DEF MutexUnlock, Executes, threadVars
  <2>2. mutex[m] = t
    BY <1>1, <2>1 DEF Faulted, Fails, OpFails
  <2>3. \A u \in Ids \ {t} : SameHeld(u) /\ SameSleep(u)
    BY <1>1, <1>2, <2>1, <2>2, NotAnId DEF SameHeld, SameSleep
  <2>4. Due(t) = Held(t) /\ Due(t)' = Held(t) \ {m}
    BY <1>1, <1>2, <2>1, <2>2, NotAnId DEF Due, Away, Held
  <2>5. Leaves(Op(t), Due(t)) = Due(t) \ {m} /\ Through(Op(t))
    BY <2>1 DEF Leaves, Through
  <2> QED
    BY <1>1, <2>1, <2>3, <2>4, <2>5, LocksOnward
<1> QED
  BY <1>3, <1>4

(* A thread that waits gives its mutex away, and is due it. *)
LEMMA WaitOnward ==
  ASSUME IInv, ~Faulted, NEW t \in Ids, CondvarWait(t)
  PROVE  Onward
<1> DEFINE m == Op(t).m
<1>1. /\ AtStatement(t) /\ status[t] = "run" /\ stack[t] # <<>> /\ m \in Mutexes /\ prog' = prog
      /\ Op(t).op = "wait" /\ mutex' = [mutex EXCEPT ![m] = None] /\ frame' = frame
      /\ Block(t, "wait", Op(t).cv)
  BY Executing, OpFields DEF CondvarWait, Executes, OnlySync
<1>2. mutex \in [Mutexes -> Ids \union {None}] /\ mutex[m] = t
  BY <1>1 DEF IInv, TypeOK, Faulted, Fails, OpFails
<1>3. /\ status'[t] = "wait" /\ stack' = stack
      /\ \A u \in Ids : u # t => status'[u] = status[u]
  BY <1>1, BlockStep DEF Blocking
<1>4. ASSUME NEW u \in Ids, u # t
      PROVE  Stays(u)
  <2>1. SamePlaces(u) /\ SameHeld(u) /\ SameSleep(u)
    BY <1>1, <1>2, <1>3, <1>4, NotAnId DEF SamePlaces, SameHeld, SameSleep
  <2> QED
    BY <1>1, <2>1, Untouched
<1>5. Stays(t)
  <2>1. View(t)' = View(t)
    BY <1>1, <1>3 DEF View
  <2>2. Op(t)' = Op(t)
    BY <1>1, <1>3 DEF Op, Body, Fr, Top
  <2>3. Due(t) = Held(t)
    BY <1>1 DEF Due, Away
  <2>4. Due(t)' = Held(t)' \union {m}
    BY <1>1, <1>3, <2>2 DEF Due, Away
  <2>5. Held(t)' = Held(t) \ {m} /\ m \in Held(t)
    BY <1>1, <1>2, NotAnId DEF Held
  <2> QED
    BY <2>1, <2>3, <2>4, <2>5 DEF Stays
<1> QED
  BY <1>4, <1>5 DEF Onward

(* A notified thread is still due its mutex. *)
LEMMA NotifyOnward ==
  ASSUME IInv, NEW t \in Ids, CondvarNotify(t) \/ CondvarNotifyAll(t)
  PROVE  Onward
<1> DEFINE cv == Op(t).cv
<1>1. /\ AtStatement(t) /\ status[t] = "run" /\ stack[t] # <<>> /\ cv \in Condvars
      /\ Op(t).op \in {"notify", "notify_all"}
      /\ frame' = Advance(frame, {t}) /\ prog' = prog /\ mutex' = mutex
  BY Executing, OpFields DEF CondvarNotify, CondvarNotifyAll, Executes, OnlySync
<1>2. \/ status' = status /\ stack' = stack
      \/ \E ws \in SUBSET cvq[cv] : Notified(ws)
  BY DEF CondvarNotify, CondvarNotifyAll, threadVars
<1>3. Through(Op(t)) /\ Op(t).op \notin {"lock", "unlock"}
  BY <1>1 DEF Through
<1>4. ASSUME NEW ws \in SUBSET cvq[cv], Notified(ws)
      PROVE  /\ stack' = stack /\ status'[t] = "run"
             /\ \A u \in Ids \ {t} : SameSleep(u)
  <2>1. \A w \in ws : w[1] \in Ids /\ status[w[1]] = "wait"
    BY <1>1 DEF IInv, TypeOK, WaitQueuesExact, Waiting
  <2>2. /\ stack' = stack
        /\ \A u \in Ids : status'[u] = IF \E w \in ws : w[1] = u THEN "lock" ELSE status[u]
    BY <1>4 DEF Notified
  <2> QED
    BY <1>1, <2>1, <2>2 DEF SameSleep, Asleep
<1>5. /\ stack' = stack /\ status'[t] = "run"
      /\ \A u \in Ids \ {t} : SameSleep(u)
  BY <1>1, <1>2, <1>4 DEF SameSleep
<1> HIDE DEF cv
<1> QED
  BY <1>1, <1>3, <1>5, OneOnward DEF Asleep

(* Operations on semaphores leave the mutexes alone. *)
LEMMA SemaphoreOnward ==
  ASSUME IInv, NEW t \in Ids, SemaphoreAcquire(t) \/ SemaphoreRelease(t)
  PROVE  Onward
<1>1. /\ AtStatement(t) /\ status[t] = "run" /\ Op(t).op \in {"acquire", "release"}
      /\ prog' = prog /\ mutex' = mutex
  BY DEF SemaphoreAcquire, SemaphoreRelease, Executes, OnlySync
<1>2. \/ frame' = Advance(frame, {t}) /\ UNCHANGED threadVars
      \/ Block(t, "acquire", Op(t).s) /\ frame' = frame
  BY DEF SemaphoreAcquire, SemaphoreRelease
<1>3. CASE frame' = Advance(frame, {t}) /\ UNCHANGED threadVars
  <2>1. stack' = stack /\ status' = status /\ \A u \in Ids \ {t} : SameSleep(u)
    BY <1>3 DEF threadVars, SameSleep
  <2>2. Through(Op(t)) /\ Op(t).op \notin {"lock", "unlock"}
    BY <1>1 DEF Through
  <2> QED
    BY <1>1, <1>3, <2>1, <2>2, OneOnward DEF Asleep
<1>4. CASE Block(t, "acquire", Op(t).s) /\ frame' = frame
  BY <1>1, <1>4, BlockOnward DEF Blocking
<1> QED
  BY <1>2, <1>3, <1>4

-----------------------------------------------------------------------------
(* Channels, joins and the resumption of blocked threads *)

(* A delivery to r that completes the operation of t: both move on. *)
LEMMA DeliverOnward ==
  ASSUME IInv, NEW r \in Ids, NEW t \in Ids, NEW v, Deliver(r, v, t),
         prog' = prog, stack' = stack, mutex' = mutex,
         \A u \in {r, t} : /\ AtStatement(u) /\ Op(u).op \in {"send", "recv"}
                           /\ status[u] \notin Asleep /\ status'[u] \notin Asleep,
         \A u \in Ids \ {r, t} : status'[u] = status[u]
  PROVE  Onward
<1> DEFINE ts == {r, t}
           dst == Op(r).dst
<1>1. ts \in SUBSET Ids /\ stack[r] # <<>>
  BY DEF AtStatement
<1>2. frame' = Advance(Put(frame, Top(r), dst, v), ts)
  BY DEF Deliver
<1>3. \A u \in ts : /\ AtStatement(u) /\ Through(Op(u)) /\ Op(u).op \notin {"lock", "unlock"}
                    /\ status[u] \notin Asleep /\ status'[u] \notin Asleep
  BY DEF Through
<1>4. \A u \in Ids \ ts : SameSleep(u)
  BY DEF SameSleep
<1> HIDE DEF ts, dst
<1>5. frame' \in {Advance(frame, ts), Advance(Put(frame, Top(r), dst, v), ts)}
  BY <1>2
<1> QED
  BY <1>1, <1>3, <1>4, <1>5, ThroughOnward

(* Operations on channels move the thread and its partner, or block it. *)
LEMMA ChannelOnward ==
  ASSUME IInv, WaitersStand, NEW t \in Ids, ChannelStep(t)
  PROVE  Onward
<1> DEFINE c == Op(t).c
<1>1. /\ AtStatement(t) /\ status[t] = "run" /\ stack[t] # <<>> /\ c \in Channels
      /\ prog' = prog /\ mutex' = mutex /\ Op(t).op \in {"send", "recv"}
  BY Executing, OpFields
     DEF ChannelStep, ChannelSend, ChannelRecv, Executes, OnlyChannels, syncVars
<1>2. ASSUME NEW u \in Ids, status[u] \in {"send", "recv"}
      PROVE  AtStatement(u) /\ Op(u).op \in {"send", "recv"} /\ status[u] \notin Asleep
  BY <1>2 DEF WaitersStand, Firm, Stands, Blocking, Asleep
<1>3. CASE ChannelSend(t)
  <2> DEFINE v == Value(t, Op(t).e)
  <2>1. SendToReceiver(t, c, v) \/ SendBlocks(t, c, v) \/ SendToBuffer(t, c, v)
    BY <1>3 DEF ChannelSend
  <2> HIDE DEF v
  <2>2. CASE SendToReceiver(t, c, v)
    <3>1. PICK r \in recvq[c] : Deliver(r, v, t) /\ Wake({r})
      BY <2>2 DEF SendToReceiver
    <3>2. r \in Ids /\ status[r] = "recv" /\ r # t
      BY <1>1, <3>1 DEF IInv, WaitQueuesExact, Waiting
    <3>3. /\ AtStatement(r) /\ Op(r).op \in {"send", "recv"} /\ status[r] \notin Asleep
      BY <1>2, <3>2
    <3>4. stack' = stack /\ status'[r] = "run" /\ \A u \in Ids : u # r => status'[u] = status[u]
      BY <3>1, <3>2, Woken
    <3> HIDE DEF c
    <3> QED
      BY <1>1, <3>1, <3>2, <3>3, <3>4, DeliverOnward DEF Asleep
  <2>3. CASE SendBlocks(t, c, v)
    BY <1>1, <2>3, BlockOnward DEF SendBlocks, Blocking
  <2>4. CASE SendToBuffer(t, c, v)
    <3>1. /\ frame' = Advance(frame, {t}) /\ stack' = stack /\ status' = status
          /\ \A u \in Ids \ {t} : SameSleep(u)
      BY <2>4 DEF SendToBuffer, threadVars, SameSleep
    <3> QED
      BY <1>1, <3>1, OneOnward DEF Asleep, Through
  <2> QED
    BY <2>1, <2>2, <2>3, <2>4
<1>4. CASE ChannelRecv(t)
  <2>1. RecvFromSender(t, c) \/ RecvBlocks(t, c) \/ RecvFromBuffer(t, c)
    BY <1>4 DEF ChannelRecv
  <2>2. CASE RecvFromSender(t, c)
    <3>1. PICK w \in sendq[c] : Deliver(t, w[2], w[1]) /\ Wake({w[1]})
      BY <2>2 DEF RecvFromSender
    <3> DEFINE u == w[1]
    <3>2. u \in Ids /\ status[u] = "send" /\ u # t
      <4>1. u \in Waiting("send", c)
        BY <1>1, <3>1 DEF IInv, WaitQueuesExact
      <4> QED
        BY <1>1, <4>1 DEF Waiting
    <3>3. Deliver(t, w[2], u) /\ Wake({u})
      BY <3>1
    <3> HIDE DEF u, c
    <3>4. AtStatement(u) /\ Op(u).op \in {"send", "recv"} /\ status[u] \notin Asleep
      BY <1>2, <3>2
    <3>5. stack' = stack /\ status'[u] = "run" /\ \A x \in Ids : x # u => status'[x] = status[x]
      BY <3>2, <3>3, Woken
    <3> QED
      BY <1>1, <3>2, <3>3, <3>4, <3>5, DeliverOnward DEF Asleep
  <2>3. CASE RecvBlocks(t, c)
    BY <1>1, <2>3, BlockOnward DEF RecvBlocks, Blocking
  <2>4. CASE RecvFromBuffer(t, c)
    <3>1. PICK v : Deliver(t, v, t) /\ UNCHANGED threadVars
      BY <2>4 DEF RecvFromBuffer
    <3>2. stack' = stack /\ status' = status
      BY <3>1 DEF threadVars
    <3> QED
      BY <1>1, <3>1, <3>2, DeliverOnward DEF Asleep
  <2> QED
    BY <2>1, <2>2, <2>3, <2>4
<1> QED
  BY <1>3, <1>4 DEF ChannelStep

(* A thread that gets its mutex passes its `lock`, or its `wait`. *)
LEMMA ResumeLockOnward ==
  ASSUME IInv, WaitersStand, NEW t \in Ids, ResumeLock(t)
  PROVE  Onward
<1> DEFINE m == on[t]
<1>1. /\ status[t] = "lock" /\ IsFree(m) /\ mutex' = [mutex EXCEPT ![m] = t] /\ Wake({t})
      /\ frame' = Advance(frame, {t}) /\ prog' = prog
  BY DEF ResumeLock, OnlySync
<1>2. AtStatement(t) /\ Op(t).op \in {"lock", "wait"} /\ Op(t).m = m
  BY <1>1 DEF WaitersStand, Firm, Stands, Blocking
<1>3. m \in Mutexes
  BY <1>2, Executing, OpFields
<1>4. stack' = stack /\ status'[t] = "run" /\ \A u \in Ids : u # t => status'[u] = status[u]
  BY <1>1, Woken
<1>5. mutex \in [Mutexes -> Ids \union {None}] /\ mutex[m] = None
  BY <1>1 DEF IInv, TypeOK, IsFree
<1> HIDE DEF m
<1>6. \A u \in Ids \ {t} : SameHeld(u) /\ SameSleep(u)
  BY <1>1, <1>3, <1>4, <1>5, NotAnId DEF SameHeld, SameSleep
<1>7. Held(t)' = Held(t) \union {m} /\ m \notin Held(t) /\ Due(t)' = Held(t)'
  BY <1>1, <1>3, <1>4, <1>5, NotAnId DEF Held, Due, Away
<1>8. Through(Op(t))
  BY <1>2 DEF Through
<1>9. CASE Op(t).op = "lock"
  <2>1. Due(t) = Held(t)
    BY <1>9 DEF Due, Away
  <2>2. Leaves(Op(t), Due(t)) = Due(t) \union {m}
    BY <1>2, <1>9 DEF Leaves
  <2> QED
    BY <1>1, <1>2, <1>4, <1>6, <1>7, <1>8, <2>1, <2>2, LocksOnward
<1>10. CASE Op(t).op = "wait"
  <2>1. Due(t) = Held(t) \union {m}
    BY <1>1, <1>2, <1>10 DEF Due, Away
  <2>2. Leaves(Op(t), Due(t)) = Due(t)
    BY <1>10 DEF Leaves
  <2> QED
    BY <1>1, <1>2, <1>4, <1>6, <1>7, <1>8, <1>10, <2>1, <2>2, LocksOnward
<1> QED
  BY <1>2, <1>9, <1>10

(* The other resumed threads pass their operations. *)
LEMMA ResumeOnward ==
  ASSUME IInv, WaitersStand, NEW t \in Ids, Resume(t)
  PROVE  Onward
<1>1. CASE ResumeSemaphore(t) \/ ResumeSend(t) \/ ResumeRecv(t)
  <2>1. /\ status[t] \in {"acquire", "send", "recv"} /\ Wake({t}) /\ prog' = prog /\ mutex' = mutex
    BY <1>1 DEF ResumeSemaphore, ResumeSend, ResumeRecv, OnlySync, OnlyChannels, syncVars
  <2>2. AtStatement(t) /\ Op(t).op \in {"acquire", "send", "recv"} /\ Op(t).op = status[t]
    BY <2>1 DEF WaitersStand, Firm, Stands, Blocking
  <2>3. stack' = stack /\ status'[t] = "run" /\ \A u \in Ids : u # t => status'[u] = status[u]
    BY <2>1, Woken
  <2>4. CASE ResumeRecv(t)
    <3>1. PICK v : Deliver(t, v, t)
      BY <2>4 DEF ResumeRecv
    <3>2. Op(t).op = "recv"
      BY <2>2, <2>4 DEF ResumeRecv
    <3> QED
      BY <2>1, <2>2, <2>3, <3>1, <3>2, DeliverOnward DEF Asleep
  <2>5. CASE ResumeSemaphore(t) \/ ResumeSend(t)
    <3>1. frame' = Advance(frame, {t})
      BY <2>5 DEF ResumeSemaphore, ResumeSend
    <3>2. /\ Through(Op(t)) /\ Op(t).op \notin {"lock", "unlock"} /\ status[t] \notin Asleep
          /\ status'[t] \notin Asleep
      BY <2>1, <2>2, <2>3 DEF Through, Asleep
    <3>3. \A u \in Ids \ {t} : SameSleep(u)
      BY <2>3 DEF SameSleep
    <3> QED
      BY <2>1, <2>2, <2>3, <3>1, <3>2, <3>3, OneOnward
  <2> QED
    BY <1>1, <2>4, <2>5
<1> QED
  BY <1>1, ResumeLockOnward DEF Resume

(* A join passes over a child that has finished, or blocks. *)
LEMMA JoinOnward ==
  ASSUME IInv, ~Faulted, NEW t \in Ids, Join(t)
  PROVE  Onward
<1> DEFINE h == Fr(t).handles[Op(t).h]
           c == children[t][h]
<1>1. /\ AtStatement(t) /\ status[t] = "run" /\ Op(t).op = "join" /\ prog' = prog /\ mutex' = mutex
      /\ c \in Ids /\ stack[t] # <<>>
  BY JoinedHandle DEF Join, OnlyThreads, syncVars, AtStatement
<1>2. CASE JoinBlocks(t, h, c)
  BY <1>1, <1>2, BlockOnward DEF JoinBlocks, Blocking
<1>3. CASE JoinFinished(t, h, c)
  <2> DEFINE y == AfterJoin(frame[Top(t)], Op(t).h)
             j == Fr(t).pc + 1
  <2>1. /\ c \in finished /\ frame' = [frame EXCEPT ![Top(t)] = y]
        /\ status' = [status EXCEPT ![c] = "absent"] /\ stack' = stack
    BY <1>3 DEF JoinFinished
  <2>2. status[c] = "done" /\ c # t
    BY <1>1, <2>1 DEF IInv, FramesOwned
  <2>3. /\ frame \in FrameStore /\ Top(t) \in Ids /\ frame[Top(t)] \in FrameState
        /\ Fr(t) = frame[Top(t)] /\ status \in [Ids -> Status]
    BY <1>1, TopAllocated DEF IInv, TypeOK, FrameStore, Fr
  <2>4. y.fn = Fr(t).fn /\ y.ret = Fr(t).ret /\ y.pc = j
    <3> DEFINE hs == [Fr(t).handles EXCEPT ![Op(t).h] = None]
    <3>1. y = [Fr(t) EXCEPT !.pc = @ + 1, !.handles = hs]
      BY <2>3 DEF AfterJoin
    <3> HIDE DEF hs, y
    <3> QED
      BY <2>3, <3>1 DEF FrameState
  <2>5. j \in Nat \ {0} /\ j \in Goes(Op(t), Fr(t).pc)
    BY <1>1, <2>3 DEF FrameState, Goes
  <2> HIDE DEF y, c
  <2>6. \A f \in Ids : frame'[f] = IF f = Top(t) THEN y ELSE frame[f]
    BY <2>1, <2>3 DEF FrameStore
  <2>7. \A u \in Ids : status'[u] = IF u = c THEN "absent" ELSE status[u]
    BY <1>1, <2>1, <2>3
  <2>8. \A u \in Ids \ {t} : SameSleep(u)
    BY <2>2, <2>7 DEF SameSleep, Asleep
  <2>9. At(y) = [At(Fr(t)) EXCEPT !.pc = j]
    <3> HIDE DEF j
    <3> QED
      BY <2>4 DEF At
  <2>10. status[t] \notin Asleep /\ status'[t] \notin Asleep
    BY <1>1, <2>2, <2>7 DEF Asleep
  <2>11. Op(t).op \notin {"lock", "unlock"}
    BY <1>1
  <2> HIDE DEF j
  <2> QED
    BY <1>1, <2>1, <2>5, <2>6, <2>8, <2>9, <2>10, <2>11, TopOnward
<1> QED
  BY <1>2, <1>3 DEF Join

(* Steps that start, call, end and return from nothing *)
LEMMA QuietOnward ==
  ASSUME IInv, WaitersStand, ~Faulted, NEW t \in Ids, QuietStep(t) \/ Join(t)
  PROVE  Onward
BY DataOnward, JumpOnward, MutexOnward, WaitOnward, NotifyOnward, SemaphoreOnward, ChannelOnward,
   ResumeOnward, JoinOnward DEF QuietStep, SyncStep

-----------------------------------------------------------------------------
(* Calls, returns and the end of a thread *)

(* The frame a thread is at, as the passes see it. *)
LEMMA Here ==
  ASSUME IInv, WaitersStand, LocksFit, NEW t \in Ids, stack[t] # <<>>
  PROVE  /\ View(t) \in Seq(Places) /\ View(t) # <<>> /\ Due(t) \in SUBSET Mutexes
         /\ Carries(prog, View(t), Due(t))
         /\ Last(View(t)) = At(Fr(t)) /\ Last(View(t)) \in Places
         /\ Last(View(t)).fn = Fr(t).fn /\ Last(View(t)).pc = Fr(t).pc
         /\ Last(View(t)).ret = Fr(t).ret
         /\ Stmt(prog, Last(View(t))) = Op(t) /\ prog[Last(View(t)).fn] = Body(t)
<1>1. /\ View(t) \in Seq(Places) /\ View(t) # <<>> /\ Due(t) \in SUBSET Mutexes
      /\ Last(View(t)) = At(Fr(t))
  BY ViewTyped, DueTyped
<1>2. Fr(t) \in FrameState
  BY TopAllocated DEF IInv
<1>3. At(Fr(t)) \in Places /\ At(Fr(t)).fn = Fr(t).fn /\ At(Fr(t)).pc = Fr(t).pc /\ At(Fr(t)).ret = Fr(t).ret
  BY <1>2 DEF At, Places, FrameState
<1>4. Stmt(prog, At(Fr(t))) = Op(t) /\ prog[At(Fr(t)).fn] = Body(t)
  BY <1>3 DEF Stmt, Op, Body
<1> QED
  BY <1>1, <1>3, <1>4 DEF LocksFit

(* A function returns at a `return`, or has no body. *)
LEMMA ReturnsWhere ==
  ASSUME IInv, WaitersStand, LocksFit, prog \in Validated, NEW t \in Ids,
         Return(t) \/ ImplicitReturn(t)
  PROVE  /\ status[t] = "run" /\ stack[t] # <<>>
         /\ ~Empty(prog, View(t)) => Stmt(prog, Last(View(t))).op = "return"
<1>1. status[t] = "run" /\ stack[t] # <<>>
  BY DEF Return, ImplicitReturn, Executes, AtStatement
<1>2. CASE Return(t)
  BY <1>1, <1>2, Here DEF Return, Executes
<1>3. CASE ImplicitReturn(t)
  <2>1. ~AtStatement(t)
    BY <1>3 DEF ImplicitReturn
  <2>2. ASSUME ~Empty(prog, View(t)) PROVE FALSE
    <3> DEFINE s == View(t)
               d == Due(t)
    <3>1. s \in Seq(Places) /\ s # <<>> /\ d \in SUBSET Mutexes /\ Carries(prog, s, d)
      BY <1>1, Here
    <3>2. ~Empty(prog, s)
      BY <2>2
    <3>3. Last(s).pc = Fr(t).pc /\ prog[Last(s).fn] = Body(t)
      BY <1>1, Here
    <3> HIDE DEF s, d
    <3>4. Last(s).pc \in DOMAIN prog[Last(s).fn]
      BY <3>1, <3>2, CarriesInside
    <3> QED
      BY <1>1, <2>1, <3>3, <3>4 DEF AtStatement
  <2> QED
    BY <1>1, <2>2
<1> QED
  BY <1>2, <1>3

(* The sequence with given elements *)
LEMMA SequenceIs ==
  ASSUME NEW S, NEW q \in Seq(S), NEW y \in S, NEW v, v = [i \in DOMAIN v |-> v[i]],
         DOMAIN v = 1..Len(Append(q, y)), \A i \in DOMAIN v : v[i] = Append(q, y)[i]
  PROVE  v = Append(q, y)
<1> DEFINE z == Append(q, y)
<1>1. z \in Seq(S)
  OBVIOUS
<1> HIDE DEF z
<1>2. v \in [1..Len(z) -> S] /\ Len(z) \in Nat
  BY <1>1 DEF z
<1>3. v \in Seq(S) /\ Len(v) = Len(z)
  BY <1>2
<1> QED
  BY <1>1, <1>2, <1>3, SeqEqual DEF z

(* A call pushes the callee's place. *)
LEMMA CallFits ==
  ASSUME IInv, WaitersStand, LocksFit, prog \in Validated, NEW t \in Ids, CallBody(t)
  PROVE  LocksFit'
<1> DEFINE o == Op(t)
           f == next.frame
           w == Activation(o.f, [pc |-> Fr(t).pc + 1, dst |-> o.dst])
           y == At(w)
           s == View(t)
           d == Due(t)
<1>1. /\ AtStatement(t) /\ status[t] = "run" /\ o.op = "call" /\ o.f \in Functions
      /\ o.dst \in Destinations
      /\ f \in Ids /\ stack[t] # <<>>
  BY Executing, OpFields DEF CallBody, Executes
<1>2. /\ \E x : frame' = [frame EXCEPT ![f] = [w EXCEPT !.locals = x]]
      /\ stack' = [stack EXCEPT ![t] = Append(@, f)]
      /\ status' = status /\ mutex' = mutex /\ prog' = prog
  BY DEF CallBody, OnlyStack, syncVars
<1>3. stack \in [Ids -> Seq(Ids)] /\ frame \in [Ids -> FrameState \union {NoFrame}]
      /\ frame[f] = NoFrame
  <2>1. f >= f
    BY DEF IInv, TypeOK
  <2> QED
    BY <1>1, <2>1 DEF IInv, TypeOK, Fresh
<1>4. At(frame'[f]) = y /\ \A g \in Ids : g # f => frame'[g] = frame[g]
  <2>1. PICK x : frame' = [frame EXCEPT ![f] = [w EXCEPT !.locals = x]]
    BY <1>2
  <2> DEFINE z == [w EXCEPT !.locals = x]
  <2>2. z.fn = w.fn /\ z.pc = w.pc /\ z.ret = w.ret
    BY DEF Activation
  <2>3. frame'[f] = z /\ \A g \in Ids : g # f => frame'[g] = frame[g]
    BY <1>1, <1>3, <2>1
  <2> HIDE DEF z, w
  <2> QED
    BY <2>2, <2>3 DEF At
<1>5. \A u \in Ids : \A i \in DOMAIN stack[u] : stack[u][i] \in Ids /\ stack[u][i] # f
  <2>1. \A u \in Ids : \A i \in DOMAIN stack[u] : stack[u][i] \in Ids /\ frame[stack[u][i]] # NoFrame
    BY ViewTyped DEF IInv, FramesOwned
  <2> QED
    BY <1>3, <2>1
<1> HIDE DEF f
<1>6. ASSUME NEW u \in Ids, u # t
      PROVE  Stays(u)
  <2>1. SamePlaces(u) /\ SameHeld(u) /\ SameSleep(u)
    BY <1>2, <1>3, <1>4, <1>5, <1>6 DEF SamePlaces, SameHeld, SameSleep
  <2> QED
    BY <1>2, <2>1, Untouched
<1>7. y \in Places /\ y.fn = o.f /\ y.pc = 1 /\ y.ret = [pc |-> Fr(t).pc + 1, dst |-> o.dst]
  <2>1. Fr(t).pc \in Nat
    BY <1>1, TopAllocated DEF IInv, FrameState
  <2> HIDE DEF o
  <2> QED
    BY <1>1, <2>1 DEF At, Activation, Places, RetAddr
<1>8. /\ s \in Seq(Places) /\ s # <<>> /\ d \in SUBSET Mutexes /\ Carries(prog, s, d)
      /\ Last(s).pc \in DOMAIN prog[Last(s).fn] /\ Stmt(prog, Last(s)) = o
      /\ Last(s).pc = Fr(t).pc /\ Last(s) \in Places
  BY <1>1, Here DEF AtStatement
<1>9. View(t)' = Append(s, y)
  <2>1. stack'[t] = Append(stack[t], f) /\ Len(stack[t]) \in Nat /\ DOMAIN stack[t] = 1..Len(stack[t])
    BY <1>2, <1>3
  <2> DEFINE n == Len(stack[t])
             v == [i \in DOMAIN stack'[t] |-> At(frame'[stack'[t][i]])]
  <2>2. DOMAIN stack'[t] = 1..(n + 1) /\ stack'[t][n + 1] = f /\ \A i \in 1..n : stack'[t][i] = stack[t][i]
    BY <2>1
  <2>3. Len(s) = n /\ \A i \in 1..n : s[i] = At(frame[stack[t][i]])
    BY <2>1, ViewTyped DEF View
  <2>4. DOMAIN v = 1..(n + 1) /\ v[n + 1] = y /\ \A i \in 1..n : v[i] = s[i]
    <3>1. At(frame'[stack'[t][n + 1]]) = y
      BY <1>4, <2>2
    <3>2. \A i \in 1..n : At(frame'[stack'[t][i]]) = s[i]
      BY <1>4, <1>5, <2>1, <2>2, <2>3
    <3> HIDE DEF y
    <3> QED
      BY <2>1, <2>2, <3>1, <3>2
  <2>5. View(t)' = v
    BY DEF View
  <2>6. s \in Seq(Places) /\ y \in Places /\ n \in Nat
    BY <1>7, <1>8, <2>1
  <2>7. DOMAIN v = 1..Len(Append(s, y)) /\ \A i \in DOMAIN v : v[i] = Append(s, y)[i]
    <3> HIDE DEF v, n, s, y
    <3> QED
      BY <2>3, <2>4, <2>6
  <2>8. v = [i \in DOMAIN v |-> v[i]]
    OBVIOUS
  <2> HIDE DEF v, n, s, y
  <2> QED
    BY <2>5, <2>6, <2>7, <2>8, SequenceIs
<1>10. Due(t)' = d
  <2>1. ~Away(t) /\ ~Away(t)'
    BY <1>1, <1>2 DEF Away
  <2> QED
    BY <1>2, <2>1 DEF Due, Held
<1>11. Carries(prog, View(t), Due(t))'
  <2> HIDE DEF s, d, y, o
  <2>1. Carries(prog, Append(s, y), d)
    BY <1>1, <1>7, <1>8, CallCarries
  <2> QED
    BY <1>2, <1>9, <1>10, <2>1
<1>12. \A u \in Ids : u # t => Carries(prog, View(u), Due(u))'
  BY <1>2, <1>6, KeepsFit
<1> QED
  BY <1>11, <1>12 DEF LocksFit

(* The beginning of a sequence *)
LEMMA Beginning ==
  ASSUME NEW S, NEW q \in Seq(S), NEW k \in 1..Len(q)
  PROVE  SubSeq(q, 1, k) \in [1..k -> S] /\ \A i \in 1..k : SubSeq(q, 1, k)[i] = q[i]
<1>1. SubSeq(q, 1, k) \in Seq(S) /\ Len(SubSeq(q, 1, k)) = k
  OBVIOUS
<1>2. \A i \in 1..k : SubSeq(q, 1, k)[i] = q[i]
  OBVIOUS
<1> DEFINE z == SubSeq(q, 1, k)
<1>3. z \in [1..k -> S]
  <2>1. z \in Seq(S) /\ Len(z) = k
    BY <1>1
  <2> HIDE DEF z
  <2> QED
    BY <2>1
<1> QED
  BY <1>2, <1>3

(* A return to a caller drops the callee's place, and the caller goes on. *)
LEMMA PopFits ==
  ASSUME IInv, WaitersStand, LocksFit, prog \in Validated, NEW t \in Ids,
         status[t] = "run", stack[t] # <<>>,
         ~Empty(prog, View(t)) => Stmt(prog, Last(View(t))).op = "return",
         NEW v, PopFrame(t, v)
  PROVE  LocksFit'
<1> DEFINE s == View(t)
           d == Due(t)
           n == Len(stack[t])
           k == n - 1
           g == stack[t][k]
           y == [fn |-> frame[g].fn, pc |-> Fr(t).ret.pc, ret |-> frame[g].ret]
<1>1. /\ status' = status /\ mutex' = mutex /\ prog' = prog
      /\ stack' = [stack EXCEPT ![t] = SubSeq(@, 1, Len(@) - 1)] /\ n > 1
  BY DEF PopFrame, Nested, OnlyStack, syncVars
<1>2. stack \in [Ids -> Seq(Ids)] /\ frame \in FrameStore /\ Fr(t) \in FrameState
  BY TopAllocated DEF IInv, TypeOK, FrameStore
<1>3. /\ n \in Nat /\ k \in Nat \ {0} /\ DOMAIN stack[t] = 1..n /\ k \in DOMAIN stack[t]
      /\ n \in DOMAIN stack[t] /\ Len(s) = k + 1
  BY <1>1, <1>2, ViewTyped
<1>4. /\ g \in Ids /\ g = Caller(t) /\ Top(t) \in Ids /\ g # Top(t) /\ frame[g] \in FrameState
      /\ Top(t) = stack[t][n] /\ s[k] = At(frame[g])
  <2>1. g \in Ids /\ frame[g] \in FrameState /\ Top(t) \in Ids /\ Top(t) = stack[t][n]
    BY <1>3, ViewTyped DEF Top
  <2>2. g # Top(t)
    BY <1>3, <2>1 DEF IInv, FramesOwned
  <2> QED
    BY <1>3, <2>1, <2>2 DEF Caller, View
<1>5. At(frame'[g]) = y /\ \A f \in Ids : f # g /\ f # Top(t) => frame'[f] = frame[f]
  <2> DEFINE ret == Fr(t).ret
             stored == IF v = NoValue THEN frame ELSE Put(frame, g, ret.dst, v)
  <2>1. frame' = [stored EXCEPT ![g].pc = ret.pc, ![Top(t)] = NoFrame]
    BY <1>4 DEF PopFrame
  <2>2. /\ DOMAIN stored = Ids /\ \A f \in Ids : f # g => stored[f] = frame[f]
    BY <1>2, <1>4 DEF Put, FrameStore
  <2>3. /\ stored[g].fn = frame[g].fn /\ stored[g].ret = frame[g].ret
        /\ "pc" \in DOMAIN stored[g] /\ "fn" \in DOMAIN stored[g] /\ "ret" \in DOMAIN stored[g]
    <3>1. CASE stored = frame
      BY <1>4, <3>1 DEF FrameState
    <3>2. CASE stored = [frame EXCEPT ![g].locals[ret.dst] = v]
      <4> DEFINE z == [frame[g] EXCEPT !.locals[ret.dst] = v]
      <4>1. /\ z.fn = frame[g].fn /\ z.ret = frame[g].ret
            /\ "pc" \in DOMAIN z /\ "fn" \in DOMAIN z /\ "ret" \in DOMAIN z
        BY <1>4 DEF FrameState
      <4>2. stored[g] = z
        BY <1>2, <1>4, <3>2 DEF FrameStore
      <4> HIDE DEF z, stored
      <4> QED
        BY <4>1, <4>2
    <3> QED
      BY <3>1, <3>2 DEF Put
  <2> HIDE DEF stored, ret
  <2> DEFINE z == [stored[g] EXCEPT !.pc = ret.pc]
  <2>4. z.fn = frame[g].fn /\ z.ret = frame[g].ret /\ z.pc = ret.pc
    BY <2>3
  <2>5. frame'[g] = z
    BY <1>4, <2>1, <2>2
  <2>6. \A f \in Ids : f # g /\ f # Top(t) => frame'[f] = frame[f]
    BY <1>4, <2>1, <2>2
  <2> HIDE DEF z
  <2>7. At(frame'[g]) = y
    BY <2>4, <2>5 DEF At, ret
  <2> QED
    BY <2>6, <2>7
<1>6. ASSUME NEW u \in Ids, NEW i \in DOMAIN stack[u]
      PROVE  /\ stack[u][i] \in Ids
             /\ stack[u][i] = g => u = t /\ i = k
             /\ stack[u][i] = Top(t) => u = t /\ i = n
  <2>1. stack[u][i] \in Ids
    BY ViewTyped
  <2> QED
    BY <1>3, <1>4, <2>1 DEF IInv, FramesOwned
<1>7. \A u \in Ids : u # t => stack'[u] = stack[u]
  BY <1>1, <1>2
<1>8. ASSUME NEW u \in Ids, u # t
      PROVE  Stays(u)
  <2> HIDE DEF g, n, k, y
  <2>1. SamePlaces(u) /\ SameHeld(u) /\ SameSleep(u)
    BY <1>1, <1>5, <1>6, <1>7, <1>8 DEF SamePlaces, SameHeld, SameSleep
  <2> QED
    BY <1>1, <2>1, Untouched
<1>9. /\ s \in Seq(Places) /\ s # <<>> /\ d \in SUBSET Mutexes /\ Carries(prog, s, d)
      /\ Last(s).ret = Fr(t).ret /\ Last(s) \in Places
  BY Here
<1>10. y \in Places /\ y.fn = s[k].fn /\ y.ret = s[k].ret /\ y.pc = Last(s).ret.pc
  <2>1. Fr(t).ret.pc # 0 /\ Fr(t).ret.pc \in Nat
    BY <1>1, <1>2, <1>3, <1>4 DEF IInv, CallsReturn, Fr, FrameState, RetAddr
  <2>2. frame[g].fn \in Functions /\ frame[g].ret \in RetAddr
    BY <1>4 DEF FrameState
  <2> HIDE DEF g, k
  <2> QED
    BY <1>4, <1>9, <2>1, <2>2 DEF Places, At
<1>11. View(t)' = [SubSeq(s, 1, k) EXCEPT ![k] = y]
  <2> DEFINE w == [i \in DOMAIN stack'[t] |-> At(frame'[stack'[t][i]])]
             q == SubSeq(s, 1, k)
             z == [q EXCEPT ![k] = y]
  <2>1. stack'[t] = SubSeq(stack[t], 1, k)
    BY <1>1, <1>2
  <2>2. DOMAIN stack'[t] = 1..k /\ \A i \in 1..k : stack'[t][i] = stack[t][i]
    <3> HIDE DEF k
    <3> QED
      BY <1>2, <1>3, <2>1
  <2>3. \A i \in 1..k : s[i] = At(frame[stack[t][i]])
    BY <1>3 DEF View
  <2>4. q \in [1..k -> Places] /\ \A i \in 1..k : q[i] = s[i]
    <3>1. k \in 1..Len(s)
      BY <1>3
    <3> HIDE DEF s, k
    <3> QED
      BY <1>9, <3>1, Beginning
  <2>5. DOMAIN z = 1..k /\ \A i \in 1..k : z[i] = IF i = k THEN y ELSE s[i]
    <3> HIDE DEF s, k, y, q
    <3> QED
      BY <2>4
  <2>6. \A i \in 1..k : At(frame'[stack'[t][i]]) = IF i = k THEN y ELSE s[i]
    <3> SUFFICES ASSUME NEW i \in 1..k
                 PROVE  At(frame'[stack'[t][i]]) = IF i = k THEN y ELSE s[i]
      OBVIOUS
    <3>1. i \in DOMAIN stack[t] /\ i # n /\ i \in Nat
      BY <1>3
    <3>2. CASE i = k
      BY <1>5, <2>2, <3>2
    <3>3. CASE i # k
      <4>1. stack[t][i] \in Ids /\ stack[t][i] # g /\ stack[t][i] # Top(t)
        BY <1>6, <3>1, <3>3
      <4>2. frame'[stack[t][i]] = frame[stack[t][i]]
        BY <1>5, <4>1
      <4> QED
        BY <2>2, <2>3, <3>3, <4>2
    <3> QED
      BY <3>2, <3>3
  <2>7. View(t)' = w /\ DOMAIN w = 1..k /\ \A i \in 1..k : w[i] = At(frame'[stack'[t][i]])
    BY <2>2 DEF View
  <2>8. w = [i \in DOMAIN w |-> w[i]] /\ z = [i \in DOMAIN z |-> z[i]]
    OBVIOUS
  <2> HIDE DEF w, z, y, s, k, q
  <2>9. DOMAIN w = DOMAIN z /\ \A i \in DOMAIN w : w[i] = z[i]
    BY <2>5, <2>6, <2>7
  <2>10. w = z
    BY ONLY <2>8, <2>9
  <2> QED
    BY <2>7, <2>10 DEF z, q
<1>12. Due(t)' = d
  <2>1. ~Away(t) /\ ~Away(t)'
    BY <1>1 DEF Away
  <2> QED
    BY <1>1, <2>1 DEF Due, Held
<1>13. Carries(prog, View(t), Due(t))'
  <2>0. ~Empty(prog, s) => Stmt(prog, Last(s)).op = "return"
    OBVIOUS
  <2> HIDE DEF s, d, y, k
  <2>1. Carries(prog, [SubSeq(s, 1, k) EXCEPT ![k] = y], d)
    BY <1>3, <1>9, <1>10, <2>0, ReturnCarries
  <2> QED
    BY <1>1, <1>11, <1>12, <2>1
<1>14. \A u \in Ids : u # t => Carries(prog, View(u), Due(u))'
  BY <1>1, <1>8, KeepsFit
<1> QED
  BY <1>13, <1>14 DEF LocksFit

(* A thread that ends has no mutex and is due none; it wakes threads that move
   past their `join` or `scope`. *)
LEMMA FinishFits ==
  ASSUME IInv, WaitersStand, LocksFit, prog \in Validated, NEW t \in Ids,
         status[t] = "run", stack[t] # <<>>,
         ~Empty(prog, View(t)) => Stmt(prog, Last(View(t))).op = "return",
         FinishThread(t)
  PROVE  LocksFit'
<1> DEFINE J == Joiners(t)
           ts == J \union Owners(t)
<1>1. /\ status' = [u \in Ids |-> IF u \in Gone(t) THEN "absent" ELSE IF u = t THEN "done"
                                  ELSE IF u \in Owners(t) \union J THEN "run" ELSE status[u]]
      /\ stack' = [stack EXCEPT ![t] = <<>>]
      /\ mutex' = mutex /\ prog' = prog /\ ~Nested(t)
      /\ frame' = [f \in Ids |->
              IF f = Top(t) THEN NoFrame
              ELSE IF \E u \in J : f = Top(u)
                   THEN AfterJoin(frame[f], Op(CHOOSE u \in J : f = Top(u)).h)
              ELSE IF \E u \in Owners(t) : f = Top(u)
                   THEN [frame[f] EXCEPT !.pc = @ + 1]
              ELSE frame[f]]
  BY DEF FinishThread, Owners, Gone, syncVars
<1>2. \A u \in ts : /\ u \in Ids /\ status[u] \in {"join", "scope"} /\ u # t
                    /\ stack[u] # <<>>
  <2>1. \A u \in J : u \in Ids /\ status[u] = "join"
    BY DEF Joiners
  <2>2. \A u \in Owners(t) : u \in Ids /\ status[u] = "scope"
    BY LastMember
  <2> QED
    BY <2>1, <2>2 DEF IInv, FramesOwned, Live
<1>3. \A u \in Gone(t) : u \in Ids /\ (u = t \/ status[u] = "done")
  BY LastMember
<1>4. ASSUME NEW f \in Ids, frame[f] # NoFrame, f # Top(t)
      PROVE  At(frame'[f]) = IF \E x \in ts : f = Top(x)
                             THEN [At(frame[f]) EXCEPT !.pc = frame[f].pc + 1] ELSE At(frame[f])
  <2> DEFINE x == frame[f]
             y == [x EXCEPT !.pc = @ + 1]
  <2>1. x \in FrameState
    BY <1>4 DEF IInv, TypeOK
  <2>2. /\ y.fn = x.fn /\ y.pc = x.pc + 1 /\ y.ret = x.ret
    BY <2>1 DEF FrameState
  <2>3. ASSUME NEW h
        PROVE  LET z == AfterJoin(x, h) IN z.fn = x.fn /\ z.pc = x.pc + 1 /\ z.ret = x.ret
    <3> DEFINE hs == [x.handles EXCEPT ![h] = None]
               z  == [x EXCEPT !.pc = @ + 1, !.handles = hs]
    <3>1. AfterJoin(x, h) = z
      BY DEF AfterJoin
    <3> HIDE DEF hs, x
    <3>2. z.fn = x.fn /\ z.pc = x.pc + 1 /\ z.ret = x.ret
      BY <2>1 DEF FrameState
    <3> QED
      BY <3>1, <3>2
  <2>4. CASE \E u \in J : f = Top(u)
    <3>1. PICK h : frame'[f] = AfterJoin(x, h)
      BY <1>1, <1>4, <2>4
    <3>2. /\ AfterJoin(x, h).fn = x.fn /\ AfterJoin(x, h).pc = x.pc + 1
          /\ AfterJoin(x, h).ret = x.ret
      BY <2>3
    <3>3. \E u \in ts : f = Top(u)
      BY <2>4
    <3> HIDE DEF ts, J
    <3> QED
      BY <3>1, <3>2, <3>3 DEF At
  <2>5. CASE (~\E u \in J : f = Top(u)) /\ \E u \in Owners(t) : f = Top(u)
    <3>1. frame'[f] = y
      BY <1>1, <1>4, <2>5
    <3>2. \E u \in ts : f = Top(u)
      BY <2>5
    <3> HIDE DEF ts, J, y
    <3> QED
      BY <2>2, <3>1, <3>2 DEF At
  <2>6. CASE (~\E u \in J : f = Top(u)) /\ ~\E u \in Owners(t) : f = Top(u)
    BY <1>1, <1>4, <2>6
  <2> QED
    BY <2>4, <2>5, <2>6
<1>5. stack \in [Ids -> Seq(Ids)] /\ \A u \in Ids : u # t => stack'[u] = stack[u]
  BY <1>1 DEF IInv, TypeOK
<1>6. ts \in SUBSET Ids /\ \A u \in ts : stack[u] # <<>>
  BY <1>2
<1>7. \A u \in Ids : status'[u] = IF u \in Gone(t) THEN "absent" ELSE IF u = t THEN "done"
                                  ELSE IF u \in ts THEN "run" ELSE status[u]
  BY <1>1
<1> HIDE DEF ts, J
<1>8. \A u \in Ids : SameHeld(u)
  BY <1>1 DEF SameHeld
<1>9. ASSUME NEW u \in Ids, u # t
      PROVE  /\ u \notin ts => SamePlaces(u)
             /\ u \in ts => TopMoves(u, Fr(u).pc + 1)
  <2>1. ASSUME NEW i \in DOMAIN stack[u]
        PROVE  At(frame'[stack[u][i]]) =
                 IF \E x \in ts : stack[u][i] = Top(x)
                 THEN [At(frame[stack[u][i]]) EXCEPT !.pc = frame[stack[u][i]].pc + 1]
                 ELSE At(frame[stack[u][i]])
    <3>1. stack[u][i] \in Ids /\ frame[stack[u][i]] # NoFrame
      BY ViewTyped DEF IInv, FramesOwned
    <3>2. stack[u][i] # Top(t)
      BY <1>9, TopAllocated DEF IInv, FramesOwned, Top
    <3> QED
      BY <1>4, <3>1, <3>2
  <2>2. stack'[u] = stack[u]
    BY <1>5, <1>9
  <2> QED
    BY <1>6, <2>1, <2>2, PlacesMove
<1>10. ASSUME NEW u \in Ids, u # t, u \notin ts
       PROVE  Stays(u)
  <2>1. SamePlaces(u)
    BY <1>9, <1>10
  <2>2. SameSleep(u)
    BY <1>3, <1>7, <1>10 DEF SameSleep, Asleep
  <2> QED
    BY <1>1, <1>8, <2>1, <2>2, Untouched
<1>11. ASSUME NEW u \in ts
       PROVE  Advances(u)
  <2> DEFINE j == Fr(u).pc + 1
  <2>1. u \in Ids /\ u # t /\ status[u] \in {"join", "scope"} /\ stack[u] # <<>>
    BY <1>2
  <2>2. AtStatement(u) /\ Op(u).op \in {"join", "scope"}
    BY <2>1 DEF WaitersStand, Firm, Stands, Blocking
  <2>3. j \in Nat \ {0} /\ j \in Goes(Op(u), Fr(u).pc)
    BY <2>1, <2>2, TopAllocated DEF IInv, FrameState, Goes
  <2>4. TopMoves(u, j)
    BY <1>9, <2>1
  <2>5. status[u] \notin Asleep /\ status'[u] \notin Asleep
    BY <1>3, <1>7, <2>1 DEF Asleep
  <2> HIDE DEF j
  <2> QED
    BY <1>1, <1>8, <2>1, <2>2, <2>3, <2>4, <2>5, AwakeAdvances
<1>12. Carries(prog, View(t), Due(t))'
  <2> DEFINE s == View(t)
             d == Due(t)
  <2>1. s \in Seq(Places) /\ d \in SUBSET Mutexes /\ Carries(prog, s, d)
    BY Here
  <2>2. Len(s) = 1
    <3> DEFINE n == Len(stack[t])
    <3>1. n \in 1..n /\ n \in Nat
      BY <1>5
    <3>2. ~(n > 1)
      BY <1>1 DEF Nested
    <3> HIDE DEF n
    <3>3. n = 1
      BY <3>1, <3>2
    <3>4. Len(s) = n
      BY ViewTyped DEF n
    <3> QED
      BY <3>3, <3>4
  <2>3. ~Empty(prog, s) => Stmt(prog, Last(s)).op = "return"
    OBVIOUS
  <2> HIDE DEF s, d
  <2>4. d = {}
    BY <2>1, <2>2, <2>3, LastCarries
  <2>5. Held(t)' = {}
    BY <1>1, <2>4 DEF Held, Due, d
  <2>6. ~Away(t)'
    BY <1>7 DEF Away
  <2>7. Due(t)' = {}
    BY <2>5, <2>6 DEF Due
  <2>8. View(t)' = <<>>
    <3>1. stack'[t] = <<>>
      BY <1>1, <1>5
    <3>2. DOMAIN stack'[t] = {}
      BY <3>1
    <3> QED
      BY <3>2 DEF View
  <2> QED
    BY <2>7, <2>8 DEF Carries
<1>13. \A u \in Ids : u # t => Carries(prog, View(u), Due(u))'
  BY <1>1, <1>10, <1>11, KeepsFit
<1> QED
  BY <1>12, <1>13 DEF LocksFit

-----------------------------------------------------------------------------
(* New threads *)

(* A thread begins with a function that requires no lock. *)
LEMMA ThreadsBegin ==
  ASSUME IInv, prog \in Validated, NEW t \in Ids, AtStatement(t)
  PROVE  /\ Op(t).op = "spawn" => RequiresHeld[Op(t).f] = {}
         /\ Op(t).op = "scope" => \A j \in DOMAIN Op(t).fs : RequiresHeld[Op(t).fs[j]] = {}
<1> DEFINE f == Fr(t).fn
           i == Fr(t).pc
<1>1. f \in Functions /\ i \in DOMAIN prog[f] /\ Op(t) = prog[f][i]
  BY Executing DEF AtStatement, Body, Op
<1>2. \A h \in Functions : \A k \in DOMAIN prog[h] :
        /\ prog[h][k].op = "spawn" => RequiresHeld[prog[h][k].f] = {}
        /\ prog[h][k].op = "scope" => \A j \in DOMAIN prog[h][k].fs : RequiresHeld[prog[h][k].fs[j]] = {}
  BY DEF Validated, Assumed
<1> HIDE DEF f, i
<1> QED
  BY <1>1, <1>2

(* The frame of the i-th new thread is an activation of the i-th function. *)
LEMMA NewActivation ==
  ASSUME IInv, NEW fs \in Seq(Functions), HasRoom(fs), NEW g, NEW i \in Born(fs)
  PROVE  WithNewFrames(fs, g)[FrameOf(fs, i)] = Activation(fs[i], NoReturn)
<1> DEFINE f == FrameOf(fs, i)
           k == CHOOSE k \in Born(fs) : f = FrameOf(fs, k)
<1>1. /\ f \in Ids
      /\ \A x, y \in Born(fs) : FrameOf(fs, x) = FrameOf(fs, y) => x = y
  BY FramesFor
<1>2. k \in Born(fs) /\ f = FrameOf(fs, k)
  OBVIOUS
<1>3. k = i
  BY <1>1, <1>2
<1>4. WithNewFrames(fs, g)[f] = Activation(fs[k], NoReturn)
  <2>1. \E x \in Born(fs) : f = FrameOf(fs, x)
    OBVIOUS
  <2> QED
    BY <1>1, <2>1 DEF WithNewFrames
<1> QED
  BY <1>3, <1>4

(* New threads begin with functions that require no lock, and no mutex waits
   for them. *)
LEMMA NewFits ==
  ASSUME IInv, WaitersStand, LocksFit, prog \in Validated, prog' = prog, mutex' = mutex,
         NEW fs \in Seq(Functions), NEW p, CreateThreads(fs, p),
         \A i \in DOMAIN fs : RequiresHeld[fs[i]] = {},
         \A i \in Born(fs) : frame'[FrameOf(fs, i)] = Activation(fs[i], NoReturn),
         NEW u \in Created(fs), status'[u] \notin Asleep
  PROVE  Carries(prog, View(u), Due(u))'
<1>1. u \in Ids /\ Nth(u) \in DOMAIN fs /\ HasRoom(fs)
  BY DEF Created, CreateThreads
<1>2. stack[u] = <<>> /\ status[u] = "absent"
  BY <1>1, CreatedFresh
<1>3. Due(u) = {}
  <2>1. View(u) = <<>>
    BY <1>1, <1>2, ViewTyped
  <2> QED
    BY <1>1, <2>1 DEF LocksFit, Carries
<1>4. Due(u)' = {}
  BY <1>3 DEF Due, Held, Away, Asleep
<1>5. CASE Nth(u) \in Born(fs)
  <2> DEFINE f == FrameOf(fs, Nth(u))
             y == At(Activation(fs[Nth(u)], NoReturn))
  <2>1. stack'[u] = <<f>> /\ frame'[f] = Activation(fs[Nth(u)], NoReturn)
    BY <1>1, <1>5 DEF CreateThreads
  <2>2. fs[Nth(u)] \in Functions
    BY <1>1
  <2>3. y \in Places /\ y.pc = 1 /\ y.fn = fs[Nth(u)]
    BY <2>2 DEF At, Places, Activation, NoReturn, RetAddr, Destinations
  <2>4. View(u)' = <<y>>
    <3>1. DOMAIN stack'[u] = {1} /\ stack'[u][1] = f
      BY <2>1
    <3>2. View(u)' = [i \in DOMAIN stack'[u] |-> At(frame'[stack'[u][i]])]
      BY DEF View
    <3> DEFINE v == [i \in {1} |-> y]
    <3>3. View(u)' = v
      BY <2>1, <3>1, <3>2
    <3> HIDE DEF y
    <3>4. v = <<y>>
      OBVIOUS
    <3> QED
      BY <3>3, <3>4
  <2> HIDE DEF y
  <2>5. RequiresHeld[y.fn] = {}
    BY <1>1, <2>3
  <2>6. Carries(prog, <<y>>, {})
    BY <2>3, <2>5, FirstCarries
  <2> QED
    BY <1>4, <2>4, <2>6
<1>6. CASE Nth(u) \notin Born(fs)
  <2>1. stack'[u] = <<>>
    BY <1>1, <1>2, <1>6 DEF CreateThreads
  <2>2. View(u)' = <<>>
    <3>1. DOMAIN stack'[u] = {}
      BY <2>1
    <3> QED
      BY <3>1 DEF View
  <2> QED
    BY <1>4, <2>2 DEF Carries
<1> QED
  BY <1>5, <1>6

(* Threads that exist stay, when threads are created. *)
LEMMA OldStay ==
  ASSUME IInv, prog' = prog, mutex' = mutex, NEW t \in Ids, status[t] = "run",
         NEW fs \in Seq(Functions), NEW p, CreateThreads(fs, p),
         NEW u \in Ids, u \notin Created(fs), SameSleep(u),
         \A f \in Ids : frame[f] # NoFrame /\ (u = t \/ f # Top(t)) => frame'[f] = frame[f]
  PROVE  Stays(u)
<1>1. HasRoom(fs)
  BY DEF CreateThreads
<1>2. Nth(u) \notin Born(fs)
  BY <1>1, CreatedFresh DEF Running
<1>3. stack'[u] = stack[u]
  BY <1>2 DEF CreateThreads
<1>4. ASSUME NEW i \in DOMAIN stack[u]
      PROVE  At(frame'[stack[u][i]]) = At(frame[stack[u][i]])
  <2>1. stack[u][i] \in Ids /\ frame[stack[u][i]] # NoFrame
    BY ViewTyped DEF IInv, FramesOwned
  <2>2. stack[t] # <<>>
    BY DEF IInv, FramesOwned, Live
  <2>3. u = t \/ stack[u][i] # Top(t)
    BY <2>2, TopAllocated DEF IInv, FramesOwned, Top
  <2> QED
    BY <2>1, <2>3
<1> QED
  BY <1>3, <1>4, Untouched DEF SamePlaces, SameHeld

(* A spawn starts a thread, and its own goes on. *)
LEMMA SpawnFits ==
  ASSUME IInv, WaitersStand, LocksFit, prog \in Validated, NEW t \in Ids, Spawn(t)
  PROVE  LocksFit'
<1> DEFINE o  == Op(t)
           fs == <<o.f>>
           x  == frame[Top(t)]
           z  == [x EXCEPT !.handles[o.h] = next.handle, !.pc = @ + 1]
           g  == [frame EXCEPT ![Top(t)] = z]
           j  == Fr(t).pc + 1
<1>1. /\ status[t] = "run" /\ AtStatement(t) /\ stack[t] # <<>> /\ o.op = "spawn" /\ o.f \in Functions
      /\ CreateThreads(fs, None) /\ status' = BornStatus(fs)
      /\ prog' = prog /\ mutex' = mutex
  BY Executing, OpFields DEF Spawn, Executes, OnlyThreads, syncVars
<1>2. fs \in Seq(Functions) /\ HasRoom(fs) /\ DOMAIN fs = {1} /\ fs[1] = o.f
  BY <1>1 DEF CreateThreads
<1>3. /\ frame \in FrameStore /\ Top(t) \in Ids /\ x \in FrameState /\ Fr(t) = x
      /\ x # NoFrame
  BY <1>1, TopAllocated DEF IInv, TypeOK, FrameStore, Fr
<1>4. frame' = WithNewFrames(fs, g)
  <2>1. frame' = WithNewFrames(fs, [frame EXCEPT ![Top(t)].handles[o.h] = next.handle, ![Top(t)].pc = @ + 1])
    BY DEF Spawn
  <2>2. [frame EXCEPT ![Top(t)].handles[o.h] = next.handle, ![Top(t)].pc = @ + 1] = g
    BY <1>3 DEF FrameStore
  <2> QED
    BY <2>1, <2>2
<1>5. z.fn = Fr(t).fn /\ z.ret = Fr(t).ret /\ z.pc = j
  <2> DEFINE hs == [x.handles EXCEPT ![o.h] = next.handle]
             w  == [x EXCEPT !.handles = hs, !.pc = @ + 1]
  <2>1. z = w
    OBVIOUS
  <2>2. w.fn = x.fn /\ w.ret = x.ret /\ w.pc = x.pc + 1
    <3> HIDE DEF hs, x
    <3> QED
      BY <1>3 DEF FrameState
  <2> QED
    BY <1>3, <2>1, <2>2
<1>6. g[Top(t)] = z /\ \A f \in Ids : f # Top(t) => g[f] = frame[f]
  BY <1>3 DEF FrameStore
<1> HIDE DEF g, z, fs
<1>7. \A f \in Ids : frame[f] # NoFrame => frame'[f] = IF f = Top(t) THEN z ELSE frame[f]
  BY <1>2, <1>4, <1>6, NewFramesOnly
<1>8. \A i \in Born(fs) : frame'[FrameOf(fs, i)] = Activation(fs[i], NoReturn)
  BY <1>2, <1>4, NewActivation
<1>9. RequiresHeld[o.f] = {}
  BY <1>1, ThreadsBegin
<1>10. \A i \in DOMAIN fs : RequiresHeld[fs[i]] = {}
  BY <1>2, <1>9
<1>11. /\ t \notin Created(fs)
       /\ \A u \in Created(fs) : status[u] = "absent"
       /\ \A u \in Ids : u \notin Created(fs) => status'[u] = status[u]
       /\ \A u \in Ids : u \in Created(fs) => status'[u] \in {"run", "done"}
  <2>1. /\ Running(fs) \subseteq Created(fs)
        /\ \A u \in Created(fs) : status[u] = "absent"
    BY <1>2, CreatedFresh
  <2>2. \A u \in Ids : status'[u] = IF Nth(u) \in Born(fs) THEN "run"
                                    ELSE IF Nth(u) \in DOMAIN fs THEN "done" ELSE status[u]
    BY <1>1 DEF BornStatus
  <2> QED
    BY <1>1, <2>1, <2>2 DEF Created, Running
<1>12. ASSUME NEW u \in Ids, u # t, u \notin Created(fs)
       PROVE  Stays(u)
  <2>1. SameSleep(u)
    BY <1>11, <1>12 DEF SameSleep
  <2>2. \A f \in Ids : frame[f] # NoFrame /\ (u = t \/ f # Top(t)) => frame'[f] = frame[f]
    BY <1>7, <1>12
  <2> QED
    BY <1>1, <1>2, <1>12, <2>1, <2>2, OldStay
<1>13. Advances(t)
  <2>1. \A i \in DOMAIN stack[t] : stack[t][i] \in Ids /\ frame[stack[t][i]] # NoFrame
    BY ViewTyped DEF IInv, FramesOwned
  <2>2. \A i \in DOMAIN stack[t] : stack[t][i] = Top(t) <=> i = Len(stack[t])
    BY <1>1, TopAllocated DEF IInv, FramesOwned, Top
  <2>3. stack'[t] = stack[t]
    <3>1. Nth(t) \notin Born(fs)
      BY <1>2, <1>11, CreatedFresh DEF Running
    <3> QED
      BY <1>1, <3>1 DEF CreateThreads
  <2>4. At(z) = [At(Fr(t)) EXCEPT !.pc = j]
    <3> HIDE DEF j
    <3> QED
      BY <1>5 DEF At
  <2>5. TopMoves(t, j)
    BY <1>3, <1>7, <2>1, <2>2, <2>3, <2>4 DEF TopMoves
  <2>6. j \in Nat \ {0} /\ j \in Goes(Op(t), Fr(t).pc)
    BY <1>1, <1>3 DEF FrameState, Goes
  <2>7. SameHeld(t) /\ status[t] \notin Asleep /\ status'[t] \notin Asleep
    BY <1>1, <1>11 DEF SameHeld, Asleep
  <2> HIDE DEF j
  <2> QED
    BY <1>1, <2>5, <2>6, <2>7, AwakeAdvances
<1>14. \A u \in Ids : u \notin Created(fs) => Carries(prog, View(u), Due(u))'
  BY <1>1, <1>12, <1>13, KeepsFit
<1>15. ASSUME NEW u \in Created(fs)
       PROVE  Carries(prog, View(u), Due(u))'
  <2>1. status'[u] \notin Asleep
    BY <1>11 DEF Asleep, Created
  <2> QED
    BY <1>1, <1>2, <1>8, <1>10, <2>1, NewFits
<1> QED
  BY <1>14, <1>15 DEF LocksFit

(* The start of a scope starts threads, and its own blocks or goes on. *)
LEMMA ScopeStartFits ==
  ASSUME IInv, WaitersStand, LocksFit, prog \in Validated, NEW t \in Ids, ScopeStart(t)
  PROVE  LocksFit'
<1> DEFINE o  == Op(t)
           fs == o.fs
           s  == next.scope
           remaining == {u \in Ids : Nth(u) \in Born(fs)}
<1>1. /\ status[t] = "run" /\ AtStatement(t) /\ stack[t] # <<>> /\ o.op = "scope" /\ fs \in Seq(Functions)
      /\ CreateThreads(fs, s) /\ prog' = prog /\ mutex' = mutex
  BY Executing, OpFields DEF ScopeStart, Executes, OnlyThreads, syncVars
<1>2. \/ remaining = {} /\ status' = BornStatus(fs) /\ frame' = Advance(frame, {t})
      \/ status' = [BornStatus(fs) EXCEPT ![t] = "scope"] /\ frame' = WithNewFrames(fs, frame)
  BY DEF ScopeStart
<1>3. HasRoom(fs)
  BY <1>1 DEF CreateThreads
<1>4. \A i \in DOMAIN fs : RequiresHeld[fs[i]] = {}
  BY <1>1, ThreadsBegin
<1>5. \A i \in Born(fs) : frame'[FrameOf(fs, i)] = Activation(fs[i], NoReturn)
  <2>1. CASE remaining = {}
    <3>1. \A i \in Born(fs) : i \in DOMAIN fs
      BY <1>1 DEF Born
    <3>2. Born(fs) = {}
      BY <1>1, <1>3, <2>1, <3>1, CreatedFresh DEF Created
    <3> QED
      BY <3>2
  <2>2. CASE frame' = WithNewFrames(fs, frame)
    <3> HIDE DEF fs
    <3> QED
      BY <1>1, <1>3, <2>2, NewActivation
  <2> QED
    BY <1>2, <2>1, <2>2
<1> HIDE DEF fs, s, remaining
<1>6. /\ Running(fs) \subseteq Created(fs) /\ t \notin Created(fs)
      /\ \A u \in Created(fs) : status[u] = "absent"
  BY <1>1, <1>3, CreatedFresh
<1>7. \A u \in Ids : BornStatus(fs)[u] = IF Nth(u) \in Born(fs) THEN "run"
                                        ELSE IF Nth(u) \in DOMAIN fs THEN "done" ELSE status[u]
  BY DEF BornStatus
<1>8. /\ \A u \in Ids : u \notin Created(fs) /\ u # t => status'[u] = status[u]
      /\ \A u \in Ids : u \in Created(fs) => status'[u] \in {"run", "done"}
      /\ status'[t] \in {"run", "scope"}
  <2>1. DOMAIN BornStatus(fs) = Ids
    BY DEF BornStatus
  <2>2. \A u \in Ids : u # t => status'[u] = BornStatus(fs)[u]
    BY <1>2, <2>1
  <2>3. status'[t] \in {BornStatus(fs)[t], "scope"}
    BY <1>2, <2>1
  <2> QED
    BY <1>1, <1>6, <1>7, <2>2, <2>3 DEF Created, Running
<1>9. ASSUME NEW u \in Ids, u \notin Created(fs)
      PROVE  SameSleep(u)
  BY <1>1, <1>8, <1>9 DEF SameSleep, Asleep
<1>10. ASSUME NEW u \in Ids, u \notin Created(fs)
       PROVE  Stays(u) \/ Advances(u)
  <2>1. CASE frame' = WithNewFrames(fs, frame)
    <3>1. \A f \in Ids : frame[f] # NoFrame => frame'[f] = frame[f]
      BY <1>1, <1>3, <2>1, NewFramesOnly
    <3> QED
      BY <1>1, <1>9, <1>10, <3>1, OldStay
  <2>2. CASE frame' = Advance(frame, {t}) /\ u # t
    <3>1. \A f \in Ids : f # Top(t) => frame'[f] = frame[f]
      BY <2>2 DEF Advance
    <3> QED
      BY <1>1, <1>9, <1>10, <2>2, <3>1, OldStay
  <2>3. CASE remaining = {} /\ frame' = Advance(frame, {t}) /\ u = t
    <3> DEFINE j == Fr(t).pc + 1
               z == [frame[Top(t)] EXCEPT !.pc = @ + 1]
    <3>1. Top(t) \in Ids /\ Fr(t) = frame[Top(t)] /\ Fr(t) \in FrameState
      BY <1>1, TopAllocated DEF IInv, Fr
    <3>2. frame'[Top(t)] = z /\ \A f \in Ids : f # Top(t) => frame'[f] = frame[f]
      BY <2>3, <3>1 DEF Advance
    <3>3. z.fn = Fr(t).fn /\ z.ret = Fr(t).ret /\ z.pc = j
      BY <3>1 DEF FrameState
    <3> HIDE DEF z
    <3>4. At(z) = [At(Fr(t)) EXCEPT !.pc = j]
      <4> HIDE DEF j
      <4> QED
        BY <3>3 DEF At
    <3>5. \A i \in DOMAIN stack[t] : /\ stack[t][i] \in Ids
                                     /\ stack[t][i] = Top(t) <=> i = Len(stack[t])
      BY <1>1, ViewTyped, TopAllocated DEF IInv, FramesOwned, Top
    <3>6. stack'[t] = stack[t]
      <4>1. Nth(t) \notin Born(fs)
        BY <1>6 DEF Running
      <4> QED
        BY <1>1, <4>1 DEF CreateThreads
    <3>7. TopMoves(t, j)
      BY <3>2, <3>4, <3>5, <3>6 DEF TopMoves
    <3>8. j \in Nat \ {0} /\ j \in Goes(Op(t), Fr(t).pc)
      BY <1>1, <3>1 DEF FrameState, Goes
    <3>9. SameHeld(t) /\ status[t] \notin Asleep /\ status'[t] \notin Asleep
      BY <1>1, <1>8 DEF SameHeld, Asleep
    <3> HIDE DEF j
    <3> QED
      BY <1>1, <2>3, <3>7, <3>8, <3>9, AwakeAdvances
  <2> QED
    BY <1>2, <2>1, <2>2, <2>3
<1>11. \A u \in Ids : u \notin Created(fs) => Carries(prog, View(u), Due(u))'
  BY <1>1, <1>10, KeepsFit
<1>12. ASSUME NEW u \in Created(fs)
       PROVE  Carries(prog, View(u), Due(u))'
  <2>1. status'[u] \notin Asleep
    BY <1>8 DEF Asleep, Created
  <2> QED
    BY <1>1, <1>4, <1>5, <2>1, NewFits
<1> QED
  BY <1>11, <1>12 DEF LocksFit

-----------------------------------------------------------------------------
(* Every step *)

(* A return leaves the caller, or the thread. *)
LEMMA ReturnFits ==
  ASSUME IInv, WaitersStand, LocksFit, prog \in Validated, NEW t \in Ids,
         Return(t) \/ ImplicitReturn(t)
  PROVE  LocksFit'
<1>1. /\ status[t] = "run" /\ stack[t] # <<>>
      /\ ~Empty(prog, View(t)) => Stmt(prog, Last(View(t))).op = "return"
  BY ReturnsWhere
<1>2. (\E v : PopFrame(t, v)) \/ FinishThread(t)
  BY DEF Return, ImplicitReturn
<1> QED
  BY <1>1, <1>2, PopFits, FinishFits

(* No step brings a thread off the locks the passes found. *)
LEMMA StepFits ==
  ASSUME IInv, WaitersStand, LocksFit, prog \in Validated, ~Faulted, NEW t \in Ids, Step(t)
  PROVE  LocksFit'
<1>1. CASE QuietStep(t) \/ Join(t)
  <2>1. \A u \in Ids : Stays(u) \/ Advances(u)
    BY <1>1, QuietOnward DEF Onward
  <2>2. prog' = prog
    BY ProgramKept
  <2>3. \A u \in Ids : Carries(prog, View(u), Due(u))'
    BY <2>1, <2>2, KeepsFit
  <2> QED
    BY <2>3 DEF LocksFit
<1>2. \/ QuietStep(t) \/ Join(t) \/ CallBody(t) \/ Return(t) \/ ImplicitReturn(t)
      \/ Spawn(t) \/ ScopeStart(t)
  BY DEF Step, ControlStep, ThreadStep, QuietStep
<1> QED
  BY <1>1, <1>2, CallFits, ReturnFits, SpawnFits, ScopeStartFits

(* The locks a thread holds or gets back are the locks the passes found on its
   path.  That nobody is faulted is part of every step; that the passes stand
   for the program is part of it from the start, as no step changes it. *)
LEMMA LocksInvariant == Spec => [](prog \in Validated => LocksFit)
<1>1. Init => (prog \in Validated => LocksFit)
  <2> SUFFICES ASSUME Init, prog \in Validated, NEW u \in Ids
               PROVE  Carries(prog, View(u), Due(u))
    BY DEF LocksFit
  <2>1. Due(u) = {}
    <3>1. \A m \in Mutexes : mutex[m] = None
      BY DEF Init
    <3>2. status[u] \notin {"wait", "lock"}
      BY DEF Init
    <3> QED
      BY <3>1, <3>2, NotAnId DEF Due, Held, Away
  <2>2. CASE stack[u] = <<>>
    <3>1. DOMAIN stack[u] = {}
      BY <2>2
    <3>2. View(u) = <<>>
      BY <3>1 DEF View
    <3> QED
      BY <2>1, <3>2 DEF Carries
  <2>3. CASE stack[u] # <<>>
    <3> DEFINE y == At(Activation(Entry, NoReturn))
    <3>1. stack[u] = <<1>> /\ frame[1] = Activation(Entry, NoReturn)
      BY <2>3, LimitsAssumption DEF Init, Ids
    <3>2. Entry \in Functions /\ RequiresHeld[Entry] = {}
      BY FunctionsAssumption DEF Validated, Assumed
    <3>3. y \in Places /\ y.pc = 1 /\ y.fn = Entry
      BY <3>2 DEF At, Places, Activation, NoReturn, RetAddr, Destinations
    <3>4. View(u) = <<y>>
      <4>1. DOMAIN stack[u] = {1} /\ stack[u][1] = 1
        BY <3>1
      <4>2. View(u) = [i \in {1} |-> y]
        BY <3>1, <4>1 DEF View
      <4> HIDE DEF y
      <4>3. [i \in {1} |-> y] = <<y>>
        OBVIOUS
      <4> QED
        BY <4>2, <4>3
    <3> HIDE DEF y
    <3>5. Carries(prog, <<y>>, {})
      BY <3>2, <3>3, FirstCarries
    <3> QED
      BY <2>1, <3>4, <3>5
  <2> QED
    BY <2>2, <2>3
<1>2. /\ IInv /\ Named /\ (prog \in Validated => LocksFit) /\ [Next]_vars
      => (prog \in Validated => LocksFit)'
  <2>1. ASSUME IInv, Named, prog \in Validated => LocksFit, ~Faulted, NEW t \in Ids, Step(t)
        PROVE  (prog \in Validated => LocksFit)'
    <3>1. prog' = prog
      BY <2>1, ProgramKept
    <3>2. prog \in Validated => LocksFit'
      BY <2>1, StepFits DEF Named
    <3> QED
      BY <3>1, <3>2
  <2>2. ASSUME prog \in Validated => LocksFit, UNCHANGED vars
        PROVE  (prog \in Validated => LocksFit)'
    <3>1. /\ prog' = prog /\ status' = status /\ stack' = stack /\ frame' = frame
          /\ mutex' = mutex
      BY <2>2 DEF vars, threadVars, syncVars
    <3>2. \A u \in Ids : View(u)' = View(u) /\ Due(u)' = Due(u)
      BY <3>1 DEF View, Due, Held, Away, Op, Body, Fr, Top, At
    <3> QED
      BY <2>2, <3>1, <3>2 DEF LocksFit
  <2> QED
    BY <2>1, <2>2 DEF Next
<1> QED
  BY <1>1, <1>2, Invariant, NamedInvariant, PTL DEF Spec

(* A thread that is awake holds what is due to it. *)
LEMMA AwakeHolds ==
  ASSUME NEW u \in Ids, status[u] \notin Asleep
  PROVE  \A m \in Due(u) : Holds(u, m)
BY DEF Due, Held, Away, Asleep, Holds

(* A program the lock passes accept never unlocks a mutex, or waits with one,
   that its thread does not hold, and no thread of it ends with a mutex: what
   the passes find on the paths of single functions holds of every thread,
   through its calls and whatever the others do (E510, E511). *)
THEOREM NeverFaults == Spec => []ValidatedNeverFaults
<1>1. IInv /\ Named /\ (prog \in Validated => LocksFit) => ValidatedNeverFaults
  <2> SUFFICES ASSUME IInv, Named, LocksFit, prog \in Validated, NEW t \in Ids
               PROVE  /\ status[t] = "run" /\ Standing(t, {"unlock", "wait"}) => Holds(t, Op(t).m)
                      /\ status[t] = "done" => \A m \in Mutexes : ~Holds(t, m)
    BY DEF ValidatedNeverFaults
  <2>1. ASSUME status[t] = "run", Standing(t, {"unlock", "wait"})
        PROVE  Holds(t, Op(t).m)
    <3> DEFINE s == View(t)
               d == Due(t)
    <3>1. stack[t] # <<>> /\ AtStatement(t) /\ Op(t).op \in {"unlock", "wait"}
      BY <2>1 DEF Standing, AtStatement
    <3>2. /\ s \in Seq(Places) /\ s # <<>> /\ d \in SUBSET Mutexes /\ Carries(prog, s, d)
          /\ Last(s).pc = Fr(t).pc /\ prog[Last(s).fn] = Body(t) /\ Stmt(prog, Last(s)) = Op(t)
      BY <3>1, Here DEF Named
    <3>3. Last(s).pc \in DOMAIN prog[Last(s).fn]
      BY <3>1, <3>2 DEF AtStatement
    <3> HIDE DEF s, d
    <3>4. Op(t).m \in d
      BY <3>1, <3>2, <3>3, CarriesChecked
    <3> QED
      BY <2>1, <3>4, AwakeHolds DEF d, Asleep
  <2>2. ASSUME status[t] = "done"
        PROVE  \A m \in Mutexes : ~Holds(t, m)
    <3>1. stack[t] = <<>>
      BY <2>2 DEF IInv, FramesOwned, Live
    <3>2. View(t) = <<>>
      BY <3>1, ViewTyped
    <3>3. Due(t) = {}
      BY <3>2 DEF LocksFit, Carries
    <3> QED
      BY <3>3 DEF Due, Held, Holds
  <2> QED
    BY <2>1, <2>2
<1> QED
  BY <1>1, Invariant, NamedInvariant, LocksInvariant, PTL

-----------------------------------------------------------------------------
(* Who writes *)

(* write_dst changes its destination alone. *)
LEMMA PutSharedOnly ==
  ASSUME IInv, NEW x \in Shared, NEW dst, NEW v, PutShared(dst, v)[x] # shared[x]
  PROVE  x = dst
BY DEF PutShared, IInv, TypeOK

(* A thread that moves on acts. *)
LEMMA MovingActs ==
  ASSUME IInv, NEW ts \in SUBSET Ids, \A u \in ts : stack[u] # <<>>, NEW u \in ts,
         NEW r \in Ids, stack[r] # <<>>, NEW dst, NEW v, stack' = stack,
         frame' = Advance(Put(frame, Top(r), dst, v), ts)
  PROVE  Acts(u)
<1>1. frame' = Advance(frame, ts) \/ frame' = Advance(Put(frame, Top(r), dst, v), ts)
  OBVIOUS
<1>2. TopMoves(u, Fr(u).pc + 1)
  BY <1>1, AdvancePlaces
<1>3. Fr(u).pc \in Nat
  BY TopAllocated DEF IInv, FrameState
<1>4. At(Fr(u))' = [At(Fr(u)) EXCEPT !.pc = Fr(u).pc + 1]
  BY <1>2 DEF TopMoves, Fr, Top, At
<1>5. At(Fr(u))'.pc = Fr(u).pc + 1 /\ At(Fr(u)).pc = Fr(u).pc
  BY <1>4 DEF At
<1>6. Fr(u)' # Fr(u)
  <2> SUFFICES ASSUME Fr(u)' = Fr(u) PROVE FALSE
    OBVIOUS
  <2>1. At(Fr(u))' = At(Fr(u))
    BY DEF At
  <2> QED
    BY <1>3, <1>5, <2>1
<1> QED
  BY <1>6 DEF Acts

(* u writes x at its statement. *)
WritesHere(u, x) ==
  /\ status[u] \in {"run", "recv"} /\ AtStatement(u) /\ Acts(u)
  /\ x \in Accesses(Op(u)) \/ (Op(u).op = "cas" /\ x = Op(u).r)

(* The destination of an operation is among its accesses. *)
LEMMA DestinationAccessed ==
  ASSUME NEW o \in Operation, o.op \in {"assign", "load", "cas", "recv"}
  PROVE  o.dst \in Accesses(o)
<1>1. "dst" \in DOMAIN o
  BY DEF Operation, DataOp, SyncOp, ChannelOp, ThreadOp, ControlOp
<1> QED
  BY <1>1 DEF Accesses, Writes

(* Data operations write for their own thread. *)
LEMMA DataWriter ==
  ASSUME IInv, NEW t \in Ids, DataStep(t), NEW x \in Shared, shared'[x] # shared[x]
  PROVE  WritesHere(t, x)
<1> DEFINE o == Op(t)
           ts == {t}
<1>1. /\ AtStatement(t) /\ status[t] = "run" /\ stack[t] # <<>> /\ o \in Operation
      /\ o.op \in {"nop", "assign", "load", "store", "cas"}
  BY Executing DEF DataStep, Nop, AssignLocal, LoadShared, StoreShared, AtomicCas, Executes
<1>2. stack' = stack
  BY DEF DataStep, Nop, AssignLocal, LoadShared, StoreShared, AtomicCas, Assign, OnlyData, threadVars
<1>3. \/ \E v : o.op \in {"assign", "load"} /\ Assign(t, o.dst, v)
      \/ \E v : o.op = "store" /\ Assign(t, o.r, v)
      \/ o.op = "cas" /\ AtomicCas(t)
  BY DEF DataStep, Nop, AssignLocal, LoadShared, StoreShared, AtomicCas, Executes
<1>4. \E dst, v : frame' = Advance(Put(frame, Top(t), dst, v), ts)
  BY <1>3 DEF Assign, AtomicCas
<1>5. Acts(t)
  <2>1. ts \in SUBSET Ids /\ t \in ts /\ \A u \in ts : stack[u] # <<>>
    BY <1>1
  <2> HIDE DEF ts
  <2> QED
    BY <1>1, <1>2, <1>4, <2>1, MovingActs
<1>6. x \in Accesses(o) \/ (o.op = "cas" /\ x = o.r)
  <2>1. CASE \E v : o.op \in {"assign", "load"} /\ Assign(t, o.dst, v)
    <3>1. x = o.dst
      BY <2>1, PutSharedOnly DEF Assign
    <3> QED
      BY <1>1, <2>1, <3>1, DestinationAccessed
  <2>2. CASE \E v : o.op = "store" /\ Assign(t, o.r, v)
    <3>1. x = o.r
      BY <2>2, PutSharedOnly DEF Assign
    <3> QED
      BY <2>2, <3>1 DEF Accesses
  <2>3. CASE o.op = "cas" /\ AtomicCas(t) /\ x # o.r
    <3> DEFINE g == PutShared(o.dst, shared[o.r])
    <3>1. PICK new : shared' \in {g, [g EXCEPT ![o.r] = new]}
      BY <2>3 DEF AtomicCas
    <3>2. g[x] # shared[x]
      <4> DOMAIN g = Shared
        BY DEF PutShared, IInv, TypeOK
      <4> HIDE DEF g
      <4>1. shared'[x] = g[x]
        BY <2>3, <3>1
      <4> QED
        BY <4>1
    <3>3. x = o.dst
      BY <3>2, PutSharedOnly
    <3> QED
      BY <1>1, <2>3, <3>3, DestinationAccessed
  <2> QED
    BY <1>3, <2>1, <2>2, <2>3
<1> QED
  BY <1>1, <1>5, <1>6 DEF WritesHere

(* A value is delivered for the receiver. *)
LEMMA DeliverWriter ==
  ASSUME IInv, NEW r \in Ids, NEW t \in Ids, NEW v, Deliver(r, v, t), stack' = stack,
         stack[t] # <<>>, AtStatement(r), Op(r).op = "recv", status[r] \in {"run", "recv"},
         NEW x \in Shared, shared'[x] # shared[x]
  PROVE  WritesHere(r, x)
<1> DEFINE ts == {r, t}
           dst == Op(r).dst
<1>1. /\ ts \in SUBSET Ids /\ r \in ts /\ stack[r] # <<>> /\ \A u \in ts : stack[u] # <<>>
      /\ Op(r) \in Operation
  BY Executing
<1>2. frame' = Advance(Put(frame, Top(r), dst, v), ts)
  BY DEF Deliver
<1>3. x = dst
  BY PutSharedOnly DEF Deliver
<1>4. dst \in Accesses(Op(r))
  BY <1>1, DestinationAccessed
<1> HIDE DEF ts, dst
<1>5. Acts(r)
  BY <1>1, <1>2, MovingActs
<1> QED
  BY <1>3, <1>4, <1>5 DEF WritesHere

(* On a channel, who writes is the receiver: the thread itself, or the one it
   hands its value to. *)
LEMMA ChannelWriter ==
  ASSUME IInv, WaitersStand, NEW t \in Ids, ChannelStep(t) \/ ResumeRecv(t),
         NEW x \in Shared, shared'[x] # shared[x]
  PROVE  \E r \in Ids : WritesHere(r, x)
<1>1. CASE ChannelSend(t)
  <2> DEFINE c == Op(t).c
             v == Value(t, Op(t).e)
  <2>1. AtStatement(t) /\ stack[t] # <<>> /\ c \in Channels /\ status[t] = "run"
    BY <1>1, Executing, OpFields DEF ChannelSend, Executes
  <2>2. SendToReceiver(t, c, v)
    BY <1>1 DEF ChannelSend, SendBlocks, SendToBuffer
  <2> HIDE DEF c, v
  <2>3. PICK r \in recvq[c] : Deliver(r, v, t) /\ Wake({r})
    BY <2>2 DEF SendToReceiver
  <2>4. r \in Ids /\ status[r] = "recv"
    BY <2>1, <2>3 DEF IInv, WaitQueuesExact, Waiting
  <2>5. AtStatement(r) /\ Op(r).op = "recv"
    BY <2>4 DEF WaitersStand, Firm, Stands, Blocking
  <2>6. stack' = stack
    BY <2>3 DEF Wake
  <2>7. WritesHere(r, x)
    BY <2>1, <2>3, <2>4, <2>5, <2>6, DeliverWriter
  <2> QED
    BY <2>4, <2>7
<1>2. CASE ChannelRecv(t)
  <2> DEFINE c == Op(t).c
  <2>1. AtStatement(t) /\ stack[t] # <<>> /\ c \in Channels /\ status[t] = "run" /\ Op(t).op = "recv"
    BY <1>2, Executing, OpFields DEF ChannelRecv, Executes
  <2>2. RecvFromSender(t, c) \/ RecvFromBuffer(t, c)
    BY <1>2 DEF ChannelRecv, RecvBlocks
  <2> HIDE DEF c
  <2>3. PICK u \in Ids : stack[u] # <<>> /\ (\E v : Deliver(t, v, u)) /\ stack' = stack
    <3>1. CASE RecvFromSender(t, c)
      <4>1. PICK w \in sendq[c] : Deliver(t, w[2], w[1]) /\ Wake({w[1]})
        BY <3>1 DEF RecvFromSender
      <4>2. w[1] \in Waiting("send", c)
        BY <2>1, <4>1 DEF IInv, WaitQueuesExact
      <4>3. w[1] \in Ids /\ stack[w[1]] # <<>>
        BY <4>2 DEF Waiting, IInv, FramesOwned, Live
      <4> QED
        BY <4>1, <4>3 DEF Wake
    <3>2. CASE RecvFromBuffer(t, c)
      BY <2>1, <3>2 DEF RecvFromBuffer, threadVars
    <3> QED
      BY <2>2, <3>1, <3>2
  <2>4. WritesHere(t, x)
    BY <2>1, <2>3, DeliverWriter
  <2> QED
    BY <2>4
<1>3. CASE ResumeRecv(t)
  <2>1. status[t] = "recv" /\ (\E v : Deliver(t, v, t)) /\ stack' = stack
    BY <1>3 DEF ResumeRecv, Wake
  <2>2. AtStatement(t) /\ Op(t).op = "recv" /\ stack[t] # <<>>
    BY <2>1 DEF WaitersStand, Firm, Stands, Blocking, AtStatement
  <2>3. WritesHere(t, x)
    BY <2>1, <2>2, DeliverWriter
  <2> QED
    BY <2>3
<1> QED
  BY <1>1, <1>2, <1>3 DEF ChannelStep

(* A returning function writes what its caller assigns its value to. *)
WritesBack(t, x) ==
  /\ Return(t) \/ ImplicitReturn(t)
  /\ Len(stack[t]) > 1 /\ x = Fr(t).ret.dst /\ Acts(t)

(* A shared variable that changes is written at a statement, or by a return. *)
LEMMA Writer ==
  ASSUME IInv, WaitersStand, NEW t \in Ids, Step(t), NEW x \in Shared, shared'[x] # shared[x]
  PROVE  (\E u \in Ids : WritesHere(u, x)) \/ WritesBack(t, x)
<1>1. CASE DataStep(t)
  BY <1>1, DataWriter
<1>2. CASE ChannelStep(t) \/ ResumeRecv(t)
  BY <1>2, ChannelWriter
<1>3. CASE SyncStep(t) \/ ThreadStep(t) \/ ResumeLock(t) \/ ResumeSemaphore(t) \/ ResumeSend(t)
  BY <1>3 DEF SyncStep, MutexUnlock, MutexLock, CondvarWait, CondvarNotify, CondvarNotifyAll,
              SemaphoreAcquire, SemaphoreRelease, OnlySync, ThreadStep, Spawn, ScopeStart, Join,
              OnlyThreads, ResumeLock, ResumeSemaphore, ResumeSend
<1>4. CASE Goto(t) \/ Branch(t) \/ Switch(t) \/ CallTransparent(t) \/ CallBody(t)
  BY <1>4 DEF Goto, Branch, Switch, Jump, CallTransparent, CallBody
<1>5. CASE Return(t) \/ ImplicitReturn(t)
  <2>1. ~FinishThread(t)
    BY DEF FinishThread
  <2>2. PICK v : PopFrame(t, v)
    BY <1>5, <2>1 DEF Return, ImplicitReturn
  <2>3. x = Fr(t).ret.dst
    BY <2>2, PutSharedOnly DEF PopFrame
  <2>4. stack'[t] # stack[t] /\ Len(stack[t]) > 1
    <3> DEFINE q == stack[t]
               z == SubSeq(q, 1, Len(q) - 1)
               n == Len(q)
    <3>1. q \in Seq(Ids) /\ stack'[t] = z /\ n > 1
      BY <2>2 DEF PopFrame, Nested, IInv, TypeOK
    <3>2. Len(z) = n - 1 /\ n \in Nat
      BY <3>1
    <3> HIDE DEF q, z, n
    <3>3. Len(z) # n
      BY <3>2
    <3>4. z # q
      BY <3>3 DEF n
    <3> QED
      BY <3>1, <3>4 DEF q, n
  <2> QED
    BY <1>5, <2>3, <2>4 DEF WritesBack, Acts
<1> QED
  BY <1>1, <1>2, <1>3, <1>4, <1>5 DEF Step, ControlStep, Resume

(* In a program the lock passes accept a protected Var is read and written
   under its lock alone: by a thread at a statement, by a sender for a receiver
   that sleeps in its `recv`, and by a function that returns, for its caller
   (E309). *)
THEOREM Protected == Spec => ProtectedByLock
<1> DEFINE P == \A r \in DOMAIN Protection :
                  /\ \A t \in Ids :
                       /\ status[t] \in {"run", "recv"} /\ AtStatement(t) /\ r \in Accesses(Op(t))
                       => Holds(t, Protection[r])
                  /\ shared'[r] # shared[r] =>
                       \E t \in Ids : /\ Holds(t, Protection[r])
                                      /\ Acts(t)
<1>1. ASSUME IInv, WaitersStand, LocksFit, prog \in Validated, NEW r \in DOMAIN Protection,
             NEW t \in Ids, status[t] \in {"run", "recv"}, AtStatement(t), r \in Accesses(Op(t))
      PROVE  Holds(t, Protection[r])
  <2> DEFINE s == View(t)
             d == Due(t)
  <2>1. /\ s \in Seq(Places) /\ s # <<>> /\ d \in SUBSET Mutexes /\ Carries(prog, s, d)
        /\ Last(s).pc = Fr(t).pc /\ prog[Last(s).fn] = Body(t) /\ Stmt(prog, Last(s)) = Op(t)
    BY <1>1, Here DEF AtStatement
  <2>2. Last(s).pc \in DOMAIN prog[Last(s).fn]
    BY <1>1, <2>1 DEF AtStatement
  <2> HIDE DEF s, d
  <2>3. Protection[r] \in d
    BY <1>1, <2>1, <2>2, CarriesChecked
  <2>4. status[t] \notin Asleep
    BY <1>1 DEF Asleep
  <2> QED
    BY <2>3, <2>4, AwakeHolds DEF d
<1>2. ASSUME IInv, WaitersStand, LocksFit, prog \in Validated, NEW r \in DOMAIN Protection,
             NEW t \in Ids, WritesBack(t, r)
      PROVE  Holds(t, Protection[r])
  <2> DEFINE s == View(t)
             d == Due(t)
  <2>1. /\ status[t] = "run" /\ stack[t] # <<>>
        /\ ~Empty(prog, s) => Stmt(prog, Last(s)).op = "return"
    BY <1>2, ReturnsWhere DEF WritesBack
  <2>2. /\ s \in Seq(Places) /\ s # <<>> /\ d \in SUBSET Mutexes /\ Carries(prog, s, d)
        /\ Last(s).ret = Fr(t).ret
    BY <1>2, <2>1, Here
  <2>3. Len(s) > 1
    BY <1>2, ViewTyped DEF WritesBack
  <2>4. Last(s).ret.dst = r
    BY <1>2, <2>2 DEF WritesBack
  <2> HIDE DEF s, d
  <2>5. Protection[r] \in d
    BY <1>2, <2>1, <2>2, <2>3, <2>4, CarriesReturned
  <2>6. status[t] \notin Asleep
    BY <2>1 DEF Asleep
  <2> QED
    BY <2>5, <2>6, AwakeHolds DEF d
<1>3. ASSUME IInv, WaitersStand, LocksFit, prog \in Validated, NEW r \in DOMAIN Protection,
             NEW t \in Ids, Step(t), shared'[r] # shared[r]
      PROVE  \E u \in Ids : Holds(u, Protection[r]) /\ Acts(u)
  <2>1. r \in Shared
    BY LocksAssumption
  <2>2. CASE WritesBack(t, r)
    BY <1>2, <1>3, <2>2 DEF WritesBack
  <2>3. ASSUME NEW u \in Ids, WritesHere(u, r)
        PROVE  Holds(u, Protection[r]) /\ Acts(u)
    <3>1. Op(u).op = "cas" => Op(u).r # r
      <4> DEFINE f == Fr(u).fn
                 i == Fr(u).pc
      <4>1. f \in Functions /\ i \in DOMAIN prog[f] /\ Op(u) = prog[f][i]
        BY <1>3, <2>3, Executing DEF WritesHere, AtStatement, Body, Op
      <4>2. \A h \in Functions : \A k \in DOMAIN prog[h] :
              prog[h][k].op = "cas" => prog[h][k].r \notin DOMAIN Protection
        BY <1>3 DEF Validated, Assumed
      <4> HIDE DEF f, i
      <4> QED
        BY <1>3, <4>1, <4>2
    <3> QED
      BY <1>1, <1>3, <2>3, <3>1 DEF WritesHere
  <2> QED
    BY <1>3, <2>1, <2>2, <2>3, Writer
<1>4. ASSUME IInv, Named, prog \in Validated => LocksFit, [Next]_vars
      PROVE  prog \in Validated => P
  <2>1. ASSUME NEW r \in DOMAIN Protection, UNCHANGED vars
        PROVE  shared'[r] = shared[r]
    BY <2>1 DEF vars
  <2> QED
    BY <1>1, <1>3, <1>4, <2>1 DEF Next, Named
<1>5. IInv /\ Named /\ (prog \in Validated => LocksFit) /\ [Next]_vars
      => [(prog \in Validated) => P]_vars
  BY <1>4
<1> QED
  BY <1>5, Invariant, NamedInvariant, LocksInvariant, PTL DEF ProtectedByLock, Spec
=============================================================================
