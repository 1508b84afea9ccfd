----------------------------- MODULE Monitored -----------------------------
(***************************************************************************)
(* A generated program runs and `monitor` reads its events as they are     *)
(* recorded. Beside what the monitor makes of them stands what was really  *)
(* so in the program.                                                      *)
(***************************************************************************)
EXTENDS Generated, TraceMonitor, FiniteSetsExt

CONSTANTS
  NameOf,        \* the name each resource has in the events
  ContractName   \* ... and in the contract

VARIABLE
  witnessed      \* what each clause's predicate really was so far

(* The contract names every lock, semaphore and channel, and the name each has
   in the events is aligned: by hand, as it is, in main, or because no other
   name ends like it. *)
Holdable == Mutexes \union Semaphores
ASSUME NamesAssumption ==
  /\ Mutexes \cap Semaphores = {} /\ Holdable \cap Channels = {}
  /\ \A r, q \in Holdable \union Channels : ContractName[r] = ContractName[q] => r = q
  /\ Holdable \union Channels \subseteq DOMAIN ContractName
  /\ Unaligned \notin Contract
  /\ \A r \in Holdable \union Channels :
       LET n == NameOf[r]
           c == ContractName[r]
       IN  /\ c \in Contract
           /\ \/ n \in DOMAIN Overrides /\ Overrides[n] = c
              \/ n \notin DOMAIN Overrides /\ n = c
              \/ /\ n \notin DOMAIN Overrides \union Contract /\ n.mod = ""
                 /\ IF InMain(n) \in Contract THEN c = InMain(n)
                    ELSE {x \in Contract : x.name = n.name} = {c}

(* `and` and `or` have a list of operands. *)
ASSUME ClausesAssumption ==
  \A c \in Clauses : c.pred.k \in {"and", "or"} =>
    Len(c.pred.ps) \in Nat /\ DOMAIN c.pred.ps = 1..Len(c.pred.ps)

-----------------------------------------------------------------------------
(* What is really so in the program *)

Body(t) == gprog[thread[t].fn]
PermitsOf(b, s, op, I) ==
  MapThenSumSet(LAMBDA i : b[i].n, {i \in I : b[i].op = op /\ b[i].s = s})
(* ... when the first i operations took theirs and those before j gave theirs *)
Balance(b, s, i, j) ==
  PermitsOf(b, s, "acquire", 1..i) - PermitsOf(b, s, "release", 1..(j - 1))
PermitsHeld(t, s) ==
  Balance(Body(t), s, IF thread[t].stage = "taken" THEN thread[t].pc ELSE thread[t].pc - 1,
          thread[t].pc)

Named(c) == CHOOSE r \in Holdable : ContractName[r] = c
RealHolders(c) ==
  IF Named(c) \in Mutexes THEN {owner[Named(c)]} \ {NoOwner}
                          ELSE {t \in DOMAIN thread : PermitsHeld(t, Named(c)) > 0}
ReallyHoldsAll(rs) == \E t \in DOMAIN thread : \A r \in rs : t \in RealHolders(r)

RealAtom(p) ==
  CASE p.k = "mutex_exclusive" -> Cardinality(RealHolders(p.r)) <= 1
    [] p.k = "mutex_free"      -> RealHolders(p.r) = {}
    [] p.k = "mutex_held"      -> RealHolders(p.r) # {}
    [] p.k = "holds_all"       -> ReallyHoldsAll(p.rs)
    [] p.k = "never_holds_all" -> ~ReallyHoldsAll(p.rs)
Real(p) ==
  CASE p.k = "not" -> ~RealAtom(p.of)
    [] p.k = "and" -> \A i \in DOMAIN p.ps : RealAtom(p.ps[i])
    [] p.k = "or"  -> \E i \in DOMAIN p.ps : RealAtom(p.ps[i])
    [] OTHER       -> RealAtom(p)

-----------------------------------------------------------------------------
Witness == witnessed' = [c \in Clauses |-> witnessed[c] \union {Real(c.pred)'}]

MonitoredInit == GInit /\ MInit /\ witnessed = [c \in Clauses |-> {Real(c.pred)}]

MonitoredStep ==
  /\ GNext
  /\ \/ event' = NoEvent /\ UNCHANGED mvars
     \/ event' # NoEvent /\ Replay(event'.tag, event'.op, NameOf[event'.r])
  /\ Witness

MonitoredSpec == MonitoredInit /\ [][MonitoredStep]_<<gvars, mvars, witnessed>>

-----------------------------------------------------------------------------
(* Programs whose events tell who holds what: without condvar waits, since a
   wait records no release and a waiter still counts as a holder; whose
   functions unlock what they locked before they return, for a guard that is
   dropped there records nothing; and whose threads, while they have recorded
   an acquire and no release since, have permits left. *)
Waitless == \A f \in Functions : \A i \in DOMAIN gprog[f] : gprog[f][i].op # "wait"

(* From an acquisition of r at a to j nothing gives r back. *)
StillOpen(b, r, a, j) ==
  /\ b[a].op \in {"lock", "acquire"} /\ ResourceOf(b[a]) = r
  /\ \A k \in (a + 1)..(j - 1) : b[k].op \in {"unlock", "release"} => ResourceOf(b[k]) # r
Exits(b) == {j \in 1..(Len(b) + 1) : j = Len(b) + 1 \/ b[j].op = "return"}
GuardsReturned ==
  \A f \in Functions : \A m \in Mutexes, j \in Exits(gprog[f]) :
    \A a \in 1..(j - 1) : ~StillOpen(gprog[f], m, a, j)
PermitsCovered ==
  \A f \in Functions : \A s \in Semaphores, j \in 1..(Len(gprog[f]) + 1) :
    (\E a \in 1..(j - 1) : StillOpen(gprog[f], s, a, j)) =>
      /\ Balance(gprog[f], s, j - 1, j) > 0
      /\ j \in DOMAIN gprog[f] => Balance(gprog[f], s, j, j) > 0

(* A clause whose atoms all become true as more is held, or all false *)
Rising  == {"mutex_held", "holds_all"}
Falling == {"mutex_free", "mutex_exclusive", "never_holds_all"}
AtomOf(p, kinds) ==
  /\ p.k \in kinds
  /\ LET named == IF p.k \in {"holds_all", "never_holds_all"} THEN p.rs ELSE {p.r} IN
     named # {} /\ named \subseteq {ContractName[r] : r \in Holdable}
Turns(p, kinds, others) ==
  CASE p.k = "not"           -> AtomOf(p.of, others)
    [] p.k \in {"and", "or"} -> Len(p.ps) > 0 /\ \A i \in DOMAIN p.ps : AtomOf(p.ps[i], kinds)
    [] OTHER                 -> AtomOf(p, kinds)
Monotone(p) == Turns(p, Rising, Falling) \/ Turns(p, Falling, Rising)

(* In such a program a FAIL of `monitor` is a state the program was really in,
   and so is what it claims to have reached: a thread it believes to hold
   something does hold it, whatever was recorded when (monitor.rs replay). *)
VerdictsReal ==
  (Waitless /\ GuardsReturned /\ PermitsCovered) =>
    \A c \in Clauses : Monotone(c.pred) =>
      /\ c.kind \in {"safety", "always"} /\ ResultFor(c) = "FAIL" => FALSE \in witnessed[c]
      /\ ModeOf(c.kind) = "Exists" /\ ResultFor(c) = "PASS_bounded" => TRUE \in witnessed[c]

(* The monitor's count of a channel is its contents, up to the operations that
   are recorded and not yet done. *)
InFlight(k, c) == Cardinality(OnChannel(k, c, {"recorded", "asleep", "woken"}))
ChannelCountExact ==
  \A c \in Channels :
    LET r == ContractName[c] IN
    r \in DOMAIN chan => chan[r] = Len(queue[c]) + InFlight("send", c) - InFlight("recv", c)
=============================================================================
