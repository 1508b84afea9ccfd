---------------------------- MODULE TraceMonitor ----------------------------
(***************************************************************************)
(* `monitor`: from a trace alone, who holds what and how full the channels *)
(* are, after every event, and from that what the contract's clauses come  *)
(* to over the observed states.  Several traces add up: their observations *)
(* are united.                                                             *)
(*                                                                         *)
(* A resource name is a module and a short name; the names of the program  *)
(* may lack the module.  Not modelled: function_completed, which no event  *)
(* of a scope can decide, and the reading of the JSON files.               *)
(***************************************************************************)
EXTENDS Integers, FiniteSets, Sequences

CONSTANTS
  Contract,       \* the names the contract mentions
  Overrides,      \* the hand-written mapping, of some names
  Unaligned,      \* the name of what the contract does not mention
  Clauses         \* the contract's properties: [kind, pred]

VARIABLES
  held,           \* tags that hold each contract resource
  chan,           \* sends minus receives of the channels seen
  seen,           \* contract resources seen in an event
  observed        \* what each clause's predicate evaluated to so far

mvars == <<held, chan, seen, observed>>

-----------------------------------------------------------------------------
(* align_resources: an override, the name itself, the name in main, or the
   first contract name that ends in it. *)
InMain(n) == [mod |-> "main", name |-> n.name]
SuffixFirst(n) ==                                                   \* mutant
  LET same == {c \in Contract : c.name = n.name} IN
  IF same = {} THEN Unaligned ELSE CHOOSE c \in same : TRUE
Align(n) ==
  LET same == {c \in Contract : c.name = n.name} IN
  IF n \in DOMAIN Overrides
  THEN IF Overrides[n] \in Contract THEN Overrides[n] ELSE Unaligned
  ELSE IF n \in Contract THEN n
  ELSE IF n.mod = "" /\ InMain(n) \in Contract THEN InMain(n)
  ELSE IF n.mod = "" /\ same # {} THEN CHOOSE c \in same : TRUE
  ELSE Unaligned

-----------------------------------------------------------------------------
(* eval_predicate: TRUE, FALSE, or why it cannot be decided *)

Holders(r) == IF r \in DOMAIN held THEN held[r] ELSE {}
HoldsAll(rs) == \E t \in UNION {Holders(r) : r \in rs} : \A r \in rs : t \in Holders(r)
resource_seen(r) == r \in seen \union DOMAIN chan
If(known, value) == IF known THEN IF value THEN "true" ELSE "false" ELSE "unmapped"

Atom(p) ==
  CASE p.k = "mutex_exclusive" -> If(resource_seen(p.r), Cardinality(Holders(p.r)) <= 1)
    [] p.k = "mutex_free"      -> If(resource_seen(p.r), Holders(p.r) = {})
    [] p.k = "mutex_held"      -> If(resource_seen(p.r), Holders(p.r) # {})
    [] p.k = "holds_all"       -> If(\A r \in p.rs : resource_seen(r), HoldsAll(p.rs))
    [] p.k = "never_holds_all" -> If(\A r \in p.rs : resource_seen(r), ~HoldsAll(p.rs))
    [] p.k = "channel_empty"   -> If(p.r \in DOMAIN chan, chan[p.r] <= 0)
    [] p.k = "channel_at_least" -> If(p.r \in DOMAIN chan, chan[p.r] >= p.n)
    [] OTHER                   -> "unsupported"

Decided == {"true", "false"}
Negated(v) == CASE v = "true" -> "false" [] v = "false" -> "true" [] OTHER -> v

(* `and` and `or` evaluate their operands in order, up to the first that
   cannot be decided. *)
FirstUndecided(vs) == vs[CHOOSE i \in DOMAIN vs : /\ vs[i] \notin Decided
                                                  /\ \A j \in 1 .. i - 1 : vs[j] \in Decided]
All(vs) == IF \E i \in DOMAIN vs : vs[i] \notin Decided THEN FirstUndecided(vs)
           ELSE IF \A i \in DOMAIN vs : vs[i] = "true" THEN "true" ELSE "false"
Some(vs) == IF \E i \in DOMAIN vs : vs[i] \notin Decided THEN FirstUndecided(vs)
            ELSE IF \E i \in DOMAIN vs : vs[i] = "true" THEN "true" ELSE "false"

eval_predicate(p) ==
  CASE p.k = "not" -> Negated(Atom(p.of))
    [] p.k = "and" -> All([i \in DOMAIN p.ps |-> Atom(p.ps[i])])
    [] p.k = "or"  -> Some([i \in DOMAIN p.ps |-> Atom(p.ps[i])])
    [] OTHER       -> Atom(p)

-----------------------------------------------------------------------------
(* replay *)

Observes == observed' = [c \in Clauses |-> observed[c] \union {eval_predicate(c.pred)'}]

MInit ==
  /\ held = << >> /\ chan = << >> /\ seen = {}
  /\ observed = [c \in Clauses |-> {eval_predicate(c.pred)}]

(* entry(r).or_default() *)
CountsFromZero(f, r, zero) == zero                                  \* mutant
At0(f, r, zero) == IF r \in DOMAIN f THEN f[r] ELSE zero
Put0(f, r, v)   == [x \in DOMAIN f \union {r} |-> IF x = r THEN v ELSE f[x]]

Removed(tag, r) ==
  IF r \in DOMAIN held THEN [held EXCEPT ![r] = @ \ {tag}] ELSE held

Replay(tag, op, name) ==
  \E r \in {Align(name)} :
  /\ seen' = seen \union ({r} \ {Unaligned})
  /\ held' = CASE r # Unaligned /\ op \in {"lock", "acquire"}   -> Put0(held, r, At0(held, r, {}) \union {tag})
               [] r # Unaligned /\ op \in {"unlock", "release"} -> Removed(tag, r)
               [] OTHER                                         -> held
  /\ chan' = CASE r # Unaligned /\ op = "send" -> Put0(chan, r, At0(chan, r, 0) + 1)
               [] r # Unaligned /\ op = "recv" -> Put0(chan, r, At0(chan, r, 0) - 1)
               [] OTHER                        -> chan
  /\ Observes

-----------------------------------------------------------------------------
(* predicate_status and result_for *)

Status(vs, mode) ==
  IF mode = "ForAll" /\ "false" \in vs                  THEN "FAIL"
  ELSE IF "unmapped" \in vs /\ "true" \notin vs         THEN "unmapped"
  ELSE IF "unsupported" \in vs /\ "true" \notin vs      THEN "unsupported"
  ELSE IF mode = "ForAll" \/ "true" \in vs              THEN "PASS_bounded"
  ELSE "not_observed"

ModeOf(kind) ==
  IF kind \in {"safety", "always", "unreachable"} THEN "ForAll" ELSE "Exists"
ResultFor(c) ==
  IF c.kind = "deadlock_free" THEN "deferred" ELSE Status(observed[c], ModeOf(c.kind))
=============================================================================
