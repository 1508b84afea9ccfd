----------------------------- MODULE TraceProps -----------------------------
(* What generated programs, `conform` and `monitor` promise one another. *)
EXTENDS TraceCheck

(* `conform` accepts, in each mode, whatever the generated program records: the
   record is one append before or after the operation, other threads run in
   between, and the interpreter must nevertheless have a path through the
   events in that order (codegen.rs event_at_attempt, conform.rs advance). *)
Accepted ==
  source = "program" => \A mode \in Modes : verdict[mode] = "conformant"

(* When a generated program can do nothing more, some state of the frontier
   is at rest too, and the program has ended exactly if that state has: the
   runtime loses no wake-up the interpreter does not lose. *)
Blocks(e) == {tag \in DOMAIN e.tags : /\ e.tags[tag] \in DOMAIN e.s.threads
                                      /\ e.s.threads[e.tags[tag]].status # "done"}
AtRest(e) == successors(e.s) = {} /\ ~Faults(e.s)
RestMatches ==
  (source = "program" /\ verdict["sid"] = "conformant" /\ ~ENABLED GNext) =>
    \E e \in silent_expand("sid", frontier["sid"]) :
      AtRest(e) /\ Blocks(e) = {t \in DOMAIN thread : thread[t].stage # "returned"}

(* The search keeps one state of each key and drops the others, each with its
   own identities and its own map from tags to threads (conform.rs:275). Those
   with one key differ in nothing but the numbers: the maps name the same
   threads, and the same threads have steps to states with the same keys. *)
StepKeys(s) == {<<Rank(s, step[1]), state_key(step[2])>> : step \in successors(s)}
KeysAreExact ==
  event # NoEvent =>
    LET nexts == UNION {{After(e, step) : step \in successors(e.s)}
                          : e \in silent_expand("resource", frontier["resource"])}
    IN  Cardinality({<<state_key(n.s), TagsByRank(n), StepKeys(n.s)>> : n \in nexts})
        = Cardinality({state_key(n.s) : n \in nexts})

-----------------------------------------------------------------------------
(* What the events recorded so far allow to conclude, whoever recorded them *)

Count(tag, ops, r) ==
  Cardinality({k \in Past(tag) : LET o == OpOf(Script(tag)[k]) IN
                                 o.op \in ops /\ ResourceOf(o) = r})
Total(ops, r) == MapThenSumSet(LAMBDA tag : Count(tag, ops, r), Tags)
Permitted(op, s) ==
  MapThenSumSet(LAMBDA tag : MapThenSumSet(
    LAMBDA k : LET o == OpOf(Script(tag)[k]) IN
               IF o.op = op /\ ResourceOf(o) = s THEN o.n ELSE 0, Past(tag)), Tags)

(* The next statement waits on m: the mutex may be released already. *)
MayWait(tag, m) ==
  /\ done[tag] + 1 \in DOMAIN Script(tag)
  /\ LET o == OpOf(Script(tag)[done[tag] + 1]) IN o.op = "wait" /\ o.m = m
SurelyHolds(tag, m) ==
  Count(tag, {"lock"}, m) > Count(tag, {"unlock"}, m) /\ ~MayWait(tag, m)

(* A channel operation is recorded before it is done; it is done once the
   thread has recorded something else. *)
Passed(op, c) ==
  MapThenSumSet(LAMBDA tag :
    Cardinality({k \in Past(tag) : LET o == OpOf(Script(tag)[k]) IN
                   o.op = op /\ ResourceOf(o) = c /\ k < done[tag]}), Tags)

Parent(tag) == CHOOSE p \in Tags : FunctionOf(p) = tag[1]
StartedByScope(tag) ==
  \E k \in Past(Parent(tag)) : Script(Parent(tag))[k] = <<tag[1], tag[2]>>
Everything(tag) == done[tag] = Len(Script(tag))

(* A trace `conform` accepts is legal, be it recorded by a program or made up:
   statements in each thread's order, children only between their scope and
   its end, a mutex held by one thread at a time, no permit given twice, no
   wait returning without a notification, and no channel over its capacity. *)
TraceLegal ==
  verdict["sid"] = "conformant" =>
    /\ ordered
    /\ \A tag \in Tags \ {MainTag} :
         /\ done[tag] > 0 => StartedByScope(tag)
         /\ LET p == Parent(tag) IN
            \A k \in Past(p) : (k < done[p] /\ Script(p)[k] = <<tag[1], tag[2]>>) => Everything(tag)
    /\ \A m \in Mutexes : Cardinality({tag \in Tags : SurelyHolds(tag, m)}) <= 1
    /\ \A s \in Semaphores : Permitted("acquire", s) <= Permits[s] + Permitted("release", s)
    /\ \A cv \in Condvars :
         Total({"wait"}, cv) <= Total({"notify"}, cv) + Cardinality(Tags) * Total({"notify_all"}, cv)
    /\ \A c \in Channels :
         /\ Passed("send", c) <= Total({"recv"}, c) + Capacity[c]
         /\ Passed("recv", c) <= Total({"send"}, c)

-----------------------------------------------------------------------------
(* A clause "bad is unreachable" that FAILs has observed a bad state; the
   detail of the result says so (monitor.rs:484). *)
UnreachableFailReal ==
  source = "program" =>
    \A c \in Clauses :
      c.kind = "unreachable" /\ ResultFor(c) = "FAIL" => "true" \in observed[c]
=============================================================================
