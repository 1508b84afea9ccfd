------------------------------ MODULE Conform ------------------------------
(***************************************************************************)
(* `conform`: replay a recorded trace against the reference interpreter.   *)
(* It keeps a frontier of interpreter states, each with the thread every   *)
(* tag stands for.  Before an event it closes the frontier under the steps *)
(* that record nothing; then every state must take, from some entry, a     *)
(* step that the event may have recorded.                                  *)
(*                                                                         *)
(* The interpreter (module Interp) appears here as a function from a state *)
(* to its steps, on the statements of module Generated, without values.    *)
(***************************************************************************)
EXTENDS Generated, TLC

CONSTANT Modes       \* "sid", "lenient" (--lenient-unlock), "resource" (--op-resource)

VARIABLES frontier, verdict
cvars == <<frontier, verdict>>

(* What interpreter thread ids range over: they are given in order. *)
Main == 1
NoScopeOwner == 0

-----------------------------------------------------------------------------
(* Interpreter states: the threads not yet reclaimed, the resources, and the
   next identity to give. *)
NewThread(f, s) == [fn |-> f, pc |-> 1, status |-> "run", scope |-> s]
initial == [threads |-> (Main :> NewThread(Entry, NoScopeOwner)),
            mutex |-> [m \in Mutexes |-> NoScopeOwner],
            sem |-> Permits, len |-> [c \in Channels |-> 0], next |-> Main + 1]

OpAt(s, t)   == gprog[s.threads[t].fn][s.threads[t].pc]
Inside(s, t) == s.threads[t].pc \in DOMAIN gprog[s.threads[t].fn]
Runs(s, t)   == s.threads[t].status = "run"
Doing(s, t, k) == Inside(s, t) /\ OpAt(s, t).op = k
Blocked(s, why, k, r) ==
  {t \in DOMAIN s.threads :
     s.threads[t].status = why /\ Doing(s, t, k) /\ ResourceOf(OpAt(s, t)) = r}

(* advance the threads of a set, which all run afterwards *)
Moved(s, ts) ==
  [s EXCEPT !.threads = [t \in DOMAIN @ |->
     IF t \in ts THEN [@[t] EXCEPT !.pc = @ + 1, !.status = "run"] ELSE @[t]]]
Waits(s, t, why) == [s EXCEPT !.threads[t].status = why]

(* A thread whose scope ends with it reclaims the members and resumes the owner. *)
Finish(s, t) ==
  LET done    == [s EXCEPT !.threads[t].status = "done", !.threads[t].pc = 0]
      o       == s.threads[t].scope
      members == {u \in DOMAIN s.threads : done.threads[u].scope = o}
  IN  IF o = NoScopeOwner \/ \E u \in members : done.threads[u].status # "done"
      THEN done
      ELSE Moved([done EXCEPT !.threads =
                    [u \in DOMAIN s.threads \ members |-> done.threads[u]]], {o})

Open(s, t, fs) ==
  [Waits(s, t, "scope") EXCEPT
     !.threads = [u \in s.next .. s.next + Len(fs) - 1 |-> NewThread(fs[u - s.next + 1], t)] @@ @,
     !.next = @ + Len(fs)]

(* successors() of a runnable thread. *)
ExecStep(s, t) ==
  IF ~Inside(s, t) THEN {Finish(s, t)} ELSE
  LET o == OpAt(s, t) IN
  CASE o.op = "nop"    -> {Moved(s, {t})}
    [] o.op = "return" -> {Finish(s, t)}
    [] o.op = "lock"   -> {IF s.mutex[o.m] = NoScopeOwner
                           THEN [Moved(s, {t}) EXCEPT !.mutex[o.m] = t] ELSE Waits(s, t, "lock")}
    [] o.op = "unlock" -> {[Moved(s, {t}) EXCEPT !.mutex[o.m] = NoScopeOwner]}
    [] o.op = "wait"   -> {[Waits(s, t, "wait") EXCEPT !.mutex[o.m] = NoScopeOwner]}
    [] o.op = "notify" ->
         LET ws == Blocked(s, "wait", "wait", o.cv) IN
         IF ws = {} THEN {Moved(s, {t})} ELSE {Waits(Moved(s, {t}), w, "lock") : w \in ws}
    [] o.op = "notify_all" ->
         LET ws == Blocked(s, "wait", "wait", o.cv) IN
         {[Moved(s, {t}) EXCEPT !.threads =
             [u \in DOMAIN @ |-> IF u \in ws THEN [@[u] EXCEPT !.status = "lock"] ELSE @[u]]]}
    [] o.op = "acquire" -> {IF s.sem[o.s] >= o.n THEN [Moved(s, {t}) EXCEPT !.sem[o.s] = @ - o.n]
                                                 ELSE Waits(s, t, "acquire")}
    [] o.op = "release" -> {[Moved(s, {t}) EXCEPT !.sem[o.s] = @ + o.n]}
    [] o.op = "send" ->
         LET rs == Blocked(s, "recv", "recv", o.c) IN
         IF Capacity[o.c] = 0
         THEN IF rs = {} THEN {Waits(s, t, "send")} ELSE {Moved(s, {t, r}) : r \in rs}
         ELSE {IF s.len[o.c] < Capacity[o.c] THEN [Moved(s, {t}) EXCEPT !.len[o.c] = @ + 1]
                                             ELSE Waits(s, t, "send")}
    [] o.op = "recv" ->
         LET ss == Blocked(s, "send", "send", o.c) IN
         IF Capacity[o.c] = 0
         THEN IF ss = {} THEN {Waits(s, t, "recv")} ELSE {Moved(s, {t, r}) : r \in ss}
         ELSE {IF s.len[o.c] > 0 THEN [Moved(s, {t}) EXCEPT !.len[o.c] = @ - 1]
                                 ELSE Waits(s, t, "recv")}
    [] o.op = "scope" -> {Open(s, t, o.fs)}

(* ... and of a blocked one. A notified waiter asks for the mutex of its wait. *)
ResumeStep(s, t) ==
  LET o == OpAt(s, t)
      why == s.threads[t].status
  IN
  CASE why = "lock" /\ s.mutex[o.m] = NoScopeOwner -> {[Moved(s, {t}) EXCEPT !.mutex[o.m] = t]}
    [] why = "acquire" /\ s.sem[o.s] >= o.n -> {[Moved(s, {t}) EXCEPT !.sem[o.s] = @ - o.n]}
    [] why = "send" /\ s.len[o.c] < Capacity[o.c] -> {[Moved(s, {t}) EXCEPT !.len[o.c] = @ + 1]}
    [] why = "recv" /\ s.len[o.c] > 0 -> {[Moved(s, {t}) EXCEPT !.len[o.c] = @ - 1]}
    [] OTHER -> {}

StepsOf(s, t) == IF Runs(s, t) THEN ExecStep(s, t) ELSE ResumeStep(s, t)

(* E510 and E511: one thread's error leaves the state without successors. *)
Faults(s) ==
  \E t \in DOMAIN s.threads :
    /\ Runs(s, t) /\ Inside(s, t)
    /\ OpAt(s, t).op \in {"unlock", "wait"} /\ s.mutex[OpAt(s, t).m] # t

(* A step: the thread that takes it, and the state it leads to. *)
successors(s) ==
  IF Faults(s) THEN {}
  ELSE UNION {{<<t, n>> : n \in StepsOf(s, t)} : t \in DOMAIN s.threads}

-----------------------------------------------------------------------------
(* Entries of the frontier *)

Entry0 == [s |-> initial, tags |-> (MainTag :> Main)]

(* state_key names threads by their rank among those that exist. *)
Rank(s, t) == Cardinality({u \in DOMAIN s.threads : u <= t})
RankOrNone(s, t) == IF t \in DOMAIN s.threads THEN Rank(s, t) ELSE 0
WithoutOwners(s) ==                                               \* mutant
  [threads |-> {<<Rank(s, t), s.threads[t].fn, s.threads[t].pc, s.threads[t].status>>
                  : t \in DOMAIN s.threads},
   sem |-> s.sem, len |-> s.len]
state_key(s) ==
  [threads |-> {<<Rank(s, t), s.threads[t].fn, s.threads[t].pc, s.threads[t].status,
                  RankOrNone(s, s.threads[t].scope)>> : t \in DOMAIN s.threads},
   mutex |-> [m \in Mutexes |-> RankOrNone(s, s.mutex[m])],
   sem |-> s.sem, len |-> s.len]

(* The thread of an identity the key gives every thread. *)
TagsByRank(e) == [t \in DOMAIN e.tags |-> RankOrNone(e.s, e.tags[t])]

(* The first entry of each key stays. *)
Deduplicated(E) ==
  {CHOOSE e \in E : state_key(e.s) = k : k \in {state_key(e.s) : e \in E}}

(* new_tags_for_step: the threads that are new take the tags of the statement,
   in order. *)
TagsAfter(e, t, n) ==
  LET new == DOMAIN n.threads \ DOMAIN e.s.threads
      pc  == e.s.threads[t].pc
      f   == e.s.threads[t].fn
  IN  [tag \in {<<f, pc, u - e.s.next + 1>> : u \in new} |-> e.s.next + tag[3] - 1] @@ e.tags
After(e, step) == [s |-> step[2], tags |-> TagsAfter(e, step[1], step[2])]

-----------------------------------------------------------------------------
(* Events and steps *)

thread_advanced(s, t, n) ==
  t \in DOMAIN n.threads => n.threads[t].pc > s.threads[t].pc

event_capable(mode, s, step) ==
  LET t == step[1] IN
  /\ Inside(s, t) /\ is_observable(OpAt(s, t))
  /\ ~(mode = "resource" /\ OpAt(s, t).op = "scope")
  /\ IF event_at_attempt(OpAt(s, t)) THEN Runs(s, t) ELSE thread_advanced(s, t, step[2])

NeverSkippable(mode, s, step) == FALSE                              \* mutant
lenient_skippable(mode, s, step) ==
  mode = "lenient" /\ OpAt(s, step[1]).op = "unlock"

Silent(mode, s, step) ==
  event_capable(mode, s, step) => lenient_skippable(mode, s, step)

(* silent_expand *)
RECURSIVE silent_expand(_, _)
silent_expand(mode, E) ==
  LET keys == {state_key(e.s) : e \in E}
      new  == {n \in UNION {{After(e, step) : step \in {x \in successors(e.s) : Silent(mode, e.s, x)}}
                              : e \in E} : state_key(n.s) \notin keys}
  IN  IF new = {} THEN E ELSE silent_expand(mode, Deduplicated(new) \union E)

SidOf(s, t) == Sid(s.threads[t].fn, s.threads[t].pc)
statement_matches(mode, s, t, ev) ==
  IF mode = "resource" THEN OpAt(s, t).op = ev.op /\ ResourceOf(OpAt(s, t)) = ev.r
                       ELSE SidOf(s, t) = ev.sid

AnyThreadMatches(mode, e, ev) ==                                    \* mutant
  {step \in successors(e.s) : /\ event_capable(mode, e.s, step)
                              /\ statement_matches(mode, e.s, step[1], ev)}
(* In the mode without sids the event's tag says nothing. *)
MatchingSteps(mode, e, ev) ==
  {step \in successors(e.s) :
     /\ event_capable(mode, e.s, step)
     /\ mode # "resource" => ev.tag \in DOMAIN e.tags /\ step[1] = e.tags[ev.tag]
     /\ statement_matches(mode, e.s, step[1], ev)}

(* The entries after an event, before those with equal keys are merged. *)
Candidates(mode, E, ev) ==
  UNION {{After(e, step) : step \in MatchingSteps(mode, e, ev)} : e \in E}

AllObservable == {x \in UNION {StatementsOf(f) : f \in Functions} :
                    is_observable(gprog[x[1]][x[2]])}
Known(mode, ev) ==
  IF mode = "resource"
  THEN \E x \in AllObservable : LET o == gprog[x[1]][x[2]] IN o.op = ev.op /\ ResourceOf(o) = ev.r
  ELSE ev.sid \in AllObservable
(* The v2 events also name their operation and resource. *)
Binds(mode, ev) ==
  mode # "resource" =>
    LET o == gprog[ev.sid[1]][ev.sid[2]] IN o.op = ev.op /\ ResourceOf(o) = ev.r

(* States in which only main is left, for the ops it does after its last join. *)
MainOnly(E) == {e \in E : Cardinality(DOMAIN e.s.threads) <= 1}

(* One event against the frontier of one mode: the new frontier, or {} *)
Advance(mode, E, ev) ==
  LET next == Candidates(mode, E, ev) IN
  IF next # {} THEN Deduplicated(next)
  ELSE IF mode = "resource" THEN MainOnly(E) ELSE {}

Verdict(mode, ev, after) ==
  IF ~Known(mode, ev) THEN IF mode = "resource" THEN "violation" ELSE "unknown_sid"
  ELSE IF ~Binds(mode, ev) \/ after = {} THEN "violation" ELSE "conformant"

CInit ==
  /\ frontier = [mode \in Modes |-> {Entry0}]
  /\ verdict = [mode \in Modes |-> "conformant"]

(* The first event that does not match ends the replay. *)
Consume(modes, ev) ==
  \E after \in {[mode \in Modes |->
                   IF mode \notin modes \/ verdict[mode] # "conformant" THEN frontier[mode]
                   ELSE Advance(mode, silent_expand(mode, frontier[mode]), ev)]} :
    /\ frontier' = after
    /\ verdict' = [mode \in Modes |->
                     IF mode \notin modes \/ verdict[mode] # "conformant" THEN verdict[mode]
                     ELSE Verdict(mode, ev, after[mode])]
=============================================================================
