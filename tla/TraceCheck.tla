----------------------------- MODULE TraceCheck -----------------------------
(***************************************************************************)
(* A generated program runs, and its events go, as they are recorded, to   *)
(* `conform` in each of its modes and to `monitor`.  In place of a program *)
(* a forger may record whatever events it likes: what `conform` accepts    *)
(* then shows what an accepted trace proves.                               *)
(***************************************************************************)
EXTENDS Conform, Monitored

VARIABLES
  source,        \* who records: "program" or "forger"
  done,          \* how many events each tag has recorded
  ordered        \* so far every thread recorded its statements in order

tvars == <<gvars, cvars, mvars, source, done, ordered, witnessed>>

-----------------------------------------------------------------------------
(* How far each thread is, by its events alone *)

FunctionOf(tag) == IF tag = MainTag THEN Entry ELSE MemberOf(tag[1], tag)
Observables(f) == SelectSeq([i \in DOMAIN gprog[f] |-> i], LAMBDA i : is_observable(gprog[f][i]))
Script(tag)  == [k \in DOMAIN Observables(FunctionOf(tag)) |->
                   <<FunctionOf(tag), Observables(FunctionOf(tag))[k]>>]
OpOf(x)      == gprog[x[1]][x[2]]
Past(tag)    == {k \in DOMAIN Script(tag) : k <= done[tag]}
IsNext(ev)   == /\ done[ev.tag] + 1 \in DOMAIN Script(ev.tag)
                /\ Script(ev.tag)[done[ev.tag] + 1] = ev.sid

Track(ev) ==
  /\ ordered' = (ordered /\ IsNext(ev))
  /\ done' = [done EXCEPT ![ev.tag] = @ + 1]

TInit ==
  /\ MonitoredInit /\ CInit
  /\ source \in {"program", "forger"}
  /\ done = [t \in Tags |-> 0] /\ ordered = TRUE

(* The wrapper types of instrumented Rust record no scope, and the lenient mode
   is for programs whose guards drop without an event. *)
Receivers(ev) ==
  {mode \in Modes : /\ mode = "lenient"  => ev.op # "unlock"
                    /\ mode = "resource" => ev.op # "scope"}

ProgramStep ==
  /\ source = "program"
  /\ MonitoredStep
  /\ \/ event' = NoEvent /\ UNCHANGED <<cvars, done, ordered>>
     \/ event' # NoEvent /\ Consume(Receivers(event'), event') /\ Track(event')
  /\ UNCHANGED source

(* Any tag, with any statement's sid and any statement's operation. *)
ForgedEvent ==
  /\ source = "forger" /\ verdict["sid"] = "conformant"
  /\ \E tag \in Tags, x \in AllObservable, y \in AllObservable :
       /\ event' = [tag |-> tag, sid |-> x, op |-> OpOf(y).op, r |-> ResourceOf(OpOf(y))]
       /\ Track(event')
  /\ Consume({"sid"}, event')
  /\ UNCHANGED <<gprog, thread, owner, permits, queue, mvars, witnessed, source>>

TNext == ProgramStep \/ ForgedEvent
TSpec == TInit /\ [][TNext]_tvars

=============================================================================
