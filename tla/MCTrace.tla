------------------------------ MODULE MCTrace ------------------------------
(* Generated programs of two or three workers, their traces, and forged
   traces of the same programs. *)
EXTENDS TraceProps, MCPrograms

CONSTANTS m2

TraceFunctions == {"main", "w", "v", "a", "b"}
Main_(scopes, w, v, a, b) ==
  [f \in TraceFunctions |-> CASE f = "main" -> scopes [] f = "w" -> w [] f = "v" -> v
                              [] f = "a" -> a [] f = "b" -> b]
Pair(w, v) == Main_(<<scopeOf(<<"w", "v">>)>>, w, v, <<>>, <<>>)
Three(w, v) == Main_(<<scopeOf(<<"w", "v", "w">>)>>, w, v, <<>>, <<>>)
take(n) == [op |-> "acquire", s |-> s1, n |-> n]
give(n) == [op |-> "release", s |-> s1, n |-> n]
put(c)  == send(c, Lit("0"))
get(c)  == recv(c, Discard)

(* Sections that leave no guard behind *)
LockBodies ==
  {<<lock(m1), unlock(m1)>>, <<lock(m1), lock(m2), unlock(m2), unlock(m1)>>,
   <<lock(m2), lock(m1), unlock(m2), unlock(m1)>>,
   <<take(1), lock(m1), unlock(m1), give(1)>>, <<lock(m1), take(1), unlock(m1), give(1)>>,
   <<give(1), take(2)>>, <<take(1), nop, take(1), give(2)>>}
LockPairs == {Pair(b, c) : b \in LockBodies, c \in LockBodies}

(* Two waiters, and notifications under the mutex *)
Waiter == <<lock(m1), wait(cv1, m1), unlock(m1)>>
WaitPrograms ==
  {Three(Waiter, <<lock(m1), n, unlock(m1), lock(m1), k, unlock(m1)>>) :
     n \in {notify(cv1), notify_all(cv1)}, k \in {nop, notify(cv1)}}

(* One sender and one receiver on each channel *)
ChannelPairs ==
  {Pair(<<put(c), put(c), x, put(c)>>, <<get(c), y, get(c), get(c)>>) :
     c \in {c0, c1}, x \in {nop, give(1)}, y \in {nop, take(2), take(1)}}
  \union {Pair(<<put(c0), get(c1)>>, <<get(c0), put(c1)>>),
          Pair(<<put(c0), put(c1)>>, <<get(c1), get(c0)>>)}

(* Scopes inside a scope, opened in either order, of one function or of two *)
NestedPrograms ==
  {Main_(<<scopeOf(<<"w", "v">>), lock(m1), unlock(m1)>>, <<scopeOf(<<"a">>)>> \o x,
         <<scopeOf(<<z>>)>>, <<lock(m1), unlock(m1)>>, y) :
     x \in {<<>>, <<take(1)>>}, y \in {<<take(1)>>, <<give(1)>>}, z \in {"a", "b"}}

TracePrograms == LockPairs \union WaitPrograms \union ChannelPairs \union NestedPrograms

(* Two senders of a rendezvous *)
RendezvousPrograms == {Three(<<put(c0)>>, <<get(c0), get(c0)>>)}

TraceModes == {"sid", "lenient", "resource"}

(* The mutex m1 appears without its module, which a second m in lib shares. *)
Full(mod, name) == [mod |-> mod, name |-> name]
TraceName ==
  (m1 :> Full("", "m")) @@ (m2 :> Full("lib", "m")) @@ (s1 :> Full("", "s"))
  @@ (cv1 :> Full("", "cv")) @@ (c0 :> Full("main", "c")) @@ (c1 :> Full("", "d"))
  @@ (NoResource :> Full("", ""))
InContract ==
  (m1 :> Full("main", "m")) @@ (m2 :> Full("lib", "m")) @@ (s1 :> Full("main", "sem"))
  @@ (c0 :> Full("main", "c")) @@ (c1 :> Full("aux", "d"))
ContractNames == {InContract[r] : r \in DOMAIN InContract}
ByHand == (Full("", "s") :> Full("main", "sem"))

both == {InContract[m1], InContract[m2]}
holds(rs) == [k |-> "holds_all", rs |-> rs]
TraceClauses ==
  {[kind |-> "safety", pred |-> [k |-> "mutex_exclusive", r |-> InContract[m1]]],
   [kind |-> "safety", pred |-> [k |-> "never_holds_all", rs |-> both]],
   [kind |-> "always", pred |-> [k |-> "not", of |-> holds({InContract[m1], InContract[s1]})]],
   [kind |-> "reachability", pred |-> holds(both)],
   [kind |-> "unreachable", pred |-> holds(both)],
   [kind |-> "reachable", pred |-> [k |-> "and", ps |->
      <<[k |-> "mutex_held", r |-> InContract[m1]], [k |-> "mutex_held", r |-> InContract[m2]]>>]],
   [kind |-> "always_reachable", pred |-> [k |-> "or", ps |->
      <<holds({InContract[s1], InContract[m2]}), [k |-> "mutex_held", r |-> InContract[s1]]>>]]}
=============================================================================
