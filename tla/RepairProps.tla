---------------------------- MODULE RepairProps -----------------------------
(* What the repair command promises, stated over programs and their verdicts
   and not over the search's bookkeeping. *)
EXTENDS RepairLoop

Programs == DOMAIN in.verdict
Searching == in.strategy # "file"
Accepted == IF Searching THEN nodes[result.accepted].program
            ELSE attempts[result.accepted].program

(* What one candidate makes of p, and the programs within d candidates of the
   input through programs that FAIL. Strategy "single" takes one step. *)
Successors(p) ==
  LET cs == Candidates(in, p) IN {Apply(p, cs[k]) : k \in DOMAIN cs} \cap in.valid
MaxSteps == IF in.strategy = "single" THEN 1 ELSE Cardinality(Programs)
Within ==
  LET w[d \in 0..MaxSteps] ==
        IF d = 0 THEN {in.program}
        ELSE LET near == w[d - 1]
             IN  near \union UNION {Successors(p) : p \in {q \in near : in.verdict[q] = "FAIL"}}
  IN  w

Verified == {nodes[k].program : k \in DOMAIN nodes}

(* Whatever a finished search exports, replay_artifact accepts: the facts it
   derives from the recorded graph are those the loop collected on its way
   (search.rs:1181), and every attempt is explained by its patch. *)
ReplayAccepts == pc = "done" /\ Searching => Replays(Artifact)

BeforeIn(body, sid) == {body[j] : j \in 1..(Position(body, sid) - 1)}

(* An accepted program passes, is reached by permitted changes only (a jump and
   whatever is no lock keep what stands before them), and no program fewer
   changes away passes: reusing a program that was verified at another node,
   which keeps the depth of the first path (search.rs:888), loses no shorter
   repair. *)
RepairIsShortest ==
  pc = "done" /\ result.outcome = "Repaired" =>
    /\ in.verdict[Accepted] = "PASS"
    /\ \A f \in DOMAIN in.program : f \notin in.allowed => Accepted[f] = in.program[f]
    /\ \A f \in DOMAIN in.program : \A k \in DOMAIN in.program[f] :
         LET sid == in.program[f][k] IN
         /\ sid \in Control \union ControlTargets => Has(Accepted[f], sid)
         /\ Has(Accepted[f], sid) /\ (LockOf[sid] = NoLock \/ sid \in ControlTargets) =>
              BeforeIn(Accepted[f], sid)
                = BeforeIn(in.program[f], sid) \cap {Accepted[f][j] : j \in DOMAIN Accepted[f]}
    /\ Searching => LET w == Within
                        d == Len(result.chain)
                    IN  Accepted \in w[d] /\ \A p \in w[d - 1] : in.verdict[p] # "PASS"

(* A search that ends without a repair says why, and the reason is true of the
   programs and not only of the counters: nothing is called exhaustive that was
   cut short, and nothing is called cut short that was exhausted
   (TerminalFacts, search.rs:326). *)
StopReasonTrue ==
  pc = "done" /\ Searching =>
    LET w == Within
        NonePasses(d) ==
          \A p \in w[IF d < MaxSteps THEN d ELSE MaxSteps] : p \in Verified /\ in.verdict[p] # "PASS"
        FailsAt(d) ==
          \E p \in w[d] \ (IF d = 0 THEN {} ELSE w[d - 1]) : in.verdict[p] = "FAIL"
        SomeUnknown == \E p \in w[MaxSteps] : in.verdict[p] = "UNKNOWN"
        Stopped(reason) == result.stop = reason
    IN  /\ Stopped("no-acceptable-candidate") => NonePasses(MaxSteps) /\ ~SomeUnknown
        /\ Stopped("analysis-unknown") => NonePasses(MaxSteps) /\ SomeUnknown
        /\ Stopped("max-depth") => NonePasses(in.maxDepth) /\ FailsAt(in.maxDepth)
        /\ Stopped("max-total-edits") =>
             in.maxEdits < in.maxDepth /\ NonePasses(in.maxEdits) /\ FailsAt(in.maxEdits)
        /\ ~Stopped("max-depth+max-total-edits")
        /\ Stopped("candidate-budget") =>
             Len(attempts) = in.candidates /\ \A p \in Verified : in.verdict[p] # "PASS"
        /\ Stopped("verification-budget") =>
             /\ Len(nodes) = in.verifications
             /\ \E p \in Verified : in.verdict[p] = "FAIL" /\ Successors(p) \ Verified # {}

(* The file loop tries the candidates in order, each content once, and its
   outcome is that of the first one that passes (repair/mod.rs:91). *)
FileLoopFindsFirst ==
  pc = "done" /\ ~Searching =>
    LET Enumerated == {k \in DOMAIN in.file : \A j \in 1..k : Offers(j)}
        Passes(k) == /\ CheckAllowed(in, Offered(k)) /\ Applies(in.program, Offered(k))
                     /\ Apply(in.program, Offered(k)) \in in.valid
                     /\ in.verdict[Apply(in.program, Offered(k))] = "PASS"
        Content(k) == <<Offered(k).f, Offered(k).changes>>
        Fresh(k) == \A j \in 1..(k - 1) : Content(j) # Content(k)
        Good == {k \in Enumerated : Passes(k) /\ Fresh(k) /\ k <= in.candidates}
    IN  /\ result.outcome = "Repaired" <=> Good # {}
        /\ result.outcome = "Repaired" =>
             result.accepted \in Good /\ \A k \in Good : result.accepted <= k
        /\ result.outcome = "NoAcceptableCandidate" => Cardinality(Enumerated) < in.candidates

(* The search returns: a program is expanded at most once, though swaps can be
   undone by swaps. *)
Terminates == <>(pc = "done")
=============================================================================
