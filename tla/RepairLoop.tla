----------------------------- MODULE RepairLoop -----------------------------
(***************************************************************************)
(* The single-edit repair loop of src/repair/mod.rs over the candidates of  *)
(* a file: the `repair` command runs it when it is given a patch file and   *)
(* RepairSearch otherwise. Every candidate is applied to the input program; *)
(* nothing is searched from a program that fails.                          *)
(***************************************************************************)
EXTENDS RepairReplay

(* The file provider fills in a missing hash; a candidate without one for a
   function the program does not have ends the enumeration, as `?` does. *)
Offered(k) ==
  LET c == in.file[k] IN IF c.hash = None THEN [c EXCEPT !.hash = in.program[c.f]] ELSE c

Offers(k) ==
  /\ k \in DOMAIN in.file
  /\ in.file[k].hash = None => in.file[k].f \in DOMAIN in.program

(* Candidates are told apart by what they change, not by their id or hash. *)
SamePatch(c, d) == c = d                                              \* mutant
SameContent(c, d) == c.f = d.f /\ c.changes = d.changes

Tried(patch) ==
  \E k \in DOMAIN attempts : SameContent(attempts[k].patch, patch)

(* Lowering, unsupported constructs and the re-binding of the contract are
   tested before the verifier runs, which would say no more than they do. *)
RoundRejection(patch) ==
  IF Tried(patch) THEN "duplicate"
  ELSE IF ~CheckAllowed(in, patch) THEN "denied"
  ELSE IF ~Applies(in.program, patch) THEN "apply-error"
  ELSE IF Apply(in.program, patch) \notin in.valid THEN "static-invalid"
  ELSE IF in.verdict[Apply(in.program, patch)] = "UNSUPPORTED" THEN "unsupported"
  ELSE "none"

Judged(patch, what, p, outcome) ==
  [parent |-> None, patch |-> patch, result |-> what, reused |-> None,
   program |-> p, outcome |-> outcome]

(* One round: the candidate is rejected before it is verified, or verified,
   and accepted only on a PASS. *)
RejectInRound(patch) ==
  /\ RoundRejection(patch) # "none"
  /\ attempts' = Append(attempts, Judged(patch, RoundRejection(patch), None, None))
  /\ UNCHANGED <<pc, flags, verifications, result>>

VerifyInRound(patch) ==
  LET p == Apply(in.program, patch) IN
  /\ RoundRejection(patch) = "none"
  /\ attempts' = Append(attempts, Judged(patch, "verified", p, in.verdict[p]))
  /\ verifications' = verifications + 1
  /\ flags' = [flags EXCEPT !.unknown = @ \/ in.verdict[p] = "UNKNOWN"]
  /\ \/ /\ in.verdict[p] = "PASS"
        /\ pc' = "done"
        /\ result' = [outcome |-> "Repaired", stop |-> None, truncation |-> None,
                      accepted |-> Len(attempts) + 1,
                      chain |-> <<[patch |-> patch, before |-> in.program, after |-> p]>>]
     \/ in.verdict[p] # "PASS" /\ UNCHANGED <<pc, result>>

Round ==
  /\ pc = "round" /\ Len(attempts) < in.candidates /\ Offers(cursor + 1)
  /\ cursor' = cursor + 1
  /\ RejectInRound(Offered(cursor + 1)) \/ VerifyInRound(Offered(cursor + 1))
  /\ UNCHANGED <<in, nodes, queue, cur>>

EndLoop(outcome) ==
  /\ Stop(Finished(Triple(IF flags.unknown THEN "AnalysisUnknown" ELSE outcome, None, None)))
  /\ UNCHANGED <<nodes, attempts, flags, verifications>>

NoMoreRounds ==
  pc = "round" /\ Len(attempts) >= in.candidates /\ EndLoop("BudgetExhausted")

NothingOffered ==
  /\ pc = "round" /\ Len(attempts) < in.candidates /\ ~Offers(cursor + 1)
  /\ EndLoop("NoAcceptableCandidate")

LoopNext ==
  \/ Round
  \/ NoMoreRounds
  \/ NothingOffered

RepairSpec == Init /\ [][Next \/ LoopNext]_vars /\ WF_vars(Next \/ LoopNext)
=============================================================================
