----------------------------- MODULE MCDueIndex -----------------------------
(* DueIndex on small instances.                                            *)
EXTENDS DueIndex, TLC

CONSTANTS r1, r2

\* Runners, and calls, are interchangeable (for runs that check safety only).
Symmetry == Permutations({r1, r2}) \cup Permutations(Writers)

\* The deployments: one runner that fails once and comes back, two that do
\* not fail, and two of which one fails once.
OneThatFails == {[runners |-> {r}, fails |-> 1] : r \in {r1, r2}}
TwoThatDoNot == {[runners |-> {r1, r2}, fails |-> 0]}
TwoThatFail == {[runners |-> {r1, r2}, fails |-> 1]}
OneFailsOrTwoDoNot == OneThatFails \cup TwoThatDoNot

\* A state the calls of one job's first run lead to: every job scheduled for
\* bucket 0, indexed there, run and settled, the cursor still on that bucket.
SettledInit ==
  /\ fleet \in Fleets
  /\ now = 0
  /\ job = [j \in Jobs |-> [state |-> "done", due |-> 0, moves |-> 0,
                            indexed |-> TRUE, known |-> TRUE, by |-> NoRunner,
                            live |-> FALSE]]
  /\ page = [b \in Buckets |-> IF b = 0 THEN [version |-> 1, ids |-> Jobs]
                                        ELSE [version |-> 0, ids |-> {}]]
  /\ cursor = [bucket |-> 0, behind |-> NotRead]
  /\ idx = [x \in Procs |-> NoIndex]
  /\ tick = [r \in Runners |-> NoTick]

SettledSpec == SettledInit /\ [][Next]_vars
EitherSpec == (Init \/ SettledInit) /\ [][Next]_vars
EitherFairSpec == EitherSpec /\ Fairness
=============================================================================
