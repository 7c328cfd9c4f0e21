------------------------------ MODULE Consensus ------------------------------
(***************************************************************************)
(* The consensus engines as pure operators: who leads a height, which      *)
(* validators vote for a block, and which votes finalize it.  Both engines *)
(* rotate the leader and take the votes of the leader and of those who     *)
(* follow it; they differ in how many votes they want.                     *)
(***************************************************************************)
EXTENDS Naturals, Sequences, FiniteSets

CONSTANTS
  Validators,  \* validator ids
  Schedule,    \* the active validators, in configuration order
  Engine       \* "POA" or "BFT"

\* Both engines want three active validators, here with ids of their own.
ASSUME ScheduleAssumption == Schedule \in Seq(Validators) /\ Len(Schedule) >= 3
ASSUME DistinctAssumption ==
  \A i, j \in DOMAIN Schedule : Schedule[i] = Schedule[j] => i = j
ASSUME EngineAssumption == Engine \in {"POA", "BFT"}

Active == {Schedule[i] : i \in DOMAIN Schedule}

LeaderIndex(h) == (h - 1) % Len(Schedule)
Leader(h)      == Schedule[LeaderIndex(h) + 1]

\* Faulty variant: two thirds rounded down.
ThresholdRoundedDown == (2 * Len(Schedule)) \div 3

\* Two thirds rounded up, or strictly more than two thirds.
FinalityThreshold ==
  IF Engine = "POA" THEN (2 * Len(Schedule) + 2) \div 3
                    ELSE ((2 * Len(Schedule)) \div 3) + 1

\* finality_votes_for_block: the leader and the validators after it.
FinalityVotes(h) ==
  [i \in 1..FinalityThreshold |-> Schedule[((LeaderIndex(h) + (i - 1)) % Len(Schedule)) + 1]]

Voters(votes) == {votes[i] : i \in DOMAIN votes}

\* The checks verify_phase1_block and verify_quorum_certificate make on votes.
IsQuorum(votes) ==
  /\ Len(votes) >= FinalityThreshold
  /\ Voters(votes) \subseteq Active
  /\ \A i, j \in DOMAIN votes : votes[i] = votes[j] => i = j

\* The number of validators that may vote for two blocks at one height without
\* two of them becoming final.
Tolerated == (Len(Schedule) - 1) \div 3
=============================================================================
