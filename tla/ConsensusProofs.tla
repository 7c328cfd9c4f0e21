--------------------------- MODULE ConsensusProofs ---------------------------
(***************************************************************************)
(* For every number of validators and for both engines: the votes a block  *)
(* is built with are a quorum, and any two quorums share more validators   *)
(* than may be faulty.                                                     *)
(***************************************************************************)
EXTENDS BftFinality, FiniteSetTheorems, TLAPS

\* A threshold is at most the number of validators, and two of them exceed that
\* number by more than the validators that may be faulty.
LEMMA ThresholdBounds ==
  /\ FinalityThreshold \in 1..Len(Schedule)
  /\ Tolerated \in Nat
  /\ 2 * FinalityThreshold > Len(Schedule) + Tolerated
<1> DEFINE n == Len(Schedule)
<1>1. n \in Nat /\ n >= 3
  BY ScheduleAssumption
<1>2. CASE Engine = "POA"
  BY <1>1, <1>2 DEF FinalityThreshold, Tolerated
<1>3. CASE Engine = "BFT"
  BY <1>1, <1>3 DEF FinalityThreshold, Tolerated
<1> QED
  BY <1>2, <1>3, EngineAssumption

\* Counting on from an index below n by less than n goes round at most once.
LEMMA Wrap ==
  ASSUME NEW n \in Nat \ {0}, NEW x \in 0..(n - 1), NEW k \in 0..(n - 1)
  PROVE  (x + k) % n = IF x + k < n THEN x + k ELSE x + k - n
<1>1. CASE x + k < n
  BY <1>1
<1>2. CASE x + k >= n
  <2>1. x + k = n * 1 + (x + k - n) /\ x + k - n \in 0..(n - 1)
    BY <1>2
  <2> QED
    BY <2>1, <1>2
<1> QED
  BY <1>1, <1>2

\* The index of a leader is an index.
LEMMA LeaderIndexType ==
  ASSUME NEW h \in Nat \ {0}
  PROVE  LeaderIndex(h) \in 0..(Len(Schedule) - 1)
BY ScheduleAssumption DEF LeaderIndex

\* finality_votes_for_block, then the checks of verify_phase1_block: a block that
\* is built for a height never fails for its votes.
THEOREM VotesAreQuorum ==
  ASSUME NEW h \in Nat \ {0}
  PROVE  IsQuorum(FinalityVotes(h)) /\ Leader(h) \in Voters(FinalityVotes(h))
<1> DEFINE n == Len(Schedule)
           x == LeaderIndex(h)
           At(i) == IF x + (i - 1) < n THEN x + (i - 1) ELSE x + (i - 1) - n
           votes == FinalityVotes(h)
<1>1. n \in Nat \ {0} /\ x \in 0..(n - 1) /\ FinalityThreshold \in 1..n
  BY ScheduleAssumption, ThresholdBounds, LeaderIndexType
<1>2. ASSUME NEW i \in 1..FinalityThreshold
      PROVE  votes[i] = Schedule[At(i) + 1] /\ At(i) + 1 \in 1..n
  <2>1. i - 1 \in 0..(n - 1)
    BY <1>1
  <2>2. (x + (i - 1)) % n = At(i)
    BY <1>1, <2>1, Wrap
  <2>3. At(i) + 1 \in 1..n
    BY <1>1, <2>1
  <2> QED
    BY <2>2, <2>3 DEF FinalityVotes
<1>3. DOMAIN votes = 1..FinalityThreshold /\ Len(votes) = FinalityThreshold
  BY <1>1 DEF FinalityVotes
<1>4. DOMAIN Schedule = 1..n
  BY ScheduleAssumption
<1>5. Voters(votes) \subseteq Active
  BY <1>2, <1>3, <1>4 DEF Voters, Active
<1>6. ASSUME NEW i \in DOMAIN votes, NEW j \in DOMAIN votes, votes[i] = votes[j]
      PROVE  i = j
  <2>1. At(i) + 1 = At(j) + 1
    BY <1>2, <1>3, <1>4, <1>6, DistinctAssumption
  <2>2. i \in 1..n /\ j \in 1..n
    BY <1>1, <1>3
  <2> QED
    BY <2>1, <2>2, <1>1, SMTT(30)
<1>7. votes[1] = Leader(h) /\ 1 \in DOMAIN votes
  BY <1>1, <1>2, <1>3 DEF Leader
<1> QED
  BY <1>1, <1>3, <1>5, <1>6, <1>7 DEF IsQuorum, Voters

\* The leader is active, and so are the voters.
LEMMA VotesType ==
  ASSUME NEW h \in Nat \ {0}
  PROVE  Leader(h) \in Active /\ FinalityVotes(h) \in Seq(Active)
<1>1. FinalityThreshold \in Nat
  BY ThresholdBounds, ScheduleAssumption
<1>2. \A i \in 1..FinalityThreshold : FinalityVotes(h)[i] \in Active
  BY VotesAreQuorum DEF IsQuorum, Voters, FinalityVotes
<1>3. FinalityVotes(h) = [i \in 1..FinalityThreshold |-> FinalityVotes(h)[i]]
  BY DEF FinalityVotes
<1>4. FinalityVotes(h) \in [1..FinalityThreshold -> Active]
  BY <1>2, <1>3
<1>5. Leader(h) \in Active
  BY VotesAreQuorum DEF IsQuorum
<1> QED
  BY <1>1, <1>4, <1>5

\* A sequence without repetition has as many elements as places.
LEMMA DistinctLength ==
  ASSUME NEW S, NEW s \in Seq(S), \A i, j \in DOMAIN s : s[i] = s[j] => i = j
  PROVE  IsFiniteSet(Voters(s)) /\ Cardinality(Voters(s)) = Len(s)
<1> DEFINE T == Voters(s)
           n == Len(s)
<1>1. n \in Nat /\ DOMAIN s = 1..n
  OBVIOUS
<1>2. s \in [1..n -> T] /\ \A y \in T : \E i \in 1..n : s[i] = y
  <2>1. s = [i \in 1..n |-> s[i]]
    OBVIOUS
  <2> QED
    BY <1>1, <2>1 DEF Voters
<1>3. s \in Bijection(1..n, T)
  BY <1>1, <1>2 DEF Bijection, Injection, Surjection, IsInjective
<1>4. ExistsBijection(1..n, T)
  BY <1>3 DEF ExistsBijection
<1>5. IsFiniteSet(1..n) /\ Cardinality(1..n) = n
  BY <1>1, FS_Interval
<1> QED
  BY <1>4, <1>5, FS_Bijection

\* There are as many active validators as entries of the schedule.
LEMMA ActiveCount == IsFiniteSet(Active) /\ Cardinality(Active) = Len(Schedule)
<1>1. Active = Voters(Schedule)
  BY DEF Active, Voters
<1> QED
  BY <1>1, DistinctLength, ScheduleAssumption, DistinctAssumption

\* Two lists of votes that pass verify_phase1_block or verify_quorum_certificate
\* share more validators than may be faulty, whichever blocks they are for.
THEOREM QuorumsIntersect ==
  ASSUME NEW v \in Seq(Active), NEW w \in Seq(Active), IsQuorum(v), IsQuorum(w)
  PROVE  Cardinality(Voters(v) \cap Voters(w)) > Tolerated
<1> DEFINE A == Voters(v)
           B == Voters(w)
<1>1. /\ IsFiniteSet(A) /\ Cardinality(A) = Len(v)
      /\ IsFiniteSet(B) /\ Cardinality(B) = Len(w)
  BY DistinctLength DEF IsQuorum
<1>2. Len(v) \in Nat /\ Len(w) \in Nat /\ Len(v) >= FinalityThreshold /\ Len(w) >= FinalityThreshold
  BY DEF IsQuorum
<1>3. IsFiniteSet(A \cup B) /\ IsFiniteSet(A \cap B)
      /\ Cardinality(A \cup B) = Cardinality(A) + Cardinality(B) - Cardinality(A \cap B)
  BY <1>1, FS_Union, FS_Intersection
<1>4. A \cup B \in SUBSET Active
  BY DEF IsQuorum
<1>5. Cardinality(A \cup B) <= Len(Schedule)
  BY <1>4, ActiveCount, FS_Subset
<1>6. Cardinality(A \cup B) \in Nat /\ Cardinality(A \cap B) \in Nat
  BY <1>3, FS_CardinalityType
<1>7. Len(Schedule) \in Nat
  BY ScheduleAssumption
<1> QED
  BY <1>1, <1>2, <1>3, <1>5, <1>6, <1>7, ThresholdBounds

\* simulate_finality_proof never fails its own checks: at every height and for
\* every block that has a hash, the certificate and the finality proof it makes
\* verify, and the certificate stands for votes of that height and block.
THEOREM SimulatedProofVerifies ==
  ASSUME NEW h \in Nat \ {0}, NEW prevHash, NEW hash, hash # EmptyHash
  PROVE  LET made == SimulateFinalityProof(h, prevHash, hash)
         IN  /\ VerifyQuorumCertificate(made.precommit_qc)
             /\ VerifyFinalityProof(made.finality_proof)
             /\ made.finality_proof.block_height = made.precommit_qc.height
             /\ \A v \in Voters(made.precommit_qc.voters) :
                  \E i \in DOMAIN made.precommits :
                    /\ made.precommits[i].voter = v
                    /\ made.precommits[i].height = h
                    /\ made.precommits[i].block_hash = made.finality_proof.block_hash
<1> DEFINE proposal == ProposalFor(h, prevHash, hash)
           qc == BuildCertificate(proposal, FinalityVotes(h), "Precommit")
           made == SimulateFinalityProof(h, prevHash, hash)
<1>1. made.precommit_qc = qc /\ made.finality_proof = FinalityProofFor(h, qc)
      /\ made.precommits = BuildVotes(proposal, FinalityVotes(h), "Precommit")
  BY DEF SimulateFinalityProof
<1>2. qc.epoch = Epoch /\ qc.block_hash = hash /\ qc.height = h /\ qc.voters = FinalityVotes(h)
  BY DEF BuildCertificate, ProposalFor
<1>3. VerifyQuorumCertificate(qc)
  BY <1>2, VotesAreQuorum DEF VerifyQuorumCertificate
<1>4. VerifyFinalityProof(FinalityProofFor(h, qc))
  BY <1>3 DEF VerifyFinalityProof, FinalityProofFor
<1>5. FinalityProofFor(h, qc).block_height = qc.height
      /\ FinalityProofFor(h, qc).block_hash = hash
  BY <1>2 DEF FinalityProofFor
<1>6. ASSUME NEW v \in Voters(qc.voters)
      PROVE  \E i \in DOMAIN made.precommits :
               /\ made.precommits[i].voter = v
               /\ made.precommits[i].height = h
               /\ made.precommits[i].block_hash = made.finality_proof.block_hash
  <2>1. PICK i \in DOMAIN FinalityVotes(h) : FinalityVotes(h)[i] = v
    BY <1>2 DEF Voters
  <2>2. proposal.height = h /\ proposal.block_hash = hash
    BY DEF ProposalFor
  <2>3. i \in DOMAIN made.precommits
    BY <1>1, <2>1 DEF BuildVotes
  <2>4. made.precommits[i].voter = v /\ made.precommits[i].height = h
        /\ made.precommits[i].block_hash = hash
    BY <1>1, <2>1, <2>2 DEF BuildVotes
  <2> QED
    BY <1>1, <1>5, <2>3, <2>4
<1> QED
  BY <1>1, <1>3, <1>4, <1>5, <1>6

\* Two finality proofs that verify, for whatever blocks, have more voters in common
\* than may be faulty: an honest validator stands behind both.
THEOREM FinalityProofsIntersect ==
  ASSUME NEW f, NEW g, VerifyFinalityProof(f), VerifyFinalityProof(g),
         f.quorum_certificate.voters \in Seq(Active),
         g.quorum_certificate.voters \in Seq(Active)
  PROVE  Cardinality(Voters(f.quorum_certificate.voters)
                       \cap Voters(g.quorum_certificate.voters)) > Tolerated
BY QuorumsIntersect DEF VerifyFinalityProof, VerifyQuorumCertificate
=============================================================================
