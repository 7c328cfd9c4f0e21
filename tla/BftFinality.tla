---------------------------- MODULE BftFinality ----------------------------
(***************************************************************************)
(* The BFT prototype's proposals, votes, certificates and finality proofs, *)
(* as values: how simulate_finality_proof makes them and what their        *)
(* verification looks at.  Ids and signatures are functions of the other   *)
(* fields and verification reads neither.                                  *)
(***************************************************************************)
EXTENDS Consensus

Epoch == 1
ValidatorSetId == "sandbox-bft-v1"
EmptyHash == ""

\* The proposal of the leader of height h, in round 0.
ProposalFor(h, prevHash, hash) ==
  [height |-> h, round |-> 0, epoch |-> Epoch, proposer |-> Leader(h),
   block_hash |-> hash, prev_hash |-> prevHash]

BuildVotes(proposal, voters, kind) ==
  [i \in DOMAIN voters |->
     [height |-> proposal.height, round |-> proposal.round, epoch |-> proposal.epoch,
      voter |-> voters[i], vote_kind |-> kind, block_hash |-> proposal.block_hash]]

BuildCertificate(proposal, voters, kind) ==
  [height |-> proposal.height, round |-> proposal.round, epoch |-> proposal.epoch,
   block_hash |-> proposal.block_hash, vote_kind |-> kind, voters |-> voters]

VerifyQuorumCertificate(c) ==
  c.epoch = Epoch /\ c.block_hash # EmptyHash /\ IsQuorum(c.voters)

\* verify_finality_proof compares hashes; heights, rounds and the kind of the votes
\* are not looked at.
VerifyFinalityProof(f) ==
  /\ f.validator_set_id = ValidatorSetId
  /\ f.block_hash = f.quorum_certificate.block_hash
  /\ VerifyQuorumCertificate(f.quorum_certificate)

FinalityProofFor(h, certificate) ==
  [block_height |-> h, block_hash |-> certificate.block_hash,
   validator_set_id |-> ValidatorSetId, quorum_certificate |-> certificate]

\* simulate_finality_proof up to its first check: the voters are those of
\* finality_votes_for_block in both phases.
SimulateFinalityProof(h, prevHash, hash) ==
  LET proposal == ProposalFor(h, prevHash, hash)
      voters == FinalityVotes(h)
      qc == BuildCertificate(proposal, voters, "Precommit")
  IN  [proposal |-> proposal,
       prevotes |-> BuildVotes(proposal, voters, "Prevote"),
       precommits |-> BuildVotes(proposal, voters, "Precommit"),
       precommit_qc |-> qc,
       finality_proof |-> FinalityProofFor(h, qc)]
=============================================================================
