---------------------------- MODULE MCWorkerPool ----------------------------
(***************************************************************************)
(* WorkerPool on a small pool, with its hash test from CompactTarget.      *)
(* Miner 1 of 2, one slot per worker: with three workers the slice of      *)
(* 0..11 is {3, 9}, {4, 10} and {5, 11}, so every worker passes its first  *)
(* nonce, advances, and wraps.                                             *)
(***************************************************************************)
EXTENDS WorkerPool, CompactTarget

MCNonceSpace == 4 * NumWorkers

\* A target in the middle of the range, the hash that equals it and one above.
MCBits  == BigToCompact(PowLimit \div 2)
MCTight == [i \in 0 .. Width - 1 |-> TargetFromBits(MCBits)[Width - 1 - i]]
MCHigh  == [MCTight EXCEPT ![0] = @ + 1]

\* Both a first and a second nonce of different workers hit.
MCSolutions == {NumWorkers, 2 * NumWorkers - 1, 3 * NumWorkers + 1}
MCHash(n)   == IF n \in MCSolutions THEN MCTight ELSE MCHigh

ASSUME SolutionsAssumption ==
  MCSolutions = {n \in 0 .. MCNonceSpace - 1 :
                   CheckHashTarget(MCHash(n), TargetFromBits(MCBits))}

\* BigToCompact and DarkGravityWaveV3 are called by no step of the miner.
ASSUME EncodingChecked == RoundTrip
ASSUME RetargetChecked == RetargetBounded

\* A call begins with the target decoded from bits (run.go:355): whichever target
\* and hashes it will meet, its workers decide as CheckProofOfWork would, which
\* the GPU loop and the daemon use (mining.go:111, run.go:214, target.go:136-140).
FastCheckAgrees == spawned = 0 => ComparisonsAgree
=============================================================================
