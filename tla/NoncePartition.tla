--------------------------- MODULE NoncePartition ---------------------------
(***************************************************************************)
(* How the nonce space is shared out, src/internal/app/run.go and          *)
(* mining.go: between the miners of one rig (--miner-id, --total-miners)   *)
(* and, within a miner, between its CPU threads and its GPU.  Every lane,  *)
(* a CPU worker or a GPU, starts at                                        *)
(*     minerID * slotsPerMiner + slot                                      *)
(* and advances by slotsPerMiner * totalMiners.  The CPU side computes     *)
(* slotsPerMiner once per call, from the threads and from whether the GPU  *)
(* is available at that moment; the GPU side always uses threads + 1, and  *)
(* in RPC mode it starts over with every batch.                            *)
(*                                                                         *)
(* One template is mined.  Nonces are Nat below NonceSpace (2^32 in the    *)
(* program): a lane needs days to come to its end, a template is replaced  *)
(* long before, so the bound stops a lane where the program would wrap.    *)
(***************************************************************************)
EXTENDS Naturals, FiniteSets

CONSTANTS
  TotalMiners,    \* --total-miners
  Threads,        \* Threads[i]: --threads of miner i
  WithGPU,        \* the miners that have a GPU
  Batch,          \* headers per GPU batch
  NonceSpace,     \* bound: 2^32 in the program
  MaxBatches,     \* bound: GPU batches counted
  RpcMode,        \* TRUE: runRPCGPULoop, FALSE: runGPUBenchLoop
  MayReset,       \* TRUE: a GPU may fail and be reset
  MayAdjust       \* TRUE: "+" may be pressed, once per miner

Miners == 0 .. TotalMiners - 1

ASSUME MinersAssumption == /\ TotalMiners \in Nat \ {0}
                           /\ Threads \in [Miners -> Nat \ {0}]
                           /\ WithGPU \subseteq Miners
ASSUME BatchAssumption  == /\ Batch \in Nat \ {0}
                           /\ NonceSpace \in Nat
                           /\ MaxBatches \in Nat
ASSUME ModeAssumption   == {RpcMode, MayReset, MayAdjust} \subseteq BOOLEAN

VARIABLES
  threads,    \* threads[i]: m.threads
  avail,      \* the miners whose gpuMiner.Available() holds
  slots,      \* slots[i]: slotsPerMiner of the CPU call under way, 0: none
  cpuRound,   \* cpuRound[i][w]: how far worker w of that call has come
  gpuRound,   \* gpuRound[i]: how far the GPU has come
  gpuCount,   \* gpuCount[i]: the hashes the GPU reports
  cpuHashed,  \* cpuHashed[i][w]: the nonces worker w has hashed (hashCount),
              \* each with the slots per miner it was computed with
  gpuHashed,  \* gpuHashed[i]: those the GPU has hashed
  everReset   \* history: has a GPU ever been reset?

vars == <<threads, avail, slots, cpuRound, gpuRound, gpuCount, cpuHashed,
          gpuHashed, everReset>>

\* A miner's threads grow by one at most: its cores (runtime.NumCPU) are one
\* more than the threads it starts with.
WorkersOf(i) == 0 .. Threads[i]

\* Mutant of NonceAt: the workers of one miner step past its own slots only.
NonceAt_OwnStep(i, slot, perMiner, k) == (i * perMiner + slot) + k * perMiner

\* Mutant of NonceAt: miners counted from one.
NonceAt_FromOne(i, slot, perMiner, k) ==
  ((i + 1) * perMiner + slot) + k * (perMiner * TotalMiners)

\* The k-th nonce of a lane.
NonceAt(i, slot, perMiner, k) ==
  (i * perMiner + slot) + k * (perMiner * TotalMiners)

\* Mutant of CpuSlots: the GPU's slot is forgotten.
CpuSlots_NoGpu(i) == threads[i]

\* run.go:350-354, and the same at 61-65.
CpuSlots(i) == threads[i] + (IF i \in avail THEN 1 ELSE 0)

\* run.go:180-183, and the same at 99-102.
GpuSlot(i)  == threads[i]
GpuSlots(i) == GpuSlot(i) + 1

Init == /\ threads = Threads
        /\ avail = WithGPU
        /\ slots = [i \in Miners |-> 0]
        /\ cpuRound = [i \in Miners |-> [w \in WorkersOf(i) |-> 0]]
        /\ gpuRound = [i \in Miners |-> 0]
        /\ gpuCount = [i \in Miners |-> 0]
        /\ cpuHashed = [i \in Miners |-> [w \in WorkersOf(i) |-> {}]]
        /\ gpuHashed = [i \in Miners |-> {}]
        /\ everReset = FALSE

\* The CPU loop calls mineBlockHashed, or starts its bench workers.
StartCall(i) ==
  /\ slots[i] = 0
  /\ slots' = [slots EXCEPT ![i] = CpuSlots(i)]
  /\ cpuRound' = [cpuRound EXCEPT ![i] = [w \in WorkersOf(i) |-> 0]]
  /\ UNCHANGED <<threads, avail, gpuRound, gpuCount, cpuHashed, gpuHashed,
                 everReset>>

\* Worker w hashes one nonce and advances.
HashCpu(i, w) ==
  LET n == NonceAt(i, w, slots[i], cpuRound[i][w]) IN
  /\ slots[i] # 0 /\ w < threads[i]
  /\ n < NonceSpace
  /\ cpuHashed' = [cpuHashed EXCEPT ![i][w] = @ \cup {<<n, slots[i]>>}]
  /\ cpuRound' = [cpuRound EXCEPT ![i][w] = @ + 1]
  /\ UNCHANGED <<threads, avail, slots, gpuRound, gpuCount, gpuHashed, everReset>>

\* The nonces of the next GPU batch.
BatchNonces(i) ==
  {NonceAt(i, GpuSlot(i), GpuSlots(i), gpuRound[i] + k) : k \in 0 .. Batch - 1}
Tagged(i) == {<<n, GpuSlots(i)>> : n \in BatchNonces(i)}

\* Mutant of GpuBatch: the bench loop forgets to carry the nonce over.
GpuBatch_Restart(i) ==
  /\ i \in avail
  /\ BatchNonces(i) \subseteq 0 .. NonceSpace - 1
  /\ gpuCount[i] < MaxBatches * Batch
  /\ gpuHashed' = [gpuHashed EXCEPT ![i] = @ \cup Tagged(i)]
  /\ gpuCount' = [gpuCount EXCEPT ![i] = @ + Batch]
  /\ UNCHANGED <<threads, avail, slots, cpuRound, gpuRound, cpuHashed, everReset>>

\* One batch: in bench mode the nonce is carried over to the next one, in RPC
\* mode it is computed anew from the miner's slot.
GpuBatch(i) ==
  /\ i \in avail
  /\ BatchNonces(i) \subseteq 0 .. NonceSpace - 1
  /\ gpuCount[i] < MaxBatches * Batch
  /\ gpuHashed' = [gpuHashed EXCEPT ![i] = @ \cup Tagged(i)]
  /\ gpuCount' = [gpuCount EXCEPT ![i] = @ + Batch]
  /\ gpuRound' = IF RpcMode THEN gpuRound
                 ELSE [gpuRound EXCEPT ![i] = @ + Batch]
  /\ UNCHANGED <<threads, avail, slots, cpuRound, cpuHashed, everReset>>

\* gm.Hash fails and gm.Reset begins: available is false until it has ended.
\* In bench mode the nonces of the failed batch are skipped.
GpuReset(i) ==
  /\ MayReset /\ i \in avail
  /\ BatchNonces(i) \subseteq 0 .. NonceSpace - 1
  /\ avail' = avail \ {i} /\ everReset' = TRUE
  /\ gpuRound' = IF RpcMode THEN gpuRound
                 ELSE [gpuRound EXCEPT ![i] = @ + Batch]
  /\ UNCHANGED <<threads, slots, cpuRound, gpuCount, cpuHashed, gpuHashed>>

GpuRecovered(i) ==
  /\ i \in WithGPU \ avail
  /\ avail' = avail \cup {i}
  /\ UNCHANGED <<threads, slots, cpuRound, gpuRound, gpuCount, cpuHashed,
                 gpuHashed, everReset>>

\* Mutant of AddThread: the limit is not looked at.
AddThread_Unlimited(i) ==
  /\ MayAdjust
  /\ threads' = [threads EXCEPT ![i] = @ + 1]
  /\ slots' = [slots EXCEPT ![i] = 0]
  /\ gpuRound' = [gpuRound EXCEPT ![i] = 0]
  /\ gpuCount' = [gpuCount EXCEPT ![i] = 0]
  /\ cpuHashed' = [cpuHashed EXCEPT ![i] = [w \in WorkersOf(i) |-> {}]]
  /\ gpuHashed' = [gpuHashed EXCEPT ![i] = {}]
  /\ UNCHANGED <<avail, cpuRound, everReset>>

\* "+": one thread more; startMining begins again on the same template and
\* zeroes the counters, here with the nonces they counted.
AddThread(i) ==
  /\ MayAdjust /\ threads[i] = Threads[i]
  /\ threads' = [threads EXCEPT ![i] = @ + 1]
  /\ slots' = [slots EXCEPT ![i] = 0]
  /\ gpuRound' = [gpuRound EXCEPT ![i] = 0]
  /\ gpuCount' = [gpuCount EXCEPT ![i] = 0]
  /\ cpuHashed' = [cpuHashed EXCEPT ![i] = [w \in WorkersOf(i) |-> {}]]
  /\ gpuHashed' = [gpuHashed EXCEPT ![i] = {}]
  /\ UNCHANGED <<avail, cpuRound, everReset>>

Next == \E i \in Miners :
          \/ StartCall(i) \/ \E w \in WorkersOf(i) : HashCpu(i, w)
          \/ GpuBatch(i) \/ GpuReset(i) \/ GpuRecovered(i) \/ AddThread(i)

Spec == Init /\ [][Next]_vars

-----------------------------------------------------------------------------
(* Properties. *)

TypeOK ==
  /\ threads \in [Miners -> Nat \ {0}]
  /\ \A i \in Miners : threads[i] \in {Threads[i], Threads[i] + 1}
  /\ avail \subseteq WithGPU
  /\ slots \in [Miners -> Nat]
  /\ DOMAIN cpuRound = Miners /\ DOMAIN cpuHashed = Miners
  /\ \A i \in Miners : /\ cpuRound[i] \in [WorkersOf(i) -> Nat]
                       /\ cpuHashed[i] \in [WorkersOf(i) -> SUBSET (Nat \X Nat)]
  /\ gpuRound \in [Miners -> Nat]
  /\ gpuCount \in [Miners -> Nat]
  /\ gpuHashed \in [Miners -> SUBSET (Nat \X Nat)]
  /\ everReset \in BOOLEAN

\* Lanes whose nonces were computed with the same number of slots never meet,
\* whatever the miners' threads, resets and adjustments: no pair of a nonce and
\* a number of slots belongs to two lanes.
SameSlotsDisjoint ==
  \A i, j \in Miners :
    /\ \A w \in WorkersOf(i), v \in WorkersOf(j) :
          <<i, w>> # <<j, v>> => cpuHashed[i][w] \cap cpuHashed[j][v] = {}
    /\ \A w \in WorkersOf(i) : cpuHashed[i][w] \cap gpuHashed[j] = {}
    /\ i # j => gpuHashed[i] \cap gpuHashed[j] = {}

NoncesOf(lane) == {pair[1] : pair \in lane}

\* HOWTO.md:141-143, "Each miner gets a disjoint slice of the 32-bit nonce
\* space. CPU threads and GPU (if enabled) within the same process also get
\* separate slots so they never compete": no nonce is hashed by two lanes.
Disjoint ==
  \A i, j \in Miners :
    /\ \A w \in WorkersOf(i), v \in WorkersOf(j) :
          <<i, w>> # <<j, v>> =>
            NoncesOf(cpuHashed[i][w]) \cap NoncesOf(cpuHashed[j][v]) = {}
    /\ \A w \in WorkersOf(i) :
          NoncesOf(cpuHashed[i][w]) \cap NoncesOf(gpuHashed[j]) = {}
    /\ i # j => NoncesOf(gpuHashed[i]) \cap NoncesOf(gpuHashed[j]) = {}

\* A rig whose miners are alike and whose GPUs have never failed.
Calm == ~everReset /\ \A i, j \in Miners : /\ threads[i] = threads[j]
                                           /\ i \in WithGPU <=> j \in WithGPU

\* On such a rig that is so, threads that are adjusted on every miner included.
CalmDisjoint == Calm => Disjoint

\* And the partition wastes nothing: a nonce that every lane has passed was
\* hashed by one of them.
NoGap ==
  Calm => \A n \in 0 .. NonceSpace - 1 :
    (/\ \A i \in Miners : /\ slots[i] # 0
                          /\ \A w \in 0 .. threads[i] - 1 :
                                NonceAt(i, w, slots[i], cpuRound[i][w]) > n
     /\ \A i \in WithGPU : NonceAt(i, GpuSlot(i), GpuSlots(i), gpuRound[i]) > n)
    => \E i \in Miners : \/ n \in NoncesOf(gpuHashed[i])
                        \/ \E w \in WorkersOf(i) : n \in NoncesOf(cpuHashed[i][w])

\* HOWTO.md:361-362, "GPU threads run alongside CPU threads - both contribute
\* to the hashrate": a hash the GPU reports is one it had not tried yet.
GpuCountsNewHashes ==
  \A i \in Miners : gpuCount[i] = Cardinality(gpuHashed[i])
=============================================================================
