----------------------- MODULE NoncePartition_proofs -----------------------
(***************************************************************************)
(* The partition of the nonce space for every number of miners, threads,   *)
(* batch size and nonce space: lanes that count the same number of slots   *)
(* never meet, and on a rig of miners that are alike, whose GPUs have      *)
(* never failed, all lanes count the same and leave no nonce out; a GPU in *)
(* bench mode counts each nonce it hashed once.                            *)
(***************************************************************************)
EXTENDS NoncePartition, FiniteSetTheorems, TLAPS

OneIfGpu(i) == IF i \in WithGPU THEN 1 ELSE 0

\* The nonces of a lane.
LaneNonces(i, slot, S) == {NonceAt(i, slot, S, k) : k \in Nat}

\* p is a nonce of that lane, with the slots it was computed with.
OnLane(p, i, slot) ==
  \E S \in Nat \ {0} : slot < S /\ \E n \in LaneNonces(i, slot, S) : p = <<n, S>>

\* Slots below the miner's threads are its workers', the next one is its GPU's.
Lanes ==
  /\ avail \subseteq WithGPU
  /\ threads \in [Miners -> Nat \ {0}]
  /\ slots \in [Miners -> Nat]
  /\ DOMAIN cpuRound = Miners /\ DOMAIN cpuHashed = Miners
  /\ DOMAIN gpuRound = Miners /\ DOMAIN gpuHashed = Miners
  /\ \A i \in Miners :
       /\ slots[i] \in {0, threads[i], threads[i] + 1}
       /\ cpuRound[i] \in [WorkersOf(i) -> Nat]
       /\ DOMAIN cpuHashed[i] = WorkersOf(i)
       /\ gpuRound[i] \in Nat
       /\ \A w \in WorkersOf(i) : \A p \in cpuHashed[i][w] :
            w < threads[i] /\ OnLane(p, i, w)
       /\ \A p \in gpuHashed[i] : i \in WithGPU /\ OnLane(p, i, threads[i])

\* Without a reset a miner's lanes count its threads and its GPU.
Counted ==
  ~everReset =>
    /\ avail = WithGPU
    /\ \A i \in Miners :
         /\ slots[i] \in {0, threads[i] + OneIfGpu(i)}
         /\ \A w \in WorkersOf(i) : \A p \in cpuHashed[i][w] :
              p[2] = threads[i] + OneIfGpu(i)
         /\ \A p \in gpuHashed[i] : p[2] = threads[i] + 1

-----------------------------------------------------------------------------
(* Arithmetic. *)

\* Quotient and remainder are unique.
LEMMA DivisionUnique ==
  ASSUME NEW S \in Nat \ {0}, NEW a \in Nat, NEW b \in Nat,
         NEW s \in 0 .. S - 1, NEW t \in 0 .. S - 1,
         a * S + s = b * S + t
  PROVE  a = b /\ s = t
<1>1. ASSUME NEW x \in Nat, NEW y \in Nat, x < y PROVE x * S + S <= y * S
  <2>1. PICK d \in Nat : y = x + 1 + d
    <3>1. y - x - 1 \in Nat /\ y = x + 1 + (y - x - 1)
      BY <1>1
    <3> QED
      BY <3>1
  <2>2. y * S = x * S + S + d * S
    BY <2>1
  <2>3. d * S \in Nat /\ x * S \in Nat
    OBVIOUS
  <2> QED
    BY <2>2, <2>3
<1>2. a * S \in Nat /\ b * S \in Nat
  OBVIOUS
<1>3. ~(a < b)
  BY <1>1, <1>2
<1>4. ~(b < a)
  BY <1>1, <1>2
<1>5. a = b
  BY <1>3, <1>4
<1> QED
  BY <1>2, <1>5

\* Two lanes never have a nonce in common.
LEMMA LanesApart ==
  ASSUME NEW S \in Nat \ {0}, NEW i \in Miners, NEW j \in Miners,
         NEW s \in 0 .. S - 1, NEW t \in 0 .. S - 1,
         NEW n, n \in LaneNonces(i, s, S), n \in LaneNonces(j, t, S)
  PROVE  i = j /\ s = t
<1> DEFINE N == TotalMiners
<1>1. N \in Nat \ {0} /\ i \in 0 .. N - 1 /\ j \in 0 .. N - 1
  BY MinersAssumption DEF Miners
<1>2. PICK k \in Nat : n = (i * S + s) + k * (S * N)
  BY DEF LaneNonces, NonceAt
<1>3. PICK l \in Nat : n = (j * S + t) + l * (S * N)
  BY DEF LaneNonces, NonceAt
<1> HIDE DEF N
<1>4. k * N \in Nat /\ l * N \in Nat
  BY <1>1
<1>5. n = (k * N + i) * S + s /\ n = (l * N + j) * S + t
  BY <1>1, <1>2, <1>3
<1>6. k * N + i \in Nat /\ l * N + j \in Nat
  BY <1>1, <1>4
<1>7. k * N + i = l * N + j /\ s = t
  BY <1>5, <1>6, DivisionUnique
<1>8. i = j
  BY <1>1, <1>7, DivisionUnique
<1> QED
  BY <1>7, <1>8

-----------------------------------------------------------------------------
(* The lanes. *)

LEMMA LanesInit == ASSUME Init PROVE Lanes
BY MinersAssumption DEF Init, Lanes

LEMMA MinerTypes ==
  /\ TotalMiners \in Nat /\ Miners \subseteq Nat /\ WithGPU \subseteq Miners
  /\ \A i \in Miners : WorkersOf(i) \subseteq Nat /\ Threads[i] \in Nat \ {0}
BY MinersAssumption DEF Miners, WorkersOf

LEMMA LanesStep == ASSUME Lanes, [Next]_vars PROVE Lanes'
<1>1. ASSUME NEW i \in Miners, StartCall(i) PROVE Lanes'
  <2>1. CpuSlots(i) \in {threads[i], threads[i] + 1}
    BY DEF CpuSlots, Lanes
  <2>2. CpuSlots(i) \in Nat
    BY <2>1 DEF Lanes
  <2>3. \A j \in Miners : cpuRound'[j] \in [WorkersOf(j) -> Nat]
    BY <1>1 DEF StartCall, Lanes
  <2> QED
    BY <1>1, <2>1, <2>2, <2>3 DEF StartCall, Lanes
<1>2. ASSUME NEW i \in Miners, NEW w \in WorkersOf(i), HashCpu(i, w) PROVE Lanes'
  <2> DEFINE p == <<NonceAt(i, w, slots[i], cpuRound[i][w]), slots[i]>>
  <2>1. slots[i] \in Nat \ {0} /\ w < threads[i] /\ w < slots[i]
    BY <1>2, MinerTypes DEF HashCpu, Lanes
  <2>2. OnLane(p, i, w)
    <3>1. cpuRound[i][w] \in Nat
      BY DEF Lanes
    <3> QED
      BY <2>1, <3>1 DEF OnLane, LaneNonces
  <2>3. /\ cpuHashed' = [cpuHashed EXCEPT ![i][w] = @ \cup {p}]
        /\ cpuRound' = [cpuRound EXCEPT ![i][w] = @ + 1]
        /\ UNCHANGED <<threads, avail, slots, gpuRound, gpuHashed>>
    BY <1>2 DEF HashCpu
  <2> HIDE DEF p
  <2>4. \A j \in Miners : /\ cpuRound'[j] \in [WorkersOf(j) -> Nat]
                          /\ DOMAIN cpuHashed'[j] = WorkersOf(j)
    BY <2>3 DEF Lanes
  <2>5. ASSUME NEW j \in Miners, NEW v \in WorkersOf(j), NEW q \in cpuHashed'[j][v]
        PROVE  v < threads[j] /\ OnLane(q, j, v)
    <3>1. CASE q \in cpuHashed[j][v]
      BY <3>1 DEF Lanes
    <3>2. CASE q \notin cpuHashed[j][v]
      <4>1. j = i /\ v = w /\ q = p
        BY <2>3, <2>5, <3>2 DEF Lanes
      <4> QED
        BY <2>1, <2>2, <4>1
    <3> QED
      BY <3>1, <3>2
  <2> QED
    BY <2>3, <2>4, <2>5 DEF Lanes
<1>3. ASSUME NEW i \in Miners, GpuBatch(i) PROVE Lanes'
  <2>1. ASSUME NEW p \in Tagged(i) PROVE OnLane(p, i, threads[i])
    <3>1. PICK n \in BatchNonces(i) : p = <<n, GpuSlots(i)>>
      BY <2>1 DEF Tagged
    <3>2. PICK k \in 0 .. Batch - 1 : n = NonceAt(i, GpuSlot(i), GpuSlots(i), gpuRound[i] + k)
      BY DEF BatchNonces
    <3>3. gpuRound[i] + k \in Nat /\ GpuSlot(i) = threads[i] /\ GpuSlots(i) = threads[i] + 1
      BY BatchAssumption DEF Lanes, GpuSlot, GpuSlots
    <3>4. threads[i] \in Nat
      BY DEF Lanes
    <3>5. n \in LaneNonces(i, threads[i], GpuSlots(i))
      BY <3>2, <3>3 DEF LaneNonces
    <3> QED
      BY <3>1, <3>3, <3>4, <3>5 DEF OnLane
  <2>2. /\ gpuHashed' = [gpuHashed EXCEPT ![i] = @ \cup Tagged(i)]
        /\ \/ gpuRound' = gpuRound
           \/ gpuRound' = [gpuRound EXCEPT ![i] = @ + Batch]
        /\ i \in avail
        /\ UNCHANGED <<threads, avail, slots, cpuRound, cpuHashed>>
    BY <1>3 DEF GpuBatch
  <2>3. \A j \in Miners : gpuRound'[j] \in Nat
    BY <2>2, BatchAssumption DEF Lanes
  <2>4. ASSUME NEW j \in Miners, NEW q \in gpuHashed'[j]
        PROVE  j \in WithGPU /\ OnLane(q, j, threads[j])
    BY <2>1, <2>2 DEF Lanes
  <2> QED
    BY <2>2, <2>3, <2>4 DEF Lanes
<1>4. ASSUME NEW i \in Miners, GpuReset(i) PROVE Lanes'
  <2>1. \A j \in Miners : gpuRound'[j] \in Nat
    BY <1>4, BatchAssumption DEF Lanes, GpuReset
  <2>2. DOMAIN gpuRound' = Miners
    BY <1>4 DEF Lanes, GpuReset
  <2> QED
    BY <1>4, <2>1, <2>2 DEF Lanes, GpuReset
<1>5. ASSUME NEW i \in Miners, GpuRecovered(i) PROVE Lanes'
  BY <1>5 DEF Lanes, GpuRecovered
<1>6. ASSUME NEW i \in Miners, AddThread(i) PROVE Lanes'
  <2>1. threads' \in [Miners -> Nat \ {0}]
    BY <1>6 DEF Lanes, AddThread
  <2>2. \A j \in Miners : j # i => threads'[j] = threads[j]
    BY <1>6 DEF Lanes, AddThread
  <2>3. \A w \in WorkersOf(i) : cpuHashed'[i][w] = {}
    BY <1>6 DEF Lanes, AddThread
  <2>4. \A j \in Miners : j # i => cpuHashed'[j] = cpuHashed[j]
    BY <1>6 DEF Lanes, AddThread
  <2>5. DOMAIN cpuHashed' = Miners /\ DOMAIN cpuHashed'[i] = WorkersOf(i)
    BY <1>6 DEF Lanes, AddThread
  <2> QED
    BY <1>6, <2>1, <2>2, <2>3, <2>4, <2>5 DEF Lanes, AddThread
<1>7. CASE UNCHANGED vars
  BY <1>7 DEF vars, Lanes
<1> QED
  BY <1>1, <1>2, <1>3, <1>4, <1>5, <1>6, <1>7 DEF Next

\* A pair on two lanes of the same miner or of two.
LEMMA PairApart ==
  ASSUME NEW i \in Miners, NEW j \in Miners, NEW s \in Nat, NEW t \in Nat,
         NEW p, OnLane(p, i, s), OnLane(p, j, t)
  PROVE  i = j /\ s = t
<1>1. PICK S \in Nat \ {0} : s < S /\ \E n \in LaneNonces(i, s, S) : p = <<n, S>>
  BY DEF OnLane
<1>2. PICK T \in Nat \ {0} : t < T /\ \E n \in LaneNonces(j, t, T) : p = <<n, T>>
  BY DEF OnLane
<1>3. S = T /\ \E n : n \in LaneNonces(i, s, S) /\ n \in LaneNonces(j, t, S)
  BY <1>1, <1>2
<1>4. s \in 0 .. S - 1 /\ t \in 0 .. S - 1
  BY <1>1, <1>2, <1>3
<1> QED
  BY <1>3, <1>4, LanesApart

LEMMA LanesDisjoint == ASSUME Lanes PROVE SameSlotsDisjoint
<1> SUFFICES ASSUME NEW i \in Miners, NEW j \in Miners
    PROVE
    /\ \A w \in WorkersOf(i), v \in WorkersOf(j) :
          <<i, w>> # <<j, v>> => cpuHashed[i][w] \cap cpuHashed[j][v] = {}
    /\ \A w \in WorkersOf(i) : cpuHashed[i][w] \cap gpuHashed[j] = {}
    /\ i # j => gpuHashed[i] \cap gpuHashed[j] = {}
  BY DEF SameSlotsDisjoint
<1>1. \A h \in Miners : threads[h] \in Nat /\ WorkersOf(h) \subseteq Nat
  BY MinerTypes DEF Lanes
<1>2. \A h \in Miners : \A w \in WorkersOf(h) : \A p \in cpuHashed[h][w] :
        w < threads[h] /\ OnLane(p, h, w)
  BY DEF Lanes
<1>3. \A h \in Miners : \A p \in gpuHashed[h] : OnLane(p, h, threads[h])
  BY DEF Lanes
<1>4. ASSUME NEW w \in WorkersOf(i), NEW v \in WorkersOf(j), <<i, w>> # <<j, v>>,
             NEW p \in cpuHashed[i][w], p \in cpuHashed[j][v]
      PROVE  FALSE
  <2>1. i = j /\ w = v
    BY <1>1, <1>2, <1>4, PairApart
  <2> QED
    BY <1>4, <2>1
<1>5. ASSUME NEW w \in WorkersOf(i), NEW p \in cpuHashed[i][w], p \in gpuHashed[j]
      PROVE  FALSE
  <2>1. i = j /\ w = threads[j]
    BY <1>1, <1>2, <1>3, <1>5, PairApart
  <2> QED
    BY <1>1, <1>2, <2>1
<1>6. ASSUME i # j, NEW p \in gpuHashed[i], p \in gpuHashed[j]
      PROVE  FALSE
  BY <1>1, <1>3, <1>6, PairApart
<1> QED
  BY <1>4, <1>5, <1>6

\* Lanes computed with the same number of slots never meet, whatever the
\* miners' threads and GPUs are and become, in bench and in RPC mode.
THEOREM LanesNeverMeet == Spec => []SameSlotsDisjoint
<1>1. Init => Lanes
  BY LanesInit
<1>2. Lanes /\ [Next]_vars => Lanes'
  BY LanesStep
<1>3. Lanes => SameSlotsDisjoint
  BY LanesDisjoint
<1> QED
  BY <1>1, <1>2, <1>3, PTL DEF Spec

-----------------------------------------------------------------------------
(* A calm rig. *)

LEMMA CountedStep == ASSUME Lanes, Counted, [Next]_vars PROVE Counted'
<1> SUFFICES ASSUME ~everReset' PROVE Counted'
  BY DEF Counted
<1>1. ~everReset
  BY DEF Next, vars, StartCall, HashCpu, GpuBatch, GpuReset, GpuRecovered, AddThread
<1>2. /\ avail = WithGPU
      /\ \A i \in Miners :
           /\ slots[i] \in {0, threads[i] + OneIfGpu(i)}
           /\ \A w \in WorkersOf(i) : \A p \in cpuHashed[i][w] :
                p[2] = threads[i] + OneIfGpu(i)
           /\ \A p \in gpuHashed[i] : p[2] = threads[i] + 1
  BY <1>1 DEF Counted
<1>3. ASSUME NEW i \in Miners, StartCall(i) PROVE Counted'
  <2>1. CpuSlots(i) = threads[i] + OneIfGpu(i)
    BY <1>2 DEF CpuSlots, OneIfGpu
  <2> QED
    BY <1>2, <1>3, <2>1 DEF StartCall, Lanes, Counted
<1>4. ASSUME NEW i \in Miners, NEW w \in WorkersOf(i), HashCpu(i, w) PROVE Counted'
  <2> DEFINE n == NonceAt(i, w, slots[i], cpuRound[i][w])
  <2>1. /\ cpuHashed' = [cpuHashed EXCEPT ![i][w] = @ \cup {<<n, slots[i]>>}]
        /\ slots[i] # 0
        /\ UNCHANGED <<threads, avail, slots, gpuHashed>>
    BY <1>4 DEF HashCpu
  <2> HIDE DEF n
  <2>2. slots[i] = threads[i] + OneIfGpu(i)
    BY <1>2, <2>1
  <2>3. ASSUME NEW j \in Miners, NEW v \in WorkersOf(j), NEW q \in cpuHashed'[j][v]
        PROVE  q[2] = threads[j] + OneIfGpu(j)
    <3>1. CASE q \in cpuHashed[j][v]
      BY <1>2, <3>1
    <3>2. CASE q \notin cpuHashed[j][v]
      <4>1. j = i /\ q = <<n, slots[i]>>
        BY <2>1, <2>3, <3>2 DEF Lanes
      <4> QED
        BY <2>2, <4>1
    <3> QED
      BY <3>1, <3>2
  <2> QED
    BY <1>2, <2>1, <2>3 DEF Counted
<1>5. ASSUME NEW i \in Miners, GpuBatch(i) PROVE Counted'
  <2>1. /\ gpuHashed' = [gpuHashed EXCEPT ![i] = @ \cup Tagged(i)]
        /\ UNCHANGED <<threads, avail, slots, cpuHashed>>
    BY <1>5 DEF GpuBatch
  <2>2. \A q \in Tagged(i) : q[2] = threads[i] + 1
    BY DEF Tagged, GpuSlots, GpuSlot
  <2>3. \A j \in Miners : \A q \in gpuHashed'[j] : q[2] = threads[j] + 1
    BY <1>2, <2>1, <2>2 DEF Lanes
  <2> QED
    BY <1>2, <2>1, <2>3 DEF Counted
<1>6. \A i \in Miners : ~GpuReset(i) /\ ~GpuRecovered(i)
  BY <1>2 DEF GpuReset, GpuRecovered
<1>7. ASSUME NEW i \in Miners, AddThread(i) PROVE Counted'
  <2>1. \A j \in Miners : j # i => /\ threads'[j] = threads[j]
                                   /\ slots'[j] = slots[j]
                                   /\ cpuHashed'[j] = cpuHashed[j]
                                   /\ gpuHashed'[j] = gpuHashed[j]
    BY <1>7 DEF Lanes, AddThread
  <2>2. /\ slots'[i] = 0 /\ gpuHashed'[i] = {}
        /\ \A w \in WorkersOf(i) : cpuHashed'[i][w] = {}
        /\ avail' = avail
    BY <1>7 DEF Lanes, AddThread
  <2> QED
    BY <1>2, <2>1, <2>2 DEF Counted
<1>8. CASE UNCHANGED vars
  BY <1>2, <1>8 DEF vars, Counted
<1> QED
  BY <1>3, <1>4, <1>5, <1>6, <1>7, <1>8 DEF Next

LEMMA CountedDisjoint == ASSUME Lanes, Counted PROVE CalmDisjoint
<1> SUFFICES ASSUME Calm PROVE Disjoint
  BY DEF CalmDisjoint
<1>1. PICK S : \A i \in Miners :
        /\ \A w \in WorkersOf(i) : \A p \in cpuHashed[i][w] : p[2] = S
        /\ \A p \in gpuHashed[i] : p[2] = S
  <2>1. 0 \in Miners
    BY MinersAssumption DEF Miners
  <2>2. \A i \in Miners : /\ threads[i] = threads[0]
                          /\ OneIfGpu(i) = OneIfGpu(0)
                          /\ \A p \in gpuHashed[i] : OneIfGpu(i) = 1
    BY <2>1 DEF Calm, OneIfGpu, Lanes
  <2>3. \A i \in Miners :
          /\ \A w \in WorkersOf(i) : \A p \in cpuHashed[i][w] :
               p[2] = threads[0] + OneIfGpu(0)
          /\ \A p \in gpuHashed[i] : p[2] = threads[0] + OneIfGpu(0)
    BY <2>2 DEF Counted, Calm
  <2> QED
    BY <2>3
<1>2. \A i \in Miners :
        /\ \A w \in WorkersOf(i) : \A p \in cpuHashed[i][w] : p = <<p[1], S>>
        /\ \A p \in gpuHashed[i] : p = <<p[1], S>>
  <2>1. \A p, i, slot : OnLane(p, i, slot) => p = <<p[1], p[2]>>
    BY DEF OnLane
  <2> QED
    BY <1>1, <2>1 DEF Lanes
<1>3. SameSlotsDisjoint
  BY LanesDisjoint
<1> SUFFICES ASSUME NEW i \in Miners, NEW j \in Miners
    PROVE
    /\ \A w \in WorkersOf(i), v \in WorkersOf(j) :
          <<i, w>> # <<j, v>> =>
            NoncesOf(cpuHashed[i][w]) \cap NoncesOf(cpuHashed[j][v]) = {}
    /\ \A w \in WorkersOf(i) :
          NoncesOf(cpuHashed[i][w]) \cap NoncesOf(gpuHashed[j]) = {}
    /\ i # j => NoncesOf(gpuHashed[i]) \cap NoncesOf(gpuHashed[j]) = {}
  BY DEF Disjoint
<1>4. ASSUME NEW X, NEW Y, \A p \in X : p = <<p[1], S>>, \A p \in Y : p = <<p[1], S>>,
             X \cap Y = {}
      PROVE  NoncesOf(X) \cap NoncesOf(Y) = {}
  BY <1>4 DEF NoncesOf
<1>5. ASSUME NEW w \in WorkersOf(i), NEW v \in WorkersOf(j), <<i, w>> # <<j, v>>
      PROVE  NoncesOf(cpuHashed[i][w]) \cap NoncesOf(cpuHashed[j][v]) = {}
  <2>1. cpuHashed[i][w] \cap cpuHashed[j][v] = {}
    BY <1>3, <1>5 DEF SameSlotsDisjoint
  <2> QED
    BY <1>2, <1>4, <2>1
<1>6. ASSUME NEW w \in WorkersOf(i)
      PROVE  NoncesOf(cpuHashed[i][w]) \cap NoncesOf(gpuHashed[j]) = {}
  <2>1. cpuHashed[i][w] \cap gpuHashed[j] = {}
    BY <1>3 DEF SameSlotsDisjoint
  <2> QED
    BY <1>2, <1>4, <2>1
<1>7. ASSUME i # j PROVE NoncesOf(gpuHashed[i]) \cap NoncesOf(gpuHashed[j]) = {}
  <2>1. gpuHashed[i] \cap gpuHashed[j] = {}
    BY <1>3, <1>7 DEF SameSlotsDisjoint
  <2> QED
    BY <1>2, <1>4, <2>1
<1> QED
  BY <1>5, <1>6, <1>7

\* On a rig of miners that are alike, whose GPUs have never failed, no nonce is
\* hashed by two lanes, at any size.
THEOREM CalmRigDisjoint == Spec => []CalmDisjoint
<1>1. Init => Lanes /\ Counted
  <2>1. Init => Counted
    BY DEF Init, Counted
  <2> QED
    BY <2>1, LanesInit
<1>2. Lanes /\ Counted /\ [Next]_vars => Lanes' /\ Counted'
  BY LanesStep, CountedStep
<1>3. Lanes /\ Counted => CalmDisjoint
  BY CountedDisjoint
<1> QED
  BY <1>1, <1>2, <1>3, PTL DEF Spec

-----------------------------------------------------------------------------
(* Types. *)

\* A lane of a computed number of slots has natural nonces.
LEMMA NonceIsNat ==
  ASSUME NEW i \in Miners, NEW slot \in Nat, NEW S \in Nat, NEW k \in Nat
  PROVE  NonceAt(i, slot, S, k) \in Nat
<1>1. i \in Nat /\ TotalMiners \in Nat
  BY MinerTypes
<1>2. i * S \in Nat /\ S * TotalMiners \in Nat
  BY <1>1
<1>3. k * (S * TotalMiners) \in Nat
  BY <1>2
<1> QED
  BY <1>2, <1>3 DEF NonceAt

LEMMA TypesInit == ASSUME Init PROVE TypeOK
<1>1. Threads \in [Miners -> Nat \ {0}] /\ WithGPU \subseteq Miners
  BY MinersAssumption
<1> QED
  BY <1>1 DEF Init, TypeOK

LEMMA TypesStep == ASSUME TypeOK, [Next]_vars PROVE TypeOK'
<1>1. ASSUME NEW i \in Miners, StartCall(i) PROVE TypeOK'
  <2>1. CpuSlots(i) \in Nat
    BY DEF CpuSlots, TypeOK
  <2> QED
    BY <1>1, <2>1 DEF StartCall, TypeOK
<1>2. ASSUME NEW i \in Miners, NEW w \in WorkersOf(i), HashCpu(i, w) PROVE TypeOK'
  <2> DEFINE p == <<NonceAt(i, w, slots[i], cpuRound[i][w]), slots[i]>>
  <2>1. p \in Nat \X Nat
    BY MinerTypes, NonceIsNat DEF TypeOK
  <2>2. /\ cpuHashed' = [cpuHashed EXCEPT ![i][w] = @ \cup {p}]
        /\ cpuRound' = [cpuRound EXCEPT ![i][w] = @ + 1]
        /\ UNCHANGED <<threads, avail, slots, gpuRound, gpuCount, gpuHashed, everReset>>
    BY <1>2 DEF HashCpu
  <2> HIDE DEF p
  <2>3. ASSUME NEW j \in Miners
        PROVE  /\ cpuRound'[j] \in [WorkersOf(j) -> Nat]
               /\ cpuHashed'[j] \in [WorkersOf(j) -> SUBSET (Nat \X Nat)]
    BY <2>1, <2>2 DEF TypeOK
  <2> QED
    BY <2>2, <2>3 DEF TypeOK
<1>3. ASSUME NEW i \in Miners, GpuBatch(i) PROVE TypeOK'
  <2>1. Tagged(i) \subseteq Nat \X Nat
    <3>1. /\ GpuSlot(i) \in Nat /\ GpuSlots(i) \in Nat
          /\ \A k \in 0 .. Batch - 1 : gpuRound[i] + k \in Nat
      BY BatchAssumption DEF GpuSlot, GpuSlots, TypeOK
    <3>2. BatchNonces(i) \subseteq Nat
      BY <3>1, NonceIsNat DEF BatchNonces
    <3> QED
      BY <3>1, <3>2 DEF Tagged
  <2>2. gpuRound' \in [Miners -> Nat]
    BY <1>3, BatchAssumption DEF GpuBatch, TypeOK
  <2>3. gpuCount' \in [Miners -> Nat]
    BY <1>3, BatchAssumption DEF GpuBatch, TypeOK
  <2>4. gpuHashed' \in [Miners -> SUBSET (Nat \X Nat)]
    BY <1>3, <2>1 DEF GpuBatch, TypeOK
  <2> QED
    BY <1>3, <2>2, <2>3, <2>4 DEF GpuBatch, TypeOK
<1>4. ASSUME NEW i \in Miners, GpuReset(i) PROVE TypeOK'
  <2>1. gpuRound' \in [Miners -> Nat]
    BY <1>4, BatchAssumption DEF GpuReset, TypeOK
  <2> QED
    BY <1>4, <2>1 DEF GpuReset, TypeOK
<1>5. ASSUME NEW i \in Miners, GpuRecovered(i) PROVE TypeOK'
  BY <1>5 DEF GpuRecovered, TypeOK
<1>6. ASSUME NEW i \in Miners, AddThread(i) PROVE TypeOK'
  <2>1. /\ threads' \in [Miners -> Nat \ {0}]
        /\ \A j \in Miners : threads'[j] \in {Threads[j], Threads[j] + 1}
    BY <1>6 DEF AddThread, TypeOK
  <2>2. /\ slots' \in [Miners -> Nat] /\ gpuRound' \in [Miners -> Nat]
        /\ gpuCount' \in [Miners -> Nat]
        /\ gpuHashed' \in [Miners -> SUBSET (Nat \X Nat)]
    BY <1>6 DEF AddThread, TypeOK
  <2>3. /\ DOMAIN cpuHashed' = Miners
        /\ \A j \in Miners : cpuHashed'[j] \in [WorkersOf(j) -> SUBSET (Nat \X Nat)]
    BY <1>6 DEF AddThread, TypeOK
  <2> QED
    BY <1>6, <2>1, <2>2, <2>3 DEF AddThread, TypeOK
<1>7. CASE UNCHANGED vars
  BY <1>7 DEF vars, TypeOK
<1> QED
  BY <1>1, <1>2, <1>3, <1>4, <1>5, <1>6, <1>7 DEF Next

\* The rounds, counters and hashed nonces keep their types, and a miner never
\* has more than one thread above those it was started with.
THEOREM PartitionTyped == Spec => []TypeOK
<1>1. Init => TypeOK
  BY TypesInit
<1>2. TypeOK /\ [Next]_vars => TypeOK'
  BY TypesStep
<1> QED
  BY <1>1, <1>2, PTL DEF Spec

-----------------------------------------------------------------------------
(* What the GPU counts in bench mode. *)

\* The nonces of a lane increase with k.
LEMMA NonceIncreases ==
  ASSUME NEW i \in Miners, NEW slot \in Nat, NEW S \in Nat \ {0},
         NEW k \in Nat, NEW l \in Nat, k < l
  PROVE  NonceAt(i, slot, S, k) < NonceAt(i, slot, S, l)
<1> DEFINE D == S * TotalMiners
<1>1. D \in Nat \ {0} /\ i \in Nat
  BY MinersAssumption, MinerTypes
<1>2. i * S + slot \in Nat
  BY <1>1
<1> HIDE DEF D
<1>3. k * D + D <= l * D
  <2>1. PICK d \in Nat : l = k + 1 + d
    <3>1. l - k - 1 \in Nat /\ l = k + 1 + (l - k - 1)
      OBVIOUS
    <3> QED
      BY <3>1
  <2>2. l * D = k * D + D + d * D
    BY <1>1, <2>1
  <2>3. d * D \in Nat /\ k * D \in Nat
    BY <1>1
  <2> QED
    BY <1>1, <2>2, <2>3
<1>4. k * D \in Nat /\ l * D \in Nat
  BY <1>1
<1>5. (i * S + slot) + k * D < (i * S + slot) + l * D
  BY <1>1, <1>2, <1>3, <1>4
<1> QED
  BY <1>5 DEF NonceAt, D

\* The nonces the GPU has hashed lie behind its round, and it counts each once.
CountsOf(i) ==
  /\ IsFiniteSet(gpuHashed[i])
  /\ gpuCount[i] = Cardinality(gpuHashed[i])
  /\ \A p \in gpuHashed[i] : \E k \in Nat :
       k < gpuRound[i] /\ p[1] = NonceAt(i, GpuSlot(i), GpuSlots(i), k)

Counts == \A i \in Miners : CountsOf(i)

\* Nothing changes for a miner whose GPU and threads do not.
LEMMA CountsKept ==
  ASSUME NEW i \in Miners, CountsOf(i), gpuHashed'[i] = gpuHashed[i],
         gpuCount'[i] = gpuCount[i], gpuRound'[i] = gpuRound[i],
         threads'[i] = threads[i]
  PROVE  CountsOf(i)'
<1>1. GpuSlot(i)' = GpuSlot(i) /\ GpuSlots(i)' = GpuSlots(i)
  BY DEF GpuSlot, GpuSlots
<1> QED
  BY <1>1 DEF CountsOf

LEMMA GpuLaneTypes ==
  ASSUME TypeOK, NEW i \in Miners
  PROVE  GpuSlot(i) \in Nat /\ GpuSlots(i) \in Nat \ {0} /\ gpuRound[i] \in Nat
BY DEF TypeOK, GpuSlot, GpuSlots

\* A batch has as many nonces as headers.
LEMMA BatchCounts ==
  ASSUME TypeOK, NEW i \in Miners
  PROVE  IsFiniteSet(Tagged(i)) /\ Cardinality(Tagged(i)) = Batch
<1> DEFINE K == 0 .. Batch - 1
           Nonce(k) == NonceAt(i, GpuSlot(i), GpuSlots(i), gpuRound[i] + k)
           f == [k \in K |-> <<Nonce(k), GpuSlots(i)>>]
<1>1. IsFiniteSet(K) /\ Cardinality(K) = Batch
  BY BatchAssumption, FS_Interval
<1>2. \A k \in K, l \in K : k < l => Nonce(k) < Nonce(l)
  BY GpuLaneTypes, NonceIncreases, BatchAssumption
<1>3. \A k \in K : Nonce(k) \in Nat
  <2> SUFFICES ASSUME NEW k \in K PROVE Nonce(k) \in Nat
    OBVIOUS
  <2>1. gpuRound[i] + k \in Nat /\ GpuSlot(i) \in Nat /\ GpuSlots(i) \in Nat
    BY GpuLaneTypes, BatchAssumption
  <2> QED
    BY <2>1, NonceIsNat
<1>4. Tagged(i) = {<<Nonce(k), GpuSlots(i)>> : k \in K}
  BY DEF Tagged, BatchNonces
<1> HIDE DEF Nonce
<1>5. f \in Surjection(K, Tagged(i))
  BY <1>4 DEF Surjection
<1>6. f \in Injection(K, Tagged(i))
  <2>1. ASSUME NEW k \in K, NEW l \in K, k # l PROVE f[k] # f[l]
    <3>1. k < l \/ l < k
      BY <2>1, BatchAssumption
    <3>2. Nonce(k) # Nonce(l)
      BY <1>2, <1>3, <3>1
    <3> QED
      BY <3>2
  <2>2. f \in [K -> Tagged(i)]
    BY <1>4
  <2> HIDE DEF f, K
  <2> QED
    BY <2>1, <2>2 DEF Injection, IsInjective
<1>7. ExistsBijection(K, Tagged(i))
  BY <1>5, <1>6 DEF ExistsBijection, Bijection
<1> QED
  BY <1>1, <1>7, FS_Bijection

LEMMA CountsStep ==
  ASSUME ~RpcMode, TypeOK, Counts, [Next]_vars
  PROVE  Counts'
<1>1. ASSUME NEW i \in Miners, GpuBatch(i) PROVE Counts'
  <2>1. /\ gpuHashed' = [gpuHashed EXCEPT ![i] = @ \cup Tagged(i)]
        /\ gpuCount' = [gpuCount EXCEPT ![i] = @ + Batch]
        /\ gpuRound' = [gpuRound EXCEPT ![i] = @ + Batch]
        /\ threads' = threads
    BY <1>1 DEF GpuBatch
  <2>2. gpuHashed[i] \cap Tagged(i) = {}
    <3> SUFFICES ASSUME NEW p \in gpuHashed[i], p \in Tagged(i) PROVE FALSE
      OBVIOUS
    <3>1. PICK k \in Nat : k < gpuRound[i] /\ p[1] = NonceAt(i, GpuSlot(i), GpuSlots(i), k)
      BY DEF Counts, CountsOf
    <3>2. PICK l \in 0 .. Batch - 1 :
            p[1] = NonceAt(i, GpuSlot(i), GpuSlots(i), gpuRound[i] + l)
      BY DEF Tagged, BatchNonces
    <3>3. gpuRound[i] + l \in Nat /\ k < gpuRound[i] + l
      BY <3>1, GpuLaneTypes, BatchAssumption
    <3>4. NonceAt(i, GpuSlot(i), GpuSlots(i), k) < NonceAt(i, GpuSlot(i), GpuSlots(i), gpuRound[i] + l)
      BY <3>3, GpuLaneTypes, NonceIncreases
    <3>5. /\ NonceAt(i, GpuSlot(i), GpuSlots(i), k) \in Nat
          /\ NonceAt(i, GpuSlot(i), GpuSlots(i), gpuRound[i] + l) \in Nat
      BY <3>3, GpuLaneTypes, NonceIsNat
    <3> QED
      BY <3>1, <3>2, <3>4, <3>5
  <2>3. /\ IsFiniteSet(gpuHashed[i] \cup Tagged(i))
        /\ Cardinality(gpuHashed[i] \cup Tagged(i)) = gpuCount[i] + Batch
    <3>1. /\ IsFiniteSet(gpuHashed[i]) /\ Cardinality(gpuHashed[i]) = gpuCount[i]
          /\ IsFiniteSet(Tagged(i)) /\ Cardinality(Tagged(i)) = Batch
      BY BatchCounts DEF Counts, CountsOf
    <3>2. Cardinality(gpuHashed[i] \cap Tagged(i)) = 0
      BY <2>2, FS_EmptySet
    <3>3. gpuCount[i] \in Nat
      BY DEF TypeOK
    <3> QED
      BY <3>1, <3>2, <3>3, FS_Union, BatchAssumption
  <2>4. ASSUME NEW p \in gpuHashed'[i]
        PROVE  \E k \in Nat : /\ k < gpuRound'[i]
                              /\ p[1] = NonceAt(i, GpuSlot(i), GpuSlots(i), k)
    <3>1. gpuRound'[i] = gpuRound[i] + Batch /\ gpuRound[i] \in Nat
      BY <2>1 DEF TypeOK
    <3>2. CASE p \in gpuHashed[i]
      BY <3>1, <3>2, BatchAssumption DEF Counts, CountsOf
    <3>3. CASE p \in Tagged(i)
      <4>1. PICK l \in 0 .. Batch - 1 :
              p[1] = NonceAt(i, GpuSlot(i), GpuSlots(i), gpuRound[i] + l)
        BY <3>3 DEF Tagged, BatchNonces
      <4>2. gpuRound[i] + l \in Nat /\ gpuRound[i] + l < gpuRound'[i]
        BY <3>1, BatchAssumption
      <4> QED
        BY <4>1, <4>2
    <3> QED
      BY <2>1, <3>2, <3>3 DEF TypeOK
  <2>5. /\ gpuHashed'[i] = gpuHashed[i] \cup Tagged(i)
        /\ gpuCount'[i] = gpuCount[i] + Batch
        /\ \A j \in Miners : j # i => /\ gpuHashed'[j] = gpuHashed[j]
                                     /\ gpuCount'[j] = gpuCount[j]
                                     /\ gpuRound'[j] = gpuRound[j]
    BY <2>1 DEF TypeOK
  <2>6. CountsOf(i)'
    <3>1. GpuSlot(i)' = GpuSlot(i) /\ GpuSlots(i)' = GpuSlots(i)
      BY <2>1 DEF GpuSlot, GpuSlots
    <3>2. IsFiniteSet(gpuHashed'[i]) /\ gpuCount'[i] = Cardinality(gpuHashed'[i])
      BY <2>3, <2>5
    <3> QED
      BY <2>4, <3>1, <3>2 DEF CountsOf
  <2>7. \A j \in Miners : j # i => CountsOf(j)'
    BY <2>1, <2>5, CountsKept DEF Counts
  <2> QED
    BY <2>6, <2>7 DEF Counts
<1>2. ASSUME NEW i \in Miners, GpuReset(i) PROVE Counts'
  <2>1. /\ UNCHANGED <<threads, gpuCount, gpuHashed>>
        /\ gpuRound' = [gpuRound EXCEPT ![i] = @ + Batch]
    BY <1>2 DEF GpuReset
  <2> SUFFICES ASSUME NEW j \in Miners PROVE CountsOf(j)'
    BY DEF Counts
  <2>2. GpuSlot(j)' = GpuSlot(j) /\ GpuSlots(j)' = GpuSlots(j)
    BY <2>1 DEF GpuSlot, GpuSlots
  <2>3. \A k \in Nat : k < gpuRound[j] => k < gpuRound'[j]
    BY <2>1, BatchAssumption DEF TypeOK
  <2>4. gpuHashed'[j] = gpuHashed[j] /\ gpuCount'[j] = gpuCount[j]
    BY <2>1
  <2> QED
    BY <2>2, <2>3, <2>4 DEF Counts, CountsOf
<1>3. ASSUME NEW i \in Miners, AddThread(i) PROVE Counts'
  <2>1. /\ gpuHashed'[i] = {} /\ gpuCount'[i] = 0
        /\ \A j \in Miners : j # i => /\ gpuHashed'[j] = gpuHashed[j]
                                     /\ gpuCount'[j] = gpuCount[j]
                                     /\ gpuRound'[j] = gpuRound[j]
                                     /\ threads'[j] = threads[j]
    BY <1>3 DEF AddThread, TypeOK
  <2>2. IsFiniteSet({}) /\ Cardinality({}) = 0
    BY FS_EmptySet
  <2>3. CountsOf(i)'
    BY <2>1, <2>2 DEF CountsOf
  <2>4. \A j \in Miners : j # i => CountsOf(j)'
    BY <2>1, CountsKept DEF Counts
  <2> QED
    BY <2>3, <2>4 DEF Counts
<1>4. ASSUME UNCHANGED <<threads, gpuRound, gpuCount, gpuHashed>> PROVE Counts'
  BY <1>4, CountsKept DEF Counts
<1>5. ASSUME NEW i \in Miners,
             StartCall(i) \/ (\E w \in WorkersOf(i) : HashCpu(i, w)) \/ GpuRecovered(i)
      PROVE  Counts'
  BY <1>4, <1>5 DEF StartCall, HashCpu, GpuRecovered
<1>6. CASE UNCHANGED vars
  BY <1>4, <1>6 DEF vars
<1> QED
  BY <1>1, <1>2, <1>3, <1>5, <1>6 DEF Next

\* In bench mode the GPU reports each nonce it hashed once, whatever resets and
\* adjustments, at any number of batches.
THEOREM BenchCountsNewHashes == ASSUME ~RpcMode PROVE Spec => []GpuCountsNewHashes
<1>1. Init => TypeOK /\ Counts
  BY TypesInit, FS_EmptySet DEF Init, Counts, CountsOf
<1>2. TypeOK /\ Counts /\ [Next]_vars => TypeOK' /\ Counts'
  BY TypesStep, CountsStep
<1>3. Counts => GpuCountsNewHashes
  BY DEF Counts, CountsOf, GpuCountsNewHashes
<1> QED
  BY <1>1, <1>2, <1>3, PTL DEF Spec

-----------------------------------------------------------------------------
(* Nothing is left out. *)

LEMMA DivisionExists ==
  ASSUME NEW n \in Nat, NEW S \in Nat \ {0}
  PROVE  \E q \in Nat, r \in 0 .. S - 1 : n = q * S + r
<1>1. n \div S \in Int /\ n % S \in 0 .. S - 1 /\ n = S * (n \div S) + (n % S)
  OBVIOUS
<1>2. n \div S \in Nat
  OBVIOUS
<1>3. n = (n \div S) * S + (n % S)
  BY <1>1
<1> QED
  BY <1>1, <1>2, <1>3

\* Every nonce is one of some lane.
LEMMA EveryNonceHasALane ==
  ASSUME NEW n \in Nat, NEW S \in Nat \ {0}
  PROVE  \E i \in Miners, s \in 0 .. S - 1, k \in Nat : n = NonceAt(i, s, S, k)
<1>1. TotalMiners \in Nat \ {0}
  BY MinersAssumption
<1>2. PICK q \in Nat, s \in 0 .. S - 1 : n = q * S + s
  BY DivisionExists
<1>3. PICK k \in Nat, i \in 0 .. TotalMiners - 1 : q = k * TotalMiners + i
  BY <1>1, DivisionExists
<1>4. n = (i * S + s) + k * (S * TotalMiners)
  BY <1>1, <1>2, <1>3
<1> QED
  BY <1>4 DEF NonceAt, Miners

\* What a lane has passed in the call under way was hashed, but for the batches
\* the GPU skips when it fails.
BehindOf(i) ==
  /\ slots[i] # 0 =>
       \A w \in WorkersOf(i) : \A k \in Nat : k < cpuRound[i][w] =>
         <<NonceAt(i, w, slots[i], k), slots[i]>> \in cpuHashed[i][w]
  /\ ~everReset =>
       \A k \in Nat : k < gpuRound[i] =>
         <<NonceAt(i, GpuSlot(i), GpuSlots(i), k), GpuSlots(i)>> \in gpuHashed[i]

Behind == \A i \in Miners : BehindOf(i)

LEMMA BehindKept ==
  ASSUME NEW i \in Miners, BehindOf(i), ~everReset' => ~everReset,
         threads'[i] = threads[i], slots'[i] = slots[i],
         cpuRound'[i] = cpuRound[i], cpuHashed'[i] = cpuHashed[i],
         gpuRound'[i] = gpuRound[i], gpuHashed'[i] = gpuHashed[i]
  PROVE  BehindOf(i)'
<1>1. GpuSlot(i)' = GpuSlot(i) /\ GpuSlots(i)' = GpuSlots(i)
  BY DEF GpuSlot, GpuSlots
<1> QED
  BY <1>1 DEF BehindOf

LEMMA BehindStep ==
  ASSUME TypeOK, Behind, [Next]_vars PROVE Behind'
<1>0. ASSUME NEW i \in Miners, ~everReset' => ~everReset, BehindOf(i)',
             \A j \in Miners : j # i =>
               /\ threads'[j] = threads[j] /\ slots'[j] = slots[j]
               /\ cpuRound'[j] = cpuRound[j] /\ cpuHashed'[j] = cpuHashed[j]
               /\ gpuRound'[j] = gpuRound[j] /\ gpuHashed'[j] = gpuHashed[j]
      PROVE  Behind'
  BY <1>0, BehindKept DEF Behind
<1>1. ASSUME NEW i \in Miners, StartCall(i) PROVE Behind'
  <2>1. /\ \A w \in WorkersOf(i) : cpuRound'[i][w] = 0
        /\ \A j \in Miners : j # i => slots'[j] = slots[j] /\ cpuRound'[j] = cpuRound[j]
        /\ UNCHANGED <<threads, gpuRound, cpuHashed, gpuHashed, everReset>>
    BY <1>1 DEF StartCall, TypeOK
  <2>2. BehindOf(i)'
    <3>1. GpuSlot(i)' = GpuSlot(i) /\ GpuSlots(i)' = GpuSlots(i)
      BY <2>1 DEF GpuSlot, GpuSlots
    <3>2. \A w \in WorkersOf(i) : \A k \in Nat : ~(k < cpuRound'[i][w])
      BY <2>1
    <3> QED
      BY <2>1, <3>1, <3>2 DEF Behind, BehindOf
  <2> QED
    BY <1>0, <2>1, <2>2
<1>2. ASSUME NEW i \in Miners, NEW w \in WorkersOf(i), HashCpu(i, w) PROVE Behind'
  <2> DEFINE n == NonceAt(i, w, slots[i], cpuRound[i][w])
  <2>1. /\ cpuHashed' = [cpuHashed EXCEPT ![i][w] = @ \cup {<<n, slots[i]>>}]
        /\ cpuRound' = [cpuRound EXCEPT ![i][w] = @ + 1]
        /\ slots[i] # 0
        /\ UNCHANGED <<threads, slots, gpuRound, gpuHashed, everReset>>
    BY <1>2 DEF HashCpu
  <2>2. ASSUME NEW v \in WorkersOf(i), NEW k \in Nat, k < cpuRound'[i][v]
        PROVE  <<NonceAt(i, v, slots[i], k), slots[i]>> \in cpuHashed'[i][v]
    <3> HIDE DEF n
    <3>1. cpuHashed[i][v] \subseteq cpuHashed'[i][v]
      BY <2>1 DEF TypeOK
    <3>2. CASE k < cpuRound[i][v]
      BY <2>1, <3>1, <3>2 DEF Behind, BehindOf
    <3>3. CASE ~(k < cpuRound[i][v])
      <4>1. v = w /\ k = cpuRound[i][w]
        <5>1. cpuRound[i] \in [WorkersOf(i) -> Nat] /\ i \in DOMAIN cpuRound
          BY DEF TypeOK
        <5>2. cpuRound'[i] = [cpuRound[i] EXCEPT ![w] = @ + 1]
          BY <2>1, <5>1
        <5> QED
          BY <2>2, <3>3, <5>1, <5>2
      <4>2. <<n, slots[i]>> \in cpuHashed'[i][w]
        BY <2>1 DEF TypeOK
      <4> QED
        BY <4>1, <4>2 DEF n
    <3> QED
      BY <3>2, <3>3
  <2> HIDE DEF n
  <2>3. BehindOf(i)'
    <3>1. GpuSlot(i)' = GpuSlot(i) /\ GpuSlots(i)' = GpuSlots(i)
      BY <2>1 DEF GpuSlot, GpuSlots
    <3> QED
      BY <2>1, <2>2, <3>1 DEF Behind, BehindOf
  <2>4. \A j \in Miners : j # i => cpuRound'[j] = cpuRound[j] /\ cpuHashed'[j] = cpuHashed[j]
    BY <2>1 DEF TypeOK
  <2> QED
    BY <1>0, <2>1, <2>3, <2>4
<1>3. ASSUME NEW i \in Miners, GpuBatch(i) PROVE Behind'
  <2>1. /\ gpuHashed' = [gpuHashed EXCEPT ![i] = @ \cup Tagged(i)]
        /\ gpuRound' = IF RpcMode THEN gpuRound ELSE [gpuRound EXCEPT ![i] = @ + Batch]
        /\ UNCHANGED <<threads, slots, cpuRound, cpuHashed, everReset>>
    BY <1>3 DEF GpuBatch
  <2>2. ASSUME ~everReset, NEW k \in Nat, k < gpuRound'[i]
        PROVE  <<NonceAt(i, GpuSlot(i), GpuSlots(i), k), GpuSlots(i)>> \in gpuHashed'[i]
    <3>1. gpuHashed'[i] = gpuHashed[i] \cup Tagged(i)
      BY <2>1 DEF TypeOK
    <3>2. CASE k < gpuRound[i]
      BY <2>2, <3>1, <3>2 DEF Behind, BehindOf
    <3>3. CASE ~(k < gpuRound[i])
      <4>1. k < gpuRound[i] + Batch /\ gpuRound[i] \in Nat
        BY <2>1, <2>2, <3>3 DEF TypeOK
      <4>2. k - gpuRound[i] \in 0 .. Batch - 1 /\ gpuRound[i] + (k - gpuRound[i]) = k
        BY <3>3, <4>1, BatchAssumption
      <4>3. NonceAt(i, GpuSlot(i), GpuSlots(i), k) \in BatchNonces(i)
        BY <4>2 DEF BatchNonces
      <4> QED
        BY <3>1, <4>3 DEF Tagged
    <3> QED
      BY <3>2, <3>3
  <2>3. BehindOf(i)'
    <3>1. GpuSlot(i)' = GpuSlot(i) /\ GpuSlots(i)' = GpuSlots(i)
      BY <2>1 DEF GpuSlot, GpuSlots
    <3> QED
      BY <2>1, <2>2, <3>1 DEF Behind, BehindOf
  <2>4. \A j \in Miners : j # i => gpuRound'[j] = gpuRound[j] /\ gpuHashed'[j] = gpuHashed[j]
    BY <2>1 DEF TypeOK
  <2> QED
    BY <1>0, <2>1, <2>3, <2>4
<1>4. ASSUME NEW i \in Miners, GpuReset(i) PROVE Behind'
  BY <1>4 DEF GpuReset, Behind, BehindOf
<1>5. ASSUME NEW i \in Miners, AddThread(i) PROVE Behind'
  <2>1. /\ slots'[i] = 0 /\ gpuRound'[i] = 0 /\ everReset' = everReset
        /\ \A j \in Miners : j # i =>
             /\ threads'[j] = threads[j] /\ slots'[j] = slots[j]
             /\ cpuRound'[j] = cpuRound[j] /\ cpuHashed'[j] = cpuHashed[j]
             /\ gpuRound'[j] = gpuRound[j] /\ gpuHashed'[j] = gpuHashed[j]
    BY <1>5 DEF AddThread, TypeOK
  <2>2. \A k \in Nat : ~(k < gpuRound'[i])
    BY <2>1
  <2>3. BehindOf(i)'
    BY <2>1, <2>2 DEF BehindOf
  <2> QED
    BY <1>0, <2>1, <2>3
<1>6. ASSUME UNCHANGED <<threads, slots, cpuRound, cpuHashed, gpuRound, gpuHashed, everReset>>
      PROVE  Behind'
  BY <1>6, BehindKept DEF Behind
<1>7. ASSUME NEW i \in Miners, GpuRecovered(i) PROVE Behind'
  BY <1>6, <1>7 DEF GpuRecovered
<1>8. CASE UNCHANGED vars
  BY <1>6, <1>8 DEF vars
<1> QED
  BY <1>1, <1>2, <1>3, <1>4, <1>5, <1>7, <1>8 DEF Next

\* A lane that is past a nonce of its own has hashed it.
LEMMA PassedIsBehind ==
  ASSUME NEW i \in Miners, NEW s \in Nat, NEW S \in Nat \ {0}, NEW k \in Nat,
         NEW round \in Nat, NonceAt(i, s, S, round) > NonceAt(i, s, S, k)
  PROVE  k < round
<1> SUFFICES ASSUME ~(k < round) PROVE FALSE
  OBVIOUS
<1>1. NonceAt(i, s, S, round) \in Nat /\ NonceAt(i, s, S, k) \in Nat
  BY NonceIsNat
<1>2. CASE k = round
  BY <1>1, <1>2
<1>3. CASE round < k
  BY <1>1, <1>3, NonceIncreases
<1> QED
  BY <1>2, <1>3

LEMMA BehindLeavesNoGap ==
  ASSUME TypeOK, Counted, Behind PROVE NoGap
<1> SUFFICES ASSUME Calm, NEW n \in 0 .. NonceSpace - 1,
                    \A i \in Miners : /\ slots[i] # 0
                                       /\ \A w \in 0 .. threads[i] - 1 :
                                            NonceAt(i, w, slots[i], cpuRound[i][w]) > n,
                    \A i \in WithGPU : NonceAt(i, GpuSlot(i), GpuSlots(i), gpuRound[i]) > n
             PROVE  \E i \in Miners : \/ n \in NoncesOf(gpuHashed[i])
                                       \/ \E w \in WorkersOf(i) : n \in NoncesOf(cpuHashed[i][w])
  BY DEF NoGap
<1>1. PICK S \in Nat \ {0} : \A i \in Miners : S = threads[i] + OneIfGpu(i) /\ slots[i] = S
  <2>1. 0 \in Miners
    BY MinersAssumption DEF Miners
  <2>2. \A i \in Miners : threads[i] = threads[0] /\ OneIfGpu(i) = OneIfGpu(0)
    BY <2>1 DEF Calm, OneIfGpu
  <2>3. \A i \in Miners : slots[i] = threads[i] + OneIfGpu(i)
    BY DEF Counted, Calm
  <2>4. threads[0] + OneIfGpu(0) \in Nat \ {0}
    BY <2>1 DEF TypeOK, OneIfGpu
  <2> QED
    BY <2>2, <2>3, <2>4
<1>2. n \in Nat
  BY BatchAssumption
<1>3. PICK i \in Miners, s \in 0 .. S - 1, k \in Nat : n = NonceAt(i, s, S, k)
  BY <1>2, EveryNonceHasALane
<1>4. /\ threads[i] \in Nat \ {0} /\ threads[i] <= Threads[i] + 1 /\ Threads[i] \in Nat
      /\ s \in Nat /\ slots[i] = S
  BY <1>1, MinerTypes DEF TypeOK
<1>5. CASE s < threads[i]
  <2>1. s \in 0 .. threads[i] - 1 /\ s \in WorkersOf(i)
    BY <1>4, <1>5 DEF WorkersOf
  <2>2. cpuRound[i][s] \in Nat
    BY <2>1 DEF TypeOK
  <2>3. NonceAt(i, s, S, cpuRound[i][s]) > NonceAt(i, s, S, k)
    BY <1>3, <1>4, <2>1
  <2>4. k < cpuRound[i][s]
    BY <1>4, <2>2, <2>3, PassedIsBehind
  <2>5. <<n, S>> \in cpuHashed[i][s]
    BY <1>3, <1>4, <2>1, <2>4 DEF Behind, BehindOf
  <2>6. n \in NoncesOf(cpuHashed[i][s])
    BY <2>5 DEF NoncesOf
  <2> QED
    BY <2>1, <2>6
<1>6. CASE ~(s < threads[i])
  <2>1. i \in WithGPU /\ s = GpuSlot(i) /\ S = GpuSlots(i)
    BY <1>1, <1>4, <1>6 DEF OneIfGpu, GpuSlot, GpuSlots
  <2>2. gpuRound[i] \in Nat
    BY DEF TypeOK
  <2>3. NonceAt(i, s, S, gpuRound[i]) > NonceAt(i, s, S, k)
    BY <1>3, <2>1
  <2>4. k < gpuRound[i]
    BY <1>4, <2>2, <2>3, PassedIsBehind
  <2>5. <<n, S>> \in gpuHashed[i]
    BY <1>3, <2>1, <2>4 DEF Behind, BehindOf, Calm
  <2>6. n \in NoncesOf(gpuHashed[i])
    BY <2>5 DEF NoncesOf
  <2> QED
    BY <2>6
<1> QED
  BY <1>5, <1>6

\* On a calm rig a nonce that every lane has passed was hashed by one of them,
\* at any size, with threads added on every miner.
THEOREM NothingIsLeftOut == Spec => []NoGap
<1>1. Init => TypeOK /\ Lanes /\ Counted /\ Behind
  <2>1. Init => Counted
    BY DEF Init, Counted
  <2>2. ASSUME Init PROVE Behind
    <3>1. \A i \in Miners : slots[i] = 0 /\ gpuRound[i] = 0
      BY <2>2 DEF Init
    <3>2. \A i \in Miners : \A k \in Nat : ~(k < gpuRound[i])
      BY <3>1
    <3> QED
      BY <3>1, <3>2 DEF Behind, BehindOf
  <2> QED
    BY <2>1, <2>2, TypesInit, LanesInit
<1>2. TypeOK /\ Lanes /\ Counted /\ Behind /\ [Next]_vars
        => TypeOK' /\ Lanes' /\ Counted' /\ Behind'
  BY TypesStep, LanesStep, CountedStep, BehindStep
<1>3. TypeOK /\ Counted /\ Behind => NoGap
  BY BehindLeavesNoGap
<1> QED
  BY <1>1, <1>2, <1>3, PTL DEF Spec
=============================================================================
