----------------------------- MODULE GpuDevice -----------------------------
(***************************************************************************)
(* The GPU behind the mining loops: Miner of src/gpu/gpu.go and, under it, *)
(* the C bridge of one backend, src/gpu/cuda_bridge.cu or opencl_bridge.c. *)
(*                                                                         *)
(* A GPU loop hashes batch after batch; when a batch fails it resets the   *)
(* Miner, pauses, and goes on.  A key starts the loop of the next          *)
(* generation while that of the one before may still be in its batch: both *)
(* then use the one Miner and the one set of device buffers, with no lock. *)
(*                                                                         *)
(* gpu_hash writes the headers in one step, and launches the kernel and    *)
(* reads the hashes in another; gpu_close releases object after object,    *)
(* and gpu_init makes one after the other.  A device object is "null",     *)
(* "live", or "dangling": released, the pointer kept.  Headers are known   *)
(* by the loop they belong to.                                             *)
(***************************************************************************)
EXTENDS Naturals, Sequences

CONSTANTS
  NumLoops,       \* bound: how many generations start a GPU loop
  Backends,       \* the builds: "cuda", "opencl" or both
  MaxBatch,       \* the cap on a batch: 256 with CUDA, 2048 with OpenCL
  DefaultBatch,   \* 256: headers per batch when MaxBatch() is below 1
  GroupSize,      \* 256: work items per work group
  Faults          \* TRUE: the device may fail for a while

ASSUME BackendAssumption == Backends \subseteq {"cuda", "opencl"}
ASSUME BatchAssumption   == {MaxBatch, DefaultBatch, GroupSize, NumLoops} \subseteq Nat \ {0}
ASSUME GroupAssumption   == DefaultBatch % GroupSize = 0
ASSUME FaultsAssumption  == Faults \in BOOLEAN

Loops   == 1 .. NumLoops
Nobody  == 0
Objects == {"context", "queue", "program", "kernel", "scratch", "headers",
            "outputs", "pers"}

VARIABLES
  backend,      \* the backend the program was built with
  gen,          \* the loop whose context is not cancelled
  healthy,      \* is the device in order?
  available, maxBatch,        \* fields of gpu.Miner
  object,       \* object[x]: the bridge's pointer to x
  initialized, devBatch,      \* the bridge's initialized and gpu_max_batch
  persFits,     \* is pers_cap large enough for the personalization?
  inHeaders,    \* whose headers are in the device buffer
  pc,           \* pc[l]: where loop l is
  size,         \* size[l]: batchSize, the number of its headers
  left,         \* left[l]: how many of them are not hashed yet
  batch,        \* batch[l]: how many go into the next gpu_hash
  count,        \* count[l]: how many of these gpu_hash takes
  at,           \* at[l]: the stage of gpu_init, or the next object to release
  own,          \* own[l]: is every hash of this batch one of its own headers?
  apart,        \* history: never two loops in Miner.Hash or Miner.Reset at once
  misused,      \* history: an object was used or released after its release
  crashed       \* &headers[0] of an empty slice

minerVars == <<available, maxBatch>>
devVars   == <<object, initialized, devBatch, persFits, inHeaders>>
hashVars  == <<size, left, batch, count, own>>
history   == <<apart, misused, crashed>>
vars == <<backend, gen, healthy, minerVars, devVars, pc, at, hashVars, history>>

\* What gpu_init does, in this order; CUDA has device buffers only.
Stages == IF backend = "cuda" THEN <<"device", "scratch", "headers", "outputs">>
          ELSE <<"device", "context", "queue", "program", "build", "kernel",
                 "scratch", "headers", "outputs">>
Buffers == {"scratch", "headers", "outputs"}
Handles == {"context", "queue", "program", "kernel"}
Made    == IF backend = "cuda" THEN Buffers ELSE Buffers \cup Handles

\* The orders in which gpu_close, and gpu_init when it fails, release.
CloseOrder == IF backend = "cuda" THEN <<"scratch", "headers", "outputs", "pers">>
              ELSE <<"scratch", "headers", "outputs", "pers", "kernel", "program",
                     "queue", "context">>
UndoOrder  == IF backend = "cuda" THEN <<"scratch", "headers", "outputs">>
              ELSE <<"scratch", "headers", "outputs", "kernel", "program", "queue",
                     "context">>

\* Before it comes to the buffers, a failing OpenCL gpu_init releases only what
\* it has made: where in UndoOrder it begins.
FirstUndone(stage) ==
  IF stage \in Buffers THEN 1
  ELSE [context |-> 8, queue |-> 7, program |-> 6, build |-> 5, kernel |-> 5][stage]

\* In Miner.Hash, in Miner.Reset, or on the way from one to the other.
InHash  == {"batch", "write", "launch"}
InClose == {"close", "closing", "wipe"}
InInit  == {"init", "undo", "undoing", "up"}
Inside(l) == pc[l] \in InHash \cup {"reset"} \cup InClose \cup InInit

Cancelled(l) == l < gen
Smaller(x, y) == IF x < y THEN x ELSE y
Goto(l, label) == pc' = [pc EXCEPT ![l] = label]
Step(l, label, n) == Goto(l, label) /\ at' = [at EXCEPT ![l] = n]

\* gpu.New has succeeded, or main would have no Miner.
Init == /\ backend \in Backends
        /\ gen = 1 /\ healthy = TRUE
        /\ devBatch \in 1 .. MaxBatch
        /\ available = TRUE /\ maxBatch = devBatch
        /\ object = [x \in Objects |-> IF x \in Made THEN "live" ELSE "null"]
        /\ initialized = TRUE /\ persFits = FALSE
        /\ inHeaders = Nobody
        /\ pc = [l \in Loops |-> IF l = 1 THEN "start" ELSE "unborn"]
        /\ size = [l \in Loops |-> 0] /\ left = [l \in Loops |-> 0]
        /\ batch = [l \in Loops |-> 0] /\ count = [l \in Loops |-> 0]
        /\ at = [l \in Loops |-> 0] /\ own = [l \in Loops |-> TRUE]
        /\ apart = TRUE /\ misused = FALSE /\ crashed = FALSE

-----------------------------------------------------------------------------
(* The user and the device. *)

\* startMining cancels the loop before and starts one if the GPU is available.
Key == /\ gen < NumLoops
       /\ gen' = gen + 1
       /\ Goto(gen + 1, IF available THEN "start" ELSE "exited")
       /\ UNCHANGED <<backend, healthy, minerVars, devVars, at, hashVars, history>>

Fault == /\ Faults /\ healthy
         /\ healthy' = FALSE
         /\ UNCHANGED <<backend, gen, minerVars, devVars, pc, at, hashVars, history>>

Repair == /\ ~healthy
          /\ healthy' = TRUE
          /\ UNCHANGED <<backend, gen, minerVars, devVars, pc, at, hashVars, history>>

-----------------------------------------------------------------------------
(* A GPU loop, and Miner.Hash. *)

\* The registers of a Hash that has ended are dead.
Forget(l) == /\ size' = [size EXCEPT ![l] = 0] /\ left' = [left EXCEPT ![l] = 0]
             /\ batch' = [batch EXCEPT ![l] = 0] /\ count' = [count EXCEPT ![l] = 0]
             /\ own' = [own EXCEPT ![l] = TRUE]

\* batchSize is read before the loop and after each reset.
Start(l) ==
  /\ pc[l] = "start"
  /\ size' = [size EXCEPT ![l] = IF maxBatch < 1 THEN DefaultBatch ELSE maxBatch]
  /\ Goto(l, "top")
  /\ UNCHANGED <<backend, gen, healthy, minerVars, devVars, at, left, batch, count, own,
                 history>>

\* The head of the loop; then Hash looks at available.
Top(l) ==
  /\ pc[l] = "top"
  /\ IF ~Cancelled(l) /\ available
     THEN /\ Goto(l, "batch")
          /\ left' = [left EXCEPT ![l] = size[l]]
          /\ UNCHANGED <<size, batch, count, own>>
     ELSE Goto(l, IF Cancelled(l) THEN "exited" ELSE "reset") /\ Forget(l)
  /\ apart' = (apart /\ (Cancelled(l) \/ \A k \in Loops \ {l} : ~Inside(k)))
  /\ UNCHANGED <<backend, gen, healthy, minerVars, devVars, at, misused, crashed>>

\* At most maxBatch of the headers that are left; none at all is fatal.
NextBatch(l) ==
  /\ pc[l] = "batch"
  /\ IF maxBatch > 0
     THEN /\ batch' = [batch EXCEPT ![l] = Smaller(left[l], maxBatch)]
          /\ Goto(l, "write")
          /\ UNCHANGED <<size, left, count, own, crashed>>
     ELSE Goto(l, "exited") /\ Forget(l) /\ crashed' = TRUE
  /\ UNCHANGED <<backend, gen, healthy, minerVars, devVars, at, apart, misused>>

\* The objects that the write of the headers and the launch work with.
Needed(label) ==
  (IF label = "launch" THEN Buffers \cup {"pers"}
   ELSE IF persFits THEN {"headers", "pers"} ELSE {"headers"})
  \cup IF backend = "cuda" THEN {} ELSE {"kernel", "queue"}

AllLive(S) == \A x \in S : object[x] = "live"

\* gpu_hash until the headers are on the device: no more than devBatch of them.
\* A personalization longer than the last gets a buffer of its size.
HashWrite(l) ==
  /\ pc[l] = "write"
  /\ initialized /\ healthy /\ devBatch > 0 /\ AllLive(Needed("write"))
  /\ count' = [count EXCEPT ![l] = Smaller(batch[l], devBatch)]
  /\ misused' = (misused \/ (~persFits /\ object["pers"] = "dangling"))
  /\ object' = [object EXCEPT !["pers"] = "live"] /\ persFits' = TRUE
  /\ inHeaders' = l
  /\ Goto(l, "launch")
  /\ UNCHANGED <<backend, gen, healthy, minerVars, initialized, devBatch, at, size, left,
                 batch, own, apart, crashed>>

\* Its kernel launch and the read: the hashes are of what the device buffer
\* holds, for count of the batch; the rest stays zero.
HashRead(l) ==
  /\ pc[l] = "launch"
  /\ healthy /\ AllLive(Needed("launch"))
  /\ backend = "opencl" => count[l] % GroupSize = 0
  /\ own' = [own EXCEPT ![l] = @ /\ inHeaders = l /\ count[l] = batch[l]]
  /\ left' = [left EXCEPT ![l] = @ - batch[l]]
  /\ batch' = [batch EXCEPT ![l] = 0] /\ count' = [count EXCEPT ![l] = 0]
  /\ Goto(l, IF left[l] = batch[l] THEN "done" ELSE "batch")
  /\ UNCHANGED <<backend, gen, healthy, minerVars, devVars, at, size, history>>

\* Any call of it fails: not initialized, a device in disorder, an object that
\* is not there, or a batch OpenCL does not take.  A pers buffer that cannot be
\* made leaves pers_cap raised, and OpenCL's pointer null.
HashFails(l) ==
  /\ pc[l] \in {"write", "launch"}
  /\ \/ ~healthy \/ ~AllLive(Needed(pc[l]))
     \/ pc[l] = "write" /\ ~(initialized /\ devBatch > 0)
     \/ pc[l] = "launch" /\ backend = "opencl" /\ count[l] % GroupSize # 0
  /\ misused' = (misused \/ \E x \in Needed(pc[l]) : object[x] = "dangling")
  /\ \/ UNCHANGED <<object, persFits>>
     \/ /\ pc[l] = "write" /\ initialized /\ ~persFits
        /\ persFits' = TRUE
        /\ object' = [object EXCEPT !["pers"] =
                        IF backend = "cuda" /\ @ # "null" THEN "dangling" ELSE "null"]
  /\ Goto(l, "reset") /\ Forget(l)
  /\ UNCHANGED <<backend, gen, healthy, minerVars, initialized, devBatch, inHeaders, at,
                 apart, crashed>>

\* The loop looks at the hashes and goes on.
Use(l) ==
  /\ pc[l] = "done"
  /\ own' = [own EXCEPT ![l] = TRUE]
  /\ Goto(l, "top")
  /\ UNCHANGED <<backend, gen, healthy, minerVars, devVars, at, size, left, batch, count,
                 history>>

-----------------------------------------------------------------------------
(* Miner.Reset: gpu_close. *)

\* Mutant of ResetBegin: available stays up during the reset.
ResetBegin_KeepsUp(l) ==
  /\ pc[l] = "reset"
  /\ maxBatch' = 0
  /\ Step(l, "close", 1)
  /\ UNCHANGED <<backend, gen, healthy, available, devVars, hashVars, history>>

ResetBegin(l) ==
  /\ pc[l] = "reset"
  /\ available' = FALSE /\ maxBatch' = 0
  /\ Step(l, "close", 1)
  /\ UNCHANGED <<backend, gen, healthy, devVars, hashVars, history>>

\* The order a loop releases in, and the object it has come to.
Order(l) == IF pc[l] \in InClose THEN CloseOrder ELSE UndoOrder
NextObject(l) == Order(l)[at[l]]

\* A pointer that is not null is released; with CUDA it is cleared then, in a
\* step of its own.
Release(l) ==
  /\ pc[l] \in {"close", "undo"} /\ at[l] \in DOMAIN Order(l)
  /\ LET x == NextObject(l) IN
       /\ misused' = (misused \/ object[x] = "dangling")
       /\ object' = [object EXCEPT ![x] = IF @ = "null" THEN "null" ELSE "dangling"]
       /\ IF backend = "cuda" /\ object[x] # "null"
          THEN Step(l, IF pc[l] = "close" THEN "closing" ELSE "undoing", at[l])
          ELSE Step(l, pc[l], at[l] + 1)
  /\ UNCHANGED <<backend, gen, healthy, minerVars, initialized, devBatch, persFits,
                 inHeaders, hashVars, apart, crashed>>

\* Mutant of Clear: the CUDA bridge too keeps its pointers.
Clear_Keeps(l) ==
  /\ pc[l] \in {"closing", "undoing"}
  /\ Step(l, IF pc[l] = "closing" THEN "close" ELSE "undo", at[l] + 1)
  /\ UNCHANGED <<backend, gen, healthy, minerVars, devVars, hashVars, history>>

Clear(l) ==
  /\ pc[l] \in {"closing", "undoing"}
  /\ object' = [object EXCEPT ![NextObject(l)] = "null"]
  /\ Step(l, IF pc[l] = "closing" THEN "close" ELSE "undo", at[l] + 1)
  /\ UNCHANGED <<backend, gen, healthy, minerVars, initialized, devBatch, persFits,
                 inHeaders, hashVars, history>>

\* Mutant of CloseEnds: pers_cap is not set back.
CloseEnds_KeepsCap(l) ==
  /\ pc[l] = "close" /\ at[l] = Len(CloseOrder) + 1
  /\ object' = IF backend = "cuda" THEN object ELSE [x \in Objects |-> "null"]
  /\ initialized' = FALSE /\ devBatch' = 0
  /\ Step(l, IF backend = "cuda" THEN "wipe" ELSE "init", 1)
  /\ UNCHANGED <<backend, gen, healthy, minerVars, persFits, inHeaders, hashVars, history>>

\* OpenCL clears its pointers all together.
CloseEnds(l) ==
  /\ pc[l] = "close" /\ at[l] = Len(CloseOrder) + 1
  /\ object' = IF backend = "cuda" THEN object ELSE [x \in Objects |-> "null"]
  /\ initialized' = FALSE /\ devBatch' = 0 /\ persFits' = FALSE
  /\ Step(l, IF backend = "cuda" THEN "wipe" ELSE "init", 1)
  /\ UNCHANGED <<backend, gen, healthy, minerVars, inHeaders, hashVars, history>>

\* cudaDeviceReset destroys whatever there is on the device.
Wipe(l) ==
  /\ pc[l] = "wipe"
  /\ object' = [x \in Objects |-> IF object[x] = "live" THEN "dangling" ELSE object[x]]
  /\ Step(l, "init", 1)
  /\ UNCHANGED <<backend, gen, healthy, minerVars, initialized, devBatch, persFits,
                 inHeaders, hashVars, history>>

-----------------------------------------------------------------------------
(* Miner.Reset: gpu_init. *)

\* Mutant of Sizes: a batch as large as the memory allows, without the cap.
Sizes_NoCap(stage) == IF stage = "scratch" THEN 1 .. MaxBatch + 1 ELSE {devBatch}

\* Mutant of Sizes: no batch at all when the memory is short.
Sizes_NoFloor(stage) == IF stage = "scratch" THEN 0 .. MaxBatch ELSE {devBatch}

\* Before the first buffer the memory decides on the batch, between 1 and the cap.
Sizes(stage) == IF stage = "scratch" THEN 1 .. MaxBatch ELSE {devBatch}

\* A stage succeeds.
Open(l) ==
  /\ pc[l] = "init" /\ at[l] \in DOMAIN Stages /\ healthy
  /\ LET stage == Stages[at[l]] IN
       /\ object' = [x \in Objects |-> IF x = stage THEN "live" ELSE object[x]]
       /\ devBatch' \in Sizes(stage)
  /\ Step(l, "init", at[l] + 1)
  /\ UNCHANGED <<backend, gen, healthy, minerVars, initialized, persFits, inHeaders,
                 hashVars, history>>

OpenEnds(l) ==
  /\ pc[l] = "init" /\ at[l] = Len(Stages) + 1
  /\ initialized' = TRUE
  /\ Step(l, "up", 0)
  /\ UNCHANGED <<backend, gen, healthy, minerVars, object, devBatch, persFits, inHeaders,
                 hashVars, history>>

\* A stage fails: OpenCL's call returns NULL, CUDA's leaves the pointer alone.
OpenFails(l) ==
  /\ pc[l] = "init" /\ at[l] \in DOMAIN Stages /\ ~healthy
  /\ LET stage == Stages[at[l]] IN
       /\ object' = [x \in Objects |->
                       IF x = stage /\ backend = "opencl" THEN "null" ELSE object[x]]
       /\ devBatch' \in Sizes(stage)
       /\ IF stage = "device" THEN Step(l, "start", 0)
          ELSE Step(l, "undo", FirstUndone(stage))
  /\ UNCHANGED <<backend, gen, healthy, minerVars, initialized, persFits, inHeaders,
                 hashVars, history>>

\* What gpu_init had made is released; OpenCL leaves gpu_max_batch as computed.
UndoEnds(l) ==
  /\ pc[l] = "undo" /\ at[l] = Len(UndoOrder) + 1
  /\ devBatch' = IF backend = "cuda" THEN 0 ELSE devBatch
  /\ Step(l, "start", 0)
  /\ UNCHANGED <<backend, gen, healthy, minerVars, object, initialized, persFits,
                 inHeaders, hashVars, history>>

\* Mutant of ResetEnd: the Miner asks for the largest batch, not the bridge's.
ResetEnd_Cap(l) ==
  /\ pc[l] = "up"
  /\ available' = TRUE /\ maxBatch' = MaxBatch
  /\ Goto(l, "start")
  /\ UNCHANGED <<backend, gen, healthy, devVars, at, hashVars, history>>

ResetEnd(l) ==
  /\ pc[l] = "up"
  /\ available' = TRUE /\ maxBatch' = devBatch
  /\ Goto(l, "start")
  /\ UNCHANGED <<backend, gen, healthy, devVars, at, hashVars, history>>

Loop(l) == \/ Start(l) \/ Top(l) \/ NextBatch(l) \/ HashWrite(l) \/ HashRead(l)
           \/ HashFails(l) \/ Use(l) \/ ResetBegin(l) \/ Release(l) \/ Clear(l)
           \/ CloseEnds(l) \/ Wipe(l) \/ Open(l) \/ OpenEnds(l) \/ OpenFails(l)
           \/ UndoEnds(l) \/ ResetEnd(l)

Next == Key \/ Fault \/ Repair \/ \E l \in Loops : Loop(l)

\* The loops run; nobody has to press a key or repair the device.
Spec     == Init /\ [][Next]_vars
FairSpec == Spec /\ \A l \in Loops : WF_vars(Loop(l))

-----------------------------------------------------------------------------
(* Properties. *)

TypeOK ==
  /\ gen \in Loops
  /\ backend \in Backends
  /\ {healthy, available, initialized, persFits, apart, misused, crashed} \subseteq BOOLEAN
  /\ maxBatch \in 0 .. MaxBatch /\ devBatch \in 0 .. MaxBatch
  /\ object \in [Objects -> {"null", "live", "dangling"}]
  /\ inHeaders \in Loops \cup {Nobody}
  /\ pc \in [Loops -> {"unborn", "start", "top", "done", "reset", "exited"}
                        \cup InHash \cup InClose \cup InInit]
  /\ at \in [Loops -> 0 .. 10]
  /\ size \in [Loops -> Nat] /\ left \in [Loops -> Nat]
  /\ batch \in [Loops -> Nat] /\ count \in [Loops -> Nat]
  /\ own \in [Loops -> BOOLEAN]

\* gpu.go:46, "Available returns true if a GPU backend is initialized": while
\* the Miner says so every object of the bridge is there, and the Miner and the
\* bridge agree on the size of a batch, through every failure and the loops of
\* several generations, as long as no two of them were at the device at once.
ReadyWhenAvailable ==
  apart /\ available => /\ initialized /\ AllLive(Made)
                        /\ maxBatch = devBatch /\ maxBatch > 0

\* No batch is ever empty, with whatever failures and resets, and with a size
\* that a loop read while the one before was resetting the Miner.
NoCrash == apart => ~crashed

\* gpu.go:75-76, "Hash submits a batch of block headers ... and returns the
\* resulting hashes": one for each of the loop's own headers, through resets,
\* batches of another size and a loop before that reset the device.
HashesOwn == apart => \A l \in Loops : pc[l] = "done" => own[l]

\* With CUDA, whose bridge clears each pointer, nothing is released or used after
\* its release: not by a reset after a reset that failed halfway, in whatever
\* stage, nor by the next loop, as long as no two were at the device at once.
ReleasedOnce == backend = "cuda" /\ apart => ~misused

\* The launch takes the batches that devBatch makes: clEnqueueNDRangeKernel wants
\* whole work groups (opencl_bridge.c:208-211), a CUDA launch takes any number.
WholeGroups == backend = "opencl" => devBatch % GroupSize = 0

\* bridge.h:37, "Reset GPU context (re-init after timeout/error to recover)": a
\* device that is in order in the end is hashing in the end, whatever failed
\* before and wherever it failed, for the last loop that was started; with OpenCL
\* if nothing was released twice and the memory makes whole work groups.
Recovers ==
  [](apart /\ ~misused /\ WholeGroups /\ pc[gen] # "exited") /\ <>[]healthy
    => []<>(pc[gen] = "done")
=============================================================================
