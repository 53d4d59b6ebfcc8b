--------------------------- MODULE GpuDevice_proofs ---------------------------
(***************************************************************************)
(* The promises of gpu.Miner over either bridge, for any batch sizes, any  *)
(* faults and any number of loops.  Beyond the types they hold as long as  *)
(* no two loops were at the device at once, which apart remembers.         *)
(***************************************************************************)
EXTENDS GpuDevice, TLAPS

-----------------------------------------------------------------------------
(* Types. *)

Pcs    == {"unborn", "start", "top", "done", "reset", "exited"}
            \cup InHash \cup InClose \cup InInit
States == {"null", "live", "dangling"}

\* A batch is taken from the headers that are left.
BatchFits ==
  \A l \in Loops : pc[l] \in {"write", "launch"} => batch[l] <= left[l]

\* A pointer that is to be cleared is one of its list.
Places ==
  \A l \in Loops : /\ pc[l] = "closing" => at[l] \in DOMAIN CloseOrder
                   /\ pc[l] = "undoing" => at[l] \in DOMAIN UndoOrder

TypeInv == TypeOK /\ BatchFits /\ Places

LEMMA SmallerType ==
  ASSUME NEW x \in Nat, NEW y \in Nat
  PROVE  Smaller(x, y) \in Nat /\ Smaller(x, y) <= x /\ Smaller(x, y) <= y
         /\ (x > 0 /\ y > 0 => Smaller(x, y) > 0)
BY DEF Smaller

LEMMA ConstantTypes ==
  /\ MaxBatch \in Nat \ {0} /\ DefaultBatch \in Nat \ {0}
  /\ NumLoops \in Nat \ {0} /\ 1 \in Loops
BY BatchAssumption DEF Loops

\* The three lists of objects, for either backend.
LEMMA CudaLists ==
  ASSUME backend = "cuda"
  PROVE  /\ DOMAIN Stages = 1 .. 4 /\ DOMAIN CloseOrder = 1 .. 4 /\ DOMAIN UndoOrder = 1 .. 3
         /\ Len(Stages) = 4 /\ Len(CloseOrder) = 4 /\ Len(UndoOrder) = 3
         /\ \A k \in 1 .. 4 : CloseOrder[k] \in Objects \ Handles
         /\ \A k \in 1 .. 3 : UndoOrder[k] \in Objects \ Handles
         /\ \A k \in 1 .. 4 : Stages[k] \notin Handles \cup {"pers"}
         /\ \A x \in Objects \ Handles : \E k \in 1 .. 4 : CloseOrder[k] = x
         /\ \A x \in Made : \E k \in 1 .. 4 : Stages[k] = x
BY DEF Stages, CloseOrder, UndoOrder, Objects, Handles, Made, Buffers

LEMMA OpenclLists ==
  ASSUME backend = "opencl"
  PROVE  /\ DOMAIN Stages = 1 .. 9 /\ DOMAIN CloseOrder = 1 .. 8 /\ DOMAIN UndoOrder = 1 .. 7
         /\ Len(Stages) = 9 /\ Len(CloseOrder) = 8 /\ Len(UndoOrder) = 7
         /\ \A k \in 1 .. 8 : CloseOrder[k] \in Objects
         /\ \A k \in 1 .. 7 : UndoOrder[k] \in Objects
         /\ \A x \in Made : \E k \in 1 .. 9 : Stages[k] = x
BY DEF Stages, CloseOrder, UndoOrder, Objects, Handles, Made, Buffers

\* What the steps use of them.
LEMMA Lists ==
  ASSUME backend \in {"cuda", "opencl"}
  PROVE  /\ DOMAIN Stages = 1 .. Len(Stages) /\ Len(Stages) \in 4 .. 9
         /\ DOMAIN CloseOrder = 1 .. Len(CloseOrder) /\ Len(CloseOrder) \in 4 .. 8
         /\ DOMAIN UndoOrder = 1 .. Len(UndoOrder) /\ Len(UndoOrder) \in 3 .. 7
         /\ \A n : n \in DOMAIN Stages => n \in 1 .. 9 /\ n + 1 \in 0 .. 10
         /\ \A n : n \in DOMAIN CloseOrder \cup DOMAIN UndoOrder =>
                  n \in 1 .. 8 /\ n + 1 \in 0 .. 10
         /\ \A x \in Made : \E k \in DOMAIN Stages : Stages[k] = x
         /\ Made \subseteq Objects /\ "pers" \in Objects /\ "pers" \notin Made
         /\ "scratch" \in Made
<1>1. /\ Made \subseteq Objects /\ "pers" \in Objects /\ "pers" \notin Made
      /\ "scratch" \in Made
  BY DEF Made, Objects, Buffers, Handles
<1>2. CASE backend = "cuda"
  <2>1. /\ DOMAIN Stages = 1 .. Len(Stages) /\ DOMAIN CloseOrder = 1 .. Len(CloseOrder)
        /\ DOMAIN UndoOrder = 1 .. Len(UndoOrder)
    BY <1>2, CudaLists
  <2>2. Len(Stages) \in 4 .. 9 /\ Len(CloseOrder) \in 4 .. 8 /\ Len(UndoOrder) \in 3 .. 7
    BY <1>2, CudaLists
  <2>3. \A x \in Made : \E k \in DOMAIN Stages : Stages[k] = x
    BY <1>2, CudaLists
  <2>4. /\ \A n : n \in DOMAIN Stages => n \in 1 .. 9 /\ n + 1 \in 0 .. 10
        /\ \A n : n \in DOMAIN CloseOrder \cup DOMAIN UndoOrder =>
                 n \in 1 .. 8 /\ n + 1 \in 0 .. 10
    BY <1>2, CudaLists
  <2> QED
    BY <1>1, <2>1, <2>2, <2>3, <2>4
<1>3. CASE backend = "opencl"
  <2>1. /\ DOMAIN Stages = 1 .. Len(Stages) /\ DOMAIN CloseOrder = 1 .. Len(CloseOrder)
        /\ DOMAIN UndoOrder = 1 .. Len(UndoOrder)
    BY <1>3, OpenclLists
  <2>2. Len(Stages) \in 4 .. 9 /\ Len(CloseOrder) \in 4 .. 8 /\ Len(UndoOrder) \in 3 .. 7
    BY <1>3, OpenclLists
  <2>3. \A x \in Made : \E k \in DOMAIN Stages : Stages[k] = x
    BY <1>3, OpenclLists
  <2>4. /\ \A n : n \in DOMAIN Stages => n \in 1 .. 9 /\ n + 1 \in 0 .. 10
        /\ \A n : n \in DOMAIN CloseOrder \cup DOMAIN UndoOrder =>
                 n \in 1 .. 8 /\ n + 1 \in 0 .. 10
    BY <1>3, OpenclLists
  <2> QED
    BY <1>1, <2>1, <2>2, <2>3, <2>4
<1> QED
  BY <1>2, <1>3

LEMMA FirstUndoneType ==
  ASSUME NEW k \in DOMAIN Stages, Stages[k] # "device"
  PROVE  FirstUndone(Stages[k]) \in 1 .. 8
<1>1. Stages[k] \in {"scratch", "headers", "outputs", "context", "queue", "program",
                     "build", "kernel"}
  BY DEF Stages
<1> QED
  BY <1>1 DEF FirstUndone, Buffers

\* The build stays, and once two loops have met at the device it is remembered.
LEMMA Always ==
  ASSUME [Next]_vars
  PROVE  backend' = backend /\ (apart' => apart)
<1>1. CASE Key \/ Fault \/ Repair
  BY <1>1 DEF Key, Fault, Repair, history
<1>2. ASSUME NEW l \in Loops, Loop(l) PROVE backend' = backend /\ (apart' => apart)
  <2>1. CASE Top(l)
    BY <2>1 DEF Top
  <2>2. CASE ~Top(l)
    <3>1. UNCHANGED <<backend, apart>>
      BY <1>2, <2>2 DEF Loop, Start, NextBatch, HashWrite, HashRead, HashFails, Use,
                ResetBegin, Release, Clear, CloseEnds, Wipe, Open, OpenEnds, OpenFails,
                UndoEnds, ResetEnd, history
    <3> QED
      BY <3>1
  <2> QED
    BY <2>1, <2>2
<1>3. CASE UNCHANGED vars
  BY <1>3 DEF vars, history
<1> QED
  BY <1>1, <1>2, <1>3 DEF Next

\* The lists are the same in the next state.
LEMMA SameLists ==
  ASSUME backend' = backend
  PROVE  /\ Stages' = Stages /\ CloseOrder' = CloseOrder /\ UndoOrder' = UndoOrder
         /\ Made' = Made
BY DEF Stages, CloseOrder, UndoOrder, Made

LEMMA TypeInit == Init => TypeInv
<1> SUFFICES ASSUME Init PROVE TypeInv
  OBVIOUS
<1> USE ConstantTypes DEF Init
<1>1. object \in [Objects -> States]
  BY DEF States
<1>2. pc \in [Loops -> {"start", "unborn"}] /\ gen \in Loops
  OBVIOUS
<1>3. BatchFits /\ Places
  BY <1>2 DEF BatchFits, Places
<1>4. {healthy, available, initialized, persFits, apart, misused, crashed} \subseteq BOOLEAN
  OBVIOUS
<1>5. devBatch \in 0 .. MaxBatch /\ maxBatch \in 0 .. MaxBatch /\ backend \in Backends
  OBVIOUS
<1>6. /\ size \in [Loops -> Nat] /\ left \in [Loops -> Nat] /\ count \in [Loops -> Nat]
      /\ batch \in [Loops -> Nat] /\ own \in [Loops -> BOOLEAN] /\ at \in [Loops -> 0 .. 10]
      /\ inHeaders = Nobody
  OBVIOUS
<1>7. pc \in [Loops -> Pcs]
  BY <1>2 DEF Pcs
<1> QED
  BY <1>1, <1>3, <1>4, <1>5, <1>6, <1>7, <1>2 DEF TypeInv, TypeOK, States, Pcs

\* A loop goes to another label: what that asks of the types.
LEMMA Goes ==
  ASSUME TypeInv, NEW l \in Loops, NEW label \in Pcs, NEW n \in 0 .. 10,
         backend' = backend,
         pc' = [pc EXCEPT ![l] = label], at' = [at EXCEPT ![l] = n],
         label = "closing" => n \in DOMAIN CloseOrder,
         label = "undoing" => n \in DOMAIN UndoOrder
  PROVE  pc' \in [Loops -> Pcs] /\ at' \in [Loops -> 0 .. 10] /\ Places'
BY SameLists DEF TypeInv, TypeOK, Pcs, Places

\* The same when at is left alone.
LEMMA GoesOn ==
  ASSUME TypeInv, NEW l \in Loops, NEW label \in Pcs \ {"closing", "undoing"},
         backend' = backend, pc' = [pc EXCEPT ![l] = label], at' = at
  PROVE  pc' \in [Loops -> Pcs] /\ at' \in [Loops -> 0 .. 10] /\ Places'
BY SameLists DEF TypeInv, TypeOK, Pcs, Places

\* A step of Miner.Reset, or another that leaves the registers alone.
LEMMA ResetTypes ==
  ASSUME TypeInv, NEW l \in Loops, NEW label \in Pcs \ {"write", "launch"},
         pc' = [pc EXCEPT ![l] = label], pc' \in [Loops -> Pcs],
         at' \in [Loops -> 0 .. 10], Places',
         UNCHANGED <<backend, gen, healthy, hashVars, inHeaders, apart, crashed>>,
         object' \in [Objects -> States],
         available' \in BOOLEAN, initialized' \in BOOLEAN, persFits' \in BOOLEAN,
         misused' \in BOOLEAN, maxBatch' \in 0 .. MaxBatch, devBatch' \in 0 .. MaxBatch
  PROVE  TypeInv'
<1>1. BatchFits'
  BY DEF BatchFits, TypeInv, TypeOK, hashVars
<1>2. {healthy, available, initialized, persFits, apart, misused, crashed}' \subseteq BOOLEAN
  BY DEF TypeInv, TypeOK
<1>3. /\ gen' \in Loops /\ backend' \in Backends /\ inHeaders' \in Loops \cup {Nobody}
      /\ size' \in [Loops -> Nat] /\ left' \in [Loops -> Nat]
      /\ batch' \in [Loops -> Nat] /\ count' \in [Loops -> Nat]
      /\ own' \in [Loops -> BOOLEAN]
  BY DEF TypeInv, TypeOK, hashVars
<1> QED
  BY <1>1, <1>2, <1>3 DEF TypeInv, TypeOK, States, Pcs

\* A step of Miner.Hash or of the loop around it.
LEMMA HashTypes ==
  ASSUME TypeInv, NEW l \in Loops, NEW label \in Pcs \ {"closing", "undoing"},
         pc' = [pc EXCEPT ![l] = label],
         UNCHANGED <<backend, gen, healthy, minerVars, initialized, devBatch, at>>,
         object' \in [Objects -> States], inHeaders' \in {inHeaders, l},
         persFits' \in BOOLEAN, apart' \in BOOLEAN, misused' \in BOOLEAN,
         crashed' \in BOOLEAN,
         size' \in [Loops -> Nat], count' \in [Loops -> Nat], own' \in [Loops -> BOOLEAN],
         NEW b \in Nat, batch' = [batch EXCEPT ![l] = b],
         NEW n \in Nat, left' = [left EXCEPT ![l] = n],
         label \in {"write", "launch"} => b <= n
  PROVE  TypeInv'
<1>1. BatchFits'
  BY DEF BatchFits, TypeInv, TypeOK
<1>2. pc' \in [Loops -> Pcs] /\ at' \in [Loops -> 0 .. 10] /\ Places'
  BY GoesOn
<1>3. {healthy, available, initialized, persFits, apart, misused, crashed}' \subseteq BOOLEAN
  BY DEF TypeInv, TypeOK, minerVars
<1>4. /\ gen' \in Loops /\ backend' \in Backends /\ inHeaders' \in Loops \cup {Nobody}
      /\ maxBatch' \in 0 .. MaxBatch /\ devBatch' \in 0 .. MaxBatch
      /\ left' \in [Loops -> Nat] /\ batch' \in [Loops -> Nat]
  BY DEF TypeInv, TypeOK, minerVars
<1> QED
  BY <1>1, <1>2, <1>3, <1>4 DEF TypeInv, TypeOK, States, Pcs

LEMMA TypeKept ==
  ASSUME TypeInv, [Next]_vars
  PROVE  TypeInv'
<1> USE ConstantTypes
<1>0. backend' = backend /\ backend \in {"cuda", "opencl"}
  BY Always, BackendAssumption DEF TypeInv, TypeOK
<1>a. /\ object \in [Objects -> States] /\ pc \in [Loops -> Pcs] /\ at \in [Loops -> 0 .. 10]
      /\ size \in [Loops -> Nat] /\ left \in [Loops -> Nat] /\ batch \in [Loops -> Nat]
      /\ count \in [Loops -> Nat] /\ own \in [Loops -> BOOLEAN]
      /\ maxBatch \in 0 .. MaxBatch /\ devBatch \in 0 .. MaxBatch
      /\ available \in BOOLEAN /\ initialized \in BOOLEAN /\ persFits \in BOOLEAN
      /\ misused \in BOOLEAN /\ apart \in BOOLEAN /\ crashed \in BOOLEAN
      /\ healthy \in BOOLEAN /\ gen \in Loops /\ backend \in Backends
      /\ inHeaders \in Loops \cup {Nobody}
  BY DEF TypeInv, TypeOK, States, Pcs
<1>b. /\ 0 \in 0 .. MaxBatch /\ 0 \in 0 .. 10 /\ 1 \in 0 .. 10 /\ 0 \in Nat
      /\ maxBatch \in Nat /\ devBatch \in Nat
      /\ \A l \in Loops : left[l] \in Nat /\ batch[l] \in Nat
  BY <1>a
<1>1. CASE Key
  <2>1. gen + 1 \in Loops /\ gen' = gen + 1
    BY <1>1, <1>a DEF Key, Loops
  <2>2. PICK label \in {"start", "exited"} : pc' = [pc EXCEPT ![gen + 1] = label]
    BY <1>1 DEF Key, Goto
  <2>3. UNCHANGED <<backend, healthy, available, maxBatch, object, initialized, devBatch,
                    persFits, inHeaders, at, size, left, batch, count, own, apart,
                    misused, crashed>>
    BY <1>1 DEF Key, minerVars, devVars, hashVars, history
  <2>4. pc' \in [Loops -> Pcs] /\ Places'
    BY <1>0, <2>1, <2>2, <2>3, GoesOn DEF Pcs
  <2>5. BatchFits'
    BY <1>a, <2>1, <2>2, <2>3 DEF BatchFits, TypeInv
  <2>6. {healthy, available, initialized, persFits, apart, misused, crashed}' \subseteq BOOLEAN
    BY <1>a, <2>3
  <2> QED
    BY <1>a, <2>1, <2>3, <2>4, <2>5, <2>6 DEF TypeInv, TypeOK, Pcs, States
<1>2. CASE Fault \/ Repair
  <2>1. healthy' \in BOOLEAN
    BY <1>2 DEF Fault, Repair
  <2>2. UNCHANGED <<backend, gen, available, maxBatch, object, initialized, devBatch,
                    persFits, inHeaders, pc, at, size, left, batch, count, own, apart,
                    misused, crashed>>
    BY <1>2 DEF Fault, Repair, minerVars, devVars, hashVars, history
  <2>3. {healthy, available, initialized, persFits, apart, misused, crashed}' \subseteq BOOLEAN
    BY <1>a, <2>1, <2>2
  <2> QED
    BY <2>2, <2>3, SameLists DEF TypeInv, TypeOK, BatchFits, Places
<1>3. ASSUME NEW l \in Loops, Loop(l) PROVE TypeInv'
  <2> USE DEF Goto, Step
  <2>1. CASE Start(l)
    <3>1. /\ pc' = [pc EXCEPT ![l] = "top"] /\ size' \in [Loops -> Nat]
          /\ batch' = [batch EXCEPT ![l] = batch[l]] /\ left' = [left EXCEPT ![l] = left[l]]
          /\ "top" \in Pcs \ {"closing", "undoing"}
          /\ UNCHANGED <<backend, gen, healthy, minerVars, devVars, at, count, own, history>>
      BY <1>a, <2>1 DEF Start, Pcs
    <3> QED
      BY <1>a, <3>1, HashTypes DEF devVars, history
  <2>2. CASE Top(l)
    <3>1. PICK label \in {"batch", "exited", "reset"} : pc' = [pc EXCEPT ![l] = label]
      BY <2>2 DEF Top
    <3>2. /\ size' \in [Loops -> Nat] /\ count' \in [Loops -> Nat] /\ own' \in [Loops -> BOOLEAN]
          /\ \E b \in Nat : batch' = [batch EXCEPT ![l] = b]
          /\ \E n \in Nat : left' = [left EXCEPT ![l] = n]
      <4>1. CASE Forget(l)
        BY <1>a, <4>1 DEF Forget
      <4>2. CASE left' = [left EXCEPT ![l] = size[l]] /\ UNCHANGED <<size, batch, count, own>>
        <5>1. size[l] \in Nat /\ batch[l] \in Nat /\ batch' = [batch EXCEPT ![l] = batch[l]]
          BY <1>a, <4>2
        <5> QED
          BY <1>a, <4>2, <5>1
      <4> QED
        BY <2>2, <4>1, <4>2 DEF Top
    <3>3. /\ UNCHANGED <<backend, gen, healthy, minerVars, devVars, at, misused, crashed>>
          /\ apart' \in BOOLEAN
      BY <1>a, <2>2 DEF Top
    <3> QED
      BY <1>a, <3>1, <3>2, <3>3, HashTypes DEF devVars, Pcs, InHash
  <2>3. CASE NextBatch(l)
    <3>1. UNCHANGED <<backend, gen, healthy, minerVars, devVars, at, apart, misused>>
      BY <2>3 DEF NextBatch
    <3>2. CASE maxBatch > 0
      <4>1. Smaller(left[l], maxBatch) \in Nat /\ Smaller(left[l], maxBatch) <= left[l]
        BY <1>b, SmallerType
      <4>2. /\ pc' = [pc EXCEPT ![l] = "write"] /\ left' = [left EXCEPT ![l] = left[l]]
            /\ batch' = [batch EXCEPT ![l] = Smaller(left[l], maxBatch)]
            /\ UNCHANGED <<size, count, own, crashed>>
        BY <1>a, <2>3, <3>2 DEF NextBatch
      <4> QED
        BY <1>a, <3>1, <4>1, <4>2, HashTypes DEF devVars, Pcs, InHash
    <3>3. CASE ~(maxBatch > 0)
      <4>1. pc' = [pc EXCEPT ![l] = "exited"] /\ Forget(l) /\ crashed' = TRUE
        BY <2>3, <3>3 DEF NextBatch
      <4>2. /\ size' \in [Loops -> Nat] /\ count' \in [Loops -> Nat] /\ own' \in [Loops -> BOOLEAN]
            /\ batch' = [batch EXCEPT ![l] = 0] /\ left' = [left EXCEPT ![l] = 0]
            /\ "exited" \in Pcs \ {"closing", "undoing"}
        BY <1>a, <4>1 DEF Forget, Pcs
      <4> QED
        BY <1>a, <1>b, <3>1, <4>1, <4>2, HashTypes DEF devVars
    <3> QED
      BY <3>2, <3>3
  <2>4. CASE HashWrite(l)
    <3>1. /\ object' \in [Objects -> States] /\ persFits' \in BOOLEAN /\ misused' \in BOOLEAN
          /\ inHeaders' = l
      BY <1>a, <2>4 DEF HashWrite, States
    <3>2. Smaller(batch[l], devBatch) \in Nat
      BY <1>b, SmallerType
    <3>3. /\ pc' = [pc EXCEPT ![l] = "launch"] /\ count' \in [Loops -> Nat]
          /\ left' = [left EXCEPT ![l] = left[l]] /\ batch' = [batch EXCEPT ![l] = batch[l]]
          /\ batch[l] <= left[l] /\ batch[l] \in Nat /\ left[l] \in Nat
          /\ UNCHANGED <<backend, gen, healthy, minerVars, initialized, devBatch, at, size, own,
                         apart, crashed>>
      BY <1>a, <2>4, <3>2 DEF HashWrite, TypeInv, BatchFits
    <3> QED
      BY <1>a, <3>1, <3>3, HashTypes DEF Pcs, InHash
  <2>5. CASE HashRead(l)
    <3>1. left[l] - batch[l] \in Nat
      BY <1>a, <2>5 DEF HashRead, TypeInv, BatchFits
    <3>2. PICK label \in {"done", "batch"} : pc' = [pc EXCEPT ![l] = label]
      BY <2>5 DEF HashRead
    <3>3. /\ own' \in [Loops -> BOOLEAN] /\ count' \in [Loops -> Nat]
          /\ left' = [left EXCEPT ![l] = left[l] - batch[l]]
          /\ batch' = [batch EXCEPT ![l] = 0]
          /\ UNCHANGED <<backend, gen, healthy, minerVars, devVars, at, size, history>>
      BY <1>a, <2>5 DEF HashRead
    <3> QED
      BY <1>a, <3>1, <3>2, <3>3, HashTypes DEF devVars, history, Pcs, InHash
  <2>6. CASE HashFails(l)
    <3>1. object' \in [Objects -> States] /\ persFits' \in BOOLEAN /\ misused' \in BOOLEAN
      <4>1. misused' \in BOOLEAN
        BY <1>a, <2>6 DEF HashFails
      <4>2. object' \in [Objects -> States] /\ persFits' \in BOOLEAN
        BY <1>a, <2>6 DEF HashFails, States
      <4> QED
        BY <4>1, <4>2
    <3>2. /\ pc' = [pc EXCEPT ![l] = "reset"] /\ Forget(l)
          /\ UNCHANGED <<backend, gen, healthy, minerVars, initialized, devBatch, inHeaders, at,
                         apart, crashed>>
      BY <2>6 DEF HashFails
    <3>3. /\ size' \in [Loops -> Nat] /\ count' \in [Loops -> Nat] /\ own' \in [Loops -> BOOLEAN]
          /\ batch' = [batch EXCEPT ![l] = 0] /\ left' = [left EXCEPT ![l] = 0]
          /\ "reset" \in Pcs \ {"closing", "undoing"}
      BY <1>a, <3>2 DEF Forget, Pcs
    <3> QED
      BY <1>a, <1>b, <3>1, <3>2, <3>3, HashTypes
  <2>7. CASE Use(l)
    <3>1. /\ pc' = [pc EXCEPT ![l] = "top"] /\ own' \in [Loops -> BOOLEAN]
          /\ batch' = [batch EXCEPT ![l] = batch[l]] /\ left' = [left EXCEPT ![l] = left[l]]
          /\ UNCHANGED <<backend, gen, healthy, minerVars, devVars, at, size, count, history>>
          /\ "top" \in Pcs \ {"closing", "undoing"}
      BY <1>a, <2>7 DEF Use, Pcs
    <3> QED
      BY <1>a, <1>b, <3>1, HashTypes DEF devVars, history
  <2>8. CASE ResetBegin(l)
    <3>1. /\ pc' = [pc EXCEPT ![l] = "close"] /\ at' = [at EXCEPT ![l] = 1]
          /\ available' = FALSE /\ maxBatch' = 0
          /\ UNCHANGED <<backend, gen, healthy, devVars, hashVars, history>>
      BY <2>8 DEF ResetBegin
    <3>2. pc' \in [Loops -> Pcs] /\ at' \in [Loops -> 0 .. 10] /\ Places'
      BY <1>0, <1>b, <3>1, Goes DEF Pcs, InClose
    <3> QED
      BY <1>a, <1>b, <3>1, <3>2, ResetTypes DEF devVars, history, Pcs, InClose
  <2>9. CASE Release(l)
    <3>1. /\ UNCHANGED <<backend, gen, healthy, minerVars, initialized, devBatch, persFits,
                         inHeaders, hashVars, apart, crashed>>
          /\ misused' \in BOOLEAN
      BY <1>a, <2>9 DEF Release
    <3>2. object' \in [Objects -> States]
      BY <1>a, <2>9 DEF Release, States
    <3>3. /\ pc[l] = "close" => at[l] \in DOMAIN CloseOrder
          /\ pc[l] = "undo" => at[l] \in DOMAIN UndoOrder
          /\ pc[l] \in {"close", "undo"} /\ at[l] \in 0 .. 8 /\ at[l] + 1 \in 0 .. 10
      <4>1. pc[l] \in {"close", "undo"} /\ at[l] \in DOMAIN Order(l)
        BY <2>9 DEF Release
      <4>2. Order(l) = IF pc[l] = "close" THEN CloseOrder ELSE UndoOrder
        BY <4>1 DEF Order, InClose
      <4>3. at[l] \in DOMAIN CloseOrder \cup DOMAIN UndoOrder
        BY <4>1, <4>2
      <4>4. at[l] \in 1 .. 8 /\ at[l] + 1 \in 0 .. 10
        BY <1>0, <4>3, Lists
      <4> QED
        BY <4>1, <4>2, <4>4
    <3>4. PICK label \in {"close", "undo", "closing", "undoing"}, n \in {at[l], at[l] + 1} :
            /\ pc' = [pc EXCEPT ![l] = label] /\ at' = [at EXCEPT ![l] = n]
            /\ label = "closing" => pc[l] = "close" /\ n = at[l]
            /\ label = "undoing" => pc[l] = "undo" /\ n = at[l]
      BY <2>9, <3>3 DEF Release
    <3>5. label \in Pcs \ {"write", "launch"} /\ n \in 0 .. 10
      BY <3>3 DEF Pcs, InClose, InInit
    <3>6. pc' \in [Loops -> Pcs] /\ at' \in [Loops -> 0 .. 10] /\ Places'
      BY <1>0, <3>3, <3>4, <3>5, Goes
    <3> QED
      BY <1>a, <3>1, <3>2, <3>4, <3>5, <3>6, ResetTypes DEF minerVars
  <2>10. CASE Clear(l)
    <3>1. /\ UNCHANGED <<backend, gen, healthy, minerVars, initialized, devBatch, persFits,
                         inHeaders, hashVars, history>>
          /\ object' \in [Objects -> States]
      BY <1>a, <2>10 DEF Clear, States
    <3>2. at[l] + 1 \in 0 .. 10
      <4>1. at[l] \in DOMAIN CloseOrder \cup DOMAIN UndoOrder
        BY <2>10 DEF Clear, TypeInv, Places
      <4> QED
        BY <1>0, <4>1, Lists
    <3>3. PICK label \in {"close", "undo"} :
            /\ pc' = [pc EXCEPT ![l] = label] /\ at' = [at EXCEPT ![l] = at[l] + 1]
      BY <2>10 DEF Clear
    <3>4. label \in Pcs \ {"write", "launch"}
      BY DEF Pcs, InClose, InInit
    <3>5. pc' \in [Loops -> Pcs] /\ at' \in [Loops -> 0 .. 10] /\ Places'
      BY <1>0, <3>2, <3>3, <3>4, Goes
    <3> QED
      BY <1>a, <3>1, <3>3, <3>4, <3>5, ResetTypes DEF minerVars, history
  <2>11. CASE CloseEnds(l)
    <3>1. /\ UNCHANGED <<backend, gen, healthy, minerVars, inHeaders, hashVars, history>>
          /\ initialized' = FALSE /\ devBatch' = 0 /\ persFits' = FALSE
      BY <2>11 DEF CloseEnds
    <3>2. object' \in [Objects -> States]
      BY <1>a, <2>11 DEF CloseEnds, States
    <3>3. PICK label \in {"wipe", "init"} :
            /\ pc' = [pc EXCEPT ![l] = label] /\ at' = [at EXCEPT ![l] = 1]
      BY <2>11 DEF CloseEnds
    <3>4. label \in Pcs \ {"write", "launch"}
      BY DEF Pcs, InClose, InInit
    <3>5. pc' \in [Loops -> Pcs] /\ at' \in [Loops -> 0 .. 10] /\ Places'
      BY <1>0, <1>b, <3>3, <3>4, Goes
    <3> QED
      BY <1>a, <1>b, <3>1, <3>2, <3>3, <3>4, <3>5, ResetTypes DEF minerVars, history
  <2>12. CASE Wipe(l)
    <3>1. /\ UNCHANGED <<backend, gen, healthy, minerVars, initialized, devBatch, persFits,
                         inHeaders, hashVars, history>>
          /\ object' \in [Objects -> States]
          /\ pc' = [pc EXCEPT ![l] = "init"] /\ at' = [at EXCEPT ![l] = 1]
      BY <1>a, <2>12 DEF Wipe, States
    <3>2. pc' \in [Loops -> Pcs] /\ at' \in [Loops -> 0 .. 10] /\ Places'
      BY <1>0, <1>b, <3>1, Goes DEF Pcs, InInit
    <3> QED
      BY <1>a, <3>1, <3>2, ResetTypes DEF minerVars, history, Pcs, InInit
  <2>13. CASE Open(l) \/ OpenFails(l)
    <3>1. /\ UNCHANGED <<backend, gen, healthy, minerVars, initialized, persFits, inHeaders,
                         hashVars, history>>
          /\ at[l] \in DOMAIN Stages
      BY <2>13 DEF Open, OpenFails
    <3>2. object' \in [Objects -> States]
      BY <1>a, <2>13 DEF Open, OpenFails, States
    <3>3. devBatch' \in 0 .. MaxBatch
      BY <1>a, <2>13 DEF Open, OpenFails, Sizes
    <3>4. Stages[at[l]] # "device" => FirstUndone(Stages[at[l]]) \in 0 .. 10
      BY <3>1, FirstUndoneType
    <3>5. at[l] + 1 \in 0 .. 10
      BY <1>0, <3>1, Lists
    <3>6. PICK label \in {"init", "start", "undo"}, n \in 0 .. 10 :
            pc' = [pc EXCEPT ![l] = label] /\ at' = [at EXCEPT ![l] = n]
      BY <2>13, <3>4, <3>5 DEF Open, OpenFails
    <3>7. label \in Pcs \ {"write", "launch"}
      BY DEF Pcs, InInit
    <3>8. pc' \in [Loops -> Pcs] /\ at' \in [Loops -> 0 .. 10] /\ Places'
      BY <1>0, <3>6, <3>7, Goes
    <3> QED
      BY <1>a, <3>1, <3>2, <3>3, <3>6, <3>7, <3>8, ResetTypes DEF minerVars, history
  <2>14. CASE OpenEnds(l) \/ UndoEnds(l)
    <3>1. /\ UNCHANGED <<backend, gen, healthy, minerVars, object, persFits, inHeaders, hashVars,
                         history>>
          /\ initialized' \in BOOLEAN /\ devBatch' \in 0 .. MaxBatch
      <4>1. CASE OpenEnds(l)
        BY <1>a, <4>1 DEF OpenEnds
      <4>2. CASE UndoEnds(l)
        BY <1>a, <1>b, <4>2 DEF UndoEnds
      <4> QED
        BY <2>14, <4>1, <4>2
    <3>2. PICK label \in {"up", "start"} :
            pc' = [pc EXCEPT ![l] = label] /\ at' = [at EXCEPT ![l] = 0]
      BY <2>14 DEF OpenEnds, UndoEnds
    <3>3. label \in Pcs \ {"write", "launch"}
      BY DEF Pcs, InInit
    <3>4. pc' \in [Loops -> Pcs] /\ at' \in [Loops -> 0 .. 10] /\ Places'
      BY <1>0, <1>b, <3>2, <3>3, Goes
    <3> QED
      BY <1>a, <3>1, <3>2, <3>3, <3>4, ResetTypes DEF minerVars, history
  <2>15. CASE ResetEnd(l)
    <3>1. /\ pc' = [pc EXCEPT ![l] = "start"] /\ available' = TRUE /\ maxBatch' = devBatch
          /\ UNCHANGED <<backend, gen, healthy, devVars, at, hashVars, history>>
      BY <2>15 DEF ResetEnd
    <3>2. pc' \in [Loops -> Pcs] /\ at' \in [Loops -> 0 .. 10] /\ Places'
      BY <3>1, GoesOn DEF Pcs
    <3> QED
      BY <1>a, <3>1, <3>2, ResetTypes DEF devVars, history, Pcs
  <2> QED
    BY <1>3, <2>1, <2>2, <2>3, <2>4, <2>5, <2>6, <2>7, <2>8, <2>9, <2>10, <2>11, <2>12,
       <2>13, <2>14, <2>15 DEF Loop
<1>4. CASE UNCHANGED vars
  BY <1>4, SameLists DEF vars, minerVars, devVars, hashVars, history, TypeInv, TypeOK,
                         BatchFits, Places, InHash, InClose, InInit
<1> QED
  BY <1>1, <1>2, <1>3, <1>4 DEF Next

\* The Miner and the bridges keep their types: no batch is negative, or larger
\* than the cap, for any number of loops on the one device, together or not
\* (gpu.go, gpu_init).
THEOREM DeviceTyped == Spec => []TypeOK
<1>1. Spec => []TypeInv
  BY TypeInit, TypeKept, PTL DEF Spec
<1> QED
  BY <1>1, PTL DEF TypeInv

-----------------------------------------------------------------------------
(* Loops that are at the device one after the other. *)

Exclusive == \A j, k \in Loops : Inside(j) /\ Inside(k) => j = k

\* Every object of the bridge is there, and it has a batch size.
Working == initialized /\ devBatch > 0 /\ AllLive(Made)

\* What gpu_init has made when it comes to stage n.
MadeBefore(n) ==
  \A k \in DOMAIN Stages : k < n =>
    /\ Stages[k] \in Made => object[Stages[k]] = "live"
    /\ Stages[k] = "scratch" => devBatch > 0

\* What a loop relies on where it is: the Miner is available while it hashes and
\* is not while it resets; the headers on the device are its own, no more than
\* one batch of them, and gpu_hash takes them all.
Relies(l) ==
  /\ pc[l] = "up" => Working
  /\ pc[l] \in InHash => available
  /\ pc[l] \in InClose \cup InInit => ~available
  /\ pc[l] \in {"write", "launch"} => batch[l] <= maxBatch
  /\ pc[l] = "launch" => inHeaders = l /\ count[l] = batch[l]
  /\ pc[l] = "init" => MadeBefore(at[l])

\* The device is at work whenever the Miner says so.
Sound == /\ ~crashed
         /\ \A l \in Loops : own[l]
         /\ available => Working /\ maxBatch = devBatch

ApartInv == apart => Exclusive /\ Sound /\ \A l \in Loops : Relies(l)

LEMMA OutsideRelies == \A l \in Loops : ~Inside(l) => Relies(l)
BY DEF Inside, Relies, InHash, InClose, InInit

\* A loop at the device is alone there: the others rely on nothing.
LEMMA InsideMoves ==
  ASSUME TypeInv, Exclusive, NEW l \in Loops, Inside(l), NEW label \in Pcs,
         pc' = [pc EXCEPT ![l] = label]
  PROVE  /\ Exclusive' /\ pc'[l] = label
         /\ \A k \in Loops : k # l => Relies(k)'
<1>1. pc'[l] = label /\ \A k \in Loops : k # l => pc'[k] = pc[k]
  BY DEF TypeInv, TypeOK
<1>2. \A k \in Loops : k # l => ~Inside(k)'
  BY <1>1 DEF Exclusive, Inside, InHash, InClose, InInit
<1>3. \A k \in Loops : k # l => Relies(k)'
  BY <1>2 DEF Inside, Relies, InHash, InClose, InInit
<1>4. Exclusive'
  BY <1>2 DEF Exclusive
<1> QED
  BY <1>1, <1>3, <1>4

\* A loop that is not at the device moves about, and the device stays as it is.
LEMMA OutsideMoves ==
  ASSUME TypeInv, Exclusive, Sound, \A k \in Loops : Relies(k),
         NEW l \in Loops, NEW label \in {"start", "top", "exited"},
         pc' = [pc EXCEPT ![l] = label],
         UNCHANGED <<backend, minerVars, devVars, at, crashed>>,
         \A k \in Loops : k # l => batch'[k] = batch[k] /\ count'[k] = count[k],
         \A k \in Loops : own'[k]
  PROVE  Exclusive' /\ Sound' /\ \A k \in Loops : Relies(k)'
<1>1. pc'[l] = label /\ \A k \in Loops : k # l => pc'[k] = pc[k]
  BY DEF TypeInv, TypeOK
<1>2. ~Inside(l)'
  BY <1>1 DEF Inside, InHash, InClose, InInit
<1>3. \A k \in Loops : Inside(k)' => k # l /\ Inside(k)
  BY <1>1, <1>2 DEF Inside, InHash, InClose, InInit
<1>4. Exclusive'
  BY <1>3 DEF Exclusive
<1>5. Sound'
  BY SameLists DEF Sound, Working, AllLive, minerVars, devVars
<1>6. ASSUME NEW k \in Loops PROVE Relies(k)'
  <2>1. CASE k = l
    BY <1>2, <2>1 DEF Inside, Relies, InHash, InClose, InInit
  <2>2. CASE k # l
    <3>1. /\ pc'[k] = pc[k] /\ at'[k] = at[k] /\ batch'[k] = batch[k] /\ count'[k] = count[k]
          /\ Relies(k)
      BY <1>1, <2>2
    <3> QED
      BY <3>1, SameLists DEF Relies, Working, AllLive, MadeBefore, minerVars, devVars,
                             InHash, InClose, InInit
  <2> QED
    BY <2>1, <2>2
<1> QED
  BY <1>4, <1>5, <1>6

LEMMA ApartInit == Init => ApartInv
<1> SUFFICES ASSUME Init PROVE Exclusive /\ Sound /\ \A l \in Loops : Relies(l)
  BY DEF ApartInv
<1>1. \A l \in Loops : ~Inside(l)
  BY DEF Init, Inside, InHash, InClose, InInit
<1>2. backend \in {"cuda", "opencl"}
  BY BackendAssumption DEF Init
<1>3. Sound
  BY <1>2, ConstantTypes, Lists DEF Init, Sound, Working, AllLive
<1> QED
  BY <1>1, <1>3, OutsideRelies DEF Exclusive

LEMMA ApartKept ==
  ASSUME TypeInv, ApartInv, [Next]_vars
  PROVE  ApartInv'
<1> SUFFICES ASSUME apart' PROVE Exclusive' /\ Sound' /\ \A k \in Loops : Relies(k)'
  BY DEF ApartInv
<1>0. /\ backend' = backend /\ backend \in {"cuda", "opencl"}
      /\ Exclusive /\ Sound /\ \A k \in Loops : Relies(k)
  BY Always, BackendAssumption DEF ApartInv, TypeInv, TypeOK
<1>a. /\ pc \in [Loops -> Pcs] /\ own \in [Loops -> BOOLEAN] /\ at \in [Loops -> 0 .. 10]
      /\ batch \in [Loops -> Nat] /\ count \in [Loops -> Nat] /\ left \in [Loops -> Nat]
      /\ maxBatch \in Nat /\ devBatch \in Nat /\ object \in [Objects -> States]
      /\ \A k \in Loops : own[k] = TRUE
      /\ \A k \in Loops : left[k] \in Nat /\ batch[k] \in Nat
  BY <1>0, ConstantTypes DEF TypeInv, TypeOK, Pcs, States, Sound
<1>1. CASE Key
  <2>1. PICK label \in {"start", "exited"} : pc' = [pc EXCEPT ![gen + 1] = label]
    BY <1>1 DEF Key, Goto
  <2>2. gen + 1 \in Loops
    BY <1>1, ConstantTypes DEF Key, Loops, TypeInv, TypeOK
  <2>3. /\ UNCHANGED <<backend, minerVars, devVars, at, crashed>>
        /\ UNCHANGED <<batch, count, own>>
    BY <1>1 DEF Key, hashVars, history
  <2> QED
    BY <1>0, <1>a, <2>1, <2>2, <2>3, OutsideMoves
<1>2. CASE Fault \/ Repair \/ UNCHANGED vars
  <2>1. UNCHANGED <<pc, backend, minerVars, devVars, at, hashVars, crashed>>
    BY <1>2 DEF Fault, Repair, vars, history
  <2>2. Sound' /\ Exclusive'
    BY <1>0, <2>1, SameLists DEF Sound, Working, AllLive, Exclusive, Inside, minerVars,
                                 devVars, hashVars, InHash, InClose, InInit
  <2>3. ASSUME NEW k \in Loops PROVE Relies(k)'
    BY <1>0, <2>1, SameLists DEF Relies, Working, AllLive, MadeBefore, minerVars, devVars,
                                 hashVars, InHash, InClose, InInit
  <2> QED
    BY <2>2, <2>3
<1>3. ASSUME NEW l \in Loops, Loop(l)
      PROVE  Exclusive' /\ Sound' /\ \A k \in Loops : Relies(k)'
  <2> USE DEF Goto, Step
  <2>0. Relies(l)
    BY <1>0
  <2>1. CASE Start(l) \/ Use(l)
    <3>1. PICK label \in {"start", "top", "exited"} : pc' = [pc EXCEPT ![l] = label]
      BY <2>1 DEF Start, Use
    <3>2. /\ UNCHANGED <<backend, minerVars, devVars, at, batch, count, crashed>>
          /\ own' = own \/ own' = [own EXCEPT ![l] = TRUE]
      BY <2>1 DEF Start, Use, history
    <3>3. \A k \in Loops : own'[k]
      BY <1>a, <3>2
    <3> QED
      BY <1>0, <3>1, <3>2, <3>3, OutsideMoves
  <2>2. CASE Top(l)
    <3>1. /\ UNCHANGED <<backend, minerVars, devVars, at, crashed>>
          /\ \A k \in Loops : k # l => batch'[k] = batch[k] /\ count'[k] = count[k]
      BY <1>a, <2>2 DEF Top, Forget
    <3>2. \A k \in Loops : own'[k]
      BY <1>a, <2>2 DEF Top, Forget
    <3>3. CASE Cancelled(l)
      <4>1. pc' = [pc EXCEPT ![l] = "exited"]
        BY <2>2, <3>3 DEF Top
      <4> QED
        BY <1>0, <3>1, <3>2, <4>1, OutsideMoves
    <3>4. CASE ~Cancelled(l)
      <4>1. \A k \in Loops \ {l} : ~Inside(k)
        BY <2>2, <3>4 DEF Top
      <4>2. pc' = [pc EXCEPT ![l] = IF available THEN "batch" ELSE "reset"]
        BY <2>2, <3>4 DEF Top
      <4>3. \A k \in Loops : k # l => pc'[k] = pc[k] /\ ~Inside(k)'
        BY <1>a, <4>1, <4>2 DEF Inside, InHash, InClose, InInit
      <4>4. Exclusive' /\ \A k \in Loops : k # l => Relies(k)'
        BY <4>3 DEF Exclusive, Inside, Relies, InHash, InClose, InInit
      <4>5. Sound'
        BY <1>0, <3>1, <3>2, SameLists DEF Sound, Working, AllLive, minerVars, devVars
      <4>6. Relies(l)'
        BY <1>a, <3>1, <4>2 DEF Relies, minerVars, InHash, InClose, InInit
      <4> QED
        BY <4>4, <4>5, <4>6
    <3> QED
      BY <3>3, <3>4
  <2>3. CASE NextBatch(l)
    <3>1. pc[l] = "batch" /\ available /\ maxBatch > 0
      BY <1>0, <2>0, <2>3 DEF NextBatch, Relies, Sound, Working, InHash
    <3>2. Smaller(left[l], maxBatch) <= maxBatch
      BY <1>a, SmallerType
    <3>3. /\ pc' = [pc EXCEPT ![l] = "write"]
          /\ batch' = [batch EXCEPT ![l] = Smaller(left[l], maxBatch)]
          /\ UNCHANGED <<backend, minerVars, devVars, own, crashed>>
      BY <2>3, <3>1 DEF NextBatch
    <3>4. Exclusive' /\ pc'[l] = "write" /\ \A k \in Loops : k # l => Relies(k)'
      BY <1>0, <3>1, <3>3, InsideMoves DEF Inside, InHash, Pcs
    <3>5. Sound'
      BY <1>0, <3>3, SameLists DEF Sound, Working, AllLive, minerVars, devVars
    <3>6. Relies(l)'
      BY <1>a, <3>1, <3>2, <3>3, <3>4 DEF Relies, minerVars, InHash, InClose, InInit
    <3> QED
      BY <3>4, <3>5, <3>6
  <2>4. CASE HashWrite(l)
    <3>1. pc[l] = "write" /\ available /\ batch[l] <= devBatch
      BY <1>0, <2>0, <2>4 DEF HashWrite, Relies, Sound, InHash
    <3>2. Smaller(batch[l], devBatch) = batch[l]
      BY <1>a, <3>1 DEF Smaller
    <3>3. /\ pc' = [pc EXCEPT ![l] = "launch"] /\ inHeaders' = l
          /\ count'[l] = batch[l]
          /\ object' = [object EXCEPT !["pers"] = "live"]
          /\ UNCHANGED <<backend, minerVars, initialized, devBatch, batch, own, crashed>>
      BY <1>a, <2>4, <3>2 DEF HashWrite
    <3>4. Exclusive' /\ pc'[l] = "launch" /\ \A k \in Loops : k # l => Relies(k)'
      BY <1>0, <3>1, <3>3, InsideMoves DEF Inside, InHash, Pcs
    <3>5. Working' /\ Sound'
      BY <1>0, <1>a, <3>1, <3>3, SameLists, Lists DEF Sound, Working, AllLive, minerVars
    <3>6. Relies(l)'
      BY <2>0, <3>1, <3>3, <3>4 DEF Relies, minerVars, InHash, InClose, InInit
    <3> QED
      BY <3>4, <3>5, <3>6
  <2>5. CASE HashRead(l)
    <3>1. pc[l] = "launch" /\ available /\ inHeaders = l /\ count[l] = batch[l]
      BY <2>0, <2>5 DEF HashRead, Relies, InHash
    <3>2. PICK label \in {"done", "batch"} : pc' = [pc EXCEPT ![l] = label]
      BY <2>5 DEF HashRead
    <3>3. /\ UNCHANGED <<backend, minerVars, devVars, crashed>>
          /\ \A k \in Loops : own'[k]
      BY <1>a, <2>5, <3>1 DEF HashRead, history
    <3>4. Exclusive' /\ pc'[l] = label /\ \A k \in Loops : k # l => Relies(k)'
      BY <1>0, <3>1, <3>2, InsideMoves DEF Inside, InHash, Pcs
    <3>5. Sound'
      BY <1>0, <3>3, SameLists DEF Sound, Working, AllLive, minerVars, devVars
    <3>6. Relies(l)'
      BY <3>1, <3>3, <3>4 DEF Relies, minerVars, InHash, InClose, InInit
    <3> QED
      BY <3>4, <3>5, <3>6
  <2>6. CASE HashFails(l)
    <3>1. pc[l] \in {"write", "launch"} /\ available
      BY <2>0, <2>6 DEF HashFails, Relies, InHash
    <3>2. /\ pc' = [pc EXCEPT ![l] = "reset"]
          /\ UNCHANGED <<backend, minerVars, initialized, devBatch, crashed>>
          /\ \A k \in Loops : own'[k]
          /\ \A x \in Objects \ {"pers"} : object'[x] = object[x]
      BY <1>a, <2>6 DEF HashFails, Forget
    <3>3. Exclusive' /\ pc'[l] = "reset" /\ \A k \in Loops : k # l => Relies(k)'
      BY <1>0, <3>1, <3>2, InsideMoves DEF Inside, InHash, Pcs
    <3>4. Sound'
      BY <1>0, <3>1, <3>2, SameLists, Lists DEF Sound, Working, AllLive, minerVars
    <3>5. Relies(l)'
      BY <3>3 DEF Relies, InHash, InClose, InInit
    <3> QED
      BY <3>3, <3>4, <3>5
  <2>7. CASE ResetBegin(l)
    <3>1. /\ pc[l] = "reset" /\ pc' = [pc EXCEPT ![l] = "close"] /\ ~available'
          /\ UNCHANGED <<own, crashed>>
      BY <2>7 DEF ResetBegin, hashVars, history
    <3>2. Exclusive' /\ pc'[l] = "close" /\ \A k \in Loops : k # l => Relies(k)'
      BY <1>0, <3>1, InsideMoves DEF Inside, InClose, Pcs
    <3>3. Sound' /\ Relies(l)'
      BY <1>0, <3>1, <3>2 DEF Sound, Relies, InHash, InClose, InInit
    <3> QED
      BY <3>2, <3>3
  <2>8. CASE Release(l) \/ Clear(l) \/ CloseEnds(l) \/ UndoEnds(l)
    <3>1. PICK label \in {"close", "undo", "closing", "undoing", "wipe", "init", "start"} :
            pc' = [pc EXCEPT ![l] = label] /\ (label = "init" => at'[l] = 1)
      BY <1>a, <2>8 DEF Release, Clear, CloseEnds, UndoEnds
    <3>2. /\ pc[l] \in {"close", "undo", "closing", "undoing"}
          /\ UNCHANGED <<backend, available, own, crashed>>
      BY <2>8 DEF Release, Clear, CloseEnds, UndoEnds, minerVars, hashVars, history
    <3>3. ~available
      BY <2>0, <3>2 DEF Relies, InClose, InInit
    <3>4. Exclusive' /\ pc'[l] = label /\ \A k \in Loops : k # l => Relies(k)'
      BY <1>0, <3>1, <3>2, InsideMoves DEF Inside, InClose, InInit, Pcs
    <3>5. Sound'
      BY <1>0, <3>2, <3>3 DEF Sound
    <3>6. label = "init" => MadeBefore(at[l])'
      <4>1. \A k \in DOMAIN Stages : ~(k < 1)
        BY <1>0, Lists
      <4> QED
        BY <1>0, <3>1, <4>1, SameLists DEF MadeBefore
    <3>7. Relies(l)'
      BY <3>2, <3>3, <3>4, <3>6 DEF Relies, InHash, InClose, InInit
    <3> QED
      BY <3>4, <3>5, <3>7
  <2>9. CASE Wipe(l)
    <3>1. /\ pc[l] = "wipe" /\ pc' = [pc EXCEPT ![l] = "init"] /\ at'[l] = 1
          /\ UNCHANGED <<backend, available, own, crashed>>
      BY <1>a, <2>9 DEF Wipe, minerVars, hashVars, history
    <3>2. ~available
      BY <2>0, <3>1 DEF Relies, InClose
    <3>3. Exclusive' /\ pc'[l] = "init" /\ \A k \in Loops : k # l => Relies(k)'
      BY <1>0, <3>1, InsideMoves DEF Inside, InClose, InInit, Pcs
    <3>4. MadeBefore(at[l])'
      <4>1. \A k \in DOMAIN Stages : ~(k < 1)
        BY <1>0, Lists
      <4> QED
        BY <1>0, <3>1, <4>1, SameLists DEF MadeBefore
    <3>5. Sound' /\ Relies(l)'
      BY <1>0, <3>1, <3>2, <3>3, <3>4 DEF Sound, Relies, InHash, InClose, InInit
    <3> QED
      BY <3>3, <3>5
  <2>10. CASE Open(l)
    <3> DEFINE stage == Stages[at[l]]
    <3>1. /\ pc[l] = "init" /\ pc' = [pc EXCEPT ![l] = "init"] /\ at'[l] = at[l] + 1
          /\ at[l] \in DOMAIN Stages
          /\ object' = [x \in Objects |-> IF x = stage THEN "live" ELSE object[x]]
          /\ devBatch' = devBatch \/ (stage = "scratch" /\ devBatch' > 0)
          /\ stage = "scratch" => devBatch' > 0
          /\ UNCHANGED <<backend, available, own, crashed>>
      <4>1. devBatch' \in Sizes(stage) /\ (stage = "scratch" => Sizes(stage) = 1 .. MaxBatch)
        BY <2>10 DEF Open, Sizes
      <4>2. stage # "scratch" => Sizes(stage) = {devBatch}
        BY DEF Sizes
      <4> HIDE DEF stage
      <4>3. stage = "scratch" => devBatch' > 0
        BY <4>1, ConstantTypes
      <4>4. devBatch' = devBatch \/ stage = "scratch"
        BY <4>1, <4>2
      <4> USE DEF stage
      <4> QED
        BY <1>a, <2>10, <4>3, <4>4 DEF Open, minerVars, hashVars, history
    <3>2. ~available /\ MadeBefore(at[l])
      BY <2>0, <3>1 DEF Relies, InInit
    <3>3. Exclusive' /\ pc'[l] = "init" /\ \A k \in Loops : k # l => Relies(k)'
      BY <1>0, <3>1, InsideMoves DEF Inside, InInit, Pcs
    <3>4. ASSUME NEW k \in DOMAIN Stages, k < at[l] + 1
          PROVE  /\ Stages[k] \in Made => object'[Stages[k]] = "live"
                 /\ Stages[k] = "scratch" => devBatch' > 0
      <4>1. k < at[l] \/ k = at[l]
        BY <1>0, <3>1, <3>4, Lists
      <4>2. Made \subseteq Objects
        BY <1>0, Lists
      <4>3. CASE k = at[l]
        BY <3>1, <4>2, <4>3
      <4>4. CASE k < at[l]
        <5>1. /\ Stages[k] \in Made => object[Stages[k]] = "live"
              /\ Stages[k] = "scratch" => devBatch > 0
          BY <3>2, <4>4 DEF MadeBefore
        <5>2. Stages[k] \in Made => object'[Stages[k]] = "live"
          BY <3>1, <4>2, <5>1
        <5>3. Stages[k] = "scratch" => devBatch' > 0
          BY <3>1, <5>1
        <5> QED
          BY <5>2, <5>3
      <4> QED
        BY <4>1, <4>3, <4>4
    <3>5. MadeBefore(at[l])'
      BY <1>0, <3>1, <3>4, SameLists DEF MadeBefore
    <3>6. Sound' /\ Relies(l)'
      BY <1>0, <3>1, <3>2, <3>3, <3>5 DEF Sound, Relies, InHash, InClose, InInit
    <3> QED
      BY <3>3, <3>6
  <2>11. CASE OpenEnds(l)
    <3>1. /\ pc[l] = "init" /\ pc' = [pc EXCEPT ![l] = "up"] /\ at[l] = Len(Stages) + 1
          /\ initialized' = TRUE
          /\ UNCHANGED <<backend, available, object, devBatch, own, crashed>>
      BY <2>11 DEF OpenEnds, minerVars, hashVars, history
    <3>2. ~available /\ MadeBefore(at[l])
      BY <2>0, <3>1 DEF Relies, InInit
    <3>3. Exclusive' /\ pc'[l] = "up" /\ \A k \in Loops : k # l => Relies(k)'
      BY <1>0, <3>1, InsideMoves DEF Inside, InInit, Pcs
    <3>4. AllLive(Made) /\ devBatch > 0
      <4>1. \A k \in DOMAIN Stages : k < at[l]
        BY <1>0, <3>1, Lists
      <4>2. \A x \in Made : \E k \in DOMAIN Stages : Stages[k] = x /\ k < at[l]
        BY <1>0, <4>1, Lists
      <4>3. "scratch" \in Made
        BY <1>0, Lists
      <4> QED
        BY <3>2, <4>2, <4>3 DEF AllLive, MadeBefore
    <3>5. Working'
      BY <1>0, <3>1, <3>4, SameLists DEF Working, AllLive
    <3>6. Sound' /\ Relies(l)'
      BY <1>0, <3>1, <3>2, <3>3, <3>5 DEF Sound, Relies, InHash, InClose, InInit
    <3> QED
      BY <3>3, <3>6
  <2>12. CASE OpenFails(l)
    <3>1. PICK label \in {"start", "undo"} : pc' = [pc EXCEPT ![l] = label]
      BY <2>12 DEF OpenFails
    <3>2. pc[l] = "init" /\ UNCHANGED <<available, own, crashed>>
      BY <2>12 DEF OpenFails, minerVars, hashVars, history
    <3>3. ~available
      BY <2>0, <3>2 DEF Relies, InInit
    <3>4. Exclusive' /\ pc'[l] = label /\ \A k \in Loops : k # l => Relies(k)'
      BY <1>0, <3>1, <3>2, InsideMoves DEF Inside, InInit, Pcs
    <3>5. Sound' /\ Relies(l)'
      BY <1>0, <3>2, <3>3, <3>4 DEF Sound, Relies, InHash, InClose, InInit
    <3> QED
      BY <3>4, <3>5
  <2>13. CASE ResetEnd(l)
    <3>1. /\ pc[l] = "up" /\ pc' = [pc EXCEPT ![l] = "start"]
          /\ available' = TRUE /\ maxBatch' = devBatch
          /\ UNCHANGED <<backend, devVars, own, crashed>>
      BY <2>13 DEF ResetEnd, hashVars, history
    <3>2. Exclusive' /\ pc'[l] = "start" /\ \A k \in Loops : k # l => Relies(k)'
      BY <1>0, <3>1, InsideMoves DEF Inside, InInit, Pcs
    <3>3. Working'
      BY <1>0, <2>0, <3>1, SameLists DEF Relies, Working, AllLive, devVars
    <3>4. Sound' /\ Relies(l)'
      BY <1>0, <3>1, <3>2, <3>3 DEF Sound, Relies, InHash, InClose, InInit, devVars
    <3> QED
      BY <3>2, <3>4
  <2> QED
    BY <1>3, <2>1, <2>2, <2>3, <2>4, <2>5, <2>6, <2>7, <2>8, <2>9, <2>10, <2>11, <2>12,
       <2>13 DEF Loop
<1> QED
  BY <1>1, <1>2, <1>3 DEF Next

LEMMA ApartAlways == Spec => [](TypeInv /\ ApartInv)
<1>1. Init => TypeInv /\ ApartInv
  BY TypeInit, ApartInit
<1>2. TypeInv /\ ApartInv /\ [Next]_vars => (TypeInv /\ ApartInv)'
  BY TypeKept, ApartKept
<1> QED
  BY <1>1, <1>2, PTL DEF Spec

\* gpu.go:46: while the Miner says it is available the device is ready, for any
\* batch sizes and failures and any number of loops, one after the other.
THEOREM AvailableIsReady == Spec => []ReadyWhenAvailable
<1>1. TypeInv /\ ApartInv => ReadyWhenAvailable
  BY DEF ApartInv, Sound, Working, ReadyWhenAvailable
<1> QED
  BY <1>1, ApartAlways, PTL

\* Loops at the device one after the other never take the address of an empty
\* slice (gpu.go:98).
THEOREM NoEmptyBatch == Spec => []NoCrash
<1>1. TypeInv /\ ApartInv => NoCrash
  BY DEF ApartInv, Sound, NoCrash
<1> QED
  BY <1>1, ApartAlways, PTL

\* gpu.go:75-76: every hash that loops at the device one after the other get is
\* of their own headers, with whatever resets and batch sizes in between.
THEOREM HashesAreOwn == Spec => []HashesOwn
<1>1. TypeInv /\ ApartInv => HashesOwn
  BY DEF ApartInv, Sound, HashesOwn
<1> QED
  BY <1>1, ApartAlways, PTL

-----------------------------------------------------------------------------
(* CUDA: nothing is released twice. *)

\* The one pointer to a released object is the one its releaser is clearing.
Owned(x) == \E l \in Loops : pc[l] \in {"closing", "undoing"} /\ NextObject(l) = x

\* The objects a loop in gpu_close has passed are gone, all of them before
\* cudaDeviceReset; the handles are OpenCL's, and there is no personalization
\* buffer that is too small.
Clean == /\ ~misused
         /\ \A x \in Handles : object[x] = "null"
         /\ persFits \/ object["pers"] = "null"
         /\ \A x \in Objects : object[x] = "dangling" => Owned(x)
         /\ \A l \in Loops :
              /\ pc[l] \in {"close", "closing"} =>
                   \A k \in 1 .. 4 : k < at[l] => object[CloseOrder[k]] = "null"
              /\ pc[l] = "wipe" => \A x \in Objects : object[x] = "null"

CleanInv == backend = "cuda" /\ apart => Clean

\* While a loop is at the device and clears nothing, no pointer dangles.
LEMMA NothingDangles ==
  ASSUME Clean, Exclusive, NEW l \in Loops, Inside(l), pc[l] \notin {"closing", "undoing"}
  PROVE  \A x \in Objects : object[x] # "dangling"
BY DEF Clean, Owned, Exclusive, Inside, InClose, InInit

\* A loop that is neither releasing nor in gpu_close moves on with the objects left.
LEMMA QuietKeeps ==
  ASSUME TypeInv, Clean, NEW l \in Loops, backend' = backend,
         NEW label \in Pcs \ {"close", "closing", "undoing", "wipe"},
         pc[l] \notin {"closing", "undoing"},
         pc' = [pc EXCEPT ![l] = label],
         \A k \in Loops : k # l => at'[k] = at[k],
         ~misused', UNCHANGED <<object, persFits>>
  PROVE  Clean'
<1>1. pc'[l] = label /\ \A k \in Loops : k # l => pc'[k] = pc[k]
  BY DEF TypeInv, TypeOK
<1>2. ASSUME NEW x \in Objects, object[x] = "dangling" PROVE Owned(x)'
  <2>1. PICK k \in Loops : pc[k] \in {"closing", "undoing"} /\ NextObject(k) = x
    BY <1>2 DEF Clean, Owned
  <2>2. k # l /\ pc'[k] = pc[k] /\ at'[k] = at[k]
    BY <1>1, <2>1
  <2>3. NextObject(k)' = x
    BY <2>1, <2>2, SameLists DEF NextObject, Order, InClose
  <2> QED
    BY <2>1, <2>2, <2>3 DEF Owned
<1>3. ASSUME NEW k \in Loops
      PROVE  /\ pc'[k] \in {"close", "closing"} =>
                  \A n \in 1 .. 4 : n < at'[k] => object[CloseOrder[n]] = "null"
             /\ pc'[k] = "wipe" => \A x \in Objects : object[x] = "null"
  BY <1>1 DEF Clean
<1> QED
  BY <1>2, <1>3, SameLists DEF Clean

\* A loop at the device changes the objects: nobody else is there to mind.
LEMMA CleanAlone ==
  ASSUME TypeInv, Exclusive, NEW l \in Loops, Inside(l), NEW label \in Pcs,
         backend' = backend, pc' = [pc EXCEPT ![l] = label],
         ~misused', \A x \in Handles : object'[x] = "null",
         persFits' \/ object'["pers"] = "null",
         \A x \in Objects : object'[x] = "dangling" =>
            label \in {"closing", "undoing"} /\ NextObject(l)' = x,
         label \in {"close", "closing"} =>
            \A k \in 1 .. 4 : k < at'[l] => object'[CloseOrder[k]] = "null",
         label = "wipe" => \A x \in Objects : object'[x] = "null"
  PROVE  Clean'
<1>1. pc'[l] = label /\ \A k \in Loops : k # l => pc'[k] = pc[k]
  BY DEF TypeInv, TypeOK
<1>2. \A k \in Loops : k # l => pc'[k] \notin {"close", "closing", "wipe"}
  BY <1>1 DEF Exclusive, Inside, InClose
<1>3. \A x \in Objects : object'[x] = "dangling" => Owned(x)'
  BY <1>1 DEF Owned
<1> QED
  BY <1>1, <1>2, <1>3, SameLists DEF Clean

LEMMA CleanInit == Init => CleanInv
<1> SUFFICES ASSUME Init, backend = "cuda" PROVE Clean
  BY DEF CleanInv
<1>1. \A x \in Objects : object[x] = IF x \in Made THEN "live" ELSE "null"
  BY DEF Init
<1>2. \A x \in Handles : object[x] = "null"
  BY <1>1 DEF Handles, Objects, Made, Buffers
<1>3. object["pers"] = "null"
  BY <1>1 DEF Objects, Made, Buffers
<1>4. \A l \in Loops : pc[l] \in {"start", "unborn"}
  BY DEF Init
<1> QED
  BY <1>1, <1>2, <1>3, <1>4 DEF Init, Clean

\* No loop runs before a key has started it.
Births == \A k \in Loops : k > gen => pc[k] = "unborn"

LEMMA BirthsKept ==
  ASSUME TypeInv, Births, [Next]_vars
  PROVE  Births'
<1>a. gen \in Loops /\ pc \in [Loops -> Pcs] /\ gen \in Nat
  BY ConstantTypes DEF TypeInv, TypeOK, Pcs, Loops
<1>1. CASE Key
  BY <1>1, <1>a DEF Key, Goto, Births, Loops
<1>2. CASE Fault \/ Repair \/ UNCHANGED vars
  BY <1>2 DEF Fault, Repair, vars, Births
<1>3. ASSUME NEW l \in Loops, Loop(l) PROVE Births'
  <2>1. gen' = gen /\ pc[l] # "unborn"
    BY <1>3 DEF Loop, Start, Top, NextBatch, HashWrite, HashRead, HashFails, Use,
                ResetBegin, Release, Clear, CloseEnds, Wipe, Open, OpenEnds, OpenFails,
                UndoEnds, ResetEnd
  <2>2. \E label : pc' = [pc EXCEPT ![l] = label]
    BY <1>3 DEF Loop, Start, Top, NextBatch, HashWrite, HashRead, HashFails, Use,
                ResetBegin, Release, Clear, CloseEnds, Wipe, Open, OpenEnds, OpenFails,
                UndoEnds, ResetEnd, Goto, Step
  <2> QED
    BY <1>a, <2>1, <2>2 DEF Births
<1> QED
  BY <1>1, <1>2, <1>3 DEF Next

LEMMA CleanKept ==
  ASSUME TypeInv, ApartInv, Births, CleanInv, [Next]_vars
  PROVE  CleanInv'
<1> SUFFICES ASSUME backend' = "cuda", apart' PROVE Clean'
  BY DEF CleanInv
<1>0. backend = "cuda" /\ backend' = backend /\ Clean /\ Exclusive
  BY Always DEF CleanInv, ApartInv
<1>a. /\ pc \in [Loops -> Pcs] /\ at \in [Loops -> 0 .. 10] /\ object \in [Objects -> States]
      /\ ~misused /\ \A x \in Handles : object[x] = "null"
      /\ persFits \/ object["pers"] = "null"
      /\ "pers" \in Objects \ Handles /\ Handles \subseteq Objects
  BY <1>0 DEF Clean, TypeInv, TypeOK, Pcs, States, Objects, Handles
<1>1. CASE Key
  <2>1. PICK label \in {"start", "exited"} : pc' = [pc EXCEPT ![gen + 1] = label]
    BY <1>1 DEF Key, Goto
  <2>2. gen + 1 \in Loops /\ pc[gen + 1] = "unborn"
    BY <1>1, ConstantTypes DEF Key, Loops, TypeInv, TypeOK, Births
  <2>3. UNCHANGED <<object, at, misused, persFits>>
    BY <1>1 DEF Key, devVars, history
  <2> QED
    BY <1>0, <1>a, <2>1, <2>2, <2>3, QuietKeeps DEF Pcs
<1>2. CASE Fault \/ Repair \/ UNCHANGED vars
  <2>1. UNCHANGED <<backend, pc, at, object, persFits, misused>>
    BY <1>2 DEF Fault, Repair, vars, devVars, history
  <2> QED
    BY <1>0, <2>1, SameLists DEF Clean, Owned, NextObject, Order
<1>3. ASSUME NEW l \in Loops, Loop(l) PROVE Clean'
  <2> USE DEF Goto, Step
  <2>1. CASE \/ Start(l) \/ Top(l) \/ NextBatch(l) \/ HashRead(l) \/ Use(l)
             \/ OpenEnds(l) \/ UndoEnds(l) \/ ResetEnd(l)
    <3>1. PICK label \in {"top", "batch", "reset", "exited", "write", "done", "up", "start"} :
            pc' = [pc EXCEPT ![l] = label]
      BY <2>1 DEF Start, Top, NextBatch, HashRead, Use, OpenEnds, UndoEnds, ResetEnd
    <3>2. /\ UNCHANGED <<object, persFits, misused>>
          /\ \A k \in Loops : k # l => at'[k] = at[k]
          /\ pc[l] \notin {"closing", "undoing"}
      BY <1>a, <2>1 DEF Start, Top, NextBatch, HashRead, Use, OpenEnds, UndoEnds, ResetEnd,
                        devVars, history
    <3>3. label \in Pcs \ {"close", "closing", "undoing", "wipe"}
      BY DEF Pcs, InHash, InInit
    <3> QED
      BY <1>0, <1>a, <3>1, <3>2, <3>3, QuietKeeps
  <2>2. CASE HashWrite(l) \/ HashFails(l)
    <3>1. PICK label \in {"launch", "reset"} : pc' = [pc EXCEPT ![l] = label]
      BY <2>2 DEF HashWrite, HashFails
    <3>2. pc[l] \in {"write", "launch"}
      BY <2>2 DEF HashWrite, HashFails
    <3>3. Inside(l) /\ label \in Pcs /\ label \notin {"close", "closing", "undoing", "wipe"}
      BY <3>2 DEF Inside, Pcs, InHash
    <3>4. \A x \in Objects : object[x] # "dangling"
      BY <1>0, <3>2, <3>3, NothingDangles
    <3>5. Needed(pc[l]) \subseteq Objects
      BY <1>0 DEF Needed, Objects, Buffers
    <3>6. ~misused'
      BY <1>a, <2>2, <3>4, <3>5 DEF HashWrite, HashFails
    <3>7. /\ \A x \in Handles : object'[x] = "null"
          /\ persFits' \/ object'["pers"] = "null"
          /\ \A x \in Objects : object'[x] # "dangling"
      <4>1. CASE object' = [object EXCEPT !["pers"] = "live"] /\ persFits' = TRUE
        BY <1>a, <3>4, <4>1
      <4>2. CASE UNCHANGED <<object, persFits>>
        BY <1>a, <3>4, <4>2
      <4>3. CASE object' = [object EXCEPT !["pers"] = "null"] /\ persFits' = TRUE
        BY <1>a, <3>4, <4>3
      <4>4. ~persFits => object["pers"] = "null"
        BY <1>a
      <4> QED
        BY <1>a, <2>2, <4>1, <4>2, <4>3, <4>4 DEF HashWrite, HashFails
    <3> QED
      BY <1>0, <3>1, <3>3, <3>6, <3>7, CleanAlone
  <2>3. CASE ResetBegin(l)
    <3>1. /\ pc[l] = "reset" /\ pc' = [pc EXCEPT ![l] = "close"] /\ at'[l] = 1
          /\ UNCHANGED <<object, persFits, misused>>
      BY <1>a, <2>3 DEF ResetBegin, devVars, history
    <3>2. Inside(l) /\ "close" \in Pcs
      BY <3>1 DEF Inside, Pcs, InClose
    <3>3. \A x \in Objects : object[x] # "dangling"
      BY <1>0, <3>1, <3>2, NothingDangles
    <3>4. \A k \in 1 .. 4 : ~(k < at'[l])
      BY <3>1
    <3> QED
      BY <1>0, <1>a, <3>1, <3>2, <3>3, <3>4, CleanAlone
  <2>4. CASE Release(l)
    <3> DEFINE x == NextObject(l)
    <3>1. /\ pc[l] \in {"close", "undo"} /\ at[l] \in DOMAIN Order(l)
          /\ misused' = (misused \/ object[x] = "dangling")
          /\ object' = [object EXCEPT ![x] = IF @ = "null" THEN "null" ELSE "dangling"]
          /\ persFits' = persFits
      BY <2>4 DEF Release
    <3>2. Inside(l)
      BY <3>1 DEF Inside, InClose, InInit
    <3>3. \A y \in Objects : object[y] # "dangling"
      BY <1>0, <3>1, <3>2, NothingDangles
    <3>4. /\ Order(l) = IF pc[l] = "close" THEN CloseOrder ELSE UndoOrder
          /\ x = Order(l)[at[l]] /\ x \in Objects \ Handles
      <4>1. Order(l) = IF pc[l] = "close" THEN CloseOrder ELSE UndoOrder
        BY <3>1 DEF Order, InClose
      <4> QED
        BY <1>0, <3>1, <4>1, CudaLists DEF NextObject
    <3>5. /\ ~misused' /\ \A y \in Handles : object'[y] = "null"
          /\ persFits' \/ object'["pers"] = "null"
          /\ \A y \in Objects : object'[y] = "dangling" => y = x /\ object[x] # "null"
          /\ \A y \in Objects : object[y] = "null" => object'[y] = "null"
      <4> HIDE DEF x
      <4>1. ~misused' /\ \A y \in Handles : object'[y] = "null"
        BY <1>a, <3>1, <3>3, <3>4
      <4>2. \A y \in Objects : object[y] = "null" => object'[y] = "null"
        BY <1>a, <3>1, <3>4
      <4>3. \A y \in Objects : object'[y] = "dangling" => y = x /\ object[x] # "null"
        BY <1>a, <3>1, <3>3, <3>4
      <4> QED
        BY <1>a, <3>1, <4>1, <4>2, <4>3
    <3>6. CASE object[x] # "null"
      <4>1. PICK label \in {"closing", "undoing"} :
              /\ pc' = [pc EXCEPT ![l] = label] /\ at' = [at EXCEPT ![l] = at[l]]
              /\ label = "closing" <=> pc[l] = "close"
        BY <1>0, <2>4, <3>1, <3>6 DEF Release
      <4>2. pc'[l] = label /\ at'[l] = at[l] /\ label \in Pcs
        BY <1>a, <4>1 DEF Pcs, InClose, InInit
      <4>3. NextObject(l)' = x
        BY <1>0, <3>4, <4>1, <4>2, SameLists DEF NextObject, Order, InClose
      <4>4. label = "closing" => \A k \in 1 .. 4 : k < at'[l] => object'[CloseOrder[k]] = "null"
        BY <1>0, <3>5, <4>1, <4>2, CudaLists DEF Clean
      <4> HIDE DEF x
      <4> QED
        BY <1>0, <3>2, <3>5, <4>1, <4>2, <4>3, <4>4, CleanAlone
    <3>7. CASE object[x] = "null"
      <4>1. pc' = [pc EXCEPT ![l] = pc[l]] /\ at' = [at EXCEPT ![l] = at[l] + 1]
        BY <1>0, <2>4, <3>7 DEF Release
      <4>2. at'[l] = at[l] + 1 /\ pc[l] \in Pcs /\ at[l] \in Nat
        BY <1>a, <4>1
      <4>3. pc[l] = "close" =>
              \A k \in 1 .. 4 : k < at'[l] => object'[CloseOrder[k]] = "null"
        <5> SUFFICES ASSUME pc[l] = "close", NEW k \in 1 .. 4, k < at'[l]
                     PROVE  object'[CloseOrder[k]] = "null"
          OBVIOUS
        <5>1. CASE k < at[l]
          BY <1>0, <3>5, <5>1, CudaLists DEF Clean
        <5>2. CASE k = at[l]
          BY <1>0, <3>4, <3>5, <3>7, <5>2, CudaLists
        <5> QED
          BY <4>2, <5>1, <5>2
      <4>4. \A y \in Objects : object'[y] # "dangling"
        BY <3>5, <3>7
      <4> HIDE DEF x
      <4> QED
        BY <1>0, <3>1, <3>2, <3>5, <4>1, <4>2, <4>3, <4>4, CleanAlone
    <3> QED
      BY <3>6, <3>7
  <2>5. CASE Clear(l)
    <3> DEFINE x == NextObject(l)
    <3>1. PICK label \in {"close", "undo"} :
            /\ pc[l] \in {"closing", "undoing"} /\ (label = "close" <=> pc[l] = "closing")
            /\ pc' = [pc EXCEPT ![l] = label] /\ at' = [at EXCEPT ![l] = at[l] + 1]
            /\ object' = [object EXCEPT ![x] = "null"]
            /\ UNCHANGED <<persFits, misused>>
      BY <2>5 DEF Clear, history
    <3>2. Inside(l) /\ label \in Pcs
      BY <3>1 DEF Inside, Pcs, InClose, InInit
    <3>3. \A y \in Objects : object[y] = "dangling" => y = x
      BY <1>0, <3>1, <3>2 DEF Clean, Owned, Exclusive, Inside, InClose, InInit
    <3>4. /\ x = IF pc[l] = "closing" THEN CloseOrder[at[l]] ELSE UndoOrder[at[l]]
          /\ at[l] \in Nat /\ at'[l] = at[l] + 1
      BY <1>a, <3>1 DEF NextObject, Order, InClose
    <3>5. /\ \A y \in Objects : object'[y] # "dangling"
          /\ \A y \in Objects : object[y] = "null" => object'[y] = "null"
      <4> HIDE DEF x
      <4> QED
        BY <1>a, <3>1, <3>3
    <3>6. label = "close" => \A k \in 1 .. 4 : k < at'[l] => object'[CloseOrder[k]] = "null"
      <4> SUFFICES ASSUME label = "close", NEW k \in 1 .. 4, k < at'[l]
                   PROVE  object'[CloseOrder[k]] = "null"
        OBVIOUS
      <4>1. CASE k < at[l]
        BY <1>0, <3>1, <3>5, <4>1, CudaLists DEF Clean
      <4>2. CASE k = at[l]
        <5>1. CloseOrder[k] = x /\ CloseOrder[k] \in Objects
          BY <1>0, <3>1, <3>4, <4>2, CudaLists
        <5> HIDE DEF x
        <5> QED
          BY <1>a, <3>1, <5>1
      <4> QED
        BY <3>4, <4>1, <4>2
    <3> HIDE DEF x
    <3> QED
      BY <1>0, <1>a, <3>1, <3>2, <3>5, <3>6, CleanAlone
  <2>6. CASE CloseEnds(l)
    <3>1. /\ pc[l] = "close" /\ at[l] = Len(CloseOrder) + 1 /\ object' = object
          /\ pc' = [pc EXCEPT ![l] = "wipe"] /\ misused' = misused
      BY <1>0, <2>6 DEF CloseEnds, history
    <3>2. \A x \in Objects \ Handles : object[x] = "null"
      <4>1. \A k \in 1 .. 4 : object[CloseOrder[k]] = "null"
        BY <1>0, <3>1, CudaLists DEF Clean
      <4> QED
        BY <1>0, <4>1, CudaLists
    <3>3. Inside(l) /\ "wipe" \in Pcs
      BY <3>1 DEF Inside, Pcs, InClose
    <3>4. \A x \in Objects : object'[x] = "null"
      BY <1>a, <3>1, <3>2
    <3> QED
      BY <1>0, <1>a, <3>1, <3>3, <3>4, CleanAlone
  <2>7. CASE Wipe(l)
    <3>1. /\ pc[l] = "wipe" /\ pc' = [pc EXCEPT ![l] = "init"] /\ misused' = misused
          /\ object' = [x \in Objects |-> IF object[x] = "live" THEN "dangling" ELSE object[x]]
      BY <2>7 DEF Wipe, history
    <3>2. \A x \in Objects : object'[x] = "null"
      BY <1>0, <3>1 DEF Clean
    <3>3. Inside(l) /\ "init" \in Pcs
      BY <3>1 DEF Inside, Pcs, InClose, InInit
    <3> QED
      BY <1>0, <1>a, <3>1, <3>2, <3>3, CleanAlone
  <2>8. CASE Open(l) \/ OpenFails(l)
    <3>1. /\ pc[l] = "init" /\ at[l] \in DOMAIN Stages /\ UNCHANGED <<persFits, misused>>
          /\ object' \in {object, [x \in Objects |-> IF x = Stages[at[l]] THEN "live"
                                                     ELSE object[x]]}
      BY <1>0, <1>a, <2>8 DEF Open, OpenFails, history
    <3>2. PICK label \in {"init", "start", "undo"} : pc' = [pc EXCEPT ![l] = label]
      BY <2>8 DEF Open, OpenFails
    <3>3. Inside(l) /\ label \in Pcs
      BY <3>1 DEF Inside, Pcs, InInit
    <3>4. \A x \in Objects : object[x] # "dangling"
      BY <1>0, <3>1, <3>3, NothingDangles
    <3>5. Stages[at[l]] \notin Handles \cup {"pers"}
      BY <1>0, <3>1, CudaLists
    <3>6. /\ \A x \in Handles : object'[x] = "null"
          /\ persFits' \/ object'["pers"] = "null"
          /\ \A x \in Objects : object'[x] # "dangling"
      BY <1>a, <3>1, <3>4, <3>5
    <3> QED
      BY <1>0, <1>a, <3>1, <3>2, <3>3, <3>6, CleanAlone
  <2> QED
    BY <1>3, <2>1, <2>2, <2>3, <2>4, <2>5, <2>6, <2>7, <2>8 DEF Loop
<1> QED
  BY <1>1, <1>2, <1>3 DEF Next

\* With the CUDA bridge nothing is released or used after its release: not by a
\* reset after one that failed halfway, nor by any later loop, as long as no two
\* loops were at the device at once (cuda_bridge.cu, gpu_init, gpu_close).
THEOREM NothingReleasedTwice == Spec => []ReleasedOnce
<1> DEFINE Inv == TypeInv /\ ApartInv /\ Births /\ CleanInv
<1>1. Init => Inv
  <2>1. Init => Births
    BY ConstantTypes DEF Init, Births, Loops
  <2> QED
    BY <2>1, TypeInit, ApartInit, CleanInit
<1>2. Inv /\ [Next]_vars => Inv'
  BY TypeKept, ApartKept, BirthsKept, CleanKept
<1>3. Inv => ReleasedOnce
  BY DEF CleanInv, Clean, ReleasedOnce
<1> QED
  BY <1>1, <1>2, <1>3, PTL DEF Spec
=============================================================================
