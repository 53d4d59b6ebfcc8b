-------------------------- MODULE RpcMining_proofs --------------------------
(***************************************************************************)
(* Proofs about RpcMining.  First, for every number of generations: the    *)
(* loops that are alive are those of the mode.  Then, for one generation   *)
(* and whatever the other constants are: the stale flag covers the CPU     *)
(* loop's snapshot, nonces are mixed only while it is up, and a submitted  *)
(* template is not mined again, and one generation of the engine           *)
(* implements TemplateWork.  Last, the types, again for every number of    *)
(* generations.                                                            *)
(***************************************************************************)
EXTENDS RpcMining, TLAPS

Pcs     == CpuPcs \cup GpuPcs
Pollers == {"unborn", "wait", "call", "answer", "exited"}

-----------------------------------------------------------------------------
(* The mode and the loops. *)

\* What keys and goroutines decide on.
Labels == /\ gen \in Gens
          /\ mode \in Modes
          /\ {quit, gpuUp} \subseteq BOOLEAN
          /\ pc \in [Actors -> Pcs]
          /\ poller \in [Gens -> Pollers]

\* A generation is born with its CPU goroutine, and nothing of it before.
Births == \A g \in Gens :
  IF g <= gen THEN pc[CpuLoop(g)] # "unborn"
  ELSE /\ pc[CpuLoop(g)] = "unborn" /\ pc[GpuLoop(g)] = "unborn"
       /\ poller[g] = "unborn"

ModeInv == Labels /\ Births /\ LiveLoopMatchesMode

LEMMA LoopsDiffer ==
  \A g, h \in Gens : /\ CpuLoop(g) \in Actors /\ GpuLoop(g) \in Actors
                     /\ CpuLoop(g) # GpuLoop(h)
                     /\ (CpuLoop(g) = CpuLoop(h)) <=> (g = h)
                     /\ (GpuLoop(g) = GpuLoop(h)) <=> (g = h)
BY DEF CpuLoop, GpuLoop, Actors, Kinds

\* A loop that has begun its work keeps the invariant wherever it goes within
\* the code of its mode; a bench loop must be cancelled to go anywhere.
LEMMA MoveKeepsMode ==
  ASSUME ModeInv, NEW a \in Actors, NEW label \in Pcs,
         pc' = [pc EXCEPT ![a] = label],
         label \notin {"unborn", "boot", "bench"},
         pc[a] \notin {"unborn", "boot"},
         pc[a] = "bench" => Cancelled(a[2]),
         UNCHANGED <<gen, quit, mode, poller>>, gpuUp' \in BOOLEAN
  PROVE  ModeInv'
<1> USE DEF ModeInv
<1>1. Labels'
  BY DEF Labels
<1>2. Births'
  BY LoopsDiffer DEF Births, Labels
<1>3. LiveLoopMatchesMode'
  <2> SUFFICES ASSUME NEW g \in Gens, ~Cancelled(g)
               PROVE  /\ pc'[CpuLoop(g)] # "boot" => (pc'[CpuLoop(g)] = "bench" <=> mode # "rpc")
                      /\ poller[g] # "unborn" => mode = "rpc"
                      /\ pc'[GpuLoop(g)] = "bench" => mode = "bench"
                      /\ pc'[GpuLoop(g)] \notin {"bench", "unborn"} => mode = "rpc"
    BY DEF LiveLoopMatchesMode, Cancelled
  <2> DEFINE cpu == CpuLoop(g)  gpu == GpuLoop(g)
  <2>1. cpu \in Actors /\ gpu \in Actors /\ cpu # gpu /\ cpu[2] = g /\ gpu[2] = g
    BY LoopsDiffer DEF CpuLoop, GpuLoop
  <2>2. /\ pc[cpu] # "boot" => (pc[cpu] = "bench" <=> mode # "rpc")
        /\ poller[g] # "unborn" => mode = "rpc"
        /\ pc[gpu] = "bench" => mode = "bench"
        /\ pc[gpu] \notin {"bench", "unborn"} => mode = "rpc"
    BY DEF LiveLoopMatchesMode
  <2>3. CASE a = cpu
    BY <2>1, <2>2, <2>3 DEF Labels
  <2>4. CASE a = gpu
    BY <2>1, <2>2, <2>4 DEF Labels
  <2>5. CASE a # cpu /\ a # gpu
    BY <2>1, <2>2, <2>5 DEF Labels
  <2> QED
    BY <2>3, <2>4, <2>5
<1> QED
  BY <1>1, <1>2, <1>3

\* A step that moves neither loops nor keys, and of the pollers at most one
\* that is born, keeps the invariant.
LEMMA PollKeepsMode ==
  ASSUME ModeInv, NEW g \in Gens, NEW p \in Pollers,
         poller' \in {poller, [poller EXCEPT ![g] = p]},
         poller[g] # "unborn", p # "unborn",
         UNCHANGED <<gen, quit, mode, pc, gpuUp>>
  PROVE  ModeInv'
<1> USE DEF ModeInv
<1>1. Labels'
  BY DEF Labels
<1>2. Births'
  BY DEF Births, Labels
<1>3. LiveLoopMatchesMode'
  BY DEF LiveLoopMatchesMode, Cancelled, Labels
<1> QED
  BY <1>1, <1>2, <1>3

LEMMA IdleKeepsMode ==
  ASSUME ModeInv, UNCHANGED <<gen, quit, mode, pc, poller>>, gpuUp' \in BOOLEAN
  PROVE  ModeInv'
BY DEF ModeInv, Labels, Births, LiveLoopMatchesMode, Cancelled

\* A key begins the next generation with its loops at their beginning.
LEMMA StartKeepsMode ==
  ASSUME ModeInv, ~quit, gen < MaxGen, NEW new \in Modes,
         mode' = new, StartMining(new), UNCHANGED <<quit, gpuUp, poller>>
  PROVE  ModeInv'
<1> DEFINE cpu == CpuLoop(gen + 1)  gpu == GpuLoop(gen + 1)
<1> USE DEF ModeInv
<1>1. /\ gen + 1 \in Gens /\ gen' = gen + 1
      /\ cpu \in Actors /\ gpu \in Actors /\ cpu # gpu
  BY LoopsDiffer, BoundsAssumption DEF Labels, Gens, StartMining
<1>2. /\ pc' = [pc EXCEPT ![cpu] = "boot", ![gpu] = GpuStart(new, gpuUp)]
      /\ pc'[cpu] = "boot" /\ pc'[gpu] = GpuStart(new, gpuUp)
      /\ \A a \in Actors : a # cpu /\ a # gpu => pc'[a] = pc[a]
  BY <1>1 DEF StartMining, Labels
<1>3. /\ GpuStart(new, gpuUp) \in {"unborn", "bench", "top"}
      /\ GpuStart(new, gpuUp) = "bench" => new = "bench"
      /\ GpuStart(new, gpuUp) = "top" => new = "rpc"
  BY DEF GpuStart, Labels, Modes
<1>4. Labels'
  BY <1>1, <1>2, <1>3 DEF Labels, Pcs, CpuPcs, GpuPcs
<1>5. Births'
  <2> SUFFICES ASSUME NEW g \in Gens
               PROVE  IF g <= gen' THEN pc'[CpuLoop(g)] # "unborn"
                      ELSE /\ pc'[CpuLoop(g)] = "unborn" /\ pc'[GpuLoop(g)] = "unborn"
                           /\ poller[g] = "unborn"
    BY DEF Births
  <2>1. CASE g = gen + 1
    BY <1>1, <1>2, <2>1
  <2>2. CASE g # gen + 1
    <3>1. pc'[CpuLoop(g)] = pc[CpuLoop(g)] /\ pc'[GpuLoop(g)] = pc[GpuLoop(g)]
      BY <1>1, <1>2, <2>2, LoopsDiffer
    <3>2. g <= gen' => g <= gen
      BY <1>1, <2>2 DEF Gens, Labels
    <3>3. g \in Nat /\ gen \in Nat
      BY DEF Gens, Labels
    <3> QED
      BY <1>1, <3>1, <3>2, <3>3 DEF Births
  <2> QED
    BY <2>1, <2>2
<1>6. LiveLoopMatchesMode'
  <2> SUFFICES ASSUME NEW g \in Gens, ~(quit \/ g # gen + 1)
               PROVE  /\ pc'[CpuLoop(g)] # "boot" => (pc'[CpuLoop(g)] = "bench" <=> new # "rpc")
                      /\ poller[g] # "unborn" => new = "rpc"
                      /\ pc'[GpuLoop(g)] = "bench" => new = "bench"
                      /\ pc'[GpuLoop(g)] \notin {"bench", "unborn"} => new = "rpc"
    BY <1>1 DEF LiveLoopMatchesMode, Cancelled
  <2>1. poller[g] = "unborn"
    BY <1>1 DEF Births, Gens, Labels
  <2> QED
    BY <1>2, <1>3, <2>1
<1> QED
  BY <1>4, <1>5, <1>6

LEMMA ModeInit == Init => ModeInv
<1> SUFFICES ASSUME Init PROVE ModeInv
  OBVIOUS
<1>1. /\ 1 \in Gens
      /\ GpuStart(mode, WithGPU) \in {"unborn", "bench", "top"}
      /\ GpuStart(mode, WithGPU) = "bench" => mode = "bench"
      /\ GpuStart(mode, WithGPU) = "top" => mode = "rpc"
  BY BoundsAssumption, FlagsAssumption DEF Init, GpuStart, Gens
<1>2. /\ pc = [[a \in Actors |-> "unborn"] EXCEPT
                   ![CpuLoop(1)] = "boot", ![GpuLoop(1)] = GpuStart(mode, WithGPU)]
      /\ pc[CpuLoop(1)] = "boot" /\ pc[GpuLoop(1)] = GpuStart(mode, WithGPU)
      /\ \A g \in Gens : g # 1 => pc[CpuLoop(g)] = "unborn" /\ pc[GpuLoop(g)] = "unborn"
  BY <1>1, LoopsDiffer DEF Init
<1>3. Labels
  BY <1>1, <1>2, FlagsAssumption
     DEF Init, Labels, Modes, Pcs, CpuPcs, GpuPcs, Pollers
<1>4. Births
  <2>1. \A g \in Gens : (g <= gen <=> g = 1) /\ poller[g] = "unborn"
    BY BoundsAssumption DEF Init, Gens
  <2> QED
    BY <1>1, <1>2, <2>1 DEF Births
<1>5. LiveLoopMatchesMode
  BY <1>1, <1>2 DEF Init, LiveLoopMatchesMode, Cancelled
<1> QED
  BY <1>3, <1>4, <1>5 DEF ModeInv

LEMMA ModeStep == ModeInv /\ [Next]_vars => ModeInv'
<1> SUFFICES ASSUME ModeInv, [Next]_vars PROVE ModeInv'
  OBVIOUS
<1> USE DEF Goto
<1>0. CASE UNCHANGED vars
  BY <1>0, IdleKeepsMode DEF vars, ModeInv, Labels
<1>1. CASE Keys
  <2>1. mode \in Modes /\ NextMode \in Modes
    BY DEF ModeInv, Labels, Modes, NextMode
  <2>2. CASE PressMode
    BY <2>1, <2>2, StartKeepsMode DEF PressMode, pollVars
  <2>3. CASE PressRestart
    BY <2>1, <2>3, StartKeepsMode DEF PressRestart, pollVars
  <2>4. CASE PressQuit
    BY <2>4 DEF PressQuit, pollVars, loopVars, ModeInv, Labels, Births,
                LiveLoopMatchesMode, Cancelled
  <2> QED
    BY <1>1, <2>2, <2>3, <2>4 DEF Keys
<1>2. CASE Network
  BY <1>2, IdleKeepsMode DEF Network, OtherBlock, OtherBranch, genVars, pollVars,
                             loopVars, ModeInv, Labels
<1>3. ASSUME NEW g \in Gens, Boot(g) PROVE ModeInv'
  <2>1. /\ CpuLoop(g) \in Actors /\ pc[CpuLoop(g)] = "boot"
        /\ pc' = [pc EXCEPT ![CpuLoop(g)] = IF mode = "rpc" THEN "top" ELSE "bench"]
        /\ poller' = [poller EXCEPT ![g] = IF mode = "rpc" THEN "wait" ELSE @]
        /\ UNCHANGED <<gen, quit, mode, gpuUp>>
    BY <1>3, LoopsDiffer DEF Boot, genVars
  <2>2. g <= gen
    BY <2>1 DEF ModeInv, Births
  <2>3. Labels'
    BY <2>1 DEF ModeInv, Labels, Pcs, CpuPcs, Pollers
  <2>4. \A h \in Gens : /\ h # g => pc'[CpuLoop(h)] = pc[CpuLoop(h)] /\ poller'[h] = poller[h]
                        /\ pc'[GpuLoop(h)] = pc[GpuLoop(h)]
    BY <2>1, LoopsDiffer DEF ModeInv, Labels
  <2>5. /\ pc'[CpuLoop(g)] = IF mode = "rpc" THEN "top" ELSE "bench"
        /\ poller'[g] = IF mode = "rpc" THEN "wait" ELSE poller[g]
    BY <2>1 DEF ModeInv, Labels
  <2>6. Births'
    BY <2>1, <2>2, <2>4, <2>5 DEF ModeInv, Births
  <2>7. LiveLoopMatchesMode'
    BY <2>1, <2>4, <2>5 DEF ModeInv, LiveLoopMatchesMode, Cancelled
  <2> QED
    BY <2>3, <2>6, <2>7 DEF ModeInv
<1>4. ASSUME NEW g \in Gens, Poller(g) PROVE ModeInv'
  <2>1. \E p \in Pollers \ {"unborn"} :
           poller[g] # "unborn" /\ poller' = [poller EXCEPT ![g] = p]
    BY <1>4 DEF Poller, PollEnd, PollTimer, PollToken, PollAnswer, PollFail,
                PollAdopt, Pollers
  <2>2. UNCHANGED <<gen, quit, mode, pc, gpuUp>>
    BY <1>4 DEF Poller, PollEnd, PollTimer, PollToken, PollAnswer, PollFail,
                PollAdopt, genVars, loopVars
  <2> QED
    BY <2>1, <2>2, PollKeepsMode
<1>5. ASSUME NEW g \in Gens, CpuStep(g) PROVE ModeInv'
  <2> DEFINE a == CpuLoop(g)
  <2>1. a \in Actors /\ a[2] = g
    BY LoopsDiffer DEF CpuLoop
  <2>2. UNCHANGED <<gen, quit, mode, poller, gpuUp>>
    BY <1>5 DEF CpuStep, CpuTop, CpuSnapshot, CpuLeave, CpuSeeStop, CpuGiveUp,
                CpuFind, CpuCheck, CpuWriteNonce, CpuPark, CpuStats, genVars,
                pollVars
  <2>3. CASE CpuSeeStop(g)
    BY <2>2, <2>3, IdleKeepsMode DEF CpuSeeStop, ModeInv, Labels
  <2>4. CASE ~CpuSeeStop(g)
    <3>1. /\ pc[a] \in {"top", "snap", "mine", "stats", "found", "take", "park"}
          /\ \E label \in Pcs \ {"unborn", "boot", "bench"} :
                pc' = [pc EXCEPT ![a] = label]
             \/ UNCHANGED pc
      BY <1>5, <2>4 DEF CpuStep, CpuTop, CpuSnapshot, CpuLeave, CpuGiveUp, CpuFind,
                        CpuCheck, CpuWriteNonce, TakeRaw, CpuPark, CpuStats, Pcs,
                        CpuPcs
    <3> QED
      BY <2>1, <2>2, <3>1, MoveKeepsMode, IdleKeepsMode DEF ModeInv, Labels
  <2> QED
    BY <2>3, <2>4
<1>6. ASSUME NEW g \in Gens, GpuStep(g) \/ GpuDown(g) PROVE ModeInv'
  <2> DEFINE a == GpuLoop(g)
  <2>1. a \in Actors /\ a[2] = g
    BY LoopsDiffer DEF GpuLoop
  <2>2. UNCHANGED <<gen, quit, mode, poller>> /\ gpuUp' \in BOOLEAN
    BY <1>6 DEF GpuStep, GpuTop, GpuSnapshot, GpuHash, GpuReset, GpuScan,
                GpuWriteNonce, GpuStats, GpuDown, genVars, pollVars, ModeInv,
                Labels
  <2>3. CASE UNCHANGED pc
    BY <2>2, <2>3, IdleKeepsMode
  <2>4. CASE ~UNCHANGED pc
    <3>1. \E label \in Pcs \ {"unborn", "boot", "bench"} :
             /\ pc' = [pc EXCEPT ![a] = label]
             /\ pc[a] \in {"top", "look", "hash", "scan", "take", "stats", "bench"}
             /\ pc[a] = "bench" => Cancelled(g)
      BY <1>6, <2>4 DEF GpuStep, GpuTop, GpuSnapshot, GpuHash, GpuReset, GpuScan,
                        GpuWriteNonce, GpuStats, GpuDown, TakeRaw, loopVars, Pcs,
                        GpuPcs
    <3> QED
      BY <2>1, <2>2, <3>1, MoveKeepsMode
  <2> QED
    BY <2>3, <2>4
<1>7. ASSUME NEW a \in Actors, BenchEnd(a) \/ Submission(a) PROVE ModeInv'
  <2>1. UNCHANGED <<gen, quit, mode, poller, gpuUp>>
    BY <1>7 DEF BenchEnd, Submission, Encode, Submit, SubmitLost, Trigger,
                genVars, pollVars
  <2>2. \E label \in Pcs \ {"unborn", "boot", "bench"} :
           /\ pc' = [pc EXCEPT ![a] = label]
           /\ pc[a] \in {"bench", "encode", "submit", "trigger"}
           /\ pc[a] = "bench" => Cancelled(a[2])
    BY <1>7 DEF BenchEnd, Submission, Encode, Submit, SubmitLost, Trigger, Pcs,
                CpuPcs, GpuPcs
  <2> QED
    BY <2>1, <2>2, MoveKeepsMode DEF ModeInv, Labels
<1> QED
  BY <1>0, <1>1, <1>2, <1>3, <1>4, <1>5, <1>6, <1>7 DEF Next

\* Whatever keys are pressed, and however late the goroutine of an earlier
\* generation reads m.mode (run.go:31-40), the loops whose context is alive
\* are those of the mode: for every number of generations.
THEOREM LiveLoopsMatchMode == Spec => []LiveLoopMatchesMode
<1>1. ModeInv => LiveLoopMatchesMode
  BY DEF ModeInv
<1> QED
  BY <1>1, ModeInit, ModeStep, PTL DEF Spec

-----------------------------------------------------------------------------
(* One generation. *)

cpu == CpuLoop(1)
Tip == Nat \X Nat

Typed == /\ gen = 1
         /\ {stale, hasStale} \subseteq BOOLEAN
         /\ pc \in [Actors -> Pcs]
         /\ snap \in [Actors -> Nat] /\ buf \in [Actors -> Nat]
         /\ tip \in Tip /\ answer \in [Gens -> Tip] /\ adopted \in Seq(Tip)

\* The flag is up while the loop hashes, or holds a nonce of, an old template.
Covered == pc[cpu] \in {"mine", "found", "take"} /\ snap[cpu] # Cur => stale

\* The nonce and the buffer it went into belong together, or the flag is up.
Matched == pc[cpu] \in {"encode", "submit"} /\ snap[cpu] # buf[cpu] => stale

\* A template a block was submitted for is kept from the loop by hasStale, once
\* the loop has come past the line that lowers it.
Spent == /\ submitted \subseteq 0 .. Cur /\ buf[cpu] \in 0 .. Cur
         /\ Cur \in submitted =>
              \/ pc[cpu] \in {"trigger", "park"}
              \/ pc[cpu] \in {"stats", "top", "exited"} /\ ~hasStale

OneInv == Typed /\ Covered /\ Matched /\ Spent

\* What no step of others than the CPU loop and its poller touches.
cpuView == <<pc[cpu], snap[cpu], buf[cpu], stale, hasStale, adopted, submitted>>

LEMMA AsideKeeps ==
  ASSUME OneInv, Typed', UNCHANGED cpuView PROVE OneInv'
BY DEF OneInv, Covered, Matched, Spent, cpuView, Cur

\* The CPU loop's place is in the domain of what the loops hold.
LEMMA OneLoop ==
  ASSUME MaxGen = 1
  PROVE  /\ Gens = {1} /\ cpu \in Actors /\ GpuLoop(1) \in Actors
         /\ cpu # GpuLoop(1) /\ \A a \in Actors : a = cpu \/ a = GpuLoop(1)
<1>1. Gens = {1}
  BY DEF Gens
<1> QED
  BY <1>1 DEF cpu, CpuLoop, GpuLoop, Actors, Kinds

LEMMA OneInit == ASSUME MaxGen = 1 PROVE Init => OneInv
<1> SUFFICES ASSUME Init PROVE OneInv
  OBVIOUS
<1>1. GpuStart(mode, WithGPU) \in Pcs
  BY FlagsAssumption DEF Init, GpuStart, Pcs, CpuPcs, GpuPcs
<1>2. Typed
  <2>1. pc \in [Actors -> Pcs]
    BY <1>1 DEF Init, Pcs, CpuPcs
  <2>2. <<0, 0>> \in Tip /\ <<>> \in Seq(Tip)
    BY DEF Tip
  <2> QED
    BY <2>1, <2>2 DEF Init, Typed
<1>3. pc[cpu] = "boot" /\ buf[cpu] = 0 /\ submitted = {} /\ Cur = 0
  BY OneLoop DEF Init, cpu, Cur, CpuLoop, GpuLoop
<1> QED
  BY <1>2, <1>3 DEF OneInv, Covered, Matched, Spent

\* Types alone: every action moves each loop to a label.
LEMMA TypedStep ==
  ASSUME MaxGen = 1, Typed, [Next]_vars PROVE Typed'
<1> USE DEF Typed, Goto, Forget
<1>9. Cur \in Nat
  BY DEF Cur
<1>0. CASE UNCHANGED vars
  BY <1>0 DEF vars
<1>1. CASE Keys
  BY <1>1, OneLoop DEF Keys, PressMode, PressRestart, PressQuit, pollVars, tmplVars,
                       loopVars
<1>2. CASE Network
  BY <1>2 DEF Network, OtherBlock, OtherBranch, genVars, pollVars, tmplVars,
              loopVars, Tip
<1>3. ASSUME NEW g \in Gens, Boot(g) \/ Poller(g) PROVE Typed'
  <2>1. CASE Boot(g)
    BY <2>1, OneLoop DEF Boot, genVars, tmplVars, Pcs, CpuPcs, CpuLoop
  <2>2. CASE Poller(g)
    <3>1. UNCHANGED <<gen, pc, snap, buf, tip>>
      BY <2>2 DEF Poller, PollEnd, PollTimer, PollToken, PollAnswer, PollFail,
                  PollAdopt, genVars, loopVars
    <3>2. answer' \in [Gens -> Tip]
      <4>1. \E t \in Tip : answer' \in {answer, [answer EXCEPT ![g] = t]}
        <5>1. <<0, 0>> \in Tip
          BY DEF Tip
        <5> QED
          BY <2>2, <5>1 DEF Poller, PollEnd, PollTimer, PollToken, PollAnswer,
                            PollFail, PollAdopt
      <4> QED
        BY <4>1
    <3>3. /\ {stale', hasStale'} \subseteq BOOLEAN
          /\ adopted' \in {adopted, Append(adopted, answer[g])}
      BY <2>2 DEF Poller, PollEnd, PollTimer, PollToken, PollAnswer, PollFail,
                  PollAdopt, Replace, tmplVars
    <3>4. adopted' \in Seq(Tip)
      <4>1. answer[g] \in Tip /\ adopted \in Seq(Tip)
        OBVIOUS
      <4> HIDE DEF Typed
      <4> QED
        BY <3>3, <4>1
    <3> QED
      BY <3>1, <3>2, <3>3, <3>4
  <2> QED
    BY <1>3, <2>1, <2>2
<1>4. ASSUME NEW g \in Gens, CpuStep(g) PROVE Typed'
  <2>1. UNCHANGED <<gen, tip, answer, adopted>> /\ {stale', hasStale'} \subseteq BOOLEAN
    BY <1>4 DEF CpuStep, CpuTop, CpuSnapshot, CpuLeave, CpuSeeStop, CpuGiveUp,
                CpuFind, CpuCheck, CpuWriteNonce, CpuPark, CpuStats, genVars,
                pollVars, tmplVars
  <2>2. pc' \in [Actors -> Pcs]
    BY <1>4 DEF CpuStep, CpuTop, CpuSnapshot, CpuLeave, CpuSeeStop, CpuGiveUp,
                CpuFind, CpuCheck, CpuWriteNonce, TakeRaw, CpuPark, CpuStats,
                Pcs, CpuPcs
  <2>3. snap' \in [Actors -> Nat] /\ buf' \in [Actors -> Nat]
    <3>1. /\ \E n \in {0, Cur} : snap' \in {snap, [snap EXCEPT ![CpuLoop(g)] = n]}
          /\ \E n \in {0, Cur} : buf' \in {buf, [buf EXCEPT ![CpuLoop(g)] = n]}
      BY <1>4 DEF CpuStep, CpuTop, CpuSnapshot, CpuLeave, CpuSeeStop, CpuGiveUp,
                  CpuFind, CpuCheck, CpuWriteNonce, TakeRaw, CpuPark, CpuStats
    <3> HIDE DEF Typed
    <3>2. snap \in [Actors -> Nat] /\ buf \in [Actors -> Nat]
      BY DEF Typed
    <3>3. snap' \in [Actors -> Nat]
      BY <1>9, <3>1, <3>2
    <3>4. buf' \in [Actors -> Nat]
      BY <1>9, <3>1, <3>2
    <3> QED
      BY <3>3, <3>4
  <2> QED
    BY <2>1, <2>2, <2>3
<1>5. ASSUME NEW g \in Gens, GpuStep(g) \/ GpuDown(g) PROVE Typed'
  <2>1. UNCHANGED <<gen, tip, answer, adopted, stale, hasStale>>
    BY <1>5 DEF GpuStep, GpuTop, GpuSnapshot, GpuHash, GpuReset, GpuScan,
                GpuWriteNonce, GpuStats, GpuDown, genVars, pollVars, tmplVars
  <2>2. pc' \in [Actors -> Pcs]
    BY <1>5 DEF GpuStep, GpuTop, GpuSnapshot, GpuHash, GpuReset, GpuScan,
                GpuWriteNonce, GpuStats, GpuDown, TakeRaw, loopVars, Pcs, GpuPcs
  <2>3. snap' \in [Actors -> Nat] /\ buf' \in [Actors -> Nat]
    <3>1. /\ \E n \in {0, Cur} : snap' \in {snap, [snap EXCEPT ![GpuLoop(g)] = n]}
          /\ \E n \in {0, Cur} : buf' \in {buf, [buf EXCEPT ![GpuLoop(g)] = n]}
      BY <1>5 DEF GpuStep, GpuTop, GpuSnapshot, GpuHash, GpuReset, GpuScan,
                  GpuWriteNonce, GpuStats, GpuDown, TakeRaw, loopVars
    <3> HIDE DEF Typed
    <3>2. snap \in [Actors -> Nat] /\ buf \in [Actors -> Nat]
      BY DEF Typed
    <3>3. snap' \in [Actors -> Nat]
      BY <1>9, <3>1, <3>2
    <3>4. buf' \in [Actors -> Nat]
      BY <1>9, <3>1, <3>2
    <3> QED
      BY <3>3, <3>4
  <2> QED
    BY <2>1, <2>2, <2>3
<1>6. ASSUME NEW a \in Actors, BenchEnd(a) \/ Submission(a) PROVE Typed'
  <2>1. UNCHANGED <<gen, answer, adopted, stale, hasStale>> /\ tip' \in Tip
    BY <1>6 DEF BenchEnd, Submission, Encode, Submit, SubmitLost, Trigger, genVars,
                pollVars, tmplVars, Tip
  <2>2. pc' \in [Actors -> Pcs]
    BY <1>6 DEF BenchEnd, Submission, Encode, Submit, SubmitLost, Trigger, Pcs,
                CpuPcs, GpuPcs
  <2>3. snap' \in [Actors -> Nat] /\ buf' \in [Actors -> Nat]
    BY <1>6 DEF BenchEnd, Submission, Encode, Submit, SubmitLost, Trigger
  <2> QED
    BY <2>1, <2>2, <2>3
<1> QED
  BY <1>0, <1>1, <1>2, <1>3, <1>4, <1>5, <1>6 DEF Next

\* A step of the CPU loop itself: where it goes, and what it takes along.
LEMMA CpuKeeps ==
  ASSUME MaxGen = 1, OneInv, Typed', CpuStep(1) PROVE OneInv'
<1> USE OneLoop DEF OneInv, Typed, Goto, Forget
<1>0. /\ UNCHANGED <<adopted, submitted>> /\ Cur' = Cur /\ Cur \in Nat
      /\ cpu = CpuLoop(1)
  BY DEF CpuStep, CpuTop, CpuSnapshot, CpuLeave, CpuSeeStop, CpuGiveUp, CpuFind,
         CpuCheck, CpuWriteNonce, CpuPark, CpuStats, tmplVars, Cur, cpu
<1>1. CASE CpuTop(1)
  BY <1>0, <1>1 DEF CpuTop, Covered, Matched, Spent, tmplVars
<1>2. CASE CpuSnapshot(1)
  BY <1>0, <1>2 DEF CpuSnapshot, Covered, Matched, Spent
<1>3. CASE CpuLeave(1)
  BY <1>0, <1>3 DEF CpuLeave, Covered, Matched, Spent, tmplVars
<1>4. CASE CpuSeeStop(1)
  BY <1>0, <1>4 DEF CpuSeeStop, Covered, Matched, Spent, tmplVars
<1>5. CASE CpuGiveUp(1)
  BY <1>0, <1>5 DEF CpuGiveUp, Covered, Matched, Spent, tmplVars
<1>6. CASE CpuFind(1)
  BY <1>0, <1>6 DEF CpuFind, Covered, Matched, Spent, tmplVars
<1>10. CASE CpuCheck(1)
  BY <1>0, <1>10 DEF CpuCheck, Covered, Matched, Spent, tmplVars
<1>7. CASE CpuWriteNonce(1)
  BY <1>0, <1>7 DEF CpuWriteNonce, TakeRaw, Covered, Matched, Spent
<1>8. CASE CpuPark(1)
  BY <1>0, <1>8 DEF CpuPark, Covered, Matched, Spent
<1>9. CASE CpuStats(1)
  BY <1>0, <1>9 DEF CpuStats, Covered, Matched, Spent, tmplVars
<1> QED
  BY <1>1, <1>2, <1>3, <1>4, <1>5, <1>6, <1>7, <1>8, <1>9, <1>10 DEF CpuStep

\* The steps of a submission, when it is the CPU loop's.
LEMMA SubmissionKeeps ==
  ASSUME MaxGen = 1, OneInv, Typed', Submission(cpu) PROVE OneInv'
<1> USE OneLoop DEF OneInv, Typed, Goto, Forget
<1>0. /\ UNCHANGED <<adopted, stale, hasStale>> /\ Cur' = Cur /\ Cur \in Nat
      /\ cpu[1] = "cpu"
  BY DEF Submission, Encode, Submit, SubmitLost, Trigger, tmplVars, Cur, cpu, CpuLoop
<1>1. CASE Encode(cpu)
  BY <1>0, <1>1 DEF Encode, Covered, Matched, Spent
<1>2. CASE Submit(cpu) \/ SubmitLost(cpu)
  <2>1. /\ submitted' = submitted \cup {buf[cpu]}
        /\ pc' = [pc EXCEPT ![cpu] = "trigger"] /\ buf' = [buf EXCEPT ![cpu] = 0]
        /\ snap' = [snap EXCEPT ![cpu] = 0]
    BY <1>0, <1>2 DEF Submit, SubmitLost, NoteSubmission
  <2>2. pc'[cpu] = "trigger" /\ buf'[cpu] = 0
    BY <2>1
  <2>3. submitted' \subseteq 0 .. Cur' /\ buf'[cpu] \in 0 .. Cur'
    <3>1. submitted \subseteq 0 .. Cur /\ buf[cpu] \in 0 .. Cur
      BY DEF Spent
    <3> HIDE DEF OneInv, Typed
    <3>2. submitted' \subseteq 0 .. Cur
      BY <2>1, <3>1
    <3>3. buf'[cpu] \in 0 .. Cur
      BY <1>0, <2>2
    <3> QED
      BY <1>0, <3>2, <3>3
  <2>4. Covered' /\ Matched' /\ Spent'
    BY <2>2, <2>3 DEF Covered, Matched, Spent
  <2> QED
    BY <2>4
<1>4. CASE Trigger(cpu)
  BY <1>0, <1>4 DEF Trigger, Covered, Matched, Spent
<1> QED
  BY <1>1, <1>2, <1>4 DEF Submission

\* An adoption makes Cur a template that nobody has submitted, under the flag.
LEMMA AdoptKeeps ==
  ASSUME MaxGen = 1, OneInv, Typed', PollAdopt(1) PROVE OneInv'
<1> USE OneLoop DEF OneInv
<1>1. UNCHANGED <<pc, snap, buf, submitted>>
  BY DEF PollAdopt, loopVars
<1>2. CASE UNCHANGED tmplVars
  BY <1>1, <1>2, AsideKeeps DEF tmplVars, cpuView
<1>3. CASE Replace(1)
  <2>1. stale' = TRUE /\ Cur' = Cur + 1 /\ Cur \in Nat
    BY <1>3, OneLoop DEF Replace, Typed, Cur
  <2>2. Cur' \notin submitted'
    BY <1>1, <2>1 DEF Spent
  <2> QED
    BY <1>1, <2>1, <2>2 DEF Covered, Matched, Spent
<1> QED
  BY <1>2, <1>3 DEF PollAdopt

LEMMA OneStep == ASSUME MaxGen = 1 PROVE OneInv /\ [Next]_vars => OneInv'
<1> SUFFICES ASSUME OneInv, [Next]_vars PROVE OneInv'
  OBVIOUS
<1> USE OneLoop
<1>a. Typed /\ Typed'
  BY TypedStep DEF OneInv
<1>0. CASE UNCHANGED vars
  BY <1>0, <1>a, AsideKeeps DEF vars, cpuView
<1>1. CASE Keys
  BY <1>1, <1>a, AsideKeeps DEF Keys, PressMode, PressRestart, PressQuit, tmplVars,
                                loopVars, cpuView, Typed
<1>2. CASE Network
  BY <1>2, <1>a, AsideKeeps DEF Network, OtherBlock, OtherBranch, tmplVars, loopVars,
                                cpuView
<1>3. CASE Boot(1)
  <2>1. /\ pc[cpu] = "boot" /\ pc'[cpu] \in {"top", "bench"}
        /\ UNCHANGED <<snap, buf, stale, hasStale, adopted, submitted>>
    BY <1>3, <1>a DEF Boot, Goto, tmplVars, Typed, cpu
  <2>2. Cur' = Cur /\ Cur \notin submitted
    BY <2>1 DEF Cur, OneInv, Spent
  <2> QED
    BY <1>a, <2>1, <2>2 DEF OneInv, Covered, Matched, Spent
<1>4. CASE Poller(1)
  <2>1. CASE PollAdopt(1)
    BY <1>a, <2>1, AdoptKeeps
  <2>2. CASE ~PollAdopt(1)
    BY <1>4, <1>a, <2>2, AsideKeeps
       DEF Poller, PollEnd, PollTimer, PollToken, PollAnswer, PollFail, tmplVars,
           loopVars, cpuView
  <2> QED
    BY <2>1, <2>2
<1>5. CASE CpuStep(1)
  BY <1>5, <1>a, CpuKeeps
<1>6. CASE GpuStep(1) \/ GpuDown(1)
  <2>1. UNCHANGED <<stale, hasStale, adopted, submitted>>
    BY <1>6 DEF GpuStep, GpuTop, GpuSnapshot, GpuHash, GpuReset, GpuScan,
                GpuWriteNonce, GpuStats, GpuDown, tmplVars
  <2>2. UNCHANGED pc[cpu]
    BY <1>6, <1>a DEF GpuStep, GpuTop, GpuSnapshot, GpuHash, GpuReset, GpuScan,
                      GpuWriteNonce, GpuStats, GpuDown, TakeRaw, Goto, loopVars,
                      Typed
  <2>3. UNCHANGED <<snap[cpu], buf[cpu]>>
    BY <1>6, <1>a DEF GpuStep, GpuTop, GpuSnapshot, GpuHash, GpuReset, GpuScan,
                      GpuWriteNonce, GpuStats, GpuDown, TakeRaw, Forget,
                      loopVars, Typed
  <2> QED
    BY <1>a, <2>1, <2>2, <2>3, AsideKeeps DEF cpuView
<1>7. CASE Submission(cpu)
  BY <1>7, <1>a, SubmissionKeeps
<1>8. CASE Submission(GpuLoop(1)) \/ BenchEnd(GpuLoop(1))
  <2>1. GpuLoop(1)[1] = "gpu"
    BY DEF GpuLoop
  <2>2. UNCHANGED <<stale, hasStale, adopted, submitted>>
    BY <1>8, <2>1 DEF Submission, Encode, Submit, SubmitLost, NoteSubmission, Trigger,
                      BenchEnd, tmplVars
  <2>3. UNCHANGED <<pc[cpu], snap[cpu], buf[cpu]>>
    BY <1>8, <1>a DEF Submission, Encode, Submit, SubmitLost, Trigger, BenchEnd,
                      Goto, Forget, Typed
  <2> QED
    BY <1>a, <2>2, <2>3, AsideKeeps DEF cpuView
<1>9. CASE BenchEnd(cpu)
  <2>1. /\ pc[cpu] = "bench" /\ pc'[cpu] = "exited"
        /\ UNCHANGED <<snap, buf, stale, hasStale, adopted, submitted>>
    BY <1>9, <1>a DEF BenchEnd, Goto, tmplVars, Typed
  <2>2. Cur' = Cur /\ Cur \notin submitted
    BY <2>1 DEF Cur, OneInv, Spent
  <2> QED
    BY <1>a, <2>1, <2>2 DEF OneInv, Covered, Matched, Spent
<1> QED
  BY <1>0, <1>1, <1>2, <1>3, <1>4, <1>5, <1>6, <1>7, <1>8, <1>9 DEF Next

LEMMA OneInvariant == ASSUME MaxGen = 1 PROVE Spec => []OneInv
BY OneInit, OneStep, PTL DEF Spec

\* In one generation no adoption is missed: the CPU loop never hashes a
\* template that was replaced without the stale flag being up, although the
\* poller raises the flag and the loop lowers it.
THEOREM StaleFlagCovers == ASSUME MaxGen = 1 PROVE Spec => []StaleCoversSnapshot
<1>1. OneInv => StaleCoversSnapshot
  BY OneLoop DEF OneInv, Covered, StaleCoversSnapshot, cpu
<1> QED
  BY <1>1, OneInvariant, PTL

\* In one generation the CPU loop writes a nonce into the buffer of another
\* template only while the stale flag is up.
THEOREM MixedUnderFlag == ASSUME MaxGen = 1 PROVE Spec => []MixedOnlyWhenStale
<1>1. OneInv => MixedOnlyWhenStale
  BY OneLoop DEF OneInv, Matched, MixedOnlyWhenStale, cpu
<1> QED
  BY <1>1, OneInvariant, PTL

\* In one generation a template a block was submitted for is not mined again.
THEOREM SubmittedOnce == ASSUME MaxGen = 1 PROVE Spec => NeverRemines
<1>1. OneInv /\ [Next]_vars => [\A g \in Gens : CpuSnapshot(g) => Cur \notin submitted]_vars
  BY OneLoop DEF OneInv, Spent, CpuSnapshot, cpu
<1> QED
  BY <1>1, OneInvariant, PTL DEF Spec, NeverRemines

-----------------------------------------------------------------------------
(* One generation implements TemplateWork. *)

\* What the CPU loop holds at each of its labels, and why it gives that up.
Held == /\ stopSeen \in [Actors -> BOOLEAN]
        /\ pc[cpu] \notin {"mine", "found", "take", "encode", "submit"} => snap[cpu] = 0
        /\ pc[cpu] \in {"mine", "found", "take", "encode", "submit"} => snap[cpu] \in 1 .. Cur
        /\ pc[cpu] \in {"encode", "submit"} => buf[cpu] \in snap[cpu] .. Cur
        /\ hasStale \/ pc[cpu] = "snap" => Cur > 0
        /\ pc[cpu] = "mine" /\ stale => snap[cpu] < Cur
        /\ stopSeen[cpu] => pc[cpu] = "mine" /\ (snap[cpu] < Cur \/ quit)

WorkInv == OneInv /\ Held

WorkStep == [Work!Next]_(Work!vars)

\* What TemplateWork sees of a state.
workView == <<Cur, snap[cpu], submitted, quit>>

LEMMA WorkInit == ASSUME MaxGen = 1 PROVE Init => WorkInv /\ Work!Init
<1> SUFFICES ASSUME Init PROVE WorkInv /\ Work!Init
  OBVIOUS
<1>1. OneInv
  BY OneInit
<1>2. pc[cpu] = "boot" /\ snap[cpu] = 0 /\ Cur = 0 /\ ~stopSeen[cpu]
  BY OneLoop DEF Init, cpu, Cur, CpuLoop, GpuLoop
<1>3. Held
  BY <1>2 DEF Init, Held
<1>4. Work!Init
  BY <1>2 DEF Init, Work!Init, cpu
<1> QED
  BY <1>1, <1>3, <1>4 DEF WorkInv

\* What no step of others than the CPU loop, its poller and q touches.
workAside == <<cpuView, quit, stopSeen[cpu]>>

LEMMA AsideWorks ==
  ASSUME WorkInv, stopSeen' \in [Actors -> BOOLEAN], UNCHANGED workAside
  PROVE  Held' /\ WorkStep
BY DEF WorkInv, Held, WorkStep, workAside, cpuView, Cur, Work!vars, cpu

\* Steps of the CPU loop: it takes a template and gives it up as promised.
LEMMA CpuWorks ==
  ASSUME MaxGen = 1, WorkInv, Typed', CpuStep(1) PROVE Held' /\ WorkStep
<1> USE OneLoop DEF WorkInv, Goto, Forget
<1>1. /\ UNCHANGED <<adopted, submitted, quit, gen>> /\ Cur' = Cur /\ Cur \in Nat
      /\ cpu = CpuLoop(1) /\ Typed /\ (Cancelled(1) <=> quit)
      /\ snap \in [Actors -> Nat] /\ buf \in [Actors -> Nat] /\ pc \in [Actors -> Pcs]
      /\ stopSeen \in [Actors -> BOOLEAN] /\ cpu \in Actors
  <2>1. UNCHANGED <<adopted, submitted, quit, gen>>
    BY DEF CpuStep, CpuTop, CpuSnapshot, CpuLeave, CpuSeeStop, CpuGiveUp, CpuFind,
           CpuCheck, CpuWriteNonce, CpuPark, CpuStats, tmplVars, genVars
  <2>2. Typed /\ stopSeen \in [Actors -> BOOLEAN]
    BY DEF OneInv, Held
  <2> QED
    BY <2>1, <2>2 DEF Cur, cpu, Typed, Cancelled
<1>2. CASE CpuTop(1) \/ CpuPark(1) \/ CpuStats(1)
  <2>1. Held'
    BY <1>1, <1>2 DEF CpuTop, CpuPark, CpuStats, tmplVars, Held
  <2>2. UNCHANGED workView
    BY <1>1, <1>2 DEF CpuTop, CpuPark, CpuStats, workView
  <2> QED
    BY <2>1, <2>2 DEF workView, WorkStep, Work!vars, cpu
<1>3. CASE CpuSnapshot(1)
  <2>1. /\ pc[cpu] = "snap" /\ pc'[cpu] = "mine" /\ snap[cpu] = 0 /\ snap'[cpu] = Cur
        /\ Cur > 0 /\ Cur \notin submitted
        /\ stale' = FALSE /\ UNCHANGED <<hasStale, stopSeen, buf>>
    BY <1>1, <1>3 DEF CpuSnapshot, Held, OneInv, Spent
  <2>2. Held'
    BY <1>1, <2>1 DEF Held
  <2>3. Work!Take
    BY <1>1, <2>1 DEF Work!Take, cpu
  <2> QED
    BY <2>2, <2>3 DEF WorkStep, Work!Next
<1>4. CASE CpuLeave(1) \/ CpuGiveUp(1)
  <2>1. /\ pc[cpu] \in {"mine", "stats"} /\ pc'[cpu] \in {"exited", "top"}
        /\ snap'[cpu] = 0 /\ buf'[cpu] = 0 /\ ~stopSeen'[cpu]
        /\ stopSeen' \in [Actors -> BOOLEAN] /\ UNCHANGED <<stale, hasStale>>
        /\ pc[cpu] = "mine" => snap[cpu] < Cur \/ quit
    BY <1>1, <1>4 DEF CpuLeave, CpuGiveUp, tmplVars, Held
  <2>2. Held'
    BY <1>1, <2>1 DEF Held
  <2>3. CASE pc[cpu] = "mine"
    <3>1. Work!Drop
      BY <1>1, <2>1, <2>3 DEF Work!Drop, Held, cpu
    <3> QED
      BY <2>2, <3>1 DEF WorkStep, Work!Next
  <2>4. CASE pc[cpu] = "stats"
    <3>1. UNCHANGED workView
      BY <1>1, <2>1, <2>4 DEF workView, Held
    <3> QED
      BY <2>2, <3>1 DEF workView, WorkStep, Work!vars, cpu
  <2> QED
    BY <2>1, <2>3, <2>4
<1>5. CASE CpuSeeStop(1) \/ CpuFind(1)
  <2>1. /\ pc[cpu] = "mine" /\ pc'[cpu] \in {"mine", "found"}
        /\ UNCHANGED <<stale, hasStale, snap, buf>>
        /\ stopSeen' \in [Actors -> BOOLEAN]
        /\ stopSeen'[cpu] => pc'[cpu] = "mine" /\ (stale \/ quit)
    BY <1>1, <1>5 DEF CpuSeeStop, CpuFind, tmplVars
  <2>2. Held'
    BY <1>1, <2>1 DEF Held
  <2>3. UNCHANGED workView
    BY <1>1, <2>1 DEF workView
  <2> QED
    BY <2>2, <2>3 DEF workView, WorkStep, Work!vars, cpu
<1>6. CASE CpuCheck(1) /\ quit
  <2>1. /\ pc[cpu] = "found" /\ pc'[cpu] = "exited"
        /\ snap'[cpu] = 0 /\ buf'[cpu] = 0 /\ ~stopSeen'[cpu]
        /\ stopSeen' \in [Actors -> BOOLEAN] /\ UNCHANGED <<stale, hasStale>>
    BY <1>1, <1>6 DEF CpuCheck, tmplVars
  <2>2. Held'
    BY <1>1, <2>1 DEF Held
  <2>3. Work!Drop
    BY <1>1, <1>6, <2>1 DEF Work!Drop, Held, cpu
  <2> QED
    BY <2>2, <2>3 DEF WorkStep, Work!Next
<1>7. CASE (CpuCheck(1) /\ ~quit) \/ CpuWriteNonce(1)
  <2>1. /\ UNCHANGED <<stale, hasStale, snap, stopSeen>>
        /\ \/ pc[cpu] = "found" /\ pc'[cpu] = "take" /\ UNCHANGED buf
           \/ pc[cpu] = "take" /\ pc'[cpu] = "encode" /\ buf'[cpu] = Cur
    BY <1>1, <1>7 DEF CpuCheck, CpuWriteNonce, TakeRaw, tmplVars
  <2>2. Held'
    BY <1>1, <2>1 DEF Held
  <2>3. UNCHANGED workView
    BY <1>1, <2>1 DEF workView
  <2> QED
    BY <2>2, <2>3 DEF workView, WorkStep, Work!vars, cpu
<1> QED
  BY <1>2, <1>3, <1>4, <1>5, <1>6, <1>7 DEF CpuStep

\* A submission is of the template taken or of one adopted since.
LEMMA SubmissionWorks ==
  ASSUME MaxGen = 1, WorkInv, Typed', Submission(cpu) PROVE Held' /\ WorkStep
<1> USE OneLoop DEF WorkInv, Goto, Forget
<1>1. /\ UNCHANGED <<adopted, stale, hasStale, quit>> /\ Cur' = Cur /\ Cur \in Nat
      /\ cpu[1] = "cpu" /\ cpu = CpuLoop(1) /\ cpu \in Actors
      /\ snap \in [Actors -> Nat] /\ buf \in [Actors -> Nat] /\ pc \in [Actors -> Pcs]
      /\ stopSeen \in [Actors -> BOOLEAN]
  <2>1. UNCHANGED <<adopted, stale, hasStale, quit>>
    BY DEF Submission, Encode, Submit, SubmitLost, Trigger, tmplVars, genVars
  <2>2. Typed /\ stopSeen \in [Actors -> BOOLEAN]
    BY DEF OneInv, Held
  <2> QED
    BY <2>1, <2>2 DEF Cur, cpu, CpuLoop, Typed
<1>2. CASE Encode(cpu) \/ Trigger(cpu)
  <2>1. /\ UNCHANGED <<snap, buf, stopSeen, submitted>>
        /\ \/ pc[cpu] = "encode" /\ pc'[cpu] = "submit"
           \/ pc[cpu] = "trigger" /\ pc'[cpu] = "park"
    BY <1>1, <1>2 DEF Encode, Trigger
  <2>2. Held'
    BY <1>1, <2>1 DEF Held
  <2>3. UNCHANGED workView
    BY <1>1, <2>1 DEF workView
  <2> QED
    BY <2>2, <2>3 DEF workView, WorkStep, Work!vars, cpu
<1>3. CASE Submit(cpu) \/ SubmitLost(cpu)
  <2>1. /\ submitted' = submitted \cup {buf[cpu]}
        /\ pc[cpu] = "submit" /\ pc'[cpu] = "trigger"
        /\ snap'[cpu] = 0 /\ buf'[cpu] = 0 /\ ~stopSeen'[cpu]
        /\ stopSeen' \in [Actors -> BOOLEAN]
    BY <1>1, <1>3 DEF Submit, SubmitLost, NoteSubmission
  <2>2. Held'
    BY <1>1, <2>1 DEF Held
  <2>3. snap[cpu] # 0 /\ buf[cpu] \in snap[cpu] .. Cur
    BY <1>1, <2>1 DEF Held
  <2>4. Work!Submit
    BY <1>1, <2>1, <2>3 DEF Work!Submit, cpu
  <2> QED
    BY <2>2, <2>4 DEF WorkStep, Work!Next
<1> QED
  BY <1>2, <1>3 DEF Submission

LEMMA AdoptWorks ==
  ASSUME MaxGen = 1, WorkInv, PollAdopt(1) PROVE Held' /\ WorkStep
<1> USE OneLoop DEF WorkInv
<1>1. UNCHANGED <<pc, snap, buf, stopSeen, submitted, quit>>
  BY DEF PollAdopt, loopVars, genVars
<1>2. CASE UNCHANGED tmplVars
  BY <1>1, <1>2, AsideWorks DEF tmplVars, workAside, cpuView, Held
<1>3. CASE Replace(1)
  <2>1. stale' = TRUE /\ hasStale' = TRUE /\ Cur' = Cur + 1 /\ Cur \in Nat
    BY <1>3, OneLoop DEF Replace, OneInv, Typed, Cur
  <2>2. snap[cpu] \in Nat /\ buf[cpu] \in Nat
    BY DEF OneInv, Typed
  <2>3. Held'
    BY <1>1, <2>1, <2>2 DEF Held
  <2>4. Work!Adopt
    BY <1>1, <2>1 DEF Work!Adopt
  <2> QED
    BY <2>3, <2>4 DEF WorkStep, Work!Next
<1> QED
  BY <1>2, <1>3 DEF PollAdopt

LEMMA WorkKeeps ==
  ASSUME MaxGen = 1 PROVE WorkInv /\ [Next]_vars => WorkInv' /\ WorkStep
<1> SUFFICES ASSUME WorkInv, [Next]_vars PROVE Held' /\ WorkStep
  BY OneStep DEF WorkInv
<1> USE OneLoop
<1>a. Typed /\ Typed' /\ stopSeen \in [Actors -> BOOLEAN] /\ pc \in [Actors -> Pcs]
  BY TypedStep DEF OneInv, WorkInv, Typed, Held
<1>0. CASE UNCHANGED vars
  BY <1>0, <1>a, AsideWorks DEF vars, workAside, cpuView
<1>1. CASE Keys
  <2>1. CASE PressQuit
    <3>1. quit' = TRUE /\ UNCHANGED <<pc, snap, buf, stale, hasStale, adopted, submitted, stopSeen>>
      BY <2>1 DEF PressQuit, tmplVars, loopVars
    <3>2. Held'
      BY <3>1 DEF WorkInv, Held, Cur
    <3>3. Work!Stop
      BY <3>1 DEF Work!Stop, Cur
    <3> QED
      BY <3>2, <3>3 DEF WorkStep, Work!Next
  <2> QED
    BY <1>1, <1>a, <2>1 DEF Keys, PressMode, PressRestart, Typed
<1>2. CASE Network
  BY <1>2, <1>a, AsideWorks DEF Network, OtherBlock, OtherBranch, tmplVars, loopVars,
                                genVars, workAside, cpuView
<1>3. CASE Boot(1)
  <2>1. /\ pc[cpu] = "boot" /\ pc'[cpu] \in {"top", "bench"}
        /\ UNCHANGED <<snap, buf, stale, hasStale, adopted, submitted, stopSeen, quit>>
    BY <1>3, <1>a DEF Boot, Goto, tmplVars, genVars, cpu
  <2>2. Held'
    BY <2>1 DEF WorkInv, Held, Cur
  <2>3. UNCHANGED workView
    BY <2>1 DEF workView, Cur
  <2> QED
    BY <2>2, <2>3 DEF workView, WorkStep, Work!vars, cpu
<1>4. CASE Poller(1)
  <2>1. CASE PollAdopt(1)
    BY <2>1, AdoptWorks
  <2>2. CASE ~PollAdopt(1)
    BY <1>4, <1>a, <2>2, AsideWorks
       DEF Poller, PollEnd, PollTimer, PollToken, PollAnswer, PollFail, tmplVars,
           loopVars, genVars, workAside, cpuView
  <2> QED
    BY <2>1, <2>2
<1>5. CASE CpuStep(1)
  BY <1>5, <1>a, CpuWorks
<1>6. CASE GpuStep(1) \/ GpuDown(1)
  <2>1. UNCHANGED <<stale, hasStale, adopted, submitted, quit>>
    BY <1>6 DEF GpuStep, GpuTop, GpuSnapshot, GpuHash, GpuReset, GpuScan,
                GpuWriteNonce, GpuStats, GpuDown, tmplVars, genVars
  <2>2. UNCHANGED pc[cpu]
    BY <1>6, <1>a DEF GpuStep, GpuTop, GpuSnapshot, GpuHash, GpuReset, GpuScan,
                      GpuWriteNonce, GpuStats, GpuDown, TakeRaw, Goto, loopVars
  <2>3. UNCHANGED <<snap[cpu], buf[cpu], stopSeen[cpu]>> /\ stopSeen' \in [Actors -> BOOLEAN]
    BY <1>6, <1>a DEF GpuStep, GpuTop, GpuSnapshot, GpuHash, GpuReset, GpuScan,
                      GpuWriteNonce, GpuStats, GpuDown, TakeRaw, Forget,
                      loopVars, Typed
  <2> QED
    BY <2>1, <2>2, <2>3, AsideWorks DEF workAside, cpuView
<1>7. CASE Submission(cpu)
  BY <1>7, <1>a, SubmissionWorks
<1>8. CASE Submission(GpuLoop(1)) \/ BenchEnd(GpuLoop(1))
  <2>1. GpuLoop(1)[1] = "gpu"
    BY DEF GpuLoop
  <2>2. UNCHANGED <<stale, hasStale, adopted, submitted, quit>>
    BY <1>8, <2>1 DEF Submission, Encode, Submit, SubmitLost, NoteSubmission, Trigger,
                      BenchEnd, tmplVars, genVars
  <2>3. UNCHANGED <<pc[cpu], snap[cpu], buf[cpu], stopSeen[cpu]>>
        /\ stopSeen' \in [Actors -> BOOLEAN]
    BY <1>8, <1>a DEF Submission, Encode, Submit, SubmitLost, Trigger, BenchEnd,
                      Goto, Forget, Typed
  <2> QED
    BY <2>2, <2>3, AsideWorks DEF workAside, cpuView
<1>9. CASE BenchEnd(cpu)
  <2>1. /\ pc[cpu] = "bench" /\ pc'[cpu] = "exited"
        /\ UNCHANGED <<snap, buf, stale, hasStale, adopted, submitted, stopSeen, quit>>
    BY <1>9, <1>a DEF BenchEnd, Goto, tmplVars, genVars
  <2>2. Held'
    BY <2>1 DEF WorkInv, Held, Cur
  <2>3. UNCHANGED workView
    BY <2>1 DEF workView, Cur
  <2> QED
    BY <2>2, <2>3 DEF workView, WorkStep, Work!vars, cpu
<1> QED
  BY <1>0, <1>1, <1>2, <1>3, <1>4, <1>5, <1>6, <1>7, <1>8, <1>9 DEF Next

\* One generation of the CPU engine is one that TemplateWork allows: it gives
\* work up only for a newer template or q, submits what it took or something
\* newer, and takes nothing that was submitted.
THEOREM WorkIsAsPromised == ASSUME MaxGen = 1 PROVE Spec => WorksAsPromised
<1>1. Init => WorkInv /\ Work!Init
  BY WorkInit
<1>2. WorkInv /\ [Next]_vars => WorkInv' /\ WorkStep
  BY WorkKeeps
<1> QED
  BY <1>1, <1>2, PTL DEF Spec, WorksAsPromised, Work!Spec, WorkStep

-----------------------------------------------------------------------------
(* RpcMining keeps its types for every number of generations, templates,   *)
(* heights and branches.  That is more than reading off assignments: the   *)
(* index a loop holds points at an adoption, because it has passed         *)
(* hasStale; and the tip stays in its bounds because a nonce that the      *)
(* daemon accepts was found for a template whose tip was below them,       *)
(* whichever loop wrote it into whichever buffer.                          *)

PcsOf(a) == IF a[1] = "cpu" THEN CpuPcs ELSE GpuPcs

\* Template t is one that a block may be found for, or none.
Open(t) == t = 0 \/ (t \in 1 .. Cur /\ adopted[t][1] < MaxHeight)

Store ==
  /\ {stale, hasStale, trigger} \subseteq BOOLEAN
  /\ answer \in [Gens -> Tips] /\ tip \in Tips
  /\ adopted \in Seq(Tips) /\ Cur <= MaxTemplates
  /\ rawNonce \in Seq(NonceBytes) /\ Len(rawNonce) = Cur
  /\ submitted \subseteq 1 .. Cur
  /\ hasStale => Cur # 0
  /\ \A t \in 1 .. Cur : Open(rawNonce[t].for)

\* What a loop holds where it is: s its template, b its buffer, o its nonce.
At(label, s, b, o) ==
  /\ label \in {"mine", "found", "hash", "scan", "take", "encode", "submit"} => s # 0
  /\ label \in {"encode", "submit"} => b # 0
  /\ label \in {"found", "take", "encode"} => Open(s)
  /\ label = "snap" => Cur # 0
  /\ Open(o.for)

LocalTypes ==
  /\ snap \in [Actors -> 0 .. Cur]
  /\ buf \in [Actors -> 0 .. Cur]
  /\ out \in [Actors -> NonceBytes]
  /\ stopSeen \in [Actors -> BOOLEAN]

Loops ==
  /\ LocalTypes
  /\ \A a \in Actors : pc[a] \in PcsOf(a) /\ At(pc[a], snap[a], buf[a], out[a])

EngineInv == ModeInv /\ Store /\ Loops

-----------------------------------------------------------------------------
(* Facts about the values. *)

LEMMA CurIsNat == ASSUME Store PROVE Cur \in Nat
BY DEF Store, Cur

LEMMA SolutionTyped ==
  ASSUME NEW a \in Actors, NEW t \in Templates
  PROVE  Solution(a, t) \in NonceBytes /\ Solution(a, t).for = t
<1>1. a[1] \in Kinds
  BY DEF Actors
<1>2. Solution(a, t) = Solution(<<a[1], 1>>, t)
  BY DEF Solution
<1> QED
  BY <1>1, <1>2 DEF Solution, NonceBytes

LEMMA BlanksTyped ==
  /\ NoNonce \in NonceBytes /\ NoNonce.for = 0
  /\ Torn \in NonceBytes /\ Torn.for = 0
BY DEF NonceBytes, NoNonce, Torn

\* The loops of a generation and what they may do.
LEMMA LoopKinds ==
  \A g \in Gens : /\ CpuLoop(g) \in Actors /\ CpuLoop(g)[1] = "cpu"
                  /\ PcsOf(CpuLoop(g)) = CpuPcs
                  /\ GpuLoop(g) \in Actors /\ GpuLoop(g)[1] = "gpu"
                  /\ PcsOf(GpuLoop(g)) = GpuPcs
BY LoopsDiffer DEF CpuLoop, GpuLoop, PcsOf

-----------------------------------------------------------------------------
(* How the loops move. *)

\* One loop moves, with whatever it takes along.
LEMMA Move ==
  ASSUME Store, Loops, pc \in [Actors -> Pcs], NEW a \in Actors,
         NEW label \in PcsOf(a), NEW s \in 0 .. Cur, NEW b \in 0 .. Cur,
         NEW o \in NonceBytes, NEW seen \in BOOLEAN,
         At(label, s, b, o),
         pc' = [pc EXCEPT ![a] = label],
         snap' = [snap EXCEPT ![a] = s], buf' = [buf EXCEPT ![a] = b],
         out' = [out EXCEPT ![a] = o], stopSeen' = [stopSeen EXCEPT ![a] = seen],
         adopted' = adopted
  PROVE  Loops'
<1>1. Cur' = Cur
  BY DEF Cur
<1>2. LocalTypes'
  BY <1>1 DEF Loops, LocalTypes
<1>3. ASSUME NEW c \in Actors PROVE (pc[c] \in PcsOf(c))' /\ At(pc[c], snap[c], buf[c], out[c])'
  <2>1. /\ pc'[a] = label /\ snap'[a] = s /\ buf'[a] = b /\ out'[a] = o
        /\ c # a => /\ pc'[c] = pc[c] /\ snap'[c] = snap[c] /\ buf'[c] = buf[c]
                    /\ out'[c] = out[c]
    BY DEF Loops, LocalTypes
  <2>2. pc[c] \in PcsOf(c) /\ At(pc[c], snap[c], buf[c], out[c])
    BY DEF Loops
  <2>3. CASE c = a
    BY <1>1, <2>1, <2>3 DEF At, Open, PcsOf
  <2>4. CASE c # a
    BY <1>1, <2>1, <2>2, <2>4 DEF At, Open, PcsOf
  <2> QED
    BY <2>3, <2>4
<1> QED
  BY <1>2, <1>3 DEF Loops

Holds == UNCHANGED <<snap, buf, out>>

\* It only goes to another label, and keeps what it holds.
LEMMA MoveOn ==
  ASSUME Store, Loops, pc \in [Actors -> Pcs], NEW a \in Actors,
         NEW label \in PcsOf(a), At(label, snap[a], buf[a], out[a]),
         pc' = [pc EXCEPT ![a] = label],
         adopted' = adopted, Holds,
         stopSeen' \in {stopSeen, [stopSeen EXCEPT ![a] = FALSE]}
  PROVE  Loops'
<1>1. PICK s \in 0 .. Cur, b \in 0 .. Cur, o \in NonceBytes :
        /\ s = snap[a] /\ snap' = [snap EXCEPT ![a] = s]
        /\ b = buf[a] /\ buf' = [buf EXCEPT ![a] = b]
        /\ o = out[a] /\ out' = [out EXCEPT ![a] = o]
  BY DEF Loops, LocalTypes, Holds
<1>2. \E seen \in BOOLEAN : stopSeen' = [stopSeen EXCEPT ![a] = seen]
  <2>1. stopSeen[a] \in BOOLEAN /\ stopSeen = [stopSeen EXCEPT ![a] = stopSeen[a]]
    BY DEF Loops, LocalTypes
  <2> QED
    BY <2>1
<1>3. PICK seen \in BOOLEAN : stopSeen' = [stopSeen EXCEPT ![a] = seen]
  BY <1>2
<1>4. adopted' = adopted /\ At(label, s, b, o)
  BY <1>1
<1> QED
  BY <1>1, <1>3, <1>4, Move

\* It forgets what it holds.
LEMMA MoveOff ==
  ASSUME Store, Loops, pc \in [Actors -> Pcs], NEW a \in Actors,
         NEW label \in PcsOf(a) \ {"snap", "mine", "found", "hash", "scan", "take",
                                "encode", "submit"},
         pc' = [pc EXCEPT ![a] = label], Forget(a), adopted' = adopted
  PROVE  Loops'
<1>1. 0 \in 0 .. Cur
  BY CurIsNat
<1>2. At(label, 0, 0, NoNonce)
  BY BlanksTyped DEF At, Open
<1>3. /\ snap' = [snap EXCEPT ![a] = 0] /\ buf' = [buf EXCEPT ![a] = 0]
      /\ out' = [out EXCEPT ![a] = NoNonce] /\ stopSeen' = [stopSeen EXCEPT ![a] = FALSE]
  BY DEF Forget
<1>4. label \in PcsOf(a) /\ FALSE \in BOOLEAN /\ NoNonce \in NonceBytes
  BY BlanksTyped
<1> QED
  BY <1>1, <1>2, <1>3, <1>4, Move

\* Nothing moves.
LEMMA Rest ==
  ASSUME Loops, UNCHANGED <<pc, snap, buf, out, adopted>>,
         stopSeen' \in [Actors -> BOOLEAN]
  PROVE  Loops'
BY DEF Loops, LocalTypes, At, Open, PcsOf, Cur

\* Nothing is adopted, nor written into a buffer.
LEMMA StoreRests ==
  ASSUME Store, UNCHANGED <<adopted, rawNonce>>,
         {stale', hasStale', trigger'} \subseteq BOOLEAN,
         hasStale' => hasStale,
         answer' \in [Gens -> Tips], tip' \in Tips, submitted' \subseteq 1 .. Cur
  PROVE  Store'
BY DEF Store, Open, Cur

\* Only what the tip and the log of submissions say may change.
LEMMA FlagsRest ==
  ASSUME Store,
         UNCHANGED <<adopted, rawNonce, stale, hasStale, trigger, answer>>,
         tip' \in Tips, submitted' \subseteq 1 .. Cur
  PROVE  Store'
BY StoreRests DEF Store

\* The nonce goes into the buffer of the current template.
LEMMA TakesRaw ==
  ASSUME Store, Loops, pc \in [Actors -> Pcs], NEW a \in Actors, TakeRaw(a),
         snap[a] # 0, Open(snap[a]),
         UNCHANGED <<adopted, stale, hasStale, trigger, answer, tip, submitted>>
  PROVE  Store' /\ Loops'
<1>1. /\ snap[a] \in 1 .. Cur /\ Cur \in 1 .. Cur /\ snap[a] \in Templates
      /\ Cur \in Nat
  BY CurIsNat, BoundsAssumption DEF Store, Loops, LocalTypes, Templates
<1>2. Solution(a, snap[a]) \in NonceBytes /\ Solution(a, snap[a]).for = snap[a]
  BY <1>1, SolutionTyped
<1>3. rawNonce' = [rawNonce EXCEPT ![Cur] = Solution(a, snap[a])] /\ Cur' = Cur
  BY DEF TakeRaw, Cur
<1>4. rawNonce' \in Seq(NonceBytes) /\ Len(rawNonce') = Cur
  BY <1>1, <1>2, <1>3 DEF Store
<1>5. \A t \in 1 .. Cur : rawNonce'[t] \in {rawNonce[t], Solution(a, snap[a])}
  BY <1>3 DEF Store
<1>6. \A t \in 1 .. Cur : Open(rawNonce'[t].for)
  BY <1>2, <1>5 DEF Store
<1>7. \A t : Open(t)' <=> Open(t)
  BY <1>3 DEF Open
<1>8. Store'
  BY <1>3, <1>4, <1>6, <1>7 DEF Store
<1>9. Loops'
  <2>1. "encode" \in PcsOf(a) /\ Cur \in 0 .. Cur
    BY <1>1 DEF PcsOf, CpuPcs, GpuPcs
  <2>2. /\ snap[a] \in 0 .. Cur /\ snap' = [snap EXCEPT ![a] = snap[a]]
        /\ out[a] \in NonceBytes /\ out' = [out EXCEPT ![a] = out[a]]
        /\ stopSeen[a] \in BOOLEAN /\ stopSeen' = [stopSeen EXCEPT ![a] = stopSeen[a]]
        /\ pc' = [pc EXCEPT ![a] = "encode"] /\ buf' = [buf EXCEPT ![a] = Cur]
    BY DEF Loops, LocalTypes, TakeRaw, Goto
  <2>3. Open(out[a].for)
    BY DEF Loops, At
  <2>4. At("encode", snap[a], Cur, out[a])
    BY <1>1, <2>3 DEF At
  <2> QED
    BY <2>1, <2>2, <2>4, Move
<1> QED
  BY <1>8, <1>9

-----------------------------------------------------------------------------
(* The steps. *)

LEMMA EngineInit == Init => EngineInv
<1> SUFFICES ASSUME Init PROVE EngineInv
  OBVIOUS
<1>1. ModeInv
  BY ModeInit
<1>2. Cur = 0 /\ adopted = <<>>
  BY DEF Init, Cur
<1>3. Store
  <2>1. <<0, 0>> \in Tips /\ Cur <= MaxTemplates /\ 1 .. Cur = {}
    BY <1>2, BoundsAssumption DEF Tips
  <2>2. /\ adopted \in Seq(Tips) /\ rawNonce \in Seq(NonceBytes) /\ Len(rawNonce) = Cur
    BY <1>2 DEF Init
  <2>3. /\ {stale, hasStale, trigger} \subseteq BOOLEAN /\ ~hasStale
        /\ answer \in [Gens -> Tips] /\ tip \in Tips /\ submitted = {}
    BY <2>1 DEF Init
  <2> QED
    BY <2>1, <2>2, <2>3 DEF Store
<1>4. LocalTypes
  BY <1>2, BlanksTyped DEF Init, LocalTypes
<1>5. ASSUME NEW a \in Actors
      PROVE  pc[a] \in PcsOf(a) /\ At(pc[a], snap[a], buf[a], out[a])
  <2>1. PICK g \in Gens : a = CpuLoop(g) \/ a = GpuLoop(g)
    BY DEF Actors, Kinds, CpuLoop, GpuLoop
  <2>2. 1 \in Gens
    BY BoundsAssumption DEF Gens
  <2>3. GpuStart(mode, WithGPU) \in {"unborn", "bench", "top"}
    BY FlagsAssumption DEF Init, GpuStart
  <2>4. pc[CpuLoop(g)] \in {"unborn", "boot"} /\ pc[GpuLoop(g)] \in {"unborn", "bench", "top"}
    BY <2>2, <2>3, LoopsDiffer DEF Init
  <2>5. out[a] = NoNonce /\ Open(0)
    BY DEF Init, Open
  <2> QED
    BY <2>1, <2>4, <2>5, LoopKinds, BlanksTyped DEF At, CpuPcs, GpuPcs
<1> QED
  BY <1>1, <1>3, <1>4, <1>5 DEF EngineInv, Loops

\* A key: the loops of the next generation begin with nothing in hand.
LEMMA KeysKeep == ASSUME EngineInv, Keys PROVE Store' /\ Loops'
<1> USE DEF EngineInv
<1>1. Store'
  <2>1. UNCHANGED <<adopted, rawNonce, stale, hasStale, trigger, answer, tip, submitted>>
    BY DEF Keys, PressMode, PressRestart, PressQuit, tmplVars, pollVars
  <2> QED
    BY <2>1, StoreRests DEF Store
<1>2. UNCHANGED <<snap, buf, out, stopSeen, adopted>>
  BY DEF Keys, PressMode, PressRestart, PressQuit, tmplVars, loopVars
<1>3. CASE UNCHANGED pc
  BY <1>1, <1>2, <1>3, Rest DEF Loops, LocalTypes
<1>4. ASSUME NEW m \in Modes, gen < MaxGen, StartMining(m) PROVE Loops'
  <2> DEFINE c == CpuLoop(gen + 1)  d == GpuLoop(gen + 1)
  <2>1. gen + 1 \in Gens
    BY <1>4, BoundsAssumption DEF ModeInv, Labels, Gens
  <2>2. c \in Actors /\ d \in Actors /\ c # d /\ PcsOf(c) = CpuPcs /\ PcsOf(d) = GpuPcs
    BY <2>1, LoopKinds, LoopsDiffer
  <2>3. GpuStart(m, gpuUp) \in {"unborn", "bench", "top"}
    BY DEF GpuStart, ModeInv, Labels, Modes
  <2>4. pc' = [pc EXCEPT ![c] = "boot", ![d] = GpuStart(m, gpuUp)]
    BY <1>4 DEF StartMining
  <2> HIDE DEF c, d
  <2>5. pc \in [Actors -> Pcs]
    BY DEF ModeInv, Labels
  <2>6. LocalTypes'
    BY <1>2 DEF Loops, LocalTypes, Cur
  <2>7. ASSUME NEW a \in Actors
        PROVE  pc'[a] \in PcsOf(a) /\ At(pc'[a], snap[a], buf[a], out[a])
    <3>1. pc[a] \in PcsOf(a) /\ At(pc[a], snap[a], buf[a], out[a])
      BY DEF Loops
    <3>2. CASE a = c
      BY <2>2, <2>4, <2>5, <3>1, <3>2 DEF At, CpuPcs
    <3>3. CASE a = d
      BY <2>2, <2>3, <2>4, <2>5, <3>1, <3>3 DEF At, GpuPcs
    <3>4. CASE a # c /\ a # d
      BY <2>4, <2>5, <3>1, <3>4
    <3> QED
      BY <3>2, <3>3, <3>4
  <2>8. \A label, s, b, o : At(label, s, b, o)' <=> At(label, s, b, o)
    BY <1>2 DEF At, Open, Cur
  <2> QED
    BY <1>2, <2>6, <2>7, <2>8 DEF Loops, At, Open, Cur, PcsOf
<1>5. NextMode \in Modes /\ mode \in Modes
  BY DEF NextMode, Modes, ModeInv, Labels
<1>6. Loops'
  BY <1>3, <1>4, <1>5 DEF Keys, PressMode, PressRestart, PressQuit, loopVars
<1> QED
  BY <1>1, <1>6

\* The daemon's chain grows or changes its tip.
LEMMA NetworkKeeps == ASSUME EngineInv, Network PROVE Store' /\ Loops'
<1>1. tip' \in Tips
  BY BoundsAssumption DEF EngineInv, Store, Tips, Network, OtherBlock, OtherBranch
<1>2. Store'
  BY <1>1, StoreRests DEF EngineInv, Network, OtherBlock, OtherBranch, tmplVars, pollVars, Store
<1>3. Loops'
  BY Rest DEF EngineInv, Network, OtherBlock, OtherBranch, tmplVars, loopVars, Loops, LocalTypes
<1> QED
  BY <1>2, <1>3

\* The goroutine of startMining begins its loop.
LEMMA BootKeeps ==
  ASSUME EngineInv, NEW g \in Gens, Boot(g) PROVE Store' /\ Loops'
<1> DEFINE a == CpuLoop(g)
<1>1. a \in Actors /\ PcsOf(a) = CpuPcs /\ pc \in [Actors -> Pcs]
  BY LoopKinds DEF EngineInv, ModeInv, Labels
<1>2. Store'
  BY StoreRests DEF EngineInv, Boot, tmplVars, Store
<1>3. At(pc[a], snap[a], buf[a], out[a])
  BY <1>1 DEF EngineInv, Loops
<1>4. PICK label \in {"top", "bench"} : pc' = [pc EXCEPT ![a] = label]
  BY DEF Boot, Goto
<1>5. label \in PcsOf(a) /\ At(label, snap[a], buf[a], out[a])
  BY <1>1, <1>3, <1>4 DEF At, CpuPcs
<1>6. UNCHANGED <<adopted, stopSeen>> /\ Holds
  BY DEF Boot, tmplVars, Holds
<1>7. Loops'
  BY <1>1, <1>4, <1>5, <1>6, MoveOn DEF EngineInv
<1> QED
  BY <1>2, <1>7

\* The poller: only an adoption changes what the loops hold on to, and makes
\* the store longer.
LEMMA AdoptionKeeps ==
  ASSUME EngineInv, NEW g \in Gens, Cur < MaxTemplates, Replace(g),
         UNCHANGED <<pc, snap, buf, out, stopSeen, trigger, tip, submitted>>,
         answer' \in [Gens -> Tips]
  PROVE  Store' /\ Loops'
<1> USE DEF EngineInv
<1>1. PICK n \in Nat : Cur = n /\ Cur' = n + 1 /\ answer[g] \in Tips
  BY CurIsNat DEF Replace, Store, Cur
<1>4. /\ adopted' = Append(adopted, answer[g]) /\ rawNonce' = Append(rawNonce, NoNonce)
      /\ stale' = TRUE /\ hasStale' = TRUE
  BY DEF Replace
<1>5. /\ \A t \in 1 .. n : adopted'[t] = adopted[t] /\ rawNonce'[t] = rawNonce[t]
      /\ adopted'[n + 1] = answer[g] /\ rawNonce'[n + 1] = NoNonce
  BY <1>1, <1>4, BlanksTyped DEF Store, Cur
<1>6. \A t : Open(t) => Open(t)'
  BY <1>1, <1>5 DEF Open
<1>7. Store'
  <2>1. /\ adopted' \in Seq(Tips) /\ rawNonce' \in Seq(NonceBytes)
        /\ Len(rawNonce') = n + 1
    BY <1>1, <1>4, BlanksTyped DEF Store
  <2>2. n + 1 <= MaxTemplates /\ submitted \subseteq 1 .. n + 1 /\ n + 1 # 0
    BY <1>1, BoundsAssumption DEF Store
  <2>3. ASSUME NEW t \in 1 .. n + 1
        PROVE  Open(rawNonce[t].for)'
    <3>1. CASE t \in 1 .. n
      BY <1>1, <1>5, <1>6, <3>1 DEF Store
    <3>2. CASE t = n + 1
      <4>1. Open(0)'
        BY DEF Open
      <4> QED
        BY <1>5, <3>2, <4>1, BlanksTyped
    <3> QED
      BY <1>1, <3>1, <3>2
  <2>4. {stale', hasStale', trigger'} \subseteq BOOLEAN /\ tip' \in Tips
    BY <1>4 DEF Store
  <2> QED
    BY <1>1, <2>1, <2>2, <2>3, <2>4 DEF Store
<1>8. Loops'
  <2>1. LocalTypes'
    <3>1. 0 .. Cur \subseteq 0 .. n + 1
      BY <1>1
    <3> QED
      BY <1>1, <3>1 DEF Loops, LocalTypes
  <2>2. ASSUME NEW a \in Actors
        PROVE  (pc[a] \in PcsOf(a))' /\ At(pc[a], snap[a], buf[a], out[a])'
    <3>1. pc[a] \in PcsOf(a) /\ At(pc[a], snap[a], buf[a], out[a])
      BY DEF Loops
    <3>2. Cur' # 0
      BY <1>1
    <3> QED
      BY <1>6, <3>1, <3>2 DEF At, PcsOf
  <2> QED
    BY <2>1, <2>2 DEF Loops
<1> QED
  BY <1>7, <1>8

LEMMA PollerKeeps ==
  ASSUME EngineInv, NEW g \in Gens, Poller(g) PROVE Store' /\ Loops'
<1> USE DEF EngineInv
<1>1. <<0, 0>> \in Tips
  BY BoundsAssumption DEF Tips
<1>2. /\ UNCHANGED <<pc, snap, buf, out, stopSeen, tip, submitted>>
      /\ trigger' \in BOOLEAN /\ answer' \in [Gens -> Tips]
  BY <1>1 DEF Poller, PollEnd, PollTimer, PollToken, PollAnswer, PollFail, PollAdopt,
              loopVars, Store
<1>3. CASE UNCHANGED tmplVars
  <2>1. Store'
    BY <1>2, <1>3, StoreRests DEF tmplVars, Store
  <2>2. Loops'
    BY <1>2, <1>3, Rest DEF tmplVars, Loops, LocalTypes
  <2> QED
    BY <2>1, <2>2
<1>4. CASE PollAdopt(g) /\ Cur < MaxTemplates /\ Replace(g)
  BY <1>2, <1>4, AdoptionKeeps DEF PollAdopt
<1> QED
  BY <1>3, <1>4 DEF Poller, PollEnd, PollTimer, PollToken, PollAnswer, PollFail, PollAdopt

\* The CPU loop.
LEMMA CpuStepKeeps ==
  ASSUME EngineInv, NEW g \in Gens, CpuStep(g) PROVE Store' /\ Loops'
<1> DEFINE a == CpuLoop(g)
<1> USE DEF EngineInv
<1>1. a \in Actors /\ PcsOf(a) = CpuPcs /\ pc \in [Actors -> Pcs]
  BY LoopKinds DEF ModeInv, Labels
<1>2. At(pc[a], snap[a], buf[a], out[a])
  BY <1>1 DEF Loops
<1>3. {"exited", "snap", "mine", "top", "found", "take", "encode", "stats"} \subseteq CpuPcs
  BY DEF CpuPcs
<1> HIDE DEF a
<1>4. CASE CpuTop(g)
  <2>1. PICK label \in {"exited", "snap"} :
          pc' = [pc EXCEPT ![a] = label] /\ (label = "snap" => hasStale)
    BY <1>4 DEF CpuTop, Goto, a
  <2>2. At(label, snap[a], buf[a], out[a])
    BY <1>2, <2>1 DEF At, Store
  <2>3. Loops'
    BY <1>1, <1>3, <1>4, <2>1, <2>2, MoveOn DEF CpuTop, tmplVars, Holds
  <2>4. Store'
    BY <1>4, StoreRests DEF CpuTop, tmplVars, pollVars, Store
  <2> QED
    BY <2>3, <2>4
<1>5. CASE CpuSnapshot(g)
  <2>1. Cur \in 0 .. Cur /\ Cur # 0
    BY <1>2, <1>5, CurIsNat DEF CpuSnapshot, At, a
  <2>2. At("mine", Cur, buf[a], out[a])
    BY <1>2, <2>1 DEF At
  <2>3. /\ buf[a] \in 0 .. Cur /\ buf' = [buf EXCEPT ![a] = buf[a]]
        /\ out[a] \in NonceBytes /\ out' = [out EXCEPT ![a] = out[a]]
        /\ stopSeen[a] \in BOOLEAN /\ stopSeen' = [stopSeen EXCEPT ![a] = stopSeen[a]]
        /\ pc' = [pc EXCEPT ![a] = "mine"] /\ snap' = [snap EXCEPT ![a] = Cur]
        /\ adopted' = adopted
    BY <1>1, <1>5 DEF CpuSnapshot, Goto, Loops, LocalTypes, a
  <2>4. Loops'
    BY <1>1, <1>3, <2>1, <2>2, <2>3, Move
  <2>5. Store'
    <3>1. /\ stale' = FALSE
          /\ UNCHANGED <<adopted, rawNonce, hasStale, trigger, answer, tip, submitted>>
      BY <1>5 DEF CpuSnapshot, pollVars
    <3>2. {stale', hasStale', trigger'} \subseteq BOOLEAN /\ (hasStale' => hasStale)
      BY <3>1 DEF Store
    <3>3. answer' \in [Gens -> Tips] /\ tip' \in Tips /\ submitted' \subseteq 1 .. Cur
      BY <3>1 DEF Store
    <3> QED
      BY <3>1, <3>2, <3>3, StoreRests
  <2> QED
    BY <2>4, <2>5
<1>6. CASE CpuLeave(g) \/ CpuGiveUp(g)
  <2>1. Loops'
    BY <1>1, <1>3, <1>6, MoveOff DEF CpuLeave, CpuGiveUp, Goto, tmplVars, a
  <2>2. Store'
    <3>1. /\ UNCHANGED <<adopted, rawNonce, stale, hasStale, trigger, answer>>
          /\ UNCHANGED <<tip, submitted>>
      BY <1>6 DEF CpuLeave, CpuGiveUp, tmplVars, pollVars
    <3> QED
      BY <3>1, FlagsRest DEF Store
  <2> QED
    BY <2>1, <2>2
<1>7. CASE CpuSeeStop(g)
  <2>1. stopSeen' \in [Actors -> BOOLEAN]
    BY <1>1, <1>7 DEF CpuSeeStop, Loops, LocalTypes
  <2>2. Loops'
    BY <1>7, <2>1, Rest DEF CpuSeeStop, tmplVars
  <2>3. Store'
    BY <1>7, StoreRests DEF CpuSeeStop, tmplVars, pollVars, Store
  <2> QED
    BY <2>2, <2>3
<1>8. CASE CpuFind(g)
  <2>1. snap[a] # 0 /\ snap[a] \in 0 .. Cur /\ adopted[snap[a]][1] < MaxHeight
    BY <1>1, <1>2, <1>8 DEF CpuFind, At, Loops, LocalTypes, a
  <2>2. Open(snap[a])
    BY <2>1, CurIsNat DEF Open
  <2>3. At("found", snap[a], buf[a], out[a])
    BY <1>2, <2>1, <2>2 DEF At
  <2>4. /\ pc' = [pc EXCEPT ![a] = "found"]
        /\ adopted' = adopted /\ Holds
        /\ stopSeen' = [stopSeen EXCEPT ![a] = FALSE]
    BY <1>8 DEF CpuFind, Goto, tmplVars, Holds, a
  <2>5. Loops'
    BY <1>1, <1>3, <2>3, <2>4, MoveOn
  <2>6. Store'
    BY <1>8, StoreRests DEF CpuFind, tmplVars, pollVars, Store
  <2> QED
    BY <2>5, <2>6
<1>9. CASE CpuCheck(g)
  <2>1. UNCHANGED <<adopted, rawNonce, stale, hasStale, trigger, answer, tip, submitted>>
    BY <1>9 DEF CpuCheck, tmplVars, pollVars
  <2>2. Store'
    BY <2>1, FlagsRest DEF Store
  <2>3. CASE Goto(a, "exited") /\ Forget(a)
    BY <1>1, <1>3, <2>1, <2>2, <2>3, MoveOff DEF Goto
  <2>4. CASE Goto(a, "take") /\ UNCHANGED <<snap, buf, out, stopSeen>>
    <3>1. At("take", snap[a], buf[a], out[a])
      BY <1>2, <1>9 DEF CpuCheck, At, a
    <3> QED
      BY <1>1, <1>3, <2>1, <2>2, <2>4, <3>1, MoveOn DEF Goto, Holds
  <2> QED
    BY <1>9, <2>3, <2>4 DEF CpuCheck, a
<1>11. CASE CpuWriteNonce(g)
  <2>1. snap[a] # 0 /\ Open(snap[a])
    BY <1>2, <1>11 DEF CpuWriteNonce, At, a
  <2>2. UNCHANGED <<adopted, stale, hasStale, trigger, answer, tip, submitted>> /\ TakeRaw(a)
    BY <1>11 DEF CpuWriteNonce, pollVars, a
  <2> QED
    BY <1>1, <2>1, <2>2, TakesRaw
<1>10. CASE CpuPark(g) \/ CpuStats(g)
  <2>1. PICK label \in {"stats", "top"} : pc' = [pc EXCEPT ![a] = label]
    BY <1>10 DEF CpuPark, CpuStats, Goto, a
  <2>2. At(label, snap[a], buf[a], out[a])
    BY <1>2, <2>1 DEF At
  <2>3. UNCHANGED <<adopted, stopSeen>> /\ Holds
    BY <1>10 DEF CpuPark, CpuStats, tmplVars, Holds
  <2>4. Loops'
    BY <1>1, <1>3, <2>1, <2>2, <2>3, MoveOn
  <2>5. Store'
    <3>1. /\ hasStale' = FALSE \/ hasStale' = hasStale
          /\ UNCHANGED <<adopted, rawNonce, stale, trigger, answer, tip, submitted>>
      BY <1>10 DEF CpuPark, CpuStats, tmplVars, pollVars
    <3>2. {stale', hasStale', trigger'} \subseteq BOOLEAN /\ (hasStale' => hasStale)
      <4>1. CASE hasStale' = FALSE
        BY <3>1, <4>1 DEF Store
      <4>2. CASE hasStale' = hasStale
        BY <3>1, <4>2 DEF Store
      <4> QED
        BY <3>1, <4>1, <4>2
    <3>3. answer' \in [Gens -> Tips] /\ tip' \in Tips /\ submitted' \subseteq 1 .. Cur
      BY <3>1 DEF Store
    <3> QED
      BY <3>1, <3>2, <3>3, StoreRests
  <2> QED
    BY <2>4, <2>5
<1> QED
  BY <1>4, <1>5, <1>6, <1>7, <1>8, <1>9, <1>10, <1>11 DEF CpuStep

\* The GPU loop.
LEMMA GpuStepKeeps ==
  ASSUME EngineInv, NEW g \in Gens, GpuStep(g) \/ GpuDown(g) PROVE Store' /\ Loops'
<1> DEFINE a == GpuLoop(g)
<1> USE DEF EngineInv
<1>1. a \in Actors /\ PcsOf(a) = GpuPcs /\ pc \in [Actors -> Pcs]
  BY LoopKinds DEF ModeInv, Labels
<1>2. At(pc[a], snap[a], buf[a], out[a])
  BY <1>1 DEF Loops
<1>3. {"exited", "bench", "top", "look", "hash", "scan", "take", "encode",
      "stats"} \subseteq GpuPcs
  BY DEF GpuPcs
<1> HIDE DEF a
<1>4. CASE GpuTop(g)
  <2>1. Store'
    BY <1>4, StoreRests DEF GpuTop, tmplVars, pollVars, Store
  <2>2. PICK label \in {"exited", "look"} : pc' = [pc EXCEPT ![a] = label]
    BY <1>4 DEF GpuTop, Goto, a
  <2>3. UNCHANGED <<adopted, stopSeen>> /\ Holds
    BY <1>4 DEF GpuTop, tmplVars, Holds
  <2>4. At(label, snap[a], buf[a], out[a])
    BY <1>2, <2>2 DEF At
  <2> QED
    BY <1>1, <1>3, <2>1, <2>2, <2>3, <2>4, MoveOn
<1>10. CASE GpuSnapshot(g)
  <2>1. Store'
    BY <1>10, StoreRests DEF GpuSnapshot, tmplVars, pollVars, Store
  <2>2. CASE ~hasStale
    <3>1. PICK label \in {"exited", "top"} : pc' = [pc EXCEPT ![a] = label]
      BY <1>10, <2>2 DEF GpuSnapshot, Goto, a
    <3>2. UNCHANGED <<adopted, stopSeen>> /\ Holds
      BY <1>10, <2>2 DEF GpuSnapshot, tmplVars, Holds
    <3>3. At(label, snap[a], buf[a], out[a])
      BY <1>2, <3>1 DEF At
    <3> QED
      BY <1>1, <1>3, <2>1, <3>1, <3>2, <3>3, MoveOn
  <2>3. CASE hasStale
    <3>1. Cur \in 0 .. Cur /\ Cur # 0
      BY <2>3, CurIsNat DEF Store
    <3>2. At("hash", Cur, buf[a], out[a])
      BY <1>2, <3>1 DEF At
    <3>3. /\ buf[a] \in 0 .. Cur /\ buf' = [buf EXCEPT ![a] = buf[a]]
          /\ out[a] \in NonceBytes /\ out' = [out EXCEPT ![a] = out[a]]
          /\ stopSeen[a] \in BOOLEAN /\ stopSeen' = [stopSeen EXCEPT ![a] = stopSeen[a]]
          /\ pc' = [pc EXCEPT ![a] = "hash"] /\ snap' = [snap EXCEPT ![a] = Cur]
          /\ adopted' = adopted
      BY <1>1, <1>10, <2>3 DEF GpuSnapshot, Goto, tmplVars, Loops, LocalTypes, a
    <3> QED
      BY <1>1, <1>3, <2>1, <3>1, <3>2, <3>3, Move
  <2> QED
    BY <2>2, <2>3
<1>5. CASE GpuDown(g)
  <2>1. Store'
    BY <1>5, StoreRests DEF GpuDown, tmplVars, pollVars, Store
  <2>2. Loops'
    BY <1>5, Rest DEF GpuDown, tmplVars, loopVars, Loops, LocalTypes
  <2> QED
    BY <2>1, <2>2
<1>6. CASE GpuReset(g)
  <2>1. Store'
    BY <1>6, StoreRests DEF GpuReset, tmplVars, pollVars, Store
  <2>2. PICK label \in {"top", "bench", "exited"} : pc' = [pc EXCEPT ![a] = label]
    <3>1. pc[a] = "bench" /\ UNCHANGED pc => pc' = [pc EXCEPT ![a] = "bench"]
      BY <1>1
    <3> QED
      BY <1>6, <3>1 DEF GpuReset, Goto, a
  <2>3. Forget(a) /\ adopted' = adopted
    BY <1>6 DEF GpuReset, tmplVars, a
  <2>4. Loops'
    BY <1>1, <1>3, <2>2, <2>3, MoveOff
  <2> QED
    BY <2>1, <2>4
<1>7. CASE GpuHash(g)
  <2>1. Store'
    BY <1>7, StoreRests DEF GpuHash, tmplVars, pollVars, Store
  <2>2. pc' = [pc EXCEPT ![a] = "scan"] /\ UNCHANGED <<adopted, stopSeen>> /\ Holds
    BY <1>7 DEF GpuHash, Goto, tmplVars, Holds, a
  <2>3. At("scan", snap[a], buf[a], out[a])
    BY <1>2, <1>7 DEF GpuHash, At, a
  <2> QED
    BY <1>1, <1>3, <2>1, <2>2, <2>3, MoveOn
<1>8. CASE GpuScan(g)
  <2>1. UNCHANGED <<adopted, rawNonce, stale, hasStale, trigger, answer, tip, submitted>>
    BY <1>8 DEF GpuScan, tmplVars, pollVars
  <2>2. Store'
    BY <2>1, FlagsRest DEF Store
  <2>3. CASE Goto(a, "top") /\ Forget(a)
    BY <1>1, <1>3, <2>1, <2>2, <2>3, MoveOff DEF Goto
  <2>4. CASE /\ adopted[snap[a]][1] < MaxHeight
             /\ Goto(a, "take") /\ UNCHANGED <<snap, buf, out, stopSeen>>
    <3>1. snap[a] # 0 /\ snap[a] \in 0 .. Cur /\ Cur \in Nat
      BY <1>1, <1>2, <1>8, CurIsNat DEF GpuScan, At, Loops, LocalTypes, a
    <3>2. Open(snap[a])
      BY <2>4, <3>1 DEF Open
    <3>3. At("take", snap[a], buf[a], out[a])
      BY <1>2, <3>1, <3>2 DEF At
    <3> QED
      BY <1>1, <1>3, <2>1, <2>2, <2>4, <3>3, MoveOn DEF Goto, Holds
  <2> QED
    BY <1>8, <2>3, <2>4 DEF GpuScan, a
<1>11. CASE GpuWriteNonce(g)
  <2>1. snap[a] # 0 /\ Open(snap[a])
    BY <1>2, <1>11 DEF GpuWriteNonce, At, a
  <2>2. UNCHANGED <<adopted, stale, hasStale, trigger, answer, tip, submitted>> /\ TakeRaw(a)
    BY <1>11 DEF GpuWriteNonce, pollVars, a
  <2> QED
    BY <1>1, <2>1, <2>2, TakesRaw
<1>9. CASE GpuStats(g)
  <2>1. Store'
    BY <1>9, StoreRests DEF GpuStats, tmplVars, pollVars, Store
  <2>2. PICK label \in {"top", "exited"} : pc' = [pc EXCEPT ![a] = label]
    BY <1>9 DEF GpuStats, Goto, a
  <2>3. UNCHANGED <<adopted, stopSeen>> /\ Holds
    BY <1>9 DEF GpuStats, tmplVars, Holds
  <2>4. At(label, snap[a], buf[a], out[a])
    BY <1>2, <2>2 DEF At
  <2> QED
    BY <1>1, <1>3, <2>1, <2>2, <2>3, <2>4, MoveOn
<1> QED
  BY <1>4, <1>5, <1>6, <1>7, <1>8, <1>9, <1>10, <1>11 DEF GpuStep

\* The end of a bench loop and the four steps of a submission.  What the daemon
\* takes was found for the template it is built on, and that one's tip was below
\* the bound.
LEMMA SubmissionStepKeeps ==
  ASSUME EngineInv, NEW a \in Actors, BenchEnd(a) \/ Submission(a)
  PROVE  Store' /\ Loops'
<1> USE DEF EngineInv
<1>1. pc \in [Actors -> Pcs] /\ At(pc[a], snap[a], buf[a], out[a])
  BY DEF ModeInv, Labels, Loops
<1>2. {"exited", "encode", "submit", "trigger", "stats"} \subseteq PcsOf(a)
      /\ (a[1] = "cpu" => "park" \in PcsOf(a))
  BY DEF PcsOf, CpuPcs, GpuPcs
<1>3. /\ snap[a] \in 0 .. Cur /\ buf[a] \in 0 .. Cur /\ out[a] \in NonceBytes
      /\ stopSeen[a] \in BOOLEAN /\ Cur \in Nat
  BY CurIsNat DEF Loops, LocalTypes
<1>4. CASE BenchEnd(a) \/ Trigger(a)
  <2>1. Store'
    <3>1. /\ UNCHANGED <<adopted, rawNonce, stale, hasStale, answer, tip, submitted>>
          /\ trigger' = TRUE \/ trigger' = trigger
      BY <1>4 DEF BenchEnd, Trigger, tmplVars, pollVars
    <3>2. CASE trigger' = TRUE
      BY <3>1, <3>2, StoreRests DEF Store
    <3>3. CASE trigger' = trigger
      BY <3>1, <3>3, FlagsRest DEF Store
    <3> QED
      BY <3>1, <3>2, <3>3
  <2>2. PICK label \in PcsOf(a) : /\ label \in {"exited", "park", "stats"}
                                 /\ pc' = [pc EXCEPT ![a] = label]
    BY <1>2, <1>4 DEF BenchEnd, Trigger, Goto
  <2>3. UNCHANGED <<adopted, stopSeen>> /\ Holds
    BY <1>4 DEF BenchEnd, Trigger, tmplVars, Holds
  <2>4. At(label, snap[a], buf[a], out[a])
    BY <1>1, <2>2 DEF At
  <2> QED
    BY <1>1, <2>1, <2>2, <2>3, <2>4, MoveOn
<1>5. CASE Encode(a)
  <2>1. Store'
    BY <1>5, StoreRests DEF Encode, tmplVars, pollVars, Store
  <2>2. snap[a] # 0 /\ buf[a] # 0 /\ Open(snap[a]) /\ Open(0)
    BY <1>1, <1>5 DEF Encode, At, Open
  <2>3. snap[a] \in Templates /\ buf[a] \in 1 .. Cur
    BY <1>3, <2>2, BoundsAssumption DEF Store, Templates
  <2>4. Solution(a, snap[a]) \in NonceBytes /\ Solution(a, snap[a]).for = snap[a]
    BY <2>3, SolutionTyped
  <2>5. rawNonce[buf[a]] \in NonceBytes /\ Open(rawNonce[buf[a]].for)
    BY <2>3 DEF Store
  <2>6. PICK o : /\ o \in {Solution(a, snap[a]), rawNonce[buf[a]], Torn}
                 /\ out' = [out EXCEPT ![a] = o]
    BY <1>5 DEF Encode
  <2>7. o \in NonceBytes /\ Open(o.for)
    BY <2>2, <2>4, <2>5, <2>6, BlanksTyped
  <2>8. At("submit", snap[a], buf[a], o)
    BY <2>2, <2>7 DEF At
  <2>9. /\ snap' = [snap EXCEPT ![a] = snap[a]] /\ buf' = [buf EXCEPT ![a] = buf[a]]
        /\ stopSeen' = [stopSeen EXCEPT ![a] = stopSeen[a]]
        /\ pc' = [pc EXCEPT ![a] = "submit"] /\ adopted' = adopted
    BY <1>5 DEF Encode, Goto, tmplVars, Loops, LocalTypes
  <2> QED
    BY <1>1, <1>2, <1>3, <2>1, <2>6, <2>7, <2>8, <2>9, Move
<1>6. CASE Submit(a) \/ SubmitLost(a)
  <2>1. buf[a] # 0 /\ Open(out[a].for)
    BY <1>1, <1>6 DEF Submit, SubmitLost, At
  <2>2. Valid(a) /\ Extends(a) => tip[1] < MaxHeight
    BY <2>1 DEF Valid, Extends, Open
  <2>3. tip' \in Tips
    BY <1>6, <2>2, BoundsAssumption DEF Submit, SubmitLost, Store, Tips
  <2>4. submitted' \subseteq 1 .. Cur
    <3>1. buf[a] \in 1 .. Cur /\ submitted \subseteq 1 .. Cur
      BY <1>3, <2>1 DEF Store
    <3>2. submitted' \in {submitted, submitted \cup {buf[a]}}
      BY <1>6 DEF Submit, SubmitLost, NoteSubmission
    <3> QED
      BY <3>1, <3>2
  <2>5. /\ UNCHANGED <<adopted, rawNonce, stale, hasStale, trigger, answer>>
        /\ pc' = [pc EXCEPT ![a] = "trigger"] /\ Forget(a)
    BY <1>6 DEF Submit, SubmitLost, Goto, tmplVars, pollVars
  <2>6. Store'
    BY <2>3, <2>4, <2>5, FlagsRest
  <2>7. Loops'
    BY <1>1, <1>2, <2>5, MoveOff
  <2> QED
    BY <2>6, <2>7
<1> QED
  BY <1>4, <1>5, <1>6 DEF Submission

LEMMA EngineStep == EngineInv /\ [Next]_vars => EngineInv'
<1> SUFFICES ASSUME EngineInv, [Next]_vars PROVE Store' /\ Loops'
  BY ModeStep DEF EngineInv
<1>1. CASE UNCHANGED vars
  <2>1. Store'
    BY <1>1, StoreRests DEF vars, EngineInv, Store
  <2>2. Loops'
    BY <1>1, Rest DEF vars, EngineInv, Loops, LocalTypes
  <2> QED
    BY <2>1, <2>2
<1> QED
  BY <1>1, KeysKeep, NetworkKeeps, BootKeeps, PollerKeeps, CpuStepKeeps, GpuStepKeeps,
     SubmissionStepKeeps DEF Next

\* Every loop holds templates and buffers that were adopted, and the tip the
\* engine brings about stays in its bounds, for any number of generations.
THEOREM EngineTyped == Spec => []TypeOK
<1>1. EngineInv => TypeOK
  <2> SUFFICES ASSUME EngineInv PROVE TypeOK
    OBVIOUS
  <2>1. \A g \in Gens : pc[CpuLoop(g)] \in CpuPcs /\ pc[GpuLoop(g)] \in GpuPcs
    BY LoopKinds DEF EngineInv, Loops
  <2> QED
    BY <2>1 DEF EngineInv, ModeInv, Labels, Pcs, Pollers, Store, Loops, LocalTypes, TypeOK
<1> QED
  BY <1>1, EngineInit, EngineStep, PTL DEF Spec
=============================================================================
