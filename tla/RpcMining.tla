----------------------------- MODULE RpcMining -----------------------------
(***************************************************************************)
(* The mining engine of src/internal/app/run.go in RPC mode: per           *)
(* generation of startMining a CPU loop (runRPCLoop), its template poller  *)
(* and a GPU loop (runRPCGPULoop), all sharing one templateState, one      *)
(* pollTrigger and one daemon.                                             *)
(*                                                                         *)
(* A key (restart, threads, mode) starts a new generation and cancels the  *)
(* context of the one before; goroutines of a cancelled generation go on   *)
(* until they look at their context, and go on touching the shared state.  *)
(*                                                                         *)
(* The chain is its tip, <<height, branch>>.  templateState is the log of  *)
(* the templates adopted, one entry per adoption with the tip the template *)
(* was built on; base, bits, height and raw are written together under the *)
(* mutex, so the last entry is all four of them.  Each adoption brings its *)
(* own raw buffer, whose four nonce bytes are shared by whoever holds the  *)
(* slice.  A nonce is the loop that found it and the template it solves: a *)
(* nonce never solves another template.  One call of mineBlockHashed is    *)
(* the two outcomes that MineCall allows (see WorkerPool).  The counters   *)
(* and the statistics messages are the subject of ShareStats, the nonce    *)
(* slices that of NoncePartition.                                          *)
(***************************************************************************)
EXTENDS Naturals, Sequences, FiniteSets

CONSTANTS
  MaxGen,         \* bound: how many times mining is started
  MaxHeight,      \* bound: the tip's height
  MaxBranch,      \* bound: how often the tip is replaced by a sibling
  MaxTemplates,   \* bound: how many templates are adopted
  WithGPU,        \* TRUE: a GPU is available
  RPCErrors       \* TRUE: calls to the daemon may fail

ASSUME BoundsAssumption == /\ MaxGen \in Nat \ {0}
                           /\ MaxHeight \in Nat
                           /\ MaxBranch \in Nat
                           /\ MaxTemplates \in Nat \ {0}
ASSUME FlagsAssumption  == {WithGPU, RPCErrors} \subseteq BOOLEAN

Gens      == 1 .. MaxGen
Kinds     == {"cpu", "gpu"}
Actors    == Kinds \X Gens
Modes     == {"bench", "rpc", "stratum"}
Templates == 1 .. MaxTemplates
Tips      == (0 .. MaxHeight) \X (0 .. MaxBranch)

NoNonce  == [by |-> "nobody", for |-> 0]    \* header.Nonce = 0
Torn     == [by |-> "both", for |-> 0]      \* bytes of two different nonces
Solution(a, t) == [by |-> a[1], for |-> t]
NonceBytes == {NoNonce, Torn} \cup {Solution(<<k, 1>>, t) : k \in Kinds, t \in Templates}

CpuLoop(g) == <<"cpu", g>>
GpuLoop(g) == <<"gpu", g>>

VARIABLES
  gen,        \* the current generation: its context is m.miningCtx
  quit,       \* has q been pressed?
  mode,       \* m.mode
  gpuUp,      \* gpuMiner.Available()
  pc,         \* pc[a]: where the loop a = <<kind, generation>> is
  poller,     \* poller[g]: "unborn", "wait", "call", "answer" or "exited"
  answer,     \* answer[g]: the tip the template on its way was built on
  adopted,    \* templateState's history: its last entry is its content
  rawNonce,   \* rawNonce[t]: the nonce bytes of template t's raw buffer
  stale,      \* templateState.stale
  hasStale,   \* templateState.hasStale
  trigger,    \* is there a token in pollTrigger?
  snap,       \* snap[a]: the template whose base the loop hashes
  buf,        \* buf[a]: the raw buffer the loop took for its submission
  out,        \* out[a]: the nonce in the hex string it submits
  stopSeen,   \* stopSeen[a]: has this mineBlockHashed call seen a stop?
  tip,        \* the daemon's chain tip
  submitted   \* history: the raw buffers a CPU loop submitted, or tried to

genVars  == <<gen, quit, mode, gpuUp>>
tmplVars == <<adopted, rawNonce, stale, hasStale>>
loopVars == <<pc, snap, buf, out, stopSeen>>
pollVars == <<poller, answer>>
vars == <<gen, quit, mode, gpuUp, pc, poller, answer, adopted, rawNonce, stale,
          hasStale, trigger, snap, buf, out, stopSeen, tip, submitted>>

Cur == Len(adopted)

\* getblocktemplate answers with the height of the block to be mined.
HeightOn(t) == t[1] + 1
CurHeight   == IF Cur = 0 THEN 0 ELSE HeightOn(adopted[Cur])

Cancelled(g) == quit \/ g # gen

\* Where startMining sends the GPU loop in mode m (run.go:42-49).
GpuStart(m, up) ==
  IF up THEN [bench |-> "bench", rpc |-> "top", stratum |-> "unborn"][m]
  ELSE "unborn"

\* main selects RPC mode when it has a URL; Init calls startMining.
Init == /\ gen = 1 /\ quit = FALSE
        /\ mode \in {"bench", "rpc"}
        /\ gpuUp = WithGPU
        /\ pc = [[a \in Actors |-> "unborn"] EXCEPT
                    ![CpuLoop(1)] = "boot", ![GpuLoop(1)] = GpuStart(mode, WithGPU)]
        /\ poller = [g \in Gens |-> "unborn"]
        /\ answer = [g \in Gens |-> <<0, 0>>]
        /\ adopted = <<>> /\ rawNonce = <<>>
        /\ stale = FALSE /\ hasStale = FALSE
        /\ trigger = FALSE
        /\ snap = [a \in Actors |-> 0]
        /\ buf = [a \in Actors |-> 0]
        /\ out = [a \in Actors |-> NoNonce]
        /\ stopSeen = [a \in Actors |-> FALSE]
        /\ tip = <<0, 0>>
        /\ submitted = {}

Goto(a, label) == pc' = [pc EXCEPT ![a] = label]

\* The locals of one iteration go out of scope.
Forget(a) == /\ snap' = [snap EXCEPT ![a] = 0]
             /\ buf' = [buf EXCEPT ![a] = 0]
             /\ out' = [out EXCEPT ![a] = NoNonce]
             /\ stopSeen' = [stopSeen EXCEPT ![a] = FALSE]

-----------------------------------------------------------------------------
(* Keys, and startMining. *)

NextMode == [bench |-> "rpc", rpc |-> "stratum", stratum |-> "bench"][mode]

\* startMining: a new context, a goroutine that will read m.mode when it runs
\* (run.go:31-40), and at once the GPU loop of the mode of this moment, if the
\* GPU is not down at this moment.
StartMining(m) ==
  /\ gen' = gen + 1
  /\ pc' = [pc EXCEPT ![CpuLoop(gen + 1)] = "boot",
                      ![GpuLoop(gen + 1)] = GpuStart(m, gpuUp)]

\* Mutant of PressMode: startMining runs before the mode is changed.
PressMode_Late ==
  /\ ~quit /\ gen < MaxGen
  /\ mode' = NextMode
  /\ StartMining(mode)
  /\ UNCHANGED <<quit, gpuUp, pollVars, tmplVars, trigger, snap, buf, out, stopSeen,
                 tip, submitted>>

\* "b": miningCancel, the next mode, startMining.
PressMode ==
  /\ ~quit /\ gen < MaxGen
  /\ mode' = NextMode
  /\ StartMining(NextMode)
  /\ UNCHANGED <<quit, gpuUp, pollVars, tmplVars, trigger, snap, buf, out, stopSeen,
                 tip, submitted>>

\* "+" and "-" restart mining in every mode, "r" in RPC mode.
PressRestart ==
  /\ ~quit /\ gen < MaxGen
  /\ StartMining(mode)
  /\ UNCHANGED <<quit, mode, gpuUp, pollVars, tmplVars, trigger, snap, buf, out,
                 stopSeen, tip, submitted>>

PressQuit ==
  /\ ~quit
  /\ quit' = TRUE
  /\ UNCHANGED <<gen, mode, gpuUp, pollVars, tmplVars, trigger, loopVars, tip,
                 submitted>>

\* The goroutine of startMining: runRPCLoop also starts its poller.
Boot(g) ==
  /\ pc[CpuLoop(g)] = "boot"
  /\ Goto(CpuLoop(g), IF mode = "rpc" THEN "top" ELSE "bench")
  /\ poller' = [poller EXCEPT ![g] = IF mode = "rpc" THEN "wait" ELSE @]
  /\ UNCHANGED <<genVars, answer, tmplVars, trigger, snap, buf, out, stopSeen,
                 tip, submitted>>

\* runBenchLoop and runGPUBenchLoop hash until their context is cancelled.
BenchEnd(a) ==
  /\ pc[a] = "bench" /\ Cancelled(a[2])
  /\ Goto(a, "exited")
  /\ UNCHANGED <<genVars, pollVars, tmplVars, trigger, snap, buf, out, stopSeen,
                 tip, submitted>>

-----------------------------------------------------------------------------
(* The template poller of generation g. *)

PollEnd(g) ==
  /\ poller[g] = "wait" /\ Cancelled(g)
  /\ poller' = [poller EXCEPT ![g] = "exited"]
  /\ UNCHANGED <<genVars, answer, tmplVars, trigger, loopVars, tip, submitted>>

\* case <-time.After(500 ms): with the context cancelled too, select picks either.
PollTimer(g) ==
  /\ poller[g] = "wait"
  /\ poller' = [poller EXCEPT ![g] = "call"]
  /\ UNCHANGED <<genVars, answer, tmplVars, trigger, loopVars, tip, submitted>>

\* case <-m.pollTrigger
PollToken(g) ==
  /\ poller[g] = "wait" /\ trigger
  /\ trigger' = FALSE
  /\ poller' = [poller EXCEPT ![g] = "call"]
  /\ UNCHANGED <<genVars, answer, tmplVars, loopVars, tip, submitted>>

\* The daemon builds a template on its tip; the answer is on its way.
PollAnswer(g) ==
  /\ poller[g] = "call"
  /\ answer' = [answer EXCEPT ![g] = tip]
  /\ poller' = [poller EXCEPT ![g] = "answer"]
  /\ UNCHANGED <<genVars, tmplVars, trigger, loopVars, tip, submitted>>

\* The call fails, or the template cannot be decoded: continue.  A call that does
\* not reach the daemon is one whose answer is lost.
PollFail(g) ==
  /\ RPCErrors
  /\ poller[g] = "answer"
  /\ poller' = [poller EXCEPT ![g] = "wait"]
  /\ answer' = [answer EXCEPT ![g] = <<0, 0>>]
  /\ UNCHANGED <<genVars, tmplVars, trigger, loopVars, tip, submitted>>

\* Mutant of IsNew: only the successor of the height being mined is adopted.
IsNew_Successor(g) == HeightOn(answer[g]) = CurHeight + 1

\* tmpl.Height != m.tmplState.height
IsNew(g) == HeightOn(answer[g]) # CurHeight

\* Mutant of Replace: the stale flag is not raised.
Replace_Quiet(g) ==
  /\ adopted' = Append(adopted, answer[g])
  /\ rawNonce' = Append(rawNonce, NoNonce)
  /\ hasStale' = TRUE
  /\ UNCHANGED stale

\* Mutant of Replace: base, bits and height are replaced, raw is not.
Replace_KeepRaw(g) ==
  /\ adopted' = Append(adopted, answer[g])
  /\ stale' = TRUE /\ hasStale' = TRUE
  /\ UNCHANGED rawNonce

\* Lines 302-307.
Replace(g) ==
  /\ adopted' = Append(adopted, answer[g])
  /\ rawNonce' = Append(rawNonce, NoNonce)
  /\ stale' = TRUE /\ hasStale' = TRUE

\* The answer arrives; only its height decides whether it is adopted, and the
\* context is not looked at again.
PollAdopt(g) ==
  /\ poller[g] = "answer"
  /\ poller' = [poller EXCEPT ![g] = "wait"]
  /\ IF IsNew(g) THEN Cur < MaxTemplates /\ Replace(g) ELSE UNCHANGED tmplVars
  /\ answer' = [answer EXCEPT ![g] = <<0, 0>>]
  /\ UNCHANGED <<genVars, trigger, loopVars, tip, submitted>>

Poller(g) == \/ PollEnd(g) \/ PollTimer(g) \/ PollToken(g)
             \/ PollAnswer(g) \/ PollFail(g) \/ PollAdopt(g)

-----------------------------------------------------------------------------
(* The CPU loop of generation g. *)

\* Both loops: the raw slice is read under the lock, the nonce written into it
\* outside.  The slice stays the same buffer whatever is adopted in between.
TakeRaw(a) ==
  /\ Goto(a, "encode")
  /\ buf' = [buf EXCEPT ![a] = Cur]
  /\ rawNonce' = [rawNonce EXCEPT ![Cur] = Solution(a, snap[a])]
  /\ UNCHANGED <<snap, out, stopSeen>>

\* Mutant of CpuTop: the wait for a template does not end with the context.
CpuTop_Waits(g) ==
  /\ pc[CpuLoop(g)] = "top"
  /\ hasStale
  /\ Goto(CpuLoop(g), IF Cancelled(g) THEN "exited" ELSE "snap")
  /\ UNCHANGED <<genVars, pollVars, tmplVars, trigger, snap, buf, out, stopSeen,
                 tip, submitted>>

\* The head of the loop: the context, then hasStale under the lock; without a
\* template it waits 100 ms and looks again.
CpuTop(g) ==
  /\ pc[CpuLoop(g)] = "top"
  /\ IF Cancelled(g) THEN Goto(CpuLoop(g), "exited")
     ELSE hasStale /\ Goto(CpuLoop(g), "snap")
  /\ UNCHANGED <<genVars, pollVars, tmplVars, trigger, snap, buf, out, stopSeen,
                 tip, submitted>>

\* Mutant of CpuSnapshot: the stale flag of the template before stays up.
CpuSnapshot_KeepsFlag(g) ==
  /\ pc[CpuLoop(g)] = "snap"
  /\ snap' = [snap EXCEPT ![CpuLoop(g)] = Cur]
  /\ Goto(CpuLoop(g), "mine")
  /\ UNCHANGED <<genVars, pollVars, adopted, rawNonce, hasStale, trigger,
                 stale, buf, out, stopSeen, tip, submitted>>

\* Lines 332-337: the template is copied and the stale flag lowered, under
\* the lock.
CpuSnapshot(g) ==
  /\ pc[CpuLoop(g)] = "snap"
  /\ snap' = [snap EXCEPT ![CpuLoop(g)] = Cur]
  /\ stale' = FALSE
  /\ Goto(CpuLoop(g), "mine")
  /\ UNCHANGED <<genVars, pollVars, adopted, rawNonce, hasStale, trigger,
                 buf, out, stopSeen, tip, submitted>>

\* The statistics select may notice the cancelled context (345), before and
\* after a block.
CpuLeave(g) ==
  /\ pc[CpuLoop(g)] \in {"mine", "stats"} /\ Cancelled(g)
  /\ Goto(CpuLoop(g), "exited")
  /\ Forget(CpuLoop(g))
  /\ UNCHANGED <<genVars, pollVars, tmplVars, trigger, tip, submitted>>

\* Mutant of CpuSeeStop: the workers look at the context only.
CpuSeeStop_CtxOnly(g) ==
  /\ pc[CpuLoop(g)] = "mine" /\ Cancelled(g)
  /\ ~stopSeen[CpuLoop(g)]
  /\ stopSeen' = [stopSeen EXCEPT ![CpuLoop(g)] = TRUE]
  /\ UNCHANGED <<genVars, pollVars, tmplVars, trigger, pc, snap, buf, out,
                 tip, submitted>>

\* A worker looks at the context or at the stale flag while it is up.
CpuSeeStop(g) ==
  /\ pc[CpuLoop(g)] = "mine" /\ (stale \/ Cancelled(g))
  /\ ~stopSeen[CpuLoop(g)]
  /\ stopSeen' = [stopSeen EXCEPT ![CpuLoop(g)] = TRUE]
  /\ UNCHANGED <<genVars, pollVars, tmplVars, trigger, pc, snap, buf, out,
                 tip, submitted>>

\* mineBlockHashed returns no nonce: continue.
CpuGiveUp(g) ==
  /\ pc[CpuLoop(g)] = "mine" /\ stopSeen[CpuLoop(g)]
  /\ Goto(CpuLoop(g), "top")
  /\ Forget(CpuLoop(g))
  /\ UNCHANGED <<genVars, pollVars, tmplVars, trigger, tip, submitted>>

\* Mutant of CpuFind: the stale flag is lowered when the call returns.
CpuFind_Lowers(g) ==
  /\ pc[CpuLoop(g)] = "mine"
  /\ adopted[snap[CpuLoop(g)]][1] < MaxHeight
  /\ Goto(CpuLoop(g), "found")
  /\ stopSeen' = [stopSeen EXCEPT ![CpuLoop(g)] = FALSE]
  /\ stale' = FALSE
  /\ UNCHANGED <<genVars, pollVars, adopted, rawNonce, hasStale, trigger,
                 snap, buf, out, tip, submitted>>

\* It returns a nonce for the template it was called with.  Bound: nothing is
\* found on a tip of MaxHeight.
CpuFind(g) ==
  /\ pc[CpuLoop(g)] = "mine"
  /\ adopted[snap[CpuLoop(g)]][1] < MaxHeight
  /\ Goto(CpuLoop(g), "found")
  /\ stopSeen' = [stopSeen EXCEPT ![CpuLoop(g)] = FALSE]
  /\ UNCHANGED <<genVars, pollVars, tmplVars, trigger, snap, buf, out, tip,
                 submitted>>

\* Lines 365-369: a nonce found by a cancelled loop is dropped.
CpuCheck(g) ==
  LET a == CpuLoop(g) IN
  /\ pc[a] = "found"
  /\ IF Cancelled(g) THEN Goto(a, "exited") /\ Forget(a)
     ELSE Goto(a, "take") /\ UNCHANGED <<snap, buf, out, stopSeen>>
  /\ UNCHANGED <<genVars, pollVars, tmplVars, trigger, tip, submitted>>

\* Lines 371-375: the nonce goes into the raw buffer that templateState holds now.
CpuWriteNonce(g) ==
  /\ pc[CpuLoop(g)] = "take"
  /\ TakeRaw(CpuLoop(g))
  /\ UNCHANGED <<genVars, pollVars, adopted, stale, hasStale, trigger,
                 tip, submitted>>

\* Mutant of CpuPark: hasStale stays up after a submission.
CpuPark_Skipped(g) ==
  /\ pc[CpuLoop(g)] = "park"
  /\ Goto(CpuLoop(g), "stats")
  /\ UNCHANGED <<genVars, pollVars, tmplVars, trigger, snap, buf, out, stopSeen,
                 tip, submitted>>

\* Lines 396-398.
CpuPark(g) ==
  /\ pc[CpuLoop(g)] = "park"
  /\ hasStale' = FALSE
  /\ Goto(CpuLoop(g), "stats")
  /\ UNCHANGED <<genVars, pollVars, adopted, rawNonce, stale, trigger,
                 snap, buf, out, stopSeen, tip, submitted>>

\* The statistics are sent, or dropped when the channel is full (411).
CpuStats(g) ==
  /\ pc[CpuLoop(g)] = "stats"
  /\ Goto(CpuLoop(g), "top")
  /\ UNCHANGED <<genVars, pollVars, tmplVars, trigger, snap, buf, out, stopSeen,
                 tip, submitted>>

-----------------------------------------------------------------------------
(* The GPU loop of generation g. *)

\* Mutant of GpuTop: the wait for a template does not end with the context.
GpuTop_Waits(g) ==
  /\ pc[GpuLoop(g)] = "top" /\ hasStale
  /\ Goto(GpuLoop(g), IF Cancelled(g) THEN "exited" ELSE "look")
  /\ UNCHANGED <<genVars, pollVars, tmplVars, trigger, snap, buf, out, stopSeen, tip,
                 submitted>>

\* Lines 159-163, the context.
GpuTop(g) ==
  /\ pc[GpuLoop(g)] = "top"
  /\ Goto(GpuLoop(g), IF Cancelled(g) THEN "exited" ELSE "look")
  /\ UNCHANGED <<genVars, pollVars, tmplVars, trigger, snap, buf, out, stopSeen, tip,
                 submitted>>

\* Lines 165-178, the template under the lock; without one it waits 100 ms or
\* until the context is cancelled, and begins again.
GpuSnapshot(g) ==
  LET a == GpuLoop(g) IN
  /\ pc[a] = "look"
  /\ IF hasStale THEN Goto(a, "hash") /\ snap' = [snap EXCEPT ![a] = Cur]
     ELSE Goto(a, IF Cancelled(g) THEN "exited" ELSE "top") /\ UNCHANGED snap
  /\ UNCHANGED <<genVars, pollVars, tmplVars, trigger, buf, out, stopSeen, tip,
                 submitted>>

\* A batch fails and gm.Reset begins: the GPU is down until it has succeeded.
GpuDown(g) ==
  /\ pc[GpuLoop(g)] \in {"hash", "bench"} /\ gpuUp
  /\ gpuUp' = FALSE
  /\ UNCHANGED <<gen, quit, mode, pollVars, tmplVars, trigger, loopVars, tip,
                 submitted>>

\* The reset ends, in success or not.  The RPC loop then pauses for a second or
\* until the context is cancelled, the bench loop looks at the context.
GpuReset(g) ==
  LET a == GpuLoop(g) IN
  /\ pc[a] \in {"hash", "bench"} /\ ~gpuUp
  /\ gpuUp' \in BOOLEAN
  /\ \/ pc[a] = "hash" /\ Goto(a, "top")
     \/ pc[a] = "bench" /\ ~Cancelled(g) /\ UNCHANGED pc
     \/ Cancelled(g) /\ Goto(a, "exited")
  /\ Forget(a)
  /\ UNCHANGED <<gen, quit, mode, pollVars, tmplVars, trigger, tip, submitted>>

\* gm.Hash returns the batch's hashes.
GpuHash(g) ==
  /\ pc[GpuLoop(g)] = "hash" /\ gpuUp
  /\ Goto(GpuLoop(g), "scan")
  /\ UNCHANGED <<genVars, pollVars, tmplVars, trigger, snap, buf, out, stopSeen,
                 tip, submitted>>

\* Lines 210-214: the batch is dropped when the stale flag is up, or holds no
\* hit.  Whether it does is left open: its first nonce and its size change with
\* threads and resets.  Bound: none on a tip of MaxHeight.
GpuScan(g) ==
  LET a == GpuLoop(g) IN
  /\ pc[a] = "scan"
  /\ \/ Goto(a, "top") /\ Forget(a)
     \/ /\ ~stale /\ adopted[snap[a]][1] < MaxHeight
        /\ Goto(a, "take") /\ UNCHANGED <<snap, buf, out, stopSeen>>
  /\ UNCHANGED <<genVars, pollVars, tmplVars, trigger, tip, submitted>>

\* Lines 215-221: the hit goes into the raw buffer that templateState holds now.
GpuWriteNonce(g) ==
  /\ pc[GpuLoop(g)] = "take"
  /\ TakeRaw(GpuLoop(g))
  /\ UNCHANGED <<genVars, pollVars, adopted, stale, hasStale, trigger, tip, submitted>>

\* Lines 240-254: the statistics select, then the next batch.
GpuStats(g) ==
  LET a == GpuLoop(g) IN
  /\ pc[a] = "stats"
  /\ \/ Goto(a, "top")
     \/ Cancelled(g) /\ Goto(a, "exited")
  /\ UNCHANGED <<genVars, pollVars, tmplVars, trigger, snap, buf, out, stopSeen,
                 tip, submitted>>

-----------------------------------------------------------------------------
(* A submission, the same code in both loops. *)

\* hex.EncodeToString reads the buffer without the lock: when the other loop
\* has written it meanwhile, it sees either nonce or bytes of both.
Encode(a) ==
  LET own == Solution(a, snap[a])
      now == rawNonce[buf[a]]
  IN
  /\ pc[a] = "encode"
  /\ \E bytes \in IF now = own THEN {own} ELSE {own, now, Torn} :
        out' = [out EXCEPT ![a] = bytes]
  /\ Goto(a, "submit")
  /\ UNCHANGED <<genVars, pollVars, tmplVars, trigger, snap, buf, stopSeen, tip,
                 submitted>>

\* Does the daemon take the block?  It must meet the target and extend the tip.
Valid(a) == out[a].for = buf[a]
Extends(a) == adopted[buf[a]] = tip

NoteSubmission(a) ==
  submitted' = IF a[1] = "cpu" THEN submitted \cup {buf[a]} ELSE submitted

\* SubmitBlock reaches the daemon, which extends its chain or refuses; the
\* answer, or a lost one, only moves the counters.
Submit(a) ==
  /\ pc[a] = "submit"
  /\ NoteSubmission(a)
  /\ IF Valid(a) /\ Extends(a)
     THEN tip' = <<tip[1] + 1, 0>>
     ELSE UNCHANGED tip
  /\ Goto(a, "trigger") /\ Forget(a)
  /\ UNCHANGED <<genVars, pollVars, tmplVars, trigger>>

\* SubmitBlock fails before the daemon sees it: counted as rejected.
SubmitLost(a) ==
  /\ RPCErrors /\ pc[a] = "submit"
  /\ NoteSubmission(a)
  /\ Goto(a, "trigger") /\ Forget(a)
  /\ UNCHANGED <<genVars, pollVars, tmplVars, trigger, tip>>

\* The non-blocking send to pollTrigger.
Trigger(a) ==
  /\ pc[a] = "trigger"
  /\ trigger' = TRUE
  /\ Goto(a, IF a[1] = "cpu" THEN "park" ELSE "stats")
  /\ UNCHANGED <<genVars, pollVars, tmplVars, snap, buf, out, stopSeen, tip,
                 submitted>>

Submission(a) == Encode(a) \/ Submit(a) \/ SubmitLost(a) \/ Trigger(a)

-----------------------------------------------------------------------------
(* The rest of the network, as the daemon sees it. *)

OtherBlock ==
  /\ tip[1] < MaxHeight
  /\ tip' = <<tip[1] + 1, 0>>
  /\ UNCHANGED <<genVars, pollVars, tmplVars, trigger, loopVars, submitted>>

\* A sibling of the tip wins: same height, other parent for the next block.
OtherBranch ==
  /\ tip[1] > 0 /\ tip[2] < MaxBranch
  /\ tip' = <<tip[1], tip[2] + 1>>
  /\ UNCHANGED <<genVars, pollVars, tmplVars, trigger, loopVars, submitted>>

Keys    == PressMode \/ PressRestart \/ PressQuit
Network == OtherBlock \/ OtherBranch

CpuStep(g) == \/ CpuTop(g) \/ CpuSnapshot(g) \/ CpuLeave(g)
              \/ CpuSeeStop(g) \/ CpuGiveUp(g) \/ CpuFind(g)
              \/ CpuCheck(g) \/ CpuWriteNonce(g) \/ CpuPark(g) \/ CpuStats(g)
GpuStep(g) == \/ GpuTop(g) \/ GpuSnapshot(g) \/ GpuHash(g) \/ GpuReset(g)
              \/ GpuScan(g) \/ GpuWriteNonce(g) \/ GpuStats(g)

Next == \/ Keys \/ Network
        \/ \E g \in Gens : Boot(g) \/ Poller(g) \/ CpuStep(g) \/ GpuStep(g)
                           \/ GpuDown(g)
        \/ \E a \in Actors : BenchEnd(a) \/ Submission(a)

\* Every goroutine that can run runs; the HTTP client's 30 s timeout ends
\* every call, and a call made again and again is answered at last.  Nobody
\* must find a block, press a key or extend the chain.  mineBlockHashed comes
\* back when its reason to stop stays (StaleEndsCall, CancelDrains of
\* WorkerPool), hence the conjunct at CpuGiveUp.  Go's select picks at random
\* among the cases that are ready, so that a poller whose context is cancelled
\* comes to see it.  Hence strong fairness of PollAdopt, and of PollEnd once the
\* context is cancelled.
CpuGoroutine(g) ==
  LET a == CpuLoop(g) IN
  \/ Boot(g) \/ BenchEnd(a) \/ CpuTop(g) \/ CpuSnapshot(g) \/ CpuSeeStop(g)
  \/ CpuGiveUp(g) /\ (stale \/ Cancelled(g))
  \/ CpuCheck(g) \/ CpuWriteNonce(g) \/ Submission(a) \/ CpuPark(g) \/ CpuStats(g)

GpuGoroutine(g) == LET a == GpuLoop(g) IN
  BenchEnd(a) \/ GpuStep(g) \/ Submission(a)

Fairness == \A g \in Gens :
  /\ WF_vars(CpuGoroutine(g)) /\ WF_vars(GpuGoroutine(g)) /\ WF_vars(Poller(g))
  /\ SF_vars(PollEnd(g) \/ (PollAdopt(g) /\ ~Cancelled(g)))

Spec     == Init /\ [][Next]_vars
FairSpec == Spec /\ Fairness

-----------------------------------------------------------------------------
(* Properties. *)

CpuPcs == {"unborn", "boot", "bench", "top", "snap", "mine", "found", "take",
           "encode", "submit", "trigger", "park", "stats", "exited"}
GpuPcs == {"unborn", "bench", "top", "look", "hash", "scan", "take", "encode",
           "submit", "trigger", "stats", "exited"}

TypeOK ==
  /\ gen \in Gens
  /\ {quit, gpuUp, stale, hasStale, trigger} \subseteq BOOLEAN
  /\ mode \in Modes
  /\ pc \in [Actors -> CpuPcs \cup GpuPcs]
  /\ \A g \in Gens : pc[CpuLoop(g)] \in CpuPcs /\ pc[GpuLoop(g)] \in GpuPcs
  /\ poller \in [Gens -> {"unborn", "wait", "call", "answer", "exited"}]
  /\ answer \in [Gens -> Tips]
  /\ Cur <= MaxTemplates
  /\ adopted \in Seq(Tips)
  /\ rawNonce \in Seq(NonceBytes) /\ Len(rawNonce) = Cur
  /\ snap \in [Actors -> 0 .. Cur]
  /\ buf \in [Actors -> 0 .. Cur]
  /\ out \in [Actors -> NonceBytes]
  /\ stopSeen \in [Actors -> BOOLEAN]
  /\ tip \in Tips
  /\ submitted \subseteq 1 .. Cur

\* Within one generation the CPU loop never hashes a template that has been
\* replaced without the stale flag being up: no adoption is ever missed,
\* although the flag is lowered by the loop and raised by the poller.
StaleCoversSnapshot ==
  \A g \in Gens : LET a == CpuLoop(g) IN
    pc[a] \in {"mine", "found", "take"} /\ snap[a] # Cur => stale

\* Within one generation a nonce lands in the raw buffer of another template
\* than the one it was found for only when the flag says so at that moment:
\* a look at the flag before the submission would have been enough.
MixedOnlyWhenStale ==
  \A g \in Gens : LET a == CpuLoop(g) IN
    pc[a] \in {"encode", "submit"} /\ snap[a] # buf[a] => stale

\* A template a block was submitted for is never mined again by the CPU loop,
\* with whatever answers and errors the poller and the submission meet.
NeverRemines ==
  [][\A g \in Gens : CpuSnapshot(g) => Cur \notin submitted]_vars

\* run.go:312-413 as TemplateWork states it: within one generation work on a
\* template is given up only once that is replaced or q is pressed, and a
\* template is not taken up again after its submission, even one that was lost.
Work == INSTANCE TemplateWork WITH latest <- Cur, taken <- snap[CpuLoop(1)],
                                   spent <- submitted, stopped <- quit
WorksAsPromised == Work!Spec

\* Whatever keys are pressed while goroutines of earlier generations have yet
\* to read m.mode, the loops whose context is alive are those of the mode.
LiveLoopMatchesMode ==
  \A g \in Gens : ~Cancelled(g) =>
    /\ pc[CpuLoop(g)] # "boot" => (pc[CpuLoop(g)] = "bench" <=> mode # "rpc")
    /\ poller[g] # "unborn" => mode = "rpc"
    /\ pc[GpuLoop(g)] = "bench" => mode = "bench"
    /\ pc[GpuLoop(g)] \notin {"bench", "unborn"} => mode = "rpc"

\* Mining on a replaced template ends.
OutdatedMiningEnds ==
  \A g \in Gens : LET a == CpuLoop(g) IN
    (pc[a] = "mine" /\ snap[a] # Cur) ~> (pc[a] # "mine" \/ snap[a] = Cur)

\* In the end the template is one for the tip's height, in spite of failing
\* calls, late answers of retired pollers and heights that were skipped.
Settles == <>[](quit \/ mode # "rpc" \/ CurHeight = HeightOn(tip))

\* Every goroutine of a cancelled generation ends.
Ended(g) == /\ pc[CpuLoop(g)] \in {"unborn", "exited"}
            /\ pc[GpuLoop(g)] \in {"unborn", "exited"}
            /\ poller[g] \in {"unborn", "exited"}
CancelDrains == \A g \in Gens : (g <= gen /\ Cancelled(g)) ~> Ended(g)

\* HOWTO.md:420-421, "searches a disjoint nonce range, and submits when found":
\* what is submitted is the block whose nonce was found.
SubmitsWhatItFound == \A a \in Actors : pc[a] = "submit" => Valid(a)

\* HOWTO.md:421-422, "After submission the background template poller is
\* triggered immediately (no 500 ms wait)": after a submission the miner goes
\* on mining.
MiningResumes ==
  \A g \in Gens : pc[CpuLoop(g)] = "stats" ~> (pc[CpuLoop(g)] = "mine" \/ Cancelled(g))
=============================================================================
