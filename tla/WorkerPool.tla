----------------------------- MODULE WorkerPool -----------------------------
(***************************************************************************)
(* One call of mineBlockHashed, src/internal/app/mining.go:82-131.         *)
(*                                                                         *)
(* The caller starts NumWorkers goroutines, each counted in a WaitGroup,   *)
(* then a closer goroutine that waits for the group and closes the result  *)
(* channel, and ranges over that channel: the first result is returned; a  *)
(* channel closed while empty means "no nonce".  A worker looks at the     *)
(* context, then at the stale flag, then hashes one nonce and steps on; at *)
(* a hit it offers the nonce to the channel (capacity 1, default: drop)    *)
(* and leaves.  The two flags belong to others: the user (a key cancels    *)
(* the context), the template poller (raises stale) and the CPU loop of a  *)
(* retired generation (may still clear stale, see RpcMining).  After the   *)
(* return the caller cancels the call's own context, run.go:359.           *)
(*                                                                         *)
(* The 32-bit nonce is a number modulo NonceSpace; hashing is the lookup   *)
(* "is this nonce in Solutions?".  hashed, the set of the counted nonces,  *)
(* stands for hashCount.                                                   *)
(***************************************************************************)
EXTENDS Naturals, FiniteSets

CONSTANTS
  NumWorkers,     \* workers: the number of CPU threads
  NonceSpace,     \* 2^32 in the program
  Solutions,      \* the nonces whose hash meets the target
  MinerID, TotalMiners, SlotsPerMiner,
  SharedFlag      \* TRUE: another generation may clear the stale flag

\* NewModel raises threads to at least 1 (app.go:145-148).
ASSUME WorkersAssumption == NumWorkers \in Nat \ {0}
ASSUME NonceAssumption   == /\ NonceSpace \in Nat \ {0}
                            /\ Solutions \subseteq 0 .. NonceSpace - 1
ASSUME SliceAssumption   == /\ MinerID \in Nat
                            /\ TotalMiners \in Nat
                            /\ SlotsPerMiner \in Nat
ASSUME FlagAssumption    == SharedFlag \in BOOLEAN

Workers == 0 .. NumWorkers - 1
Nonces  == 0 .. NonceSpace - 1

Step     == (SlotsPerMiner * TotalMiners) % NonceSpace
First(w) == (MinerID * SlotsPerMiner + w) % NonceSpace

VARIABLES
  caller,     \* "spawn", "range", "returned" or "cancelled"
  spawned,    \* how many workers have been started
  pc,         \* pc[w]: where worker w is
  nonce,      \* nonce[w]: its loop variable
  wg,         \* the WaitGroup's counter
  closer,     \* "unborn", "wait", "close" or "done"
  resc,       \* the result channel's buffer: a set of at most one nonce
  closed,     \* is the result channel closed?
  result,     \* what the call returned
  ctxDone,    \* is the call's context cancelled?
  stale,      \* the template's stale flag
  panicked,   \* a send on a closed channel, or a negative WaitGroup
  hashed,     \* the nonces hashed and counted so far
  hits,       \* history: the nonces that passed CheckHashTarget
  stopSeen    \* history: was ctxDone or stale ever true since the start?

poolVars == <<caller, spawned, closer, result>>
chanVars == <<resc, closed, panicked>>
flagVars == <<ctxDone, stale, stopSeen>>
vars == <<caller, spawned, pc, nonce, wg, closer, resc, closed, result,
          ctxDone, stale, panicked, hashed, hits, stopSeen>>

Call == INSTANCE MineCall WITH ended <- caller \in {"returned", "cancelled"},
                               res <- result, hit <- hits # {}

Init == /\ caller = "spawn" /\ spawned = 0
        /\ pc = [w \in Workers |-> "unborn"]
        /\ nonce = [w \in Workers |-> First(w)]
        /\ wg = 0 /\ closer = "unborn"
        /\ resc = {} /\ closed = FALSE /\ panicked = FALSE
        /\ result = Call!NoNonce
        /\ ctxDone = FALSE /\ stale \in BOOLEAN
        /\ stopSeen = stale
        /\ hashed = {} /\ hits = {}

-----------------------------------------------------------------------------
(* The caller. *)

\* Mutant of Spawn: the Add is left to the goroutine, which comes too late.
Spawn_NoAdd ==
  /\ caller = "spawn" /\ spawned < NumWorkers
  /\ pc' = [pc EXCEPT ![spawned] = "ctx"]
  /\ spawned' = spawned + 1
  /\ UNCHANGED <<caller, nonce, wg, closer, result, chanVars, flagVars, hashed,
                 hits>>

\* wg.Add(1) and the go statement: nobody reads wg before the loop is over.
Spawn ==
  /\ caller = "spawn" /\ spawned < NumWorkers
  /\ wg' = wg + 1
  /\ pc' = [pc EXCEPT ![spawned] = "ctx"]
  /\ spawned' = spawned + 1
  /\ UNCHANGED <<caller, nonce, closer, result, chanVars, flagVars, hashed, hits>>

StartCloser ==
  /\ caller = "spawn" /\ spawned = NumWorkers
  /\ closer' = "wait" /\ caller' = "range"
  /\ UNCHANGED <<spawned, pc, nonce, wg, result, chanVars, flagVars, hashed, hits>>

\* The first iteration of the range loop returns at once.
ReturnFirst ==
  /\ caller = "range"
  /\ \E n \in resc : /\ result' = Call!Found(n)
                     /\ resc' = resc \ {n}
  /\ caller' = "returned"
  /\ UNCHANGED <<spawned, pc, nonce, wg, closer, closed, panicked, flagVars,
                 hashed, hits>>

\* The loop ends when the channel is closed and empty: return 0, false.
ReturnNone ==
  /\ caller = "range" /\ closed /\ resc = {}
  /\ caller' = "returned"
  /\ UNCHANGED <<spawned, pc, nonce, wg, closer, result, chanVars, flagVars,
                 hashed, hits>>

\* Mutant of MiningCancel: the caller goes on without cancelling the context.
MiningCancel_Forgotten ==
  /\ caller = "returned"
  /\ caller' = "cancelled"
  /\ UNCHANGED <<spawned, pc, nonce, wg, closer, result, chanVars, flagVars,
                 hashed, hits>>

\* miningCancel() right after the call.
MiningCancel ==
  /\ caller = "returned"
  /\ caller' = "cancelled" /\ ctxDone' = TRUE
  /\ stopSeen' = TRUE
  /\ UNCHANGED <<spawned, pc, nonce, wg, closer, result, chanVars, stale,
                 hashed, hits>>

-----------------------------------------------------------------------------
(* A worker. *)

Goto(w, label) == pc' = [pc EXCEPT ![w] = label]

\* Mutant of CheckCtx: the context is not looked at.
CheckCtx_Ignored(w) ==
  /\ pc[w] = "ctx"
  /\ Goto(w, "stale")
  /\ UNCHANGED <<poolVars, nonce, wg, chanVars, flagVars, hashed, hits>>

CheckCtx(w) ==
  /\ pc[w] = "ctx"
  /\ Goto(w, IF ctxDone THEN "exit" ELSE "stale")
  /\ UNCHANGED <<poolVars, nonce, wg, chanVars, flagVars, hashed, hits>>

\* Mutant of CheckStale: the stale flag is not looked at.
CheckStale_Ignored(w) ==
  /\ pc[w] = "stale"
  /\ Goto(w, "hash")
  /\ UNCHANGED <<poolVars, nonce, wg, chanVars, flagVars, hashed, hits>>

CheckStale(w) ==
  /\ pc[w] = "stale"
  /\ Goto(w, IF stale THEN "exit" ELSE "hash")
  /\ UNCHANGED <<poolVars, nonce, wg, chanVars, flagVars, hashed, hits>>

\* Mutant of Advance: a loop variable that does not wrap at 2^32.
Advance_NoWrap(w) == nonce' = [nonce EXCEPT ![w] = @ + Step]

Advance(w) == nonce' = [nonce EXCEPT ![w] = (@ + Step) % NonceSpace]

\* HashHeaderRaw failed: the nonce is skipped and not counted.
HashError(w) ==
  /\ pc[w] = "hash"
  /\ Advance(w) /\ Goto(w, "ctx")
  /\ UNCHANGED <<poolVars, wg, chanVars, flagVars, hashed, hits>>

HashMiss(w) ==
  /\ pc[w] = "hash" /\ nonce[w] \notin Solutions
  /\ hashed' = hashed \cup {nonce[w]}
  /\ Advance(w) /\ Goto(w, "ctx")
  /\ UNCHANGED <<poolVars, wg, chanVars, flagVars, hits>>

\* Mutant of HashHit: the loop variable has moved on when the hit is reported.
HashHit_Moved(w) ==
  /\ pc[w] = "hash" /\ nonce[w] \in Solutions
  /\ hashed' = hashed \cup {nonce[w]}
  /\ hits' = hits \cup {nonce[w]}
  /\ Advance(w) /\ Goto(w, "send")
  /\ UNCHANGED <<poolVars, wg, chanVars, flagVars>>

HashHit(w) ==
  /\ pc[w] = "hash" /\ nonce[w] \in Solutions
  /\ hashed' = hashed \cup {nonce[w]}
  /\ hits' = hits \cup {nonce[w]}
  /\ Goto(w, "send")
  /\ UNCHANGED <<poolVars, nonce, wg, chanVars, flagVars>>

\* Mutant of Send: make(chan result) without a buffer, so that the send is
\* dropped unless the caller already ranges over the channel.
Send_Unbuffered(w) ==
  /\ pc[w] = "send"
  /\ panicked' = (panicked \/ closed)
  /\ resc' = IF resc = {} /\ ~closed /\ caller = "range" THEN {nonce[w]} ELSE resc
  /\ Goto(w, "exit")
  /\ UNCHANGED <<poolVars, nonce, wg, closed, flagVars, hashed, hits>>

\* select { case resc <- result{nonce}: default: }
Send(w) ==
  /\ pc[w] = "send"
  /\ panicked' = (panicked \/ closed)
  /\ resc' = IF resc = {} /\ ~closed THEN {nonce[w]} ELSE resc
  /\ Goto(w, "exit")
  /\ UNCHANGED <<poolVars, nonce, wg, closed, flagVars, hashed, hits>>

\* The deferred wg.Done(): a counter below zero panics.
Done(w) ==
  /\ pc[w] = "exit"
  /\ panicked' = (panicked \/ wg = 0)
  /\ wg' = IF wg = 0 THEN 0 ELSE wg - 1
  /\ Goto(w, "exited")
  /\ UNCHANGED <<poolVars, nonce, resc, closed, flagVars, hashed, hits>>

Worker(w) == \/ CheckCtx(w) \/ CheckStale(w)
             \/ HashError(w) \/ HashMiss(w) \/ HashHit(w)
             \/ Send(w) \/ Done(w)

-----------------------------------------------------------------------------
(* The closer goroutine. *)

\* Mutant of CloserWait: the channel is closed without waiting for the group.
CloserWait_NoWait ==
  /\ closer = "wait"
  /\ closer' = "close"
  /\ UNCHANGED <<caller, spawned, pc, nonce, wg, result, chanVars, flagVars,
                 hashed, hits>>

CloserWait ==
  /\ closer = "wait" /\ wg = 0
  /\ closer' = "close"
  /\ UNCHANGED <<caller, spawned, pc, nonce, wg, result, chanVars, flagVars,
                 hashed, hits>>

CloserClose ==
  /\ closer = "close"
  /\ closed' = TRUE /\ closer' = "done"
  /\ UNCHANGED <<caller, spawned, pc, nonce, wg, result, resc, panicked,
                 flagVars, hashed, hits>>

-----------------------------------------------------------------------------
(* The others. *)

CancelParent ==
  /\ ~ctxDone
  /\ ctxDone' = TRUE /\ stopSeen' = TRUE
  /\ UNCHANGED <<poolVars, pc, nonce, wg, chanVars, stale, hashed, hits>>

RaiseStale ==
  /\ ~stale
  /\ stale' = TRUE /\ stopSeen' = TRUE
  /\ UNCHANGED <<poolVars, pc, nonce, wg, chanVars, ctxDone, hashed, hits>>

ClearStale ==
  /\ SharedFlag /\ stale
  /\ stale' = FALSE
  /\ UNCHANGED <<poolVars, pc, nonce, wg, chanVars, ctxDone, stopSeen,
                 hashed, hits>>

Caller == Spawn \/ StartCloser \/ ReturnFirst \/ ReturnNone \/ MiningCancel
Closer == CloserWait \/ CloserClose
Others == CancelParent \/ RaiseStale \/ ClearStale

Next == Caller \/ Closer \/ Others \/ \E w \in Workers : Worker(w)

\* The Go scheduler runs every runnable goroutine; nothing obliges the user
\* or the poller to act.
Fairness == /\ WF_vars(Caller) /\ WF_vars(Closer)
            /\ \A w \in Workers : WF_vars(Worker(w))

Spec     == Init /\ [][Next]_vars
FairSpec == Spec /\ Fairness

-----------------------------------------------------------------------------
(* Properties. *)

TypeOK ==
  /\ caller \in {"spawn", "range", "returned", "cancelled"}
  /\ spawned \in 0 .. NumWorkers
  /\ pc \in [Workers -> {"unborn", "ctx", "stale", "hash", "send", "exit",
                         "exited"}]
  /\ nonce \in [Workers -> Nonces]
  /\ wg \in Nat
  /\ closer \in {"unborn", "wait", "close", "done"}
  /\ resc \subseteq Nonces
  /\ result \in {Call!NoNonce} \cup {Call!Found(n) : n \in Nonces}
  /\ {closed, ctxDone, stale, panicked, stopSeen} \subseteq BOOLEAN
  /\ hashed \subseteq Nonces
  /\ hits \subseteq Nonces

Returned == caller \in {"returned", "cancelled"}
Running  == {w \in Workers : pc[w] \notin {"unborn", "exited"}}

\* No worker can ever send on the channel after the closer closed it, and the
\* WaitGroup never goes below zero, in whatever order workers are started,
\* stopped and hit: the two ways this code could bring the process down.
NoPanic == ~panicked

\* A hit that some worker made is never reported to the caller as "no nonce",
\* although sends are dropped when the buffer is full and other workers leave
\* because of the stale flag at the same time.
FoundNotLost == Returned /\ ~result.ok => hits = {}

\* The nonce handed to the caller was hashed by a worker of this call and
\* meets the target.
ResultSound == result.ok => result.nonce \in hits \cap hashed \cap Solutions

\* The call does what MineCall promises.
Refines == Call!Spec

\* A cancelled context drains the whole pool: every worker, and the closer.
Drained == caller = "cancelled" /\ closer = "done" /\ Running = {}
CancelDrains == ctxDone ~> Drained

\* A stale flag that stays up ends the call, whatever was found.
StaleEndsCall == <>[]stale => <>Returned

\* The call never leaks a goroutine: once it has answered, all of them end.
NoLeak == Returned ~> Drained
=============================================================================
