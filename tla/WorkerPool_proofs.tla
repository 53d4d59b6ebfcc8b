------------------------- MODULE WorkerPool_proofs -------------------------
(***************************************************************************)
(* WorkerPool for every number of workers, nonce space, set of solutions   *)
(* and slice: types, the WaitGroup, the closed channel, the result, and    *)
(* that the pool implements MineCall.                                      *)
(***************************************************************************)
EXTENDS WorkerPool, FiniteSetTheorems, TLAPS

PcSet == {"unborn", "ctx", "stale", "hash", "send", "exit", "exited"}

\* Lines 90-125 in order: the workers first, then the closer, then the range
\* loop; the channel is closed by the closer's last step.
Phases ==
  /\ \A w \in Workers : pc[w] = "unborn" <=> w >= spawned
  /\ caller = "spawn" <=> closer = "unborn"
  /\ caller # "spawn" => spawned = NumWorkers
  /\ closed <=> closer = "done"
  /\ caller \in {"spawn", "range"} => ~result.ok

\* The WaitGroup counts the workers that have not ended; past it, none is left.
Group ==
  /\ wg = Cardinality(Running)
  /\ closer \in {"close", "done"} => \A w \in Workers : pc[w] = "exited"
  /\ ~panicked

\* A hit is being sent, in the buffer, or returned.
Hits ==
  /\ hits \subseteq Solutions \cap hashed
  /\ \A w \in Workers : pc[w] = "send" => nonce[w] \in hits
  /\ resc \subseteq hits
  /\ result.ok => result.nonce \in hits
  /\ hits # {} => \/ \E w \in Workers : pc[w] = "send"
                  \/ resc # {}
                  \/ result.ok

\* Workers leave for a reason; the caller gives up on an empty closed channel.
Reasons ==
  /\ ctxDone \/ stale => stopSeen
  /\ \A w \in Workers : pc[w] \in {"exit", "exited"} => stopSeen \/ hits # {}
  /\ Returned /\ ~result.ok => closed /\ resc = {}

IInv == TypeOK /\ Phases /\ Group /\ Hits /\ Reasons

-----------------------------------------------------------------------------
(* The set of the running workers is finite, and grows and shrinks by one. *)

LEMMA RunningFinite == IsFiniteSet(Running) /\ Cardinality(Running) \in Nat
<1>1. IsFiniteSet(Workers)
  BY FS_Interval, WorkersAssumption DEF Workers
<1>2. Running \subseteq Workers
  BY DEF Running
<1> QED
  BY <1>1, <1>2, FS_Subset, FS_CardinalityType

\* One worker joins the running ones: the WaitGroup's Add.
LEMMA RunningGrows ==
  ASSUME NEW w \in Workers, w \notin Running, Running' = Running \cup {w}
  PROVE  Cardinality(Running') = Cardinality(Running) + 1
BY RunningFinite, FS_AddElement

\* One worker leaves them: its Done.
LEMMA RunningShrinks ==
  ASSUME NEW w \in Workers, w \in Running, Running' = Running \ {w}
  PROVE  /\ Cardinality(Running) # 0
         /\ Cardinality(Running') = Cardinality(Running) - 1
<1>1. Cardinality(Running) # 0
  BY RunningFinite, FS_EmptySet
<1>2. Cardinality(Running') = Cardinality(Running) - 1
  BY RunningFinite, FS_RemoveElement
<1> QED
  BY <1>1, <1>2

-----------------------------------------------------------------------------
(* Types. *)

LEMMA NonceArithmetic ==
  /\ \A w \in Workers : First(w) \in Nonces
  /\ \A n \in Nonces : (n + Step) % NonceSpace \in Nonces
<1>1. \A a \in Nat : a % NonceSpace \in 0 .. NonceSpace - 1
  BY NonceAssumption
<1>2. SlotsPerMiner * TotalMiners \in Nat /\ MinerID * SlotsPerMiner \in Nat
  BY SliceAssumption
<1>3. Step \in Nat
  BY <1>1, <1>2, NonceAssumption DEF Step
<1>4. \A w \in Workers : MinerID * SlotsPerMiner + w \in Nat
  BY <1>2, WorkersAssumption DEF Workers
<1>5. \A n \in Nonces : n + Step \in Nat
  BY <1>3, NonceAssumption DEF Nonces
<1> QED
  BY <1>1, <1>4, <1>5 DEF First, Nonces

\* Every variable keeps its type, the WaitGroup never leaves Nat, and nonces
\* stay in the 32-bit space however often a worker advances.
THEOREM TypeCorrect == Spec => []TypeOK
<1>1. Init => TypeOK
  <2> SUFFICES ASSUME Init PROVE TypeOK
    OBVIOUS
  <2>1. nonce \in [Workers -> Nonces]
    BY NonceArithmetic DEF Init
  <2>2. spawned \in 0 .. NumWorkers
    BY WorkersAssumption DEF Init
  <2>3. {closed, ctxDone, stale, panicked, stopSeen} \subseteq BOOLEAN
    BY DEF Init
  <2> QED
    BY <2>1, <2>2, <2>3 DEF Init, TypeOK
<1>2. TypeOK /\ [Next]_vars => TypeOK'
  <2> SUFFICES ASSUME TypeOK, [Next]_vars PROVE TypeOK'
    OBVIOUS
  <2> USE DEF TypeOK, poolVars, chanVars, flagVars
  <2>1. CASE Spawn
    <3>1. spawned' \in 0 .. NumWorkers
      BY <2>1, WorkersAssumption DEF Spawn
    <3>2. pc' \in [Workers -> PcSet]
      BY <2>1 DEF Spawn, PcSet
    <3>3. wg' \in Nat
      BY <2>1 DEF Spawn
    <3> QED
      BY <2>1, <3>1, <3>2, <3>3 DEF Spawn, PcSet
  <2>2. CASE StartCloser
    BY <2>2 DEF StartCloser
  <2>3. CASE ReturnFirst
    BY <2>3 DEF ReturnFirst
  <2>4. CASE ReturnNone
    BY <2>4 DEF ReturnNone
  <2>5. CASE MiningCancel
    BY <2>5 DEF MiningCancel
  <2>6. CASE Closer
    BY <2>6 DEF Closer, CloserWait, CloserClose
  <2>7. CASE Others
    BY <2>7 DEF Others, CancelParent, RaiseStale, ClearStale
  <2>8. ASSUME NEW w \in Workers, Worker(w) PROVE TypeOK'
    <3>1. CASE CheckCtx(w)
      BY <3>1 DEF CheckCtx, Goto
    <3>2. CASE CheckStale(w)
      BY <3>2 DEF CheckStale, Goto
    <3>3. CASE HashError(w)
      BY <3>3, NonceArithmetic DEF HashError, Advance, Goto
    <3>4. CASE HashMiss(w)
      BY <3>4, NonceArithmetic DEF HashMiss, Advance, Goto
    <3>5. CASE HashHit(w)
      BY <3>5 DEF HashHit, Goto
    <3>6. CASE Send(w)
      BY <3>6 DEF Send, Goto
    <3>7. CASE Done(w)
      BY <3>7 DEF Done, Goto
    <3> QED
      BY <2>8, <3>1, <3>2, <3>3, <3>4, <3>5, <3>6, <3>7 DEF Worker
  <2>9. CASE UNCHANGED vars
    BY <2>9 DEF vars
  <2> QED
    BY <2>1, <2>2, <2>3, <2>4, <2>5, <2>6, <2>7, <2>8, <2>9 DEF Next, Caller
<1> QED
  BY <1>1, <1>2, PTL DEF Spec

-----------------------------------------------------------------------------
(* The strengthened invariant, one lemma for each of its parts. *)

LEMMA PhasesStep == TypeOK /\ Phases /\ [Next]_vars => Phases'
<1> SUFFICES ASSUME TypeOK, Phases, [Next]_vars PROVE Phases'
  OBVIOUS
<1> USE DEF Phases, poolVars, chanVars, flagVars
<1>1. CASE Spawn
  <2>1. spawned \in Workers /\ spawned' = spawned + 1
    BY <1>1, WorkersAssumption DEF Spawn, TypeOK, Workers
  <2>2. \A w \in Workers : pc'[w] = IF w = spawned THEN "ctx" ELSE pc[w]
    BY <1>1 DEF Spawn, TypeOK
  <2>3. \A w \in Workers : pc'[w] = "unborn" <=> w >= spawned'
    BY <2>1, <2>2 DEF Workers
  <2> QED
    BY <1>1, <2>3 DEF Spawn
<1>2. CASE StartCloser
  BY <1>2 DEF StartCloser, TypeOK
<1>3. CASE ReturnFirst
  BY <1>3 DEF ReturnFirst
<1>4. CASE ReturnNone
  BY <1>4 DEF ReturnNone
<1>5. CASE MiningCancel
  BY <1>5 DEF MiningCancel
<1>6. CASE Closer
  BY <1>6 DEF Closer, CloserWait, CloserClose
<1>7. CASE Others
  BY <1>7 DEF Others, CancelParent, RaiseStale, ClearStale
<1>8. ASSUME NEW w \in Workers, Worker(w) PROVE Phases'
  <2>1. /\ pc[w] # "unborn"
        /\ UNCHANGED <<caller, spawned, closer, result, closed>>
        /\ \E label \in PcSet \ {"unborn"} : pc' = [pc EXCEPT ![w] = label]
    BY <1>8 DEF Worker, CheckCtx, CheckStale, HashError, HashMiss, HashHit,
                Send, Done, Goto, PcSet
  <2> QED
    BY <2>1 DEF TypeOK
<1>9. CASE UNCHANGED vars
  BY <1>9 DEF vars
<1> QED
  BY <1>1, <1>2, <1>3, <1>4, <1>5, <1>6, <1>7, <1>8, <1>9 DEF Next, Caller

LEMMA GroupStep == TypeOK /\ Phases /\ Group /\ [Next]_vars => Group'
<1> SUFFICES ASSUME TypeOK, Phases, Group, [Next]_vars PROVE Group'
  OBVIOUS
<1> USE DEF Group, poolVars, chanVars, flagVars
<1>1. CASE Spawn
  <2>1. spawned \in Workers
    BY <1>1, WorkersAssumption DEF Spawn, TypeOK, Workers
  <2>2. pc[spawned] = "unborn"
    BY <2>1 DEF Phases, TypeOK, Workers
  <2>3. Running' = Running \cup {spawned} /\ spawned \notin Running
    BY <1>1, <2>1, <2>2 DEF Spawn, Running, TypeOK
  <2>4. wg' = Cardinality(Running')
    BY <1>1, <2>1, <2>3, RunningGrows DEF Spawn
  <2> QED
    BY <1>1, <2>4 DEF Spawn, Phases
<1>2. CASE StartCloser
  BY <1>2 DEF StartCloser, Running
<1>3. CASE ReturnFirst
  BY <1>3 DEF ReturnFirst, Running
<1>4. CASE ReturnNone
  BY <1>4 DEF ReturnNone, Running
<1>5. CASE MiningCancel
  BY <1>5 DEF MiningCancel, Running
<1>6. CASE CloserWait
  <2>1. Running = {}
    BY <1>6, RunningFinite, FS_EmptySet DEF CloserWait
  <2>2. \A w \in Workers : pc[w] # "unborn"
    BY <1>6, WorkersAssumption DEF CloserWait, Phases, Workers
  <2>3. \A w \in Workers : pc[w] = "exited"
    BY <2>1, <2>2 DEF Running
  <2> QED
    BY <1>6, <2>3 DEF CloserWait, Running
<1>7. CASE CloserClose
  BY <1>7 DEF CloserClose, Running
<1>8. CASE Others
  BY <1>8 DEF Others, CancelParent, RaiseStale, ClearStale, Running
<1>9. ASSUME NEW w \in Workers, Worker(w) PROVE Group'
  <2>1. pc[w] \notin {"unborn", "exited"} /\ closer' = closer
    BY <1>9 DEF Worker, CheckCtx, CheckStale, HashError, HashMiss, HashHit,
                Send, Done, Goto
  <2>2. closer \notin {"close", "done"} /\ ~closed
    BY <2>1 DEF Phases
  <2>3. CASE Done(w)
    <3>1. Running' = Running \ {w} /\ w \in Running
      BY <2>1, <2>3 DEF Done, Goto, Running, TypeOK
    <3>2. wg # 0 /\ wg' = wg - 1 /\ ~panicked'
      BY <2>3, <3>1, RunningShrinks DEF Done
    <3> QED
      BY <2>1, <2>2, <3>1, <3>2, RunningShrinks
  <2>4. CASE ~Done(w)
    <3>1. /\ wg' = wg
          /\ \E label \in PcSet \ {"unborn", "exited"} : pc' = [pc EXCEPT ![w] = label]
      BY <1>9, <2>4 DEF Worker, CheckCtx, CheckStale, HashError, HashMiss,
                        HashHit, Send, Goto, PcSet
    <3>2. Running' = Running
      BY <2>1, <3>1 DEF Running, TypeOK
    <3>3. ~panicked'
      BY <1>9, <2>2, <2>4 DEF Worker, CheckCtx, CheckStale, HashError, HashMiss,
                              HashHit, Send, Goto
    <3> QED
      BY <2>1, <2>2, <3>1, <3>2, <3>3
  <2> QED
    BY <2>3, <2>4
<1>10. CASE UNCHANGED vars
  BY <1>10 DEF vars, Running
<1> QED
  BY <1>1, <1>2, <1>3, <1>4, <1>5, <1>6, <1>7, <1>8, <1>9, <1>10
     DEF Next, Caller, Closer

LEMMA HitsStep == TypeOK /\ Phases /\ Group /\ Hits /\ [Next]_vars => Hits'
<1> SUFFICES ASSUME TypeOK, Phases, Group, Hits, [Next]_vars PROVE Hits'
  OBVIOUS
<1> USE DEF Hits, poolVars, chanVars, flagVars
<1>1. CASE Spawn
  <2>1. \A w \in Workers : pc'[w] = "send" => pc[w] = "send"
    BY <1>1 DEF Spawn, TypeOK
  <2>2. \A w \in Workers : pc[w] = "send" => pc'[w] = "send"
    BY <1>1 DEF Spawn, Phases, TypeOK, Workers
  <2> QED
    BY <1>1, <2>1, <2>2 DEF Spawn
<1>2. CASE StartCloser
  BY <1>2 DEF StartCloser
<1>3. CASE ReturnFirst
  <2>1. PICK n \in resc : result' = Call!Found(n) /\ resc' = resc \ {n}
    BY <1>3 DEF ReturnFirst
  <2>2. result'.ok /\ result'.nonce = n
    BY <2>1 DEF Call!Found
  <2> QED
    BY <1>3, <2>1, <2>2 DEF ReturnFirst
<1>4. CASE ReturnNone
  BY <1>4 DEF ReturnNone
<1>5. CASE MiningCancel
  BY <1>5 DEF MiningCancel
<1>6. CASE Closer
  BY <1>6 DEF Closer, CloserWait, CloserClose
<1>7. CASE Others
  BY <1>7 DEF Others, CancelParent, RaiseStale, ClearStale
<1>8. ASSUME NEW w \in Workers, Worker(w) PROVE Hits'
  <2>1. CASE CheckCtx(w)
    BY <2>1 DEF CheckCtx, Goto, TypeOK
  <2>2. CASE CheckStale(w)
    BY <2>2 DEF CheckStale, Goto, TypeOK
  <2>3. CASE HashError(w)
    BY <2>3 DEF HashError, Advance, Goto, TypeOK
  <2>4. CASE HashMiss(w)
    BY <2>4 DEF HashMiss, Advance, Goto, TypeOK
  <2>5. CASE HashHit(w)
    BY <2>5 DEF HashHit, Goto, TypeOK
  <2>6. CASE Send(w)
    <3>1. ~closed
      BY <2>6 DEF Send, Phases, Group
    <3>2. resc' # {} /\ resc' \subseteq hits
      BY <2>6, <3>1 DEF Send
    <3>3. \A v \in Workers : pc'[v] = "send" => pc[v] = "send"
      BY <2>6 DEF Send, Goto, TypeOK
    <3> QED
      BY <2>6, <3>2, <3>3 DEF Send
  <2>7. CASE Done(w)
    BY <2>7 DEF Done, Goto, TypeOK
  <2> QED
    BY <1>8, <2>1, <2>2, <2>3, <2>4, <2>5, <2>6, <2>7 DEF Worker
<1>9. CASE UNCHANGED vars
  BY <1>9 DEF vars
<1> QED
  BY <1>1, <1>2, <1>3, <1>4, <1>5, <1>6, <1>7, <1>8, <1>9 DEF Next, Caller

LEMMA ReasonsStep ==
  TypeOK /\ Phases /\ Group /\ Hits /\ Reasons /\ [Next]_vars => Reasons'
<1> SUFFICES ASSUME TypeOK, Phases, Group, Hits, Reasons, [Next]_vars
             PROVE  Reasons'
  OBVIOUS
<1> USE DEF Reasons, Returned, poolVars, chanVars, flagVars
<1>1. CASE Spawn
  <2>1. \A w \in Workers : pc'[w] \in {"exit", "exited"} => pc[w] = pc'[w]
    BY <1>1 DEF Spawn, TypeOK
  <2> QED
    BY <1>1, <2>1 DEF Spawn
<1>2. CASE StartCloser
  BY <1>2 DEF StartCloser
<1>3. CASE ReturnFirst
  <2>1. result'.ok
    BY <1>3 DEF ReturnFirst, Call!Found
  <2> QED
    BY <1>3, <2>1 DEF ReturnFirst
<1>4. CASE ReturnNone
  BY <1>4 DEF ReturnNone
<1>5. CASE MiningCancel
  BY <1>5 DEF MiningCancel
<1>6. CASE Closer
  BY <1>6 DEF Closer, CloserWait, CloserClose
<1>7. CASE Others
  BY <1>7 DEF Others, CancelParent, RaiseStale, ClearStale, TypeOK
<1>8. ASSUME NEW w \in Workers, Worker(w) PROVE Reasons'
  <2>1. ~closed
    BY <1>8 DEF Phases, Group, Worker, CheckCtx, CheckStale, HashError, HashMiss,
                HashHit, Send, Done
  <2>2. ~(Returned /\ ~result.ok)'
    BY <1>8, <2>1 DEF Worker, CheckCtx, CheckStale, HashError, HashMiss,
                      HashHit, Send, Done
  <2>3. (ctxDone \/ stale => stopSeen)' /\ stopSeen' = stopSeen /\ hits \subseteq hits'
    BY <1>8 DEF Worker, CheckCtx, CheckStale, HashError, HashMiss, HashHit,
                Send, Done
  <2>4. \A v \in Workers : v # w => pc'[v] = pc[v]
    BY <1>8 DEF Worker, CheckCtx, CheckStale, HashError, HashMiss, HashHit,
                Send, Done, Goto, TypeOK
  <2>5. pc'[w] \in {"exit", "exited"} => stopSeen \/ hits # {}
    <3>1. CASE CheckCtx(w) \/ CheckStale(w)
      BY <3>1 DEF CheckCtx, CheckStale, Goto, TypeOK
    <3>2. CASE HashError(w) \/ HashMiss(w) \/ HashHit(w)
      BY <3>2 DEF HashError, HashMiss, HashHit, Goto, TypeOK
    <3>3. CASE Send(w)
      BY <3>3 DEF Send, Hits
    <3>4. CASE Done(w)
      BY <3>4 DEF Done
    <3> QED
      BY <1>8, <3>1, <3>2, <3>3, <3>4 DEF Worker
  <2> QED
    BY <2>2, <2>3, <2>4, <2>5
<1>9. CASE UNCHANGED vars
  BY <1>9 DEF vars
<1> QED
  BY <1>1, <1>2, <1>3, <1>4, <1>5, <1>6, <1>7, <1>8, <1>9 DEF Next, Caller

LEMMA InitIInv == Init => Phases /\ Group /\ Hits /\ Reasons
<1> SUFFICES ASSUME Init PROVE Phases /\ Group /\ Hits /\ Reasons
  OBVIOUS
<1>1. ~result.ok
  BY DEF Init, Call!NoNonce
<1>2. Phases
  BY <1>1 DEF Init, Phases, Workers
<1>3. Running = {}
  BY DEF Init, Running
<1>4. Group
  BY <1>3, FS_EmptySet DEF Init, Group
<1>5. Hits
  BY <1>1 DEF Init, Hits
<1>6. Reasons
  BY <1>1 DEF Init, Reasons, Returned
<1> QED
  BY <1>2, <1>4, <1>5, <1>6

LEMMA Inductive == Spec => []IInv
<1>1. Init => Phases /\ Group /\ Hits /\ Reasons
  BY InitIInv
<1>2. TypeOK /\ (Phases /\ Group /\ Hits /\ Reasons) /\ [Next]_vars
        => (Phases /\ Group /\ Hits /\ Reasons)'
  BY PhasesStep, GroupStep, HitsStep, ReasonsStep
<1> QED
  BY <1>1, <1>2, TypeCorrect, PTL DEF Spec, IInv

-----------------------------------------------------------------------------
(* What follows from it. *)

\* The channel is never written to after its close and the WaitGroup never goes
\* below zero: mining.go cannot panic here.
THEOREM NeverPanics == Spec => []NoPanic
<1>1. IInv => NoPanic
  BY DEF IInv, Group, NoPanic
<1> QED
  BY <1>1, Inductive, PTL

\* "No nonce" is never returned when a worker has hit.
THEOREM FoundIsNeverLost == Spec => []FoundNotLost
<1>1. IInv => FoundNotLost
  <2> SUFFICES ASSUME IInv, Returned, ~result.ok PROVE hits = {}
    BY DEF FoundNotLost
  <2>1. closed /\ resc = {}
    BY DEF IInv, Reasons
  <2>2. \A w \in Workers : pc[w] # "send"
    BY <2>1 DEF IInv, Phases, Group
  <2> QED
    BY <2>1, <2>2 DEF IInv, Hits
<1> QED
  BY <1>1, Inductive, PTL

\* The nonce returned was hashed by this call and meets the target.
THEOREM ResultIsSound == Spec => []ResultSound
<1>1. IInv => ResultSound
  BY DEF IInv, Hits, ResultSound
<1> QED
  BY <1>1, Inductive, PTL

\* The pool implements MineCall: one answer, a solution or nothing, and nothing
\* only after a reason to stop and without a hit.
THEOREM ImplementsMineCall == Spec => Refines
<1>1. Init => Call!Init
  BY DEF Init, Call!Init
<1>2. IInv /\ [Next]_vars => [Call!Next]_(Call!vars)
  <2> SUFFICES ASSUME IInv, [Next]_vars PROVE [Call!Next]_(Call!vars)
    OBVIOUS
  <2> USE DEF poolVars, chanVars, flagVars, Call!vars
  <2>1. CASE Spawn \/ StartCloser
    BY <2>1 DEF Spawn, StartCloser
  <2>2. CASE ReturnFirst
    <3>1. PICK n \in resc : result' = Call!Found(n)
      BY <2>2 DEF ReturnFirst
    <3>2. n \in Solutions /\ hits # {}
      BY <3>1 DEF IInv, Hits
    <3>3. Call!ReturnFound
      BY <2>2, <3>1, <3>2 DEF ReturnFirst, Call!ReturnFound
    <3> QED
      BY <3>3 DEF Call!Next
  <2>3. CASE ReturnNone
    <3>1. \A w \in Workers : pc[w] = "exited"
      BY <2>3 DEF ReturnNone, IInv, Phases, Group
    <3>2. ~result.ok
      BY <2>3 DEF ReturnNone, IInv, Phases
    <3>3. hits = {}
      BY <2>3, <3>1, <3>2 DEF ReturnNone, IInv, Hits
    <3>4. 0 \in Workers
      BY WorkersAssumption DEF Workers
    <3>5. stopSeen
      BY <3>1, <3>3, <3>4 DEF IInv, Reasons
    <3>6. Call!GiveUp
      BY <2>3, <3>3, <3>5 DEF ReturnNone, Call!GiveUp
    <3> QED
      BY <3>6 DEF Call!Next
  <2>4. CASE MiningCancel
    <3>1. Call!Stop
      BY <2>4 DEF MiningCancel, Call!Stop
    <3> QED
      BY <3>1 DEF Call!Next
  <2>5. CASE Closer
    BY <2>5 DEF Closer, CloserWait, CloserClose
  <2>6. CASE Others
    <3>1. CASE ClearStale
      BY <3>1 DEF ClearStale
    <3>2. CASE CancelParent \/ RaiseStale
      <4>1. Call!Stop
        BY <3>2 DEF CancelParent, RaiseStale, Call!Stop
      <4> QED
        BY <4>1 DEF Call!Next
    <3> QED
      BY <2>6, <3>1, <3>2 DEF Others
  <2>7. ASSUME NEW w \in Workers, Worker(w) PROVE [Call!Next]_(Call!vars)
    <3>1. CASE HashHit(w)
      <4>1. Solutions # {} /\ hits' # {}
        BY <3>1 DEF HashHit
      <4>2. Call!Hit
        BY <3>1, <4>1 DEF HashHit, Call!Hit
      <4> QED
        BY <4>2 DEF Call!Next
    <3>2. CASE ~HashHit(w)
      BY <2>7, <3>2 DEF Worker, CheckCtx, CheckStale, HashError, HashMiss, Send,
                        Done
    <3> QED
      BY <3>1, <3>2
  <2>8. CASE UNCHANGED vars
    BY <2>8 DEF vars
  <2> QED
    BY <2>1, <2>2, <2>3, <2>4, <2>5, <2>6, <2>7, <2>8 DEF Next, Caller
<1> QED
  BY <1>1, <1>2, Inductive, PTL DEF Spec, Call!Spec, Refines
=============================================================================
