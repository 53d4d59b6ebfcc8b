------------------------- MODULE ShareStats_proofs -------------------------
(***************************************************************************)
(* Proofs about ShareStats, for any loops, any channel and any number of   *)
(* restarts: the types, the hash counters, the count of the readers, and    *)
(* what the counters on the screen can be.                                 *)
(***************************************************************************)
EXTENDS ShareStats, SequenceTheorems, TLAPS

LEMMA MessageDropped ==
  ASSUME NEW S, NEW s \in Seq(S), NEW k \in DOMAIN s
  PROVE  RemoveAt(s, k) \in Seq(S) /\ Len(RemoveAt(s, k)) = Len(s) - 1
<1>1. k \in 1 .. Len(s) /\ Len(s) \in Nat
  OBVIOUS
<1>a. /\ \A i \in 1 .. k - 1 : s[i] \in S
      /\ \A i \in k + 1 .. Len(s) : s[i] \in S
  BY <1>1
<1>2. /\ SubSeq(s, 1, k - 1) \in Seq(S) /\ Len(SubSeq(s, 1, k - 1)) = k - 1
      /\ SubSeq(s, k + 1, Len(s)) \in Seq(S)
      /\ Len(SubSeq(s, k + 1, Len(s))) = Len(s) - k
  BY <1>1, <1>a, SubSeqProperties
<1>3. /\ Len(RemoveAt(s, k)) = (k - 1) + (Len(s) - k)
      /\ RemoveAt(s, k) \in Seq(S)
  BY <1>1, <1>2, ConcatProperties DEF RemoveAt
<1> QED
  BY <1>1, <1>3

\* The bounds on rounds and restarts make TypeOK inductive as it is.
LEMMA TypeInit == Init => TypeOK
BY StatsAssumption DEF Init, TypeOK, Counters, Zero, Fields, Outcomes

LEMMA ZeroCounts == Zero \in Counters /\ "found" \in Fields /\ Outcomes \subseteq Fields
BY DEF Zero, Counters, Fields, Outcomes

LEMMA SendTyped ==
  ASSUME TypeOK, NEW msg \in Counters, TrySend(msg)
  PROVE  statsCh' \in Seq(Counters) /\ Len(statsCh') <= Capacity
<1>1. Capacity \in Nat /\ statsCh \in Seq(Counters) /\ Len(statsCh) <= Capacity
  BY StatsAssumption DEF TypeOK
<1> QED
  BY <1>1 DEF TrySend

LEMMA TypeStep == TypeOK /\ [Next]_vars => TypeOK'
<1> SUFFICES ASSUME TypeOK, [Next]_vars PROVE TypeOK'
  OBVIOUS
<1> USE StatsAssumption, ZeroCounts
<1>1. CASE UNCHANGED vars
  BY <1>1 DEF vars, TypeOK
<1>2. ASSUME NEW l \in Loops, LoopStep(l) PROVE TypeOK'
  <2>1. /\ UNCHANGED uiVars /\ UNCHANGED hashCount
    BY <1>2 DEF LoopStep, Announce, Abandon, LoadFound, LoadOutcome, Store, Report
  <2>2. loop' \in [Loops -> {"idle", "mining", "store", "submit", "reply", "report"}]
    BY <1>2 DEF LoopStep, Announce, Abandon, LoadFound, LoadOutcome, Store, Report,
                Goto, TypeOK
  <2>3. rounds' \in [Loops -> 0 .. MaxRounds]
    <3>1. \/ UNCHANGED rounds
          \/ rounds[l] < MaxRounds /\ rounds' = [rounds EXCEPT ![l] = @ + 1]
      BY <1>2 DEF LoopStep, Announce, Abandon, LoadFound, LoadOutcome, Store, Report,
                  Begin
    <3>2. MaxRounds \in Nat /\ rounds \in [Loops -> 0 .. MaxRounds]
      BY DEF TypeOK
    <3>3. rounds[l] < MaxRounds => rounds[l] + 1 \in 0 .. MaxRounds
      BY <3>2
    <3> QED
      BY <3>1, <3>2, <3>3
  <2>4. m' \in Counters
    <3>1. \/ UNCHANGED m
          \/ m' = [m EXCEPT ![field[l]] = reg[l] + 1]
      BY <1>2 DEF LoopStep, Announce, Abandon, LoadFound, LoadOutcome, Store, Report
    <3>2. m \in [Fields -> Nat] /\ reg[l] + 1 \in Nat
      BY DEF TypeOK, Counters
    <3> QED
      BY <3>1, <3>2 DEF Counters
  <2>5. reg' \in [Loops -> Nat] /\ field' \in [Loops -> Fields]
    <3>1. \E n \in Nat : reg' \in {reg, [reg EXCEPT ![l] = n]}
      BY <1>2 DEF LoopStep, Announce, Abandon, LoadFound, LoadOutcome, Store, Report,
                  Load, TypeOK, Counters
    <3>2. \E f \in Fields : field' \in {field, [field EXCEPT ![l] = f]}
      BY <1>2 DEF LoopStep, Announce, Abandon, LoadFound, LoadOutcome, Store, Report,
                  Load
    <3> QED
      BY <3>1, <3>2 DEF TypeOK
  <2>6. statsCh' \in Seq(Counters) /\ Len(statsCh') <= Capacity
    BY <1>2, SendTyped DEF LoopStep, Announce, Abandon, LoadFound, LoadOutcome, Store,
                           Report, TypeOK
  <2>7. happened' \in Counters
    <3>1. happened' \in {happened, [happened EXCEPT ![field[l]] = @ + 1]}
      BY <1>2 DEF LoopStep, Announce, Abandon, LoadFound, LoadOutcome, Store, Report
    <3>2. happened \in [Fields -> Nat]
      BY DEF TypeOK, Counters
    <3> QED
      BY <3>1, <3>2 DEF Counters
  <2> QED
    BY <2>1, <2>2, <2>3, <2>4, <2>5, <2>6, <2>7 DEF uiVars, TypeOK
<1>3. CASE CountHash
  BY <1>3 DEF CountHash, loopVars, uiVars, TypeOK
<1>4. CASE ReaderTake
  <2>1. /\ Head(statsCh) \in Counters /\ Tail(statsCh) \in Seq(Counters)
        /\ Len(Tail(statsCh)) <= Capacity
    BY <1>4 DEF ReaderTake, TypeOK
  <2>2. readers - 1 \in Nat
    BY <1>4 DEF ReaderTake, TypeOK
  <2> QED
    BY <1>4, <2>1, <2>2 DEF ReaderTake, loopVars, TypeOK
<1>5. CASE HandleStats
  <2> PICK k \in DOMAIN taken :
        /\ m' = IF Overwrites(taken[k]) THEN taken[k] ELSE m
        /\ readers' = readers + 1
        /\ taken' = RemoveAt(taken, k)
        /\ UNCHANGED <<loopVars, statsCh, ticks, restarts, hashCount, hashPrev, happened>>
    BY <1>5 DEF HandleStats
  <2>1. taken' \in Seq(Counters)
    BY MessageDropped DEF TypeOK
  <2>2. m' \in Counters
    BY DEF TypeOK
  <2> QED
    BY <2>1, <2>2 DEF loopVars, TypeOK
<1>6. CASE Restart
  BY <1>6 DEF Restart, loopVars, TypeOK
<1>7. CASE Tick
  BY <1>7 DEF Tick, loopVars, TypeOK
<1> QED
  BY <1>1, <1>2, <1>3, <1>4, <1>5, <1>6, <1>7 DEF Next

\* Every counter, message and place is of its type, and the channel never holds
\* more than its capacity.
THEOREM StatsTyped == Spec => []TypeOK
BY TypeInit, TypeStep, PTL DEF Spec

\* updateHashrate never subtracts below zero: the counter and its last value are
\* zeroed in this order, by the one goroutine that reads them.
THEOREM RateNeverWraps == Spec => []NoUnderflow
<1>1. Init => NoUnderflow
  BY DEF Init, NoUnderflow
<1>2. TypeOK /\ NoUnderflow /\ [Next]_vars => NoUnderflow'
  BY DEF TypeOK, NoUnderflow, vars, Next, LoopStep, Announce, Abandon, LoadFound,
         LoadOutcome, Store, Report, CountHash, ReaderTake, HandleStats, Restart, Tick,
         uiVars
<1> QED
  BY <1>1, <1>2, StatsTyped, PTL DEF Spec

\* Readers are neither lost nor created by the messages: one for the start and
\* one for each restart, each waiting or with a message in hand.
THEOREM ReadersAreKept == Spec => []ReadersKept
<1>1. Init => ReadersKept
  BY DEF Init, ReadersKept
<1>2. TypeOK /\ ReadersKept /\ [Next]_vars => ReadersKept'
  <2> SUFFICES ASSUME TypeOK, ReadersKept, [Next]_vars PROVE ReadersKept'
    OBVIOUS
  <2>1. /\ readers \in Nat /\ restarts \in Nat /\ taken \in Seq(Counters)
        /\ Len(taken) \in Nat /\ readers + Len(taken) = 1 + restarts
    BY StatsAssumption DEF TypeOK, ReadersKept
  <2>2. CASE ReaderTake
    <3>1. Head(statsCh) \in Counters
      BY <2>2 DEF ReaderTake, TypeOK
    <3>2. Len(taken') = Len(taken) + 1
      BY <2>1, <2>2, <3>1 DEF ReaderTake
    <3> QED
      BY <2>1, <2>2, <3>2 DEF ReaderTake, ReadersKept
  <2>3. CASE HandleStats
    <3>1. readers' = readers + 1 /\ Len(taken') = Len(taken) - 1 /\ UNCHANGED restarts
      BY <2>1, <2>3, MessageDropped DEF HandleStats
    <3> QED
      BY <2>1, <3>1 DEF ReadersKept
  <2>4. CASE Restart
    BY <2>1, <2>4 DEF Restart, ReadersKept
  <2>5. CASE UNCHANGED <<readers, taken, restarts>>
    BY <2>5 DEF ReadersKept
  <2> QED
    BY <2>2, <2>3, <2>4, <2>5 DEF Next, LoopStep, Announce, Abandon, LoadFound,
       LoadOutcome, Store, Report, CountHash, Tick, uiVars, vars
<1> QED
  BY <1>1, <1>2, StatsTyped, PTL DEF Spec

-----------------------------------------------------------------------------
(* The counters. *)

\* Counters that do not exceed what has happened.
Below == {c \in Counters : \A f \in Fields : c[f] <= happened[f]}

Bounded == /\ m \in Below
           /\ statsCh \in Seq(Below)
           /\ taken \in Seq(Below)
           /\ \A l \in Loops : reg[l] <= happened[field[l]]

LEMMA SubsetSeq ==
  ASSUME NEW S, NEW T, S \subseteq T, NEW s \in Seq(S) PROVE s \in Seq(T)
OBVIOUS

LEMMA BoundedStep == ASSUME TypeOK, Bounded, [Next]_vars PROVE Bounded'
<1> USE ZeroCounts
<1>1. /\ happened \in [Fields -> Nat] /\ happened' \in [Fields -> Nat]
      /\ \A f \in Fields : happened[f] <= happened'[f]
  <2>1. \/ UNCHANGED happened
        \/ \E l \in Loops : happened' = [happened EXCEPT ![field[l]] = @ + 1]
    BY DEF Next, LoopStep, Announce, Abandon, LoadFound, LoadOutcome, Store, Report,
           CountHash, ReaderTake, HandleStats, Restart, Tick, vars
  <2>2. happened \in [Fields -> Nat]
    BY DEF TypeOK, Counters
  <2> QED
    BY <2>1, <2>2
<1>2. Below \subseteq Below'
  <2> SUFFICES ASSUME NEW c \in Below PROVE c \in Below'
    OBVIOUS
  <2>1. c \in [Fields -> Nat] /\ \A f \in Fields : c[f] <= happened[f]
    BY DEF Below, Counters
  <2>2. \A f \in Fields : c[f] <= happened'[f]
    BY <1>1, <2>1
  <2> QED
    BY <2>1, <2>2 DEF Below, Counters
<1>3. m \in Below' /\ statsCh \in Seq(Below') /\ taken \in Seq(Below')
  BY <1>2, SubsetSeq DEF Bounded
<1>4. \A l \in Loops : reg[l] <= happened'[field[l]]
  <2>1. \A l \in Loops : reg[l] \in Nat /\ field[l] \in Fields
    BY DEF TypeOK
  <2> QED
    BY <1>1, <2>1 DEF Bounded
<1>5. Zero \in Below'
  BY <1>1 DEF Below, Zero
<1>6. ASSUME NEW msg \in Below', TrySend(msg) PROVE statsCh' \in Seq(Below')
  BY <1>3, <1>6 DEF TrySend
<1>7. ASSUME NEW l \in Loops, LoopStep(l) PROVE Bounded'
  <2>1. taken' = taken
    BY <1>7 DEF LoopStep, Announce, Abandon, LoadFound, LoadOutcome, Store, Report,
                uiVars
  <2>2. statsCh' \in Seq(Below')
    BY <1>3, <1>5, <1>6, <1>7 DEF LoopStep, Announce, Abandon, LoadFound, LoadOutcome,
                                  Store, Report
  <2>3. m' \in Below'
    <3>1. CASE UNCHANGED m
      BY <1>3, <3>1
    <3>2. CASE Store(l)
      <4>1. /\ m' = [m EXCEPT ![field[l]] = reg[l] + 1]
            /\ happened' = [happened EXCEPT ![field[l]] = @ + 1]
        BY <3>2 DEF Store
      <4>2. /\ field[l] \in Fields /\ reg[l] \in Nat
            /\ m \in [Fields -> Nat] /\ reg[l] <= happened[field[l]]
            /\ \A f \in Fields : m[f] <= happened[f]
        BY DEF TypeOK, Bounded, Below, Counters
      <4>3. m' \in [Fields -> Nat]
        BY <4>1, <4>2
      <4>4. \A f \in Fields : m'[f] <= happened'[f]
        BY <1>1, <4>1, <4>2
      <4> QED
        BY <4>3, <4>4 DEF Below, Counters
    <3> QED
      BY <1>7, <3>1, <3>2 DEF LoopStep, Announce, Abandon, LoadFound, LoadOutcome, Report
  <2>4. \A k \in Loops : reg'[k] <= happened'[field'[k]]
    <3>1. CASE UNCHANGED <<reg, field>>
      BY <1>4, <3>1
    <3>2. CASE \E f \in Fields : Load(l, f)
      <4>1. PICK f \in Fields : /\ reg' = [reg EXCEPT ![l] = m[f]]
                                /\ field' = [field EXCEPT ![l] = f]
        BY <3>2 DEF Load
      <4>2. m[f] <= happened'[f]
        BY <1>3 DEF Below
      <4> QED
        BY <1>4, <4>1, <4>2 DEF TypeOK
    <3>3. CASE Store(l)
      <4>1. /\ reg' = [reg EXCEPT ![l] = 0]
            /\ field' = [field EXCEPT ![l] = "found"]
        BY <3>3 DEF Store
      <4>2. 0 <= happened'["found"]
        BY <1>1
      <4> QED
        BY <1>4, <4>1, <4>2 DEF TypeOK
    <3> QED
      BY <1>7, <3>1, <3>2, <3>3 DEF LoopStep, Announce, Abandon, LoadFound, LoadOutcome,
                                    Report
  <2> QED
    BY <2>1, <1>3, <2>2, <2>3, <2>4 DEF Bounded
<1>8. CASE ReaderTake
  <2>1. /\ statsCh' = Tail(statsCh) /\ taken' = Append(taken, Head(statsCh))
        /\ statsCh # <<>> /\ UNCHANGED <<m, reg, field>>
    BY <1>8 DEF ReaderTake, loopVars
  <2> QED
    BY <1>3, <1>4, <2>1 DEF Bounded
<1>9. CASE HandleStats
  <2>1. PICK k \in DOMAIN taken :
        /\ m' = IF Overwrites(taken[k]) THEN taken[k] ELSE m
        /\ taken' = RemoveAt(taken, k)
        /\ UNCHANGED <<reg, field, statsCh>>
    BY <1>9 DEF HandleStats, loopVars
  <2>2. taken' \in Seq(Below')
    BY <1>3, <2>1, MessageDropped
  <2>3. m' \in Below'
    BY <1>3, <2>1
  <2> QED
    BY <1>3, <1>4, <2>1, <2>2, <2>3 DEF Bounded
<1>10. CASE Restart
  BY <1>3, <1>4, <1>5, <1>10 DEF Restart, loopVars, Bounded
<1>11. CASE UNCHANGED <<m, reg, field, statsCh, taken>>
  BY <1>3, <1>4, <1>11 DEF Bounded
<1> QED
  BY <1>7, <1>8, <1>9, <1>10, <1>11 DEF Next, CountHash, Tick, loopVars, uiVars, vars

\* The four counters never exceed what has happened, for any number of loops
\* whose increments overlap and any number of copies on their way.
THEOREM CountersAreSound == Spec => []NeverOverstated
<1>1. Init => Bounded
  BY ZeroCounts DEF Init, Bounded, Below, Zero
<1>2. TypeOK /\ Bounded /\ [Next]_vars => Bounded'
  BY BoundedStep
<1>3. Bounded => NeverOverstated
  <2> SUFFICES ASSUME Bounded PROVE NeverOverstated
    OBVIOUS
  <2>1. \A k \in DOMAIN taken : taken[k] \in Below
    BY DEF Bounded
  <2> QED
    BY <2>1 DEF Bounded, Below, NeverOverstated
<1> QED
  BY <1>1, <1>2, <1>3, StatsTyped, PTL DEF Spec
=============================================================================
