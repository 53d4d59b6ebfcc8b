---------------------------- MODULE Smix_proofs ----------------------------
(***************************************************************************)
(* Theorems about Smix, for memories of any even number of groups from     *)
(* four on, any words and any mask operator that never exceeds its mask.   *)
(*                                                                         *)
(* The inductive invariant relates the counters: in round n, before the    *)
(* i-th pair, group n + i - 1 is the last that is filled.  n and size are  *)
(* even and i is odd, so a round that is left has filled 2n groups or all  *)
(* but one.  Other workers take nothing of that back: what they write over *)
(* is filled still, and they are there only in the pooled scratch.         *)
(***************************************************************************)
EXTENDS Smix, TLAPS

\* Written by this hash, or since then by another worker.
IsFilling(owner) == owner = "own" \/ (owner = "other" /\ disturbed)
Filled(g) == IsFilling(content[g])

\* In the loop: how far it is, and that all groups up to X are filled.
InLoop ==
  pc \in {"first", "second"} =>
    /\ n \in 2 .. size - 1 /\ n % 2 = 0 /\ i % 2 = 1
    /\ x = n + i - 1
    /\ n < size \div 2 => i <= n + 1
    /\ n >= size \div 2 => i <= size - 1 - n
    /\ pc = "second" => i < RoundLength
    /\ \A g \in 0 .. x : Filled(g)
    /\ pc = "second" => Filled(x + 1)

\* After it all groups but the last are filled, in C by its tail all of them.
AfterLoop ==
  /\ pc \in {"tail", "last"} => x = size - 2 /\ n \div 2 \in 2 .. size - 2
  /\ pc \in {"tail", "last", "use"} => \A g \in 0 .. size - 2 : Filled(g)
  /\ pc \in {"last", "use"} /\ backend = "c" => Filled(size - 1)

\* What older hashes have left, and where.
Leftover ==
  /\ backend = "pure" => \A g \in Groups : content[g] # "old"
  /\ backend = "pooled" /\ area = "v" => content[size - 1] = "blank"

\* Other workers are where memory is shared, and known to be.
Others ==
  /\ others > 0 => disturbed
  /\ disturbed => MemoryShared
  /\ \A g \in Groups : content[g] = "other" => disturbed
  /\ mixed.was = "other" => disturbed

Inv == /\ TypeOK /\ InLoop /\ AfterLoop /\ Leftover /\ Others
       /\ MixesEarlier /\ ReadsOwnMemory

-----------------------------------------------------------------------------

\* What the assumptions say of the size a behaviour has chosen.
LEMMA SizeFacts ==
  ASSUME TypeOK
  PROVE  /\ size \in Nat /\ size >= 4 /\ size % 2 = 0 /\ size - 1 \in Words
         /\ MaxWord \in Nat
BY SizeAssumption DEF TypeOK, Words

\* A masked word is at most the mask.
LEMMA MaskBounds ==
  ASSUME NEW a \in Words, NEW mask \in Words
  PROVE  BitAnd(a, mask) \in Int /\ 0 <= BitAnd(a, mask) /\ BitAnd(a, mask) <= mask
BY AndAssumption, SizeAssumption DEF Words

LEMMA InitInv == Init => Inv
<1> SUFFICES ASSUME Init PROVE Inv
  OBVIOUS
<1>1. size \in Nat /\ size >= 4 /\ MaxWord \in Nat
  BY SizeAssumption DEF Init
<1>2. TypeOK
  <2>1. 0 \in 0 .. Workers - 1
    BY WorkerAssumption
  <2>2. content \in [Groups -> Owners]
    BY DEF Init, Owners
  <2>3. mixed \in [of : 0 .. size, with : Groups, was : Owners]
    BY <1>1 DEF Init, NoMix, XY, Groups, Owners
  <2>4. n \in 2 .. 2 * size /\ i \in 1 .. size /\ x \in 0 .. size - 2 /\ j \in Words
    BY <1>1 DEF Init, Words
  <2>5. others \in 0 .. Workers - 1 /\ disturbed \in BOOLEAN
    BY <2>1 DEF Init
  <2>6. /\ backend \in Backends /\ area \in {"sbox", "v"} /\ pc = "start"
        /\ size \in IF area = "sbox" THEN BoxSizes ELSE VSizes
    BY DEF Init
  <2> QED
    BY <2>2, <2>3, <2>4, <2>5, <2>6 DEF TypeOK
<1> QED
  BY <1>1, <1>2 DEF Init, Inv, InLoop, AfterLoop, Leftover, Others, MixesEarlier,
     ReadsOwnMemory, NoMix, XY, Groups

-----------------------------------------------------------------------------
(* One lemma per action. *)

LEMMA StartStep == Inv /\ Start => Inv'
<1> SUFFICES ASSUME Inv, Start PROVE Inv'
  OBVIOUS
<1> USE DEF Start, Write, hashVars
<1>1. TypeOK /\ size \in Nat /\ size >= 4 /\ size % 2 = 0 /\ size \div 2 \in 2 .. size - 2
  BY SizeFacts DEF Inv
<1>2. TypeOK'
  BY <1>1 DEF TypeOK, Groups, Owners
<1>3. content' = [g \in Groups |-> IF g \in {0, 1, 2} THEN "own" ELSE content[g]]
  OBVIOUS
<1>4. InLoop'
  BY <1>1, <1>3 DEF InLoop, RoundLength, Filled, IsFilling, Groups
<1>5. AfterLoop' /\ Leftover' /\ Others' /\ MixesEarlier' /\ ReadsOwnMemory'
  BY <1>1, <1>3 DEF Inv, TypeOK, AfterLoop, Leftover, Others, MemoryShared, MixesEarlier,
     ReadsOwnMemory, XY, Groups, Filled
<1> QED
  BY <1>2, <1>4, <1>5 DEF Inv

LEMMA MixFirstStep == Inv /\ MixFirst => Inv'
<1> SUFFICES ASSUME Inv, MixFirst PROVE Inv'
  OBVIOUS
<1> DEFINE k == BitAnd(j, n - 1) + i - 1
<1>1. /\ TypeOK /\ size \in Nat /\ size >= 4 /\ size % 2 = 0 /\ size - 1 \in Words
      /\ MaxWord \in Nat /\ n \in 2 .. size - 1 /\ i \in 1 .. size /\ i < RoundLength
      /\ x = n + i - 1 /\ pc = "first"
  BY SizeFacts DEF Inv, MixFirst, InLoop, TypeOK
<1>2. x + 1 < size - 1
  BY <1>1 DEF RoundLength
<1>3. k \in 0 .. x - 1 /\ k \in Groups /\ x \in Groups
  <2>1. j \in Words /\ n - 1 \in Words
    BY <1>1 DEF TypeOK, Words
  <2>2. BitAnd(j, n - 1) \in 0 .. n - 1
    BY <2>1, <1>1, MaskBounds
  <2> QED
    BY <2>2, <1>1, <1>2 DEF Groups
<1>4. IsFilling(content[k])
  BY <1>1, <1>3 DEF Inv, InLoop, Filled
<1>5. /\ mixed' = [of |-> x, with |-> k, was |-> content[k]]
      /\ content' = [g \in Groups |-> IF g = x + 1 THEN "own" ELSE content[g]]
      /\ pc' = "second" /\ UNCHANGED <<hashVars, n, i, x>> /\ j' \in Words
  BY <1>4 DEF MixFirst, Mix, Write
<1> HIDE DEF k
<1>6. TypeOK'
  BY <1>1, <1>3, <1>5 DEF TypeOK, Groups, Owners, hashVars
<1>7. InLoop'
  BY <1>1, <1>2, <1>5 DEF Inv, InLoop, RoundLength, Filled, IsFilling, Groups, hashVars
<1>8. AfterLoop' /\ Leftover'
  BY <1>1, <1>2, <1>5 DEF Inv, AfterLoop, Leftover, Groups, hashVars
<1>9. Others'
  BY <1>4, <1>5 DEF Inv, Others, MemoryShared, IsFilling, Groups, hashVars
<1>10. MixesEarlier' /\ ReadsOwnMemory'
  BY <1>1, <1>2, <1>3, <1>4, <1>5 DEF Inv, Others, MemoryShared, MixesEarlier,
     ReadsOwnMemory, IsFilling, XY, hashVars
<1> QED
  BY <1>6, <1>7, <1>8, <1>9, <1>10 DEF Inv

LEMMA MixSecondStep == Inv /\ MixSecond => Inv'
<1> SUFFICES ASSUME Inv, MixSecond PROVE Inv'
  OBVIOUS
<1> DEFINE k == BitAnd(j, n - 1) + i
<1>1. /\ TypeOK /\ size \in Nat /\ size >= 4 /\ size % 2 = 0 /\ size - 1 \in Words
      /\ MaxWord \in Nat /\ n \in 2 .. size - 1 /\ n % 2 = 0
      /\ i \in 1 .. size /\ i % 2 = 1 /\ i < RoundLength
      /\ x = n + i - 1 /\ pc = "second"
  BY SizeFacts DEF Inv, MixSecond, InLoop, TypeOK
<1>2. x + 2 <= size - 2 /\ i + 2 <= size
  BY <1>1 DEF RoundLength
<1>3. k \in 0 .. x /\ k \in Groups /\ x + 1 \in Groups
  <2>1. j \in Words /\ n - 1 \in Words
    BY <1>1 DEF TypeOK, Words
  <2>2. BitAnd(j, n - 1) \in 0 .. n - 1
    BY <2>1, <1>1, MaskBounds
  <2> QED
    BY <2>2, <1>1, <1>2 DEF Groups
<1>4. IsFilling(content[k])
  BY <1>1, <1>3 DEF Inv, InLoop, Filled
<1>5. /\ mixed' = [of |-> x + 1, with |-> k, was |-> content[k]]
      /\ content' = [g \in Groups |-> IF g = x + 2 THEN "own" ELSE content[g]]
      /\ x' = x + 2 /\ i' = i + 2
      /\ pc' = "first" /\ UNCHANGED <<hashVars, n>> /\ j' \in Words
  BY <1>4 DEF MixSecond, Mix, Write
<1> HIDE DEF k
<1>6. TypeOK'
  BY <1>1, <1>2, <1>3, <1>5 DEF TypeOK, Groups, Owners, hashVars
<1>7. InLoop'
  <2>1. (n < size \div 2 => i + 2 <= n + 1) /\ (n >= size \div 2 => i + 2 <= size - 1 - n)
    BY <1>1 DEF RoundLength
  <2>2. \A g \in 0 .. x + 1 : IsFilling(content[g])
    BY <1>1 DEF Inv, InLoop, Filled
  <2>3. \A g \in 0 .. x + 2 : content'[g] = "own" \/ (content'[g] = "other" /\ disturbed)
    BY <2>2, <1>1, <1>2, <1>5 DEF Groups, IsFilling
  <2> QED
    BY <2>1, <2>3, <1>1, <1>5 DEF InLoop, Filled, IsFilling, hashVars
<1>8. AfterLoop' /\ Leftover'
  BY <1>1, <1>2, <1>5 DEF Inv, AfterLoop, Leftover, Groups, hashVars
<1>9. Others'
  BY <1>4, <1>5 DEF Inv, Others, MemoryShared, IsFilling, Groups, hashVars
<1>10. MixesEarlier' /\ ReadsOwnMemory'
  BY <1>1, <1>2, <1>3, <1>4, <1>5 DEF Inv, Others, MemoryShared, MixesEarlier,
     ReadsOwnMemory, IsFilling, XY, hashVars
<1> QED
  BY <1>6, <1>7, <1>8, <1>9, <1>10 DEF Inv

\* n doubles; when there is no further round, X is the last group but one.
LEMMA NextRoundStep == Inv /\ NextRound => Inv'
<1> SUFFICES ASSUME Inv, NextRound PROVE Inv'
  OBVIOUS
<1>1. /\ TypeOK /\ size \in Nat /\ size >= 4 /\ size % 2 = 0
      /\ n \in 2 .. size - 1 /\ n % 2 = 0 /\ i \in 1 .. size /\ i % 2 = 1
      /\ i >= RoundLength /\ x = n + i - 1 /\ pc = "first"
      /\ (n < size \div 2 => i <= n + 1) /\ (n >= size \div 2 => i <= size - 1 - n)
      /\ \A g \in 0 .. x : IsFilling(content[g])
  BY SizeFacts DEF Inv, NextRound, InLoop, TypeOK, Filled
<1>2. CASE n < size \div 2
  <2>1. i = n + 1 /\ x = 2 * n /\ 2 * n < size /\ pc' = "first" /\ n' = 2 * n /\ i' = 1
    BY <1>1, <1>2 DEF RoundLength, NextRound
  <2>2. TypeOK'
    BY <1>1, <2>1 DEF TypeOK, NextRound, hashVars, Groups
  <2>3. InLoop'
    BY <1>1, <2>1 DEF InLoop, NextRound, hashVars, Filled, IsFilling
  <2>4. AfterLoop' /\ Leftover' /\ Others' /\ MixesEarlier' /\ ReadsOwnMemory'
    BY <2>1 DEF Inv, AfterLoop, Leftover, Others, MemoryShared, MixesEarlier,
       ReadsOwnMemory, NextRound, hashVars, Groups, XY
  <2> QED
    BY <2>2, <2>3, <2>4 DEF Inv
<1>3. CASE n >= size \div 2
  <2>1. /\ i = size - 1 - n /\ x = size - 2 /\ 2 * n >= size /\ pc' = "tail"
        /\ n' = 2 * n /\ i' = 1 /\ n <= size - 2 /\ n' \div 2 = n
    BY <1>1, <1>3 DEF RoundLength, NextRound
  <2>2. TypeOK'
    BY <1>1, <2>1 DEF TypeOK, NextRound, hashVars, Groups
  <2>3. InLoop'
    BY <2>1 DEF InLoop
  <2>4. AfterLoop'
    BY <1>1, <2>1 DEF AfterLoop, NextRound, hashVars, Filled, IsFilling
  <2>5. Leftover' /\ Others' /\ MixesEarlier' /\ ReadsOwnMemory'
    BY DEF Inv, Leftover, Others, MemoryShared, MixesEarlier, ReadsOwnMemory, NextRound,
       hashVars, Groups, XY
  <2> QED
    BY <2>2, <2>3, <2>4, <2>5 DEF Inv
<1> QED
  BY <1>1, <1>2, <1>3

\* In the tail the index stays two groups below the last one and one below X.
LEMMA TailIndex ==
  ASSUME Inv, pc \in {"tail", "last"}
  PROVE  /\ TailN \in 2 .. size - 2 /\ x = size - 2 /\ size \in Nat /\ size >= 4
         /\ BitAnd(j, TailN - 1) + size - 2 - TailN \in 0 .. size - 3
<1>1. /\ TypeOK /\ size \in Nat /\ size >= 4 /\ size - 1 \in Words /\ MaxWord \in Nat
      /\ size % 2 = 0 /\ n \div 2 \in 2 .. size - 2 /\ x = size - 2
  BY SizeFacts DEF Inv, AfterLoop
<1>2. size \div 2 \in 2 .. size - 2
  BY <1>1
<1>3. TailN \in 2 .. size - 2
  BY <1>1, <1>2 DEF TailN
<1>4. j \in Words /\ TailN - 1 \in Words
  BY <1>1, <1>3 DEF TypeOK, Words
<1> HIDE DEF TailN
<1>5. BitAnd(j, TailN - 1) \in 0 .. TailN - 1
  BY <1>3, <1>4, MaskBounds
<1> QED
  BY <1>1, <1>3, <1>5

LEMMA TailFirstStep == Inv /\ TailFirst => Inv'
<1> SUFFICES ASSUME Inv, TailFirst PROVE Inv'
  OBVIOUS
<1> DEFINE k == BitAnd(j, TailN - 1) + size - 2 - TailN
<1>1. /\ TypeOK /\ size \in Nat /\ size >= 4 /\ x = size - 2 /\ pc = "tail"
      /\ size - 1 \in Words /\ MaxWord \in Nat /\ n \div 2 \in 2 .. size - 2
      /\ k \in 0 .. size - 3
  BY TailIndex, SizeFacts DEF Inv, TailFirst, AfterLoop
<1>2. IsFilling(content[k]) /\ \A g \in 0 .. size - 2 : IsFilling(content[g])
  BY <1>1 DEF Inv, AfterLoop, Filled
<1>3. /\ mixed' = [of |-> x, with |-> k, was |-> content[k]]
      /\ content' = [g \in Groups |-> IF backend = "c" /\ g = x + 1 THEN "own" ELSE content[g]]
      /\ j' \in Words \/ j' = k
      /\ pc' = "last" /\ UNCHANGED <<hashVars, n, i, x>>
  BY <1>2 DEF TailFirst, Mix, Write
<1> HIDE DEF k
<1>4. TypeOK'
  BY <1>1, <1>3 DEF TypeOK, Groups, Owners, hashVars, Words
<1>5. InLoop' /\ MixesEarlier' /\ ReadsOwnMemory'
  BY <1>1, <1>2, <1>3 DEF Inv, Others, MemoryShared, InLoop, MixesEarlier,
     ReadsOwnMemory, IsFilling, hashVars
<1>6. AfterLoop'
  BY <1>1, <1>2, <1>3 DEF AfterLoop, Filled, IsFilling, Groups, hashVars
<1>7. Leftover' /\ Others'
  BY <1>1, <1>2, <1>3 DEF Inv, Leftover, Others, MemoryShared, IsFilling, Groups, hashVars
<1> QED
  BY <1>4, <1>5, <1>6, <1>7 DEF Inv

LEMMA TailSecondStep == Inv /\ TailSecond => Inv'
<1> SUFFICES ASSUME Inv, TailSecond PROVE Inv'
  OBVIOUS
<1> DEFINE k == BitAnd(j, TailN - 1) + size - 1 - TailN
<1>1. /\ TypeOK /\ size \in Nat /\ size >= 4 /\ x = size - 2 /\ pc = "last"
      /\ BitAnd(j, TailN - 1) + size - 2 - TailN \in 0 .. size - 3 /\ TailN \in 2 .. size - 2
  BY TailIndex DEF Inv, TailSecond
<1>2. k \in 0 .. size - 2
  <2>1. BitAnd(j, TailN - 1) \in Int
    <3>1. j \in Words /\ TailN - 1 \in Words
      BY <1>1, SizeFacts DEF TypeOK, Words
    <3> QED
      BY <3>1, MaskBounds
  <2> HIDE DEF TailN
  <2> QED
    BY <1>1, <2>1
<1>3. IsFilling(content[k])
  BY <1>1, <1>2 DEF Inv, AfterLoop, Filled
<1>4. /\ mixed' = [of |-> x + 1, with |-> k, was |-> content[k]] /\ pc' = "use"
      /\ UNCHANGED <<hashVars, n, i, x, j, content>>
  BY <1>3 DEF TailSecond, Mix
<1> HIDE DEF k
<1>5. TypeOK'
  BY <1>1, <1>2, <1>4 DEF TypeOK, Groups, Owners, hashVars
<1>6. InLoop' /\ MixesEarlier' /\ ReadsOwnMemory'
  BY <1>1, <1>2, <1>3, <1>4 DEF Inv, Others, MemoryShared, InLoop, MixesEarlier,
     ReadsOwnMemory, IsFilling, hashVars
<1>7. AfterLoop' /\ Leftover' /\ Others'
  BY <1>1, <1>3, <1>4 DEF Inv, AfterLoop, Leftover, Others, MemoryShared, Filled,
     IsFilling, Groups, hashVars
<1> QED
  BY <1>5, <1>6, <1>7 DEF Inv

\* A group that is not this hash's is the last one, and not of the C library.
LEMMA UseStep == Inv /\ Use => Inv'
<1> SUFFICES ASSUME Inv, Use PROVE Inv'
  OBVIOUS
<1>1. /\ TypeOK /\ size \in Nat /\ size >= 4 /\ pc = "use" /\ backend \in {"c", "pure", "pooled"}
      /\ content \in [Groups -> Owners] /\ area \in {"sbox", "v"}
  BY SizeFacts, BackendAssumption DEF Inv, Use, TypeOK
<1>2. PICK k \in Groups : /\ Mix(XY, k)
                         /\ Write(IF area = "v" /\ backend = "c" THEN {k} ELSE {})
  BY DEF Use
<1>3. /\ mixed' = [of |-> size, with |-> k, was |-> content[k]]
      /\ content' = [g \in Groups |-> IF area = "v" /\ backend = "c" /\ g = k
                                     THEN "own" ELSE content[g]]
      /\ UNCHANGED <<hashVars, pc, n, i, x, j>>
  BY <1>2 DEF Mix, Write, XY, Use
<1>4. TypeOK'
  BY <1>1, <1>2, <1>3 DEF TypeOK, Groups, Owners, hashVars
<1>5. InLoop' /\ MixesEarlier'
  BY <1>1, <1>3 DEF InLoop, MixesEarlier, XY, hashVars
<1>6. AfterLoop' /\ Leftover' /\ Others'
  BY <1>1, <1>2, <1>3 DEF Inv, AfterLoop, Leftover, Others, MemoryShared, Filled,
     IsFilling, Groups, hashVars
<1>7. ReadsOwnMemory'
  BY <1>1, <1>2, <1>3 DEF Inv, AfterLoop, Leftover, Others, MemoryShared, ReadsOwnMemory,
     Filled, IsFilling, Groups, hashVars
<1> QED
  BY <1>4, <1>5, <1>6, <1>7 DEF Inv

LEMMA PwxWriteStep == Inv /\ PwxWrite => Inv'
<1> SUFFICES ASSUME Inv, PwxWrite PROVE Inv'
  OBVIOUS
<1>1. /\ TypeOK /\ size \in Nat /\ size >= 4 /\ pc = "use" /\ area = "sbox"
  BY SizeFacts DEF Inv, PwxWrite
<1>2. PICK k \in Groups : content' = [g \in Groups |-> IF g = k THEN "own" ELSE content[g]]
  BY DEF PwxWrite, Write
<1>3. UNCHANGED <<hashVars, pc, n, i, x, j, mixed>>
  BY DEF PwxWrite
<1>4. TypeOK'
  BY <1>1, <1>2, <1>3 DEF TypeOK, Groups, Owners, hashVars
<1>5. InLoop' /\ MixesEarlier' /\ ReadsOwnMemory'
  BY <1>1, <1>3 DEF Inv, InLoop, MixesEarlier, ReadsOwnMemory, XY, hashVars
<1>6. AfterLoop' /\ Leftover' /\ Others'
  BY <1>1, <1>2, <1>3 DEF Inv, AfterLoop, Leftover, Others, MemoryShared, Filled,
     IsFilling, Groups, hashVars
<1> QED
  BY <1>4, <1>5, <1>6 DEF Inv

\* No word of the hash that begins is in the memory it is given.
LEMMA NextHashStep == Inv /\ (NextHashC \/ NextHashPure \/ NextHashPooled) => Inv'
<1> SUFFICES ASSUME Inv, NextHashC \/ NextHashPure \/ NextHashPooled PROVE Inv'
  OBVIOUS
<1>1. /\ TypeOK /\ size \in Nat /\ size >= 4 /\ MaxWord \in Nat
      /\ content \in [Groups -> Owners]
  BY SizeFacts DEF Inv, TypeOK
<1>2. PICK memory \in {Kept, [g \in Groups |-> "blank"]} :
        NextHash(memory) /\ (backend = "pure" => memory = [g \in Groups |-> "blank"])
  BY DEF NextHashC, NextHashPure, NextHashPooled
<1>3. /\ memory \in [Groups -> {"old", "blank"}]
      /\ \A g \in Groups : content[g] = "blank" => memory[g] = "blank"
  BY <1>1 DEF Kept, Owners
<1>4. TypeOK'
  BY <1>1, <1>2, <1>3 DEF TypeOK, NextHash, NoMix, XY, Groups, Words, Owners
<1>5. InLoop' /\ AfterLoop' /\ MixesEarlier' /\ ReadsOwnMemory'
  BY <1>2 DEF InLoop, AfterLoop, MixesEarlier, ReadsOwnMemory, NextHash, NoMix, XY
<1>6. Leftover'
  BY <1>1, <1>2, <1>3 DEF Inv, Leftover, NextHash, Groups
<1>7. Others'
  BY <1>1, <1>2, <1>3 DEF Inv, Others, MemoryShared, NextHash, NoMix, Groups
<1> QED
  BY <1>4, <1>5, <1>6, <1>7 DEF Inv

\* Another worker leaves every group filled that is, and the last one of V alone.
LEMMA OtherStep == Inv /\ (OtherBegins \/ OtherWrites \/ OtherEnds) => Inv'
<1> SUFFICES ASSUME Inv, OtherBegins \/ OtherWrites \/ OtherEnds PROVE Inv'
  OBVIOUS
<1>1. /\ TypeOK /\ size \in Nat /\ size >= 4 /\ content \in [Groups -> Owners]
      /\ others \in 0 .. Workers - 1 /\ disturbed \in BOOLEAN /\ Workers \in Nat
  BY SizeFacts, WorkerAssumption DEF Inv, TypeOK
<1>2. UNCHANGED <<backend, area, size, pc, n, i, x, j, mixed>>
  BY DEF OtherBegins, OtherWrites, OtherEnds, hashVars
<1>3. /\ others' \in 0 .. Workers - 1 /\ disturbed' \in BOOLEAN
      /\ disturbed => disturbed'
      /\ others' > 0 => disturbed'
      /\ disturbed' => MemoryShared
  <2>1. CASE OtherBegins
    BY <1>1, <2>1 DEF OtherBegins
  <2>2. CASE OtherWrites \/ OtherEnds
    BY <1>1, <2>2 DEF Inv, Others, OtherWrites, OtherEnds, hashVars
  <2> QED
    BY <2>1, <2>2
<1>4. /\ content' \in [Groups -> Owners]
      /\ \A g \in Groups : content'[g] = content[g] \/ (content'[g] = "other" /\ disturbed')
      /\ area = "v" => content'[size - 1] = content[size - 1]
  <2>1. CASE OtherWrites
    <3>1. others > 0 /\ disturbed' = disturbed /\ disturbed
      BY <1>1, <2>1 DEF Inv, Others, OtherWrites, hashVars
    <3>2. PICK k \in Groups : /\ content' = [content EXCEPT ![k] = "other"]
                              /\ area = "v" => k # size - 1
      <4>1. CASE area = "v"
        <5>1. PICK k \in 0 .. size - 2 : content' = [content EXCEPT ![k] = "other"]
          BY <2>1, <4>1, Zenon DEF OtherWrites
        <5>2. k \in Groups /\ k # size - 1
          BY <1>1 DEF Groups
        <5> QED
          BY <5>1, <5>2
      <4>2. CASE area # "v"
        BY <2>1, <4>2, Zenon DEF OtherWrites
      <4> QED
        BY <4>1, <4>2
    <3> QED
      BY <1>1, <3>1, <3>2 DEF Groups, Owners
  <2>2. CASE OtherBegins \/ OtherEnds
    BY <1>1, <2>2 DEF OtherBegins, OtherEnds
  <2> QED
    BY <2>1, <2>2
<1>5. TypeOK'
  BY <1>1, <1>2, <1>3, <1>4 DEF TypeOK, Groups
<1>6. \A g \in Groups : IsFilling(content[g]) => IsFilling(content[g])'
  BY <1>3, <1>4 DEF IsFilling
<1>7. InLoop'
  <2>1. pc \in {"first", "second"} =>
          0 .. x \subseteq Groups /\ (pc = "second" => x + 1 \in Groups)
    BY <1>1 DEF Inv, InLoop, TypeOK, Groups
  <2> QED
    BY <1>2, <1>6, <2>1 DEF Inv, InLoop, RoundLength, Filled
<1>8. AfterLoop'
  <2>1. 0 .. size - 2 \subseteq Groups /\ size - 1 \in Groups
    BY <1>1 DEF Groups
  <2> QED
    BY <1>2, <1>6, <2>1 DEF Inv, AfterLoop, Filled
<1>9. Leftover' /\ Others' /\ MixesEarlier' /\ ReadsOwnMemory'
  BY <1>1, <1>2, <1>3, <1>4 DEF Inv, Leftover, Others, MemoryShared, MixesEarlier,
     ReadsOwnMemory, Groups, XY
<1> QED
  BY <1>5, <1>7, <1>8, <1>9 DEF Inv

-----------------------------------------------------------------------------

LEMMA InvStep == Inv /\ [Next]_vars => Inv'
<1> SUFFICES ASSUME Inv, [Next]_vars PROVE Inv'
  OBVIOUS
<1>1. CASE UNCHANGED vars
  BY <1>1 DEF vars, Inv, TypeOK, InLoop, AfterLoop, Leftover, Others, MemoryShared,
     MixesEarlier, ReadsOwnMemory, Filled, IsFilling, RoundLength, Groups, XY
<1>2. CASE Smix1
  BY <1>2, StartStep, MixFirstStep, MixSecondStep, NextRoundStep, TailFirstStep,
     TailSecondStep DEF Smix1
<1>3. CASE Use \/ PwxWrite \/ NextHashC \/ NextHashPure \/ NextHashPooled
  BY <1>3, UseStep, PwxWriteStep, NextHashStep
<1>4. CASE OtherBegins \/ OtherWrites \/ OtherEnds
  BY <1>4, OtherStep
<1> QED
  BY <1>1, <1>2, <1>3, <1>4 DEF Next

LEMMA Invariance == Spec => []Inv
BY InitInv, InvStep, PTL DEF Spec

\* Every counter and index stays in the memory, of any size.
THEOREM IndicesInRange == Spec => []TypeOK
BY Invariance, PTL DEF Inv

\* smix1 of all three backends mixes earlier groups only, which its own hash has
\* written, or in a shared scratch another worker since.
THEOREM MixesOnlyEarlier == Spec => []MixesEarlier
BY Invariance, PTL DEF Inv

\* The C library reads nothing it has not written, and the Go backends read only
\* the last group unwritten: the pooled S-box alone mixes in an older hash, and
\* the pooled scratch alone another worker's, for any number of workers.
THEOREM LeftoversAreLast == Spec => []ReadsOwnMemory
BY Invariance, PTL DEF Inv
=============================================================================
