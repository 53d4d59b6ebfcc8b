-------------------------------- MODULE Smix --------------------------------
(***************************************************************************)
(* Where the backends of internal/pow read and write while they hash: the  *)
(* memory of smix1 and of what follows it, one group of 2r blocks at a     *)
(* time.                                                                   *)
(*                                                                         *)
(* A hash fills two memories with smix1: first the S-box, whose words      *)
(* pwxform reads and rewrites from then on, then V, which smix2 mixes.     *)
(* smix1 appends groups: each is the mix of the one before it (X) and one  *)
(* further back (V_j) that the data chooses.  The index arithmetic keeps   *)
(* V_j behind X; the last two mixes come after the loop.  Three programs   *)
(* do this: the C library (memory kept per thread), the pure Go hasher     *)
(* (new memory each time), and the pooled one the miner uses if it is      *)
(* built without cgo (hasher.go:17-22; memory kept, pooled.go:3-12).       *)
(*                                                                         *)
(* What a group holds is abstracted to who wrote it last: "own", this      *)
(* hash; "old", one before it; "other", another worker's in the meantime;  *)
(* "blank", none.  The data chooses any word.  The two memories do not     *)
(* touch each other, so a behaviour follows one of them.                   *)
(*                                                                         *)
(* All workers of a call have one hasher (run.go:356).  The C library then *)
(* still hashes in the memory of its thread and the pure hasher in new     *)
(* memory, but the pooled one hands all of them the same scratch, without  *)
(* a lock: other workers write into the memory that is followed here.      *)
(***************************************************************************)
EXTENDS Integers, FiniteSets

CONSTANTS
  Backends,   \* some of "c", "pure" and "pooled"
  BoxSizes,   \* groups of the S-box; 768 in the program
  VSizes,     \* groups of V; 2048 in the program
  MaxWord,    \* bound: words are 0 .. MaxWord
  Workers,    \* workers that hash with one hasher
  MaxOther,   \* bound: groups that hold another worker's words at a time
  BitAnd(_, _)  \* bitwise and

Words == 0 .. MaxWord

\* yespower-opt.c:867, "N must be even and at least 4".
ASSUME SizeAssumption ==
  /\ MaxWord \in Nat
  /\ \A N \in BoxSizes \cup VSizes :
       N \in Nat /\ N >= 4 /\ N % 2 = 0 /\ N <= MaxWord + 1
ASSUME AndAssumption == \A a, mask \in Words : BitAnd(a, mask) \in 0 .. mask
ASSUME WorkerAssumption == Workers \in Nat \ {0} /\ MaxOther \in Nat
ASSUME BackendAssumption == Backends \subseteq {"c", "pure", "pooled"}

VARIABLES
  backend, area,  \* whose memory is followed: "sbox" or "v"
  size,           \* N
  pc,
  n, i, x, j,     \* the locals of smix1; x counts groups
  content,        \* content[g]: "own", "old", "other" or "blank"
  mixed,          \* history: the last mix, of group of with group with, which was was
  others,         \* the other workers that hash in this memory now
  disturbed       \* history: has another one hashed here since this hash began?

vars == <<backend, area, size, pc, n, i, x, j, content, mixed, others, disturbed>>
hashVars == <<backend, area, size, others, disturbed>>

Groups == 0 .. size - 1
\* The group after the memory stands for XY, the buffer beside it.
XY == size
Owners == {"own", "old", "other", "blank"}
NoMix == [of |-> XY, with |-> 0, was |-> "own"]
Mix(g, h) == mixed' = [of |-> g, with |-> h, was |-> content[h]]
Write(gs) == content' = [g \in Groups |-> IF g \in gs THEN "own" ELSE content[g]]

Init == /\ backend \in Backends
        /\ area \in {"sbox", "v"}
        /\ size \in IF area = "sbox" THEN BoxSizes ELSE VSizes
        /\ pc = "start"
        /\ n = 2 /\ i = 1 /\ x = 0 /\ j = 0
        /\ content = [g \in Groups |-> "blank"]
        /\ mixed = NoMix
        /\ others = 0 /\ disturbed = FALSE

\* The input is group 0; two plain mixes make groups 1 and 2.
Start == /\ pc = "start"
         /\ Write({0, 1, 2})
         /\ n' = 2 /\ i' = 1 /\ x' = 2
         /\ j' \in Words
         /\ pc' = "first"
         /\ UNCHANGED <<hashVars, mixed>>

\* Mutant of RoundLength: the last round is as long as the others.
RoundLength_Full == n

\* m: a round doubles what is filled, the last one leaves two groups to fill.
RoundLength == IF n < size \div 2 THEN n ELSE size - 1 - n

MixFirst == /\ pc = "first" /\ i < RoundLength
            /\ Mix(x, BitAnd(j, n - 1) + i - 1)
            /\ Write({x + 1})
            /\ j' \in Words
            /\ pc' = "second"
            /\ UNCHANGED <<hashVars, n, i, x>>

\* Mutant of MixSecond: the index is advanced too early.
MixSecond_Ahead == /\ pc = "second"
                   /\ Mix(x + 1, BitAnd(j, n - 1) + i + 1)
                   /\ Write({x + 2})
                   /\ j' \in Words
                   /\ x' = x + 2 /\ i' = i + 2
                   /\ pc' = "first"
                   /\ UNCHANGED <<hashVars, n>>

MixSecond == /\ pc = "second"
             /\ Mix(x + 1, BitAnd(j, n - 1) + i)
             /\ Write({x + 2})
             /\ j' \in Words
             /\ x' = x + 2 /\ i' = i + 2
             /\ pc' = "first"
             /\ UNCHANGED <<hashVars, n>>

NextRound == /\ pc = "first" /\ i >= RoundLength
             /\ n' = 2 * n /\ i' = 1
             /\ pc' = IF n' < size THEN "first" ELSE "tail"
             /\ UNCHANGED <<hashVars, x, j, content, mixed>>

\* n after the loop: C halves the loop's last value, Go halves N.
TailN == IF backend = "c" THEN n \div 2 ELSE size \div 2

\* Mutant of TailFirst: the C library too mixes into XY.
TailFirst_IntoXY == /\ pc = "tail"
                    /\ LET k == BitAnd(j, TailN - 1) + size - 2 - TailN
                       IN  Mix(x, k) /\ j' = k
                    /\ pc' = "last"
                    /\ UNCHANGED <<hashVars, n, i, x, content>>

\* The mix before the last makes the last group and the next index.  Go mixes
\* into XY, where the last mix overwrites it, and drops the word it returns.
TailFirst == /\ pc = "tail"
             /\ LET k == BitAnd(j, TailN - 1) + size - 2 - TailN
                IN  /\ Mix(x, k)
                    /\ IF backend = "c" THEN j' \in Words ELSE j' = k
             /\ Write(IF backend = "c" THEN {x + 1} ELSE {})
             /\ pc' = "last"
             /\ UNCHANGED <<hashVars, n, i, x>>

TailSecond == /\ pc = "last"
              /\ Mix(x + 1, BitAnd(j, TailN - 1) + size - 1 - TailN)
              /\ pc' = "use"
              /\ UNCHANGED <<hashVars, n, i, x, j, content>>

\* Any group is read: of V by smix2, of the S-box by pwxform.  smix2 of the C
\* library writes the mix back to V_j, Go's does not write V.
Use == /\ pc = "use"
       /\ \E k \in Groups :
            /\ Mix(XY, k)
            /\ Write(IF area = "v" /\ backend = "c" THEN {k} ELSE {})
       /\ UNCHANGED <<hashVars, pc, n, i, x, j>>

\* pwxform writes some of what it computes to the S-box, wherever ctx.w is.
PwxWrite == /\ pc = "use" /\ area = "sbox"
            /\ \E k \in Groups : Write({k})
            /\ UNCHANGED <<hashVars, pc, n, i, x, j, mixed>>

\* The next hash begins, with the memory its backend gives it.
NextHash(memory) == /\ pc = "use"
                    /\ content' = memory
                    /\ mixed' = NoMix
                    /\ pc' = "start"
                    /\ n' = 2 /\ i' = 1 /\ x' = 0 /\ j' = 0
                    /\ disturbed' = (others > 0)
                    /\ UNCHANGED <<backend, area, size, others>>

\* Memory that is kept as it is.
Kept == [g \in Groups |-> IF content[g] = "blank" THEN "blank" ELSE "old"]

NextHashC == backend = "c" /\ NextHash(Kept)
NextHashPure == backend = "pure" /\ NextHash([g \in Groups |-> "blank"])
NextHashPooled == backend = "pooled" /\ NextHash(Kept)

\* Mutant of MemoryShared: the C library's memory is static without __thread.
MemoryShared_NoTLS == backend # "pure" /\ Workers > 1

MemoryShared == backend = "pooled" /\ Workers > 1

\* Another worker calls HashHeader and returns from it, whenever it likes.
OtherBegins == /\ MemoryShared /\ others < Workers - 1
               /\ others' = others + 1 /\ disturbed' = TRUE
               /\ UNCHANGED <<backend, area, size, pc, n, i, x, j, content, mixed>>

OtherEnds == /\ others > 0
             /\ others' = others - 1
             /\ UNCHANGED <<backend, area, size, pc, n, i, x, j, content, mixed, disturbed>>

\* It fills what this hash fills: of V all but the last group.
OtherWrites ==
  /\ others > 0
  /\ Cardinality({g \in Groups : content[g] = "other"}) < MaxOther
  /\ \E k \in IF area = "v" THEN 0 .. size - 2 ELSE Groups :
       content' = [content EXCEPT ![k] = "other"]
  /\ UNCHANGED <<hashVars, pc, n, i, x, j, mixed>>

Smix1 == Start \/ MixFirst \/ MixSecond \/ NextRound \/ TailFirst \/ TailSecond
Next == \/ Smix1 \/ Use \/ PwxWrite
        \/ NextHashC \/ NextHashPure \/ NextHashPooled
        \/ OtherBegins \/ OtherWrites \/ OtherEnds

Spec == Init /\ [][Next]_vars

-----------------------------------------------------------------------------
(* Properties. *)

TypeOK ==
  /\ backend \in Backends /\ area \in {"sbox", "v"}
  /\ size \in IF area = "sbox" THEN BoxSizes ELSE VSizes
  /\ pc \in {"start", "first", "second", "tail", "last", "use"}
  /\ n \in 2 .. 2 * size /\ i \in 1 .. size /\ x \in 0 .. size - 2 /\ j \in Words
  /\ content \in [Groups -> Owners]
  /\ mixed \in [of : 0 .. size, with : Groups, was : Owners]
  /\ others \in 0 .. Workers - 1 /\ disturbed \in BOOLEAN

\* yespower-opt.c:899-927 and yespower_pure.go:102-129: whatever the data, smix1
\* mixes a group with an earlier one, and with one this hash has written, also
\* in the last round and in Go's tail, whose mask is no power of two less one;
\* with another worker's words only if one has hashed in the same scratch.
MixesEarlier ==
  mixed.of # XY => /\ mixed.with < mixed.of
                   /\ mixed.was = "own" \/ (mixed.was = "other" /\ disturbed)

\* yespower_pure.go:46-47, "first fills the pwxform S-box memory via an SMix call":
\* a hash of the C library depends on what it has written itself, and so on its
\* input alone, with any number of workers.  What the Go backends read beyond
\* that is the last group, which their tail does not fill; only the pooled S-box
\* holds an older hash's words, and only the pooled scratch another worker's.
ReadsOwnMemory ==
  /\ mixed.was \in {"old", "blank"} =>
       /\ backend # "c" /\ mixed.with = size - 1
       /\ mixed.was = "old" => backend = "pooled" /\ area = "sbox"
  /\ mixed.was = "other" => backend = "pooled" /\ disturbed
=============================================================================
