----------------------------- MODULE ShareStats -----------------------------
(***************************************************************************)
(* The counters of src/internal/app: hashCount and hashPrev, and found,    *)
(* accepted, rejected and stale of Model, with the statsCh channel and the *)
(* bubbletea program that reads it (tui.go, run.go:339-413).               *)
(*                                                                         *)
(* The mining loops (the CPU loop, the GPU loop, and those of retired      *)
(* generations that are not through yet) count in fields of Model without  *)
(* a lock, an increment being a load and a store, and send copies to       *)
(* statsCh without ever waiting.  A reader goroutine takes one message     *)
(* from statsCh and hands it to the program, whose Update runs one message *)
(* at a time, writes the counters back into the same fields and starts the *)
(* next reader.  Each restart key starts one more reader and one more      *)
(* chain of ticks.                                                         *)
(***************************************************************************)
EXTENDS Naturals, Sequences, SequencesExt

CONSTANTS
  Loops,        \* the mining loops that are running
  GpuLoops,     \* those of them that are GPU loops
  Capacity,     \* statsCh: 64 in the program
  MaxRounds,    \* bound: the templates or blocks each loop deals with
  MaxRestarts,  \* bound: the restart keys pressed
  MaxHashes     \* bound: the hashes counted since the last restart

ASSUME StatsAssumption == /\ GpuLoops \subseteq Loops
                          /\ {Capacity, MaxRounds, MaxRestarts, MaxHashes} \subseteq Nat
                          /\ Capacity # 0

Outcomes == {"accepted", "rejected", "stale"}
Fields   == {"found"} \cup Outcomes
Zero     == [f \in Fields |-> 0]

VARIABLES
  m,          \* the four counters in Model
  loop,       \* loop[l]: "idle", "mining", "store", "submit", "reply" or "report"
  reg,        \* reg[l]: the value loaded by an increment
  field,      \* field[l]: the counter it belongs to
  rounds,     \* rounds[l]: the templates or blocks dealt with so far
  statsCh,    \* the messages in the channel: copies of the counters
  readers,    \* reader goroutines waiting for a message
  taken,      \* the messages taken and not yet handled, in any order
  ticks,      \* the chains of ticks
  restarts,   \* the restart keys pressed
  hashCount, hashPrev,  \* the atomic counter, and its value at the last tick
  happened    \* history: how often each of the four was counted

loopVars == <<loop, reg, field, rounds>>
uiVars   == <<readers, taken, ticks, restarts, hashPrev>>
vars == <<m, loop, reg, field, rounds, statsCh, readers, taken, ticks, restarts,
          hashCount, hashPrev, happened>>

Init == /\ m = Zero
        /\ loop = [l \in Loops |-> "idle"]
        /\ reg = [l \in Loops |-> 0]
        /\ field = [l \in Loops |-> "found"]
        /\ rounds = [l \in Loops |-> 0]
        /\ statsCh = <<>> /\ readers = 1 /\ taken = <<>>
        /\ ticks = 1 /\ restarts = 0
        /\ hashCount = 0 /\ hashPrev = 0
        /\ happened = Zero

\* Mutant of TrySend: the channel has no limit.
TrySend_Unbounded(msg) == statsCh' = Append(statsCh, msg)

\* select { case m.statsCh <- msg: default: }
TrySend(msg) == statsCh' = IF Len(statsCh) < Capacity THEN Append(statsCh, msg)
                           ELSE statsCh

Goto(l, label) == loop' = [loop EXCEPT ![l] = label]

-----------------------------------------------------------------------------
(* The mining loops. *)

Begin(l) == /\ loop[l] = "idle" /\ rounds[l] < MaxRounds
            /\ rounds' = [rounds EXCEPT ![l] = @ + 1]

\* run.go:339-348: the CPU loop announces the template it begins; the message
\* leaves the four counters at zero.
Announce(l) ==
  /\ l \notin GpuLoops /\ Begin(l)
  /\ TrySend(Zero)
  /\ Goto(l, "mining")
  /\ UNCHANGED <<m, reg, field, uiVars, hashCount, happened>>

\* The template is replaced before a nonce is found.
Abandon(l) ==
  /\ loop[l] = "mining"
  /\ Goto(l, "idle")
  /\ UNCHANGED <<m, reg, field, rounds, statsCh, uiVars, hashCount, happened>>

\* hashCount.Add(1), in the workers.
CountHash ==
  /\ hashCount < MaxHashes
  /\ hashCount' = hashCount + 1
  /\ UNCHANGED <<m, loopVars, statsCh, uiVars, happened>>

Load(l, f) == /\ reg' = [reg EXCEPT ![l] = m[f]]
              /\ field' = [field EXCEPT ![l] = f]

\* The load of m.found++; the GPU loop announces nothing before.
LoadFound(l) ==
  /\ IF l \in GpuLoops THEN Begin(l) ELSE loop[l] = "mining" /\ UNCHANGED rounds
  /\ Load(l, "found")
  /\ Goto(l, "store")
  /\ UNCHANGED <<m, statsCh, uiVars, hashCount, happened>>

\* The load of m.accepted++, m.rejected++ or m.stale++, after SubmitBlock.
LoadOutcome(l) ==
  /\ loop[l] = "submit"
  /\ \E f \in Outcomes : Load(l, f)
  /\ Goto(l, "reply")
  /\ UNCHANGED <<m, rounds, statsCh, uiVars, hashCount, happened>>

\* The store of either increment.
Store(l) ==
  /\ loop[l] \in {"store", "reply"}
  /\ m' = [m EXCEPT ![field[l]] = reg[l] + 1]
  /\ happened' = [happened EXCEPT ![field[l]] = @ + 1]
  /\ Goto(l, IF loop[l] = "store" THEN "submit" ELSE "report")
  /\ reg' = [reg EXCEPT ![l] = 0] /\ field' = [field EXCEPT ![l] = "found"]
  /\ UNCHANGED <<rounds, statsCh, uiVars, hashCount>>

\* run.go:400-413.
Report(l) ==
  /\ loop[l] = "report"
  /\ TrySend(m)
  /\ Goto(l, "idle")
  /\ UNCHANGED <<m, reg, field, rounds, uiVars, hashCount, happened>>

-----------------------------------------------------------------------------
(* The program: readers, Update, keys and ticks. *)

ReaderTake ==
  /\ readers > 0 /\ statsCh # <<>>
  /\ taken' = Append(taken, Head(statsCh))
  /\ statsCh' = Tail(statsCh)
  /\ readers' = readers - 1
  /\ UNCHANGED <<m, loopVars, ticks, restarts, hashCount, hashPrev, happened>>

\* tui.go:189.
Overwrites(msg) == msg["found"] > 0 \/ msg["found"] # m["found"]

\* Mutant of HandleStats: the message's counters are added to the model's.
HandleStats_Adds ==
  \E k \in DOMAIN taken :
    /\ m' = [f \in Fields |-> m[f] + taken[k][f]]
    /\ readers' = readers + 1
    /\ taken' = RemoveAt(taken, k)
    /\ UNCHANGED <<loopVars, statsCh, ticks, restarts, hashCount, hashPrev, happened>>

\* Mutant of HandleStats: a message with nothing to show starts no reader.
HandleStats_NoReader ==
  \E k \in DOMAIN taken :
    /\ m' = IF Overwrites(taken[k]) THEN taken[k] ELSE m
    /\ readers' = IF Overwrites(taken[k]) THEN readers + 1 ELSE readers
    /\ taken' = RemoveAt(taken, k)
    /\ UNCHANGED <<loopVars, statsCh, ticks, restarts, hashCount, hashPrev, happened>>

\* Update(statsMsg) of any of the messages taken, and the next reader.
HandleStats ==
  \E k \in DOMAIN taken :
    /\ m' = IF Overwrites(taken[k]) THEN taken[k] ELSE m
    /\ readers' = readers + 1
    /\ taken' = RemoveAt(taken, k)
    /\ UNCHANGED <<loopVars, statsCh, ticks, restarts, hashCount, hashPrev, happened>>

\* Mutant of Restart: startMining leaves hashPrev alone.
Restart_KeepPrev ==
  /\ restarts < MaxRestarts
  /\ restarts' = restarts + 1
  /\ m' \in {m, Zero}
  /\ hashCount' = 0
  /\ readers' = readers + 1 /\ ticks' = ticks + 1
  /\ UNCHANGED <<loopVars, statsCh, taken, hashPrev, happened>>

\* A restart key: "b" zeroes the four counters, "+", "-" and "r" do not;
\* startMining zeroes hashCount, then hashPrev.  Goroutines of the retired
\* generation may count on.
Restart ==
  /\ restarts < MaxRestarts
  /\ restarts' = restarts + 1
  /\ m' \in {m, Zero}
  /\ hashCount' = 0 /\ hashPrev' = 0
  /\ readers' = readers + 1 /\ ticks' = ticks + 1
  /\ UNCHANGED <<loopVars, statsCh, taken, happened>>

\* A tick, and the next one of its chain: updateHashrate.
Tick ==
  /\ ticks > 0
  /\ hashPrev' = hashCount
  /\ UNCHANGED <<m, loopVars, statsCh, readers, taken, ticks, restarts, hashCount,
                 happened>>

LoopStep(l) == \/ Announce(l) \/ Abandon(l) \/ LoadFound(l) \/ LoadOutcome(l)
               \/ Store(l) \/ Report(l)

Next == \/ \E l \in Loops : LoopStep(l)
        \/ CountHash \/ ReaderTake \/ HandleStats \/ Restart \/ Tick

\* The readers and the program's event loop run; nothing else has to.
Spec     == Init /\ [][Next]_vars
FairSpec == Spec /\ WF_vars(ReaderTake) /\ WF_vars(HandleStats)

-----------------------------------------------------------------------------
(* Properties. *)

Counters == [Fields -> Nat]

TypeOK ==
  /\ m \in Counters
  /\ loop \in [Loops -> {"idle", "mining", "store", "submit", "reply", "report"}]
  /\ reg \in [Loops -> Nat]
  /\ field \in [Loops -> Fields]
  /\ rounds \in [Loops -> 0 .. MaxRounds]
  /\ statsCh \in Seq(Counters) /\ Len(statsCh) <= Capacity
  /\ readers \in Nat
  /\ taken \in Seq(Counters)
  /\ ticks \in Nat
  /\ restarts \in 0 .. MaxRestarts
  /\ hashCount \in Nat /\ hashPrev \in Nat
  /\ happened \in Counters

\* The rate is computed from hashCount - hashPrev in uint64: it never wraps,
\* whatever restarts, ticks and late counts of retired workers come between.
NoUnderflow == hashPrev <= hashCount

\* No reader is ever lost: each key adds one, and every message handled gives
\* its reader back.
ReadersKept == readers + Len(taken) = 1 + restarts

\* When the loops have nothing more to say, every message has been shown.
AllRead == <>[](statsCh = <<>> /\ taken = <<>>)

\* The screen never shows more than has happened, although increments of two
\* loops overlap, copies of the counters come back in any order, and a key sets
\* the counters to zero in between.
NeverOverstated ==
  \A f \in Fields : /\ m[f] <= happened[f]
                    /\ \A k \in DOMAIN taken : taken[k][f] <= happened[f]
=============================================================================
