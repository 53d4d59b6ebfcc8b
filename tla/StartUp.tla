------------------------------- MODULE StartUp -------------------------------
(***************************************************************************)
(* How main (src/cmd/legacy-miner/main.go) makes the miner's configuration *)
(* of the JSON file and the flags.                                         *)
(*                                                                         *)
(* Both are functions on the names that are given.  A file that is absent, *)
(* or is no JSON at all, gives nothing; of a file with a member of the     *)
(* wrong type json.Unmarshal keeps the others, so that such a member only  *)
(* is missing.                                                             *)
(***************************************************************************)
EXTENDS Naturals

CONSTANTS
  Cores,          \* runtime.NumCPU()
  PubKeyHashes,   \* the strings of 40 hexadecimal digits
  Word            \* 2^32 in the program: MinerID and TotalMiners are uint32

ASSUME CoresAssumption == Cores \in Nat \ {0}
ASSUME WordAssumption  == Word \in Nat \ {0}

\* The defaults of the flags: what the file says, if it makes sense.
FromFile(file, name, default) ==
  IF name \in DOMAIN file THEN file[name] ELSE default

PositiveFromFile(file, name, default) ==
  IF FromFile(file, name, 0) > 0 THEN file[name] ELSE default

Defaults(file) ==
  [rpc          |-> FromFile(file, "rpc", ""),
   rpcuser      |-> FromFile(file, "rpcuser", <<>>),
   rpcpass      |-> FromFile(file, "rpcpass", <<>>),
   datadir      |-> FromFile(file, "datadir", ""),
   pubkeyhash   |-> FromFile(file, "pubkeyhash", ""),
   threads      |-> PositiveFromFile(file, "threads", Cores),
   miner_id     |-> FromFile(file, "miner_id", 0),
   total_miners |-> PositiveFromFile(file, "total_miners", 1)]

\* flag.Parse: a flag that is given counts, even one that is empty or zero.
Parse(flags, file) ==
  [name \in DOMAIN Defaults(file) |->
     IF name \in DOMAIN flags THEN flags[name] ELSE Defaults(file)[name]]

\* Mutant of Acceptable: the index is not compared with the total.
Acceptable_AnyIndex(c) ==
  /\ c.rpc # "" => c.pubkeyhash # ""
  /\ c.pubkeyhash # "" => c.pubkeyhash \in PubKeyHashes

\* The start is refused unless
Acceptable(c) ==
  /\ c.miner_id < c.total_miners
  /\ c.rpc # "" => c.pubkeyhash # ""
  /\ c.pubkeyhash # "" => c.pubkeyhash \in PubKeyHashes

AppConfig(c) ==
  [Threads     |-> IF c.threads < 1 THEN 1 ELSE c.threads,
   MinerID     |-> c.miner_id % Word,
   TotalMiners |-> c.total_miners % Word,
   RPCURL      |-> c.rpc,
   RPCUser     |-> c.rpcuser,
   RPCPass     |-> c.rpcpass,
   DataDir     |-> c.datadir,
   PubKeyHash  |-> c.pubkeyhash,
   Mode        |-> IF c.rpc = "" THEN "bench" ELSE "rpc"]
=============================================================================
