----------------------------- MODULE ConfigFile -----------------------------
(***************************************************************************)
(* The key-value files of src/internal/config/config.go: what an append    *)
(* leaves in the file, how a file is read, and the settings each loader    *)
(* makes of it.                                                            *)
(*                                                                         *)
(* A file is the sequence of its lines, the last of them unfinished (empty *)
(* when the file ends with a newline); an absent file reads as an empty    *)
(* one.  A line is a sequence of tokens: "=", "#" and whole words, which   *)
(* have no blanks around them and are in lower case (TrimSpace, ToLower).  *)
(* A value is a sequence of tokens too: half of one is what a write that   *)
(* was cut short leaves behind.  The list of a key's values is a function  *)
(* on the numbers of their lines, which stand for its order.               *)
(***************************************************************************)
EXTENDS Integers, SequencesExt

CONSTANTS
  Words,      \* what lines are made of, beside "=" and "#"
  Numerals,   \* the number each numeral stands for
  NumCPU      \* runtime.NumCPU()

ASSUME NumeralsAssumption == \A w \in DOMAIN Numerals : Numerals[w] \in Int
ASSUME NumCPUAssumption   == NumCPU \in Nat \ {0}

ASSUME WordsAssumption   == "=" \notin Words /\ "#" \notin Words

Tokens  == Words \cup {"=", "#"}
Line    == Seq(Tokens)
NoLines == << <<>> >>

-----------------------------------------------------------------------------
\* A newline begins the next line; other tokens continue the last one.
NextLine(file)    == Append(file, <<>>)
Put(file, tokens) == [file EXCEPT ![Len(file)] = @ \o tokens]

\* Mutant of Opened: it relies on the file to end with a newline.
Opened_NoBreak(file) == file

\* AppendConfigLine begins with a newline, whatever the file ends with.
Opened(file) == NextLine(file)

LineOf(key, value) == <<key, "=">> \o value

\* The file after the first n tokens of what AppendConfigLine writes: a
\* newline, the line, and a newline.
Written(file, line, n) ==
  IF n = Len(line) + 2
  THEN NextLine(Put(Opened(file), line))
  ELSE Put(Opened(file), SubSeq(line, 1, n - 1))

-----------------------------------------------------------------------------
\* Comments go, and a line counts when it has a key, an equals sign and a
\* value.
First(line, token) == SelectInSeq(line, LAMBDA t : t = token)

Uncommented(line) ==
  IF Contains(line, "#") THEN SubSeq(line, 1, First(line, "#") - 1) ELSE line

Entry(line) ==
  LET l == Uncommented(line)
      i == First(l, "=")
  IN  [key   |-> SubSeq(l, 1, i - 1),
       value |-> SubSeq(l, i + 1, Len(l)),
       whole |-> i \in 2 .. Len(l) - 1]

loadConfigKV(file) == [i \in DOMAIN file |-> Entry(file[i])]

\* kv[key], each value at the number of its line.
LinesOf(kv, key) == {i \in DOMAIN kv : kv[i].whole /\ kv[i].key = <<key>>}
Values(kv, key)  == [i \in LinesOf(kv, key) |-> kv[i].value]

\* The last value of a key counts; <<>> when there is none.
Value(kv, key) ==
  LET vs == Values(kv, key)
  IN  IF DOMAIN vs = {} THEN <<>> ELSE vs[Max(DOMAIN vs)]

-----------------------------------------------------------------------------
\* How the loaders take a value: as it is, as a number (Sscanf leaves 0 when
\* it does not start with one), or as a switch.  An unknown word of a switch
\* means no to the loaders themselves, and the default to boolFromKV.
TextOf(kv, key, default) ==
  IF Value(kv, key) = <<>> THEN default ELSE Value(kv, key)

NumberOf(kv, key) ==
  LET v == Value(kv, key)
  IN  IF v # <<>> /\ Head(v) \in DOMAIN Numerals THEN Numerals[Head(v)] ELSE 0

AtLeast(kv, key, least, default) ==
  IF NumberOf(kv, key) >= least THEN NumberOf(kv, key) ELSE default

MaxPort == 65535

PortOf(kv, key) ==
  IF NumberOf(kv, key) \in 1 .. MaxPort THEN NumberOf(kv, key) ELSE 0

OnWords  == {<<"1">>, <<"true">>, <<"yes">>, <<"on">>}
OffWords == {<<"0">>, <<"false">>, <<"no">>, <<"off">>}

IsOn(kv, key, default) ==
  IF Value(kv, key) = <<>> THEN default ELSE Value(kv, key) \in OnWords

boolFromKV(kv, key, default) ==
  \/ Value(kv, key) \in OnWords
  \/ Value(kv, key) \notin OffWords /\ default

-----------------------------------------------------------------------------
\* A node is added where it is named first.
LoadAddNodes(kv) ==
  LET vs == Values(kv, "addnode")
  IN  [i \in {l \in DOMAIN vs : \A k \in DOMAIN vs : k < l => vs[k] # vs[l]} |-> vs[i]]

LoadRPCBind(kv) ==
  [Host    |-> TextOf(kv, "rpcbind", <<"127.0.0.1">>),
   TLS     |-> IsOn(kv, "rpctls", FALSE),
   TLSCert |-> TextOf(kv, "rpctlscert", <<"datadir", "rpc.cert">>),
   TLSKey  |-> TextOf(kv, "rpctlskey", <<"datadir", "rpc.key">>)]

LoadP2PBind(kv) == [Host |-> Value(kv, "bind")]

LoadLaunchPolicy(kv) ==
  [AllowScriptCoveragePending |-> IsOn(kv, "allow_script_coverage_pending", FALSE)]

LoadInteropReference(kv) ==
  [Enabled      |-> IsOn(kv, "interop_check", FALSE),
   GenesisHash  |-> Value(kv, "interop_genesis_hash"),
   MessageStart |-> Value(kv, "interop_message_start"),
   P2PPort      |-> PortOf(kv, "interop_p2p_port"),
   RPCPort      |-> PortOf(kv, "interop_rpc_port")]

LoadLogConfig(kv) ==
  LET mode   == IF Value(kv, "log_mode") \in {<<"plain">>, <<"debug">>}
                THEN Value(kv, "log_mode") ELSE <<"pretty">>
      pretty == mode = <<"pretty">>
  IN  [Mode                     |-> mode,
       Color                    |-> boolFromKV(kv, "log_color", TRUE),
       Emoji                    |-> boolFromKV(kv, "log_emoji", TRUE),
       P2PHeartbeat             |-> boolFromKV(kv, "p2p_heartbeat", pretty),
       P2PShowLatency           |-> boolFromKV(kv, "p2p_show_latency", pretty),
       P2PShowPeerHeight        |-> boolFromKV(kv, "p2p_show_peer_height", pretty),
       P2PCompactHeartbeat      |-> boolFromKV(kv, "p2p_compact_heartbeat", TRUE),
       SuppressRepeatedWarnings |-> boolFromKV(kv, "suppress_repeated_warnings", TRUE),
       P2PHeartbeatSeconds      |-> AtLeast(kv, "p2p_heartbeat_seconds", 10, 60),
       TrustedPeerName          |-> Value(kv, "trusted_peer_name")]

\* Mutant of Capped: the cap is the machine's, the file's maximum comes later.
Capped_TooEarly(threads, maxThreads) == IF threads > NumCPU THEN NumCPU ELSE threads

\* The threads a file asks for, within the maximum it ends up with.
Capped(threads, maxThreads) == IF threads > maxThreads THEN maxThreads ELSE threads

LoadMiningConfig(kv) ==
  LET maxThreads == AtLeast(kv, "mining_max_threads", 1, NumCPU)
  IN  [Enabled         |-> IsOn(kv, "mining_enabled", FALSE),
       PubKeyHash      |-> Value(kv, "mining_pubkey_hash"),
       Threads         |-> Capped(AtLeast(kv, "mining_threads", 1, 1), maxThreads),
       MaxThreads      |-> maxThreads,
       AutoStart       |-> IsOn(kv, "mining_auto_start", FALSE),
       PeerRequired    |-> IsOn(kv, "mining_peer_required", FALSE),
       SafeRequired    |-> IsOn(kv, "mining_safe_required", TRUE),
       RejectZeroHash  |-> IsOn(kv, "reject_zero_mining_hash", TRUE),
       StopAfterBlocks |-> AtLeast(kv, "mining_stop_after_blocks", 1, 0)]

LoadPeerPolicy(kv) ==
  LET noSeedNode == boolFromKV(kv, "noseednode", FALSE)
  IN  [ChainID             |-> Value(kv, "chain_id"),
       EnforceChainID      |-> boolFromKV(kv, "chain_id_enforce", FALSE),
       PeerSafety          |-> boolFromKV(kv, "peer_safety", TRUE),
       MaxInboundPeers     |-> AtLeast(kv, "max_inbound_peers", 1, 64),
       BanThreshold        |-> AtLeast(kv, "peer_ban_threshold", 1, 100),
       TemporaryBanSeconds |-> AtLeast(kv, "peer_temp_ban_seconds", 1, 3600),
       ReconnectBackoff    |-> boolFromKV(kv, "peer_reconnect_backoff", TRUE),
       NoSeedNode          |-> noSeedNode,
       SeedPeers           |-> boolFromKV(kv, "seed_peers", ~noSeedNode) /\ ~noSeedNode,
       ConnectOnly         |-> <<Values(kv, "connect"), Values(kv, "connect_only")>>]

\* A user and a password, or neither; half a pair is an error.
LoadRPCAuth(kv) ==
  [User |-> Value(kv, "rpcuser"), Password |-> Value(kv, "rpcpassword")]
Enabled(auth) == auth.User # <<>> /\ auth.Password # <<>>
=============================================================================
