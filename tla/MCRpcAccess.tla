---------------------------- MODULE MCRpcAccess ----------------------------
(***************************************************************************)
(* RpcAccess with a few settings, files and ways to start the miner.       *)
(***************************************************************************)
EXTENDS RpcAccess, TLC

Setting(k, v) == [key |-> k, value |-> v]

MCWords == STRING \ {"=", "#"}

MCNumerals == ("2" :> 2) @@ ("5" :> 5) @@ ("8" :> 8) @@ ("70000" :> 70000)

MCSettings ==
  { Setting("rpcuser", <<"bob">>),
    Setting("rpcpassword", <<"pw", "#", "1">>),
    Setting("mining_max_threads", <<"2">>),
    Setting("addnode", <<"host">>) }

\* No file; a file edited by hand, with comments, a few settings out of range
\* and no newline at its end.
MCFirstFiles ==
  { NoLines,
    << <<"addnode", "=", "host">>,
       <<"p2p_heartbeat_seconds", "=", "5">>,
       <<"interop_rpc_port", "=", "70000">>,
       <<"mining_threads", "=", "8">>,
       <<"noseednode", "=", "on">>,
       <<"seed_peers", "=", "on">>,
       <<"rpcuser", "=", "ann", "#", "me">>,
       <<"#", "rpctls", "=", "1">>,
       <<"rpcpassword", "=", "pw">> >> }

MCSecrets == << <<"s", "1">>, <<"s", "2">> >>

None == [n \in {} |-> 0]
Url  == ("rpc" :> "node:19556") @@ ("pubkeyhash" :> "pkh")

MCLaunches ==
  { [flags |-> None, file |-> None],
    [flags |-> Url, file |-> None],
    [flags |-> ("datadir" :> "~/.legacycoind") @@ ("threads" :> 0),
     file  |-> ("miner_id" :> 1) @@ ("total_miners" :> 2) @@ Url],
    [flags |-> ("rpcpass" :> <<"pw">>),
     file  |-> ("rpcuser" :> <<"ann">>) @@ Url],
    [flags |-> ("miner_id" :> 1) @@ Url, file |-> ("total_miners" :> 0)],
    [flags |-> ("pubkeyhash" :> "short") @@ Url, file |-> None],
    [flags |-> ("rpc" :> "node:19556"), file |-> None] }
=============================================================================
