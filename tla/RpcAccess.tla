------------------------------ MODULE RpcAccess ------------------------------
(***************************************************************************)
(* How the miner gets at the daemon's RPC: the credentials of              *)
(* legacycoin.conf, the cookie file, the daemon that makes it, and the     *)
(* clients that read it.                                                   *)
(*                                                                         *)
(* The daemon and its operator are external: the daemon starts with        *)
(* LoadRPCAuth and, when the file has no credentials, with                 *)
(* EnsureRPCCookieForDataDir of this repository's config package; it may   *)
(* crash at any step, in the middle of the cookie too.  The operator       *)
(* appends settings (AppendConfigLine), in writes that may be cut short,   *)
(* and may remove the cookie.                                              *)
(*                                                                         *)
(* The miner reads the cookie when it makes a client, once per generation, *)
(* and never again (newRPCClient, called by runRPCLoop and                 *)
(* runRPCGPULoop; the two clients have nothing in common, one is           *)
(* modelled).  A cookie file is modelled by the parts that SplitN makes of *)
(* it, user and password.                                                  *)
(***************************************************************************)
EXTENDS ConfigFile, StartUp

CONSTANTS
  Settings,      \* the lines an operator may append: [key, value]
  FirstFiles,    \* what legacycoin.conf may be to start with
  Secrets,       \* bound: the secrets of the cookies made, in this order
  MaxEdits,      \* bound: appends
  Launches,      \* how the miner may be started: [flags, file]
  EnvDir,        \* LEGACYCOIN_DATADIR, "" when it is not set
  NodeDirs,      \* the data directories the daemon may be given; "": none
  Missing,       \* no cookie file
  NoClient       \* no RPCClient yet

Pairs == [User : Line, Password : Line]

ASSUME AccessAssumption ==
  /\ MaxEdits \in Nat
  /\ Secrets \in Seq(Seq(Words) \ {<<>>})
  /\ "__cookie__" \in Words
  /\ FirstFiles \subseteq Seq(Line) \ {<<>>}
  /\ Missing \notin Seq(Line)
  /\ NoClient \notin Pairs

\* The operator, who is external, appends settings that have a name and a value.
ASSUME SettingsAssumption ==
  \A s \in Settings : s.key \in Words /\ s.value \in Line \ {<<>>}

\* The types of the flags (main.go:132-143).
ASSUME LaunchAssumption ==
  \A l \in Launches :
    LET c == Parse(l.flags, l.file)
    IN  /\ c.threads \in Int
        /\ c.miner_id \in Nat /\ c.total_miners \in Nat
        /\ c.rpcuser \in Line /\ c.rpcpass \in Line

VARIABLES
  conf,      \* legacycoin.conf, its lines
  cookie,    \* .cookie in the daemon's directory: its parts, or Missing
  nodeDir,   \* the daemon's data directory
  daemon,    \* "down", "writing" the cookie, "up"
  auth,      \* what the daemon asks for: [User, Password]
  byCookie,  \* does the daemon use the cookie?
  secrets,   \* secrets drawn
  edits,     \* appends so far
  miner,     \* the miner's Config, as main has made it
  mode,      \* m.mode
  client,    \* the credentials of the loop's RPCClient, or NoClient
  proven     \* history: has a call of this client succeeded that the daemon
             \* would accept after a restart too?

node  == <<nodeDir, daemon, auth, byCookie, secrets>>
loop  == <<mode, client>>
vars  == <<conf, cookie, node, edits, miner, loop, proven>>

NoAuth   == [User |-> <<>>, Password |-> <<>>]
Modes    == {"bench", "rpc", "stratum"}

-----------------------------------------------------------------------------
(* Where the cookie is. *)

\* config.DefaultDataDir; the home directory is known.
DefaultDataDir == IF EnvDir # "" THEN EnvDir ELSE "~/.legacycoind"

\* tui.go has a default of its own.
defaultDataDir == "~/.legacycoin"

MinerDir == IF miner.DataDir = "" THEN defaultDataDir ELSE miner.DataDir

SameDir == MinerDir = nodeDir

-----------------------------------------------------------------------------
(* The cookie. *)

CookieOf(n) == << <<"__cookie__">>, Secrets[n] >>

\* What a write of it that is cut short may leave.
TornCookies(n) ==
  { << <<>> >>, << <<"__cookie__">> >>, << <<"__cookie__">>, <<>> >>,
    << <<"__cookie__">>, <<Head(Secrets[n])>> >> }

\* Mutant of Usable: the password may be empty.
Usable_NoPassword(c) == c # Missing /\ Len(c) = 2 /\ c[1] # <<>>

\* Mutant of Usable: every start makes a new cookie.
Usable_Never(c) == FALSE

\* EnsureRPCCookieForDataDir keeps a cookie of two parts.
Usable(c) == c # Missing /\ Len(c) = 2 /\ c[1] # <<>> /\ c[2] # <<>>

AuthOf(c) == [User |-> c[1], Password |-> c[2]]

\* LoadRPCCookieForDataDir takes empty parts too; its error leaves newRPCClient
\* without credentials.
LoadRPCCookie(c) == IF c # Missing /\ Len(c) = 2 THEN AuthOf(c) ELSE NoAuth

-----------------------------------------------------------------------------
Init ==
  /\ conf \in FirstFiles
  /\ cookie = Missing
  /\ nodeDir \in {IF d = "" THEN DefaultDataDir ELSE d : d \in NodeDirs}
  /\ daemon = "down" /\ auth = NoAuth /\ byCookie = FALSE
  /\ secrets = 0 /\ edits = 0
  /\ \E l \in Launches :
       LET c == Parse(l.flags, l.file)
       IN  Acceptable(c) /\ miner = AppConfig(c)
  /\ mode = miner.Mode
  /\ client = NoClient
  /\ proven = FALSE

-----------------------------------------------------------------------------
(* The operator. *)

\* An append of which n tokens reach the file; all of them when it is not cut
\* short.
AppendConfigLine(s, n) ==
  /\ edits < MaxEdits
  /\ edits' = edits + 1
  /\ conf' = Written(conf, LineOf(s.key, s.value), n)
  /\ proven' = (proven /\ s.key \notin {"rpcuser", "rpcpassword"})
  /\ UNCHANGED <<cookie, node, miner, loop>>

Complete(s) == Len(LineOf(s.key, s.value)) + 2

RemoveCookie ==
  /\ cookie # Missing /\ daemon # "writing"
  /\ cookie' = Missing
  /\ proven' = FALSE
  /\ UNCHANGED <<conf, node, edits, miner, loop>>

-----------------------------------------------------------------------------
(* The daemon. *)

Serve(credentials, fromCookie) ==
  /\ daemon' = "up"
  /\ auth' = credentials
  /\ byCookie' = fromCookie

ConfAuth == LoadRPCAuth(loadConfigKV(conf))

\* Half a pair of credentials keeps the daemon from starting.
StartWithConf ==
  /\ daemon = "down"
  /\ Enabled(ConfAuth)
  /\ Serve(ConfAuth, FALSE)
  /\ UNCHANGED <<conf, cookie, nodeDir, secrets, edits, miner, loop, proven>>

NeedsCookie == ConfAuth = NoAuth

StartWithCookie ==
  /\ daemon = "down"
  /\ NeedsCookie /\ Usable(cookie)
  /\ Serve(AuthOf(cookie), TRUE)
  /\ UNCHANGED <<conf, cookie, nodeDir, secrets, edits, miner, loop, proven>>

\* WriteFile truncates first.
BeginCookie ==
  /\ daemon = "down"
  /\ NeedsCookie /\ ~Usable(cookie)
  /\ secrets < Len(Secrets)
  /\ secrets' = secrets + 1
  /\ cookie' = << <<>> >>
  /\ daemon' = "writing"
  /\ UNCHANGED <<conf, nodeDir, auth, byCookie, edits, miner, loop, proven>>

EndCookie ==
  /\ daemon = "writing"
  /\ cookie' = CookieOf(secrets)
  /\ Serve(AuthOf(CookieOf(secrets)), TRUE)
  /\ UNCHANGED <<conf, nodeDir, secrets, edits, miner, loop, proven>>

CrashInCookie ==
  /\ daemon = "writing"
  /\ cookie' \in TornCookies(secrets)
  /\ daemon' = "down"
  /\ UNCHANGED <<conf, nodeDir, auth, byCookie, secrets, edits, miner, loop, proven>>

StopOrCrash ==
  /\ daemon = "up"
  /\ daemon' = "down"
  /\ UNCHANGED <<conf, cookie, nodeDir, auth, byCookie, secrets, edits, miner, loop, proven>>

-----------------------------------------------------------------------------
(* The miner. *)

NoneGiven == miner.RPCUser = <<>> /\ miner.RPCPass = <<>>

\* newRPCClient: the cookie is looked for only when neither is given.
Credentials ==
  IF NoneGiven
  THEN LoadRPCCookie(IF SameDir THEN cookie ELSE Missing)
  ELSE [User |-> miner.RPCUser, Password |-> miner.RPCPass]

\* NewRPCClient sends no credentials when one of them is empty.
Header(credentials) == IF Enabled(credentials) THEN credentials ELSE NoAuth

MakeClient ==
  /\ mode = "rpc" /\ client = NoClient
  /\ client' = Header(Credentials)
  /\ UNCHANGED <<conf, cookie, node, edits, miner, mode, proven>>

\* A call of this client is answered: the daemon is there, the URL is its own,
\* and the credentials are those it asks for.
Accepted == daemon = "up" /\ client = auth

\* A restart would find the credentials that the daemon has.
Lasting == IF byCookie THEN NeedsCookie /\ cookie # Missing
                       ELSE auth = ConfAuth

Call ==
  /\ Accepted /\ miner.RPCURL # ""
  /\ proven' = Lasting
  /\ UNCHANGED <<conf, cookie, node, edits, miner, loop>>

\* A key starts a new generation, whose loop makes a client of its own.
Restart(newMode) ==
  /\ mode' = newMode
  /\ client' = NoClient
  /\ proven' = FALSE
  /\ UNCHANGED <<conf, cookie, node, edits, miner>>

NextMode == [m \in Modes |-> CASE m = "bench" -> "rpc"
                               [] m = "rpc" -> "stratum"
                               [] m = "stratum" -> "bench"]

PressMode    == Restart(NextMode[mode])
PressThreads == Restart(mode)
PressRestart == mode = "rpc" /\ miner.RPCURL # "" /\ Restart(mode)

-----------------------------------------------------------------------------
Operator == \/ \E s \in Settings : \E n \in 1 .. Complete(s) : AppendConfigLine(s, n)
            \/ RemoveCookie

Daemon == \/ StartWithConf \/ StartWithCookie
          \/ BeginCookie \/ EndCookie \/ CrashInCookie
          \/ StopOrCrash

Miner == MakeClient \/ Call \/ PressMode \/ PressThreads \/ PressRestart

Next == Operator \/ Daemon \/ Miner

Spec == Init /\ [][Next]_vars

-----------------------------------------------------------------------------
(* Properties. *)

\* Whatever the file says, and in whatever order: the daemon's mining threads
\* are within their maximum, ports within 16 bits, the heartbeat no shorter than
\* ten seconds, no seed peers with noseednode, no node added twice.
SettingsInRange ==
  LET kv      == loadConfigKV(conf)
      mining  == LoadMiningConfig(kv)
      interop == LoadInteropReference(kv)
      peers   == LoadPeerPolicy(kv)
  IN  /\ mining.Threads \in 1 .. mining.MaxThreads
      /\ mining.StopAfterBlocks >= 0
      /\ LoadLogConfig(kv).P2PHeartbeatSeconds >= 10
      /\ {interop.P2PPort, interop.RPCPort} \subseteq 0 .. MaxPort
      /\ LoadRPCBind(kv).Host # <<>>
      /\ peers.NoSeedNode => ~peers.SeedPeers
      /\ peers.MaxInboundPeers >= 1
      /\ IsInjective(LoadAddNodes(kv))

\* Files, cookie, daemon and clients are what the code can make them; the
\* settings are in their ranges, the miner's index is below the number of
\* miners, and it has a thread.
TypeOK ==
  /\ conf \in Seq(Line) /\ conf # <<>>
  /\ cookie = Missing \/ cookie \in Seq(Line)
  /\ daemon \in {"down", "writing", "up"} /\ byCookie \in BOOLEAN
  /\ auth \in Pairs /\ (daemon = "up" => Enabled(auth))
  /\ secrets \in 0 .. Len(Secrets) /\ edits \in 0 .. MaxEdits
  /\ miner.MinerID < miner.TotalMiners /\ miner.Threads >= 1
  /\ mode \in Modes
  /\ client = NoClient \/ client \in Pairs
  /\ proven \in BOOLEAN
  /\ SettingsInRange

\* A client made without given credentials (newRPCClient) while a daemon is up
\* that uses the cookie, and while the cookie is there, is one the daemon
\* accepts: whatever cookie the daemon found, whole, torn by a crash, or its
\* own, the two read the same in it (EnsureRPCCookieForDataDir,
\* LoadRPCCookieForDataDir) and NewRPCClient sends it.
FreshClientAccepted ==
  [][ (MakeClient /\ daemon = "up" /\ byCookie /\ cookie # Missing /\ SameDir
       /\ NoneGiven)
      => Accepted' ]_vars

\* The client is made once and never reads the cookie again: so a daemon that
\* has accepted it must accept it after every crash and restart, as long as
\* nobody appends credentials or removes the cookie (EnsureRPCCookieForDataDir
\* keeps a cookie it can use; AppendConfigLine of another setting leaves the
\* credentials alone, whatever the end of the file is like).
AuthorisedStays == proven /\ daemon = "up" => Accepted

\* What AppendConfigLine has written in full is what loadConfigKV reads, even
\* behind a line that was cut short or edited without a newline, and no other
\* setting changes with it.  (A value with a "#" in it is cut at the "#".)
AppendTakesEffect ==
  [][ \A s \in Settings :
        AppendConfigLine(s, Complete(s)) /\ ~Contains(s.value, "#")
        => LET old == loadConfigKV(conf)
               new == loadConfigKV(conf')
           IN  /\ Value(new, s.key) = s.value
               /\ \A t \in Settings :
                    t.key # s.key => Values(new, t.key) = Values(old, t.key) ]_vars

=============================================================================
