---------------------------- MODULE TemplateWork ----------------------------
(***************************************************************************)
(* What one generation of the CPU engine (runRPCLoop and its poller,       *)
(* src/internal/app/run.go) promises about the templates of the daemon,    *)
(* with no word about flags, locks and channels.  Templates are numbered   *)
(* as they are adopted.  The loop takes the latest one, and never one that *)
(* a block has been submitted for; it drops what it has taken only when    *)
(* that has been replaced or the miner is stopped; otherwise it ends with  *)
(* a submission, of the template it took or one adopted since.             *)
(***************************************************************************)
EXTENDS Naturals

VARIABLES
  latest,     \* the number of templates adopted so far
  taken,      \* the template being worked on, 0: none
  spent,      \* the templates a submission was made for
  stopped     \* has the miner been told to stop?

vars == <<latest, taken, spent, stopped>>

Init == latest = 0 /\ taken = 0 /\ spent = {} /\ stopped = FALSE

Adopt == /\ latest' = latest + 1
         /\ UNCHANGED <<taken, spent, stopped>>

Stop == /\ stopped' = TRUE
        /\ UNCHANGED <<latest, taken, spent>>

Take == /\ taken = 0 /\ latest > 0 /\ latest \notin spent
        /\ taken' = latest
        /\ UNCHANGED <<latest, spent, stopped>>

Drop == /\ taken # 0
        /\ taken < latest \/ stopped
        /\ taken' = 0
        /\ UNCHANGED <<latest, spent, stopped>>

Submit == /\ taken # 0
          /\ \E t \in taken .. latest : spent' = spent \cup {t}
          /\ taken' = 0
          /\ UNCHANGED <<latest, stopped>>

Next == Adopt \/ Stop \/ Take \/ Drop \/ Submit

Spec == Init /\ [][Next]_vars
=============================================================================
