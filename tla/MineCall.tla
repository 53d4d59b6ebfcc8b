------------------------------ MODULE MineCall ------------------------------
(***************************************************************************)
(* What one call of mineBlockHashed (src/internal/app/mining.go) promises  *)
(* its caller, with no word about how: the call ends at most once, with a  *)
(* nonce that meets the target, or empty-handed.  It may give up only      *)
(* after a reason to stop (the context was cancelled, or the template was  *)
(* marked stale) has been visible at some moment since it began, and never *)
(* after one of its workers has hit.                                       *)
(***************************************************************************)
CONSTANT Solutions      \* the nonces whose hash meets the target

NoNonce == [ok |-> FALSE]                      \* return 0, false
Found(n) == [ok |-> TRUE, nonce |-> n]         \* return res.nonce, true

VARIABLES
  ended,      \* has the call returned?
  res,        \* what it returned
  hit,        \* has some worker found a nonce that meets the target?
  stopSeen    \* has a reason to stop been visible since the call began?

vars == <<ended, res, hit, stopSeen>>

Init == /\ ended = FALSE
        /\ res = NoNonce
        /\ hit = FALSE
        /\ stopSeen \in BOOLEAN

Stop == /\ stopSeen' = TRUE
        /\ UNCHANGED <<ended, res, hit>>

Hit == /\ Solutions # {}
       /\ hit' = TRUE
       /\ UNCHANGED <<ended, res, stopSeen>>

ReturnFound == /\ ~ended /\ hit
               /\ ended' = TRUE
               /\ \E n \in Solutions : res' = Found(n)
               /\ UNCHANGED <<hit, stopSeen>>

GiveUp == /\ ~ended /\ stopSeen /\ ~hit
          /\ ended' = TRUE
          /\ UNCHANGED <<res, hit, stopSeen>>

Next == Stop \/ Hit \/ ReturnFound \/ GiveUp

Spec == Init /\ [][Next]_vars
=============================================================================
