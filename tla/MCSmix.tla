------------------------------- MODULE MCSmix -------------------------------
(***************************************************************************)
(* Smix with the bitwise and, on memories of a few groups: three times a   *)
(* power of two, as the S-box, and powers of two, as V.                    *)
(***************************************************************************)
EXTENDS Smix, Bitwise

MCAnd(a, mask) == a & mask
=============================================================================
