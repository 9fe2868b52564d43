---------------------------- MODULE MC_SymmKey -----------------------------
(***************************************************************************)
(* SymmKey for TLC: keys of 1 and 2 bytes of 2 bits stand for the 16- and  *)
(* 32-byte keys of 8 bits; shares are delivered as every string of up to  *)
(* 3 bytes, so both lengths, every too-short and too-long length and     *)
(* every pair of lengths are tried.                                       *)
(***************************************************************************)
EXTENDS SymmKey

MCInputs == UNION {[1 .. n -> Bytes] : n \in 0 .. 3}

=============================================================================
