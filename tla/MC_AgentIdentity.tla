------------------------- MODULE MC_AgentIdentity --------------------------
(* AgentIdentity for TLC: two algorithms of each kind, so a change can touch *)
(* the hash, the signing algorithm or both.                                 *)
EXTENDS AgentIdentity

MCHashAlgs == {"sha256", "sha384"}
MCSignAlgs == {"rsassa", "ecdsa"}

=============================================================================
