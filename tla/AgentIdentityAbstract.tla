------------------------ MODULE AgentIdentityAbstract ------------------------
(***************************************************************************)
(* What the agent promises of its attestation key (spec 3, 4.3), without   *)
(* the steps of load and store: the AK stored in tpmdata.json is the       *)
(* agent's identity.  A start keeps it when it was made for the configured *)
(* algorithms, and otherwise replaces it by a new AK made for them.  While *)
(* the agent is down a record that does not match the configuration may   *)
(* be discarded.  Nothing else replaces or loses the stored AK: not a      *)
(* restart, a stop or a crash.                                             *)
(***************************************************************************)
EXTENDS Naturals

CONSTANTS
    HashAlgs,     \* the hash algorithms tpm_hash_alg may name
    SignAlgs,     \* the signing algorithms tpm_signing_alg may name
    None          \* no stored AK

VARIABLES
    cfgHash, cfgSign, \* the configured algorithms
    up,               \* the agent runs with its identity
    key               \* the stored AK, or None

avars == <<cfgHash, cfgSign, up, key>>

\* An AK: its algorithms and the number of the key it saves.
AkRecords == [hash : HashAlgs, sign : SignAlgs, ctx : Nat]

\* The stored AK was made for the configured algorithms.
Matches(x) == x # None /\ x.hash = cfgHash /\ x.sign = cfgSign

Init ==
    /\ cfgHash \in HashAlgs
    /\ cfgSign \in SignAlgs
    /\ up = FALSE
    /\ key = None

\* The operator changes the algorithms of a stopped agent.
Edit(h, s) ==
    /\ ~up
    /\ cfgHash' = h
    /\ cfgSign' = s
    /\ UNCHANGED <<up, key>>

\* A record made for other algorithms is given up before a new AK is stored.
Discard ==
    /\ ~up
    /\ ~Matches(key)
    /\ key' = None
    /\ UNCHANGED <<cfgHash, cfgSign, up>>

\* The agent starts with the stored AK, or with a new one for its algorithms.
Run ==
    /\ ~up
    /\ up' = TRUE
    /\ key' \in IF Matches(key)
                THEN {key}
                ELSE {x \in AkRecords : x.hash = cfgHash /\ x.sign = cfgSign}
    /\ UNCHANGED <<cfgHash, cfgSign>>

\* The agent stops or dies; the stored AK stays.
Halt ==
    /\ up
    /\ up' = FALSE
    /\ UNCHANGED <<cfgHash, cfgSign, key>>

Next ==
    \/ \E h \in HashAlgs, s \in SignAlgs : Edit(h, s)
    \/ Discard
    \/ Run
    \/ Halt

Spec == Init /\ [][Next]_avars

=============================================================================
