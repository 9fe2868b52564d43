--------------------------- MODULE AgentIdentity ---------------------------
(***************************************************************************)
(* The life of the agent's attestation key (AK) record, tpmdata.json, over *)
(* restarts, crashes and configuration changes (src/src/common.rs: TpmData *)
(* load/store/valid and the part of KeylimeConfig::build that reads the    *)
(* algorithms and loads the record).  What the agent does with the loaded *)
(* record -- reuse it when valid() holds, else create a new AK and store   *)
(* it -- is in the agent's main program, outside src/, and is modelled     *)
(* from the spec (4.3).                                                    *)
(*                                                                         *)
(* TpmData::store is File::create (which truncates the file) followed by   *)
(* serde_json::to_writer_pretty: two steps, and a crash or an I/O error    *)
(* between them leaves a file that TpmData::load cannot parse.             *)
(***************************************************************************)
EXTENDS Naturals

CONSTANTS
    HashAlgs,     \* the hash algorithms tpm_hash_alg may name
    SignAlgs,     \* the signing algorithms tpm_signing_alg may name
    None,         \* Option::None, and "no file"
    Partial,      \* a truncated or half-written tpmdata.json
    MaxEdits,     \* how many times the operator changes the algorithms
    MaxFaults,    \* how many crashes and I/O failures happen
    MaxGen        \* bound on the AKs created; never reached (RegenerationsBounded)

\* The persisted record: TpmData { ak_hash_alg, ak_sign_alg, ak_context },
\* the context abstracted to the number of the AK it saves.
Records == [hash : HashAlgs, sign : SignAlgs, ctx : Nat]

\* The configuration snapshot's algorithms and tpm_data.
Snapshots == [hash_alg : HashAlgs, sign_alg : SignAlgs,
              tpm_data : Records \cup {None}]

ASSUME ConstAssumption ==
    /\ HashAlgs # {} /\ SignAlgs # {}
    /\ None \notin Records \cup Snapshots /\ Partial \notin Records /\ None # Partial
    /\ MaxEdits \in Nat /\ MaxFaults \in Nat /\ MaxGen \in Nat
    /\ MaxGen > 1 + MaxEdits + MaxFaults

VARIABLES
    cfgHash, cfgSign, \* tpm_hash_alg and tpm_signing_alg in keylime.conf
    disk,             \* <work_dir>/tpmdata.json: None, Partial or a record
    phase,            \* "down", "loaded", "created", "writing" or "up"
    snap,             \* the configuration snapshot's algorithms and tpm_data
    ak,               \* the AK the agent works with, or None
    gen,              \* the number of AKs created so far
    edits, faults     \* configuration changes and faults so far

vars == <<cfgHash, cfgSign, disk, phase, snap, ak, gen, edits, faults>>

\* Mutant: only the hash algorithm compared.
valid_hash_only(d, hash_alg, sign_alg) == hash_alg = d.hash

\* TpmData::valid
valid(d, hash_alg, sign_alg) == hash_alg = d.hash /\ sign_alg = d.sign

\* Mutant: the record never found (wrong path or inverted exists()).
LoadNever(d) == None

\* Mutant: a truncated file taken for a record (no parse error checked).
LoadPartial(d) == d

\* TpmData::load after tpm_data_path.exists(): a missing or unparsable file
\* is a warning and gives None.
Load(d) == IF d \in Records THEN d ELSE None

\* The loaded record can be reused with the snapshot's algorithms.
Reusable(s) == s.tpm_data # None /\ valid(s.tpm_data, s.hash_alg, s.sign_alg)

Init ==
    /\ cfgHash \in HashAlgs
    /\ cfgSign \in SignAlgs
    /\ disk = None
    /\ phase = "down"
    /\ snap = None
    /\ ak = None
    /\ gen = 0
    /\ edits = 0
    /\ faults = 0

\* The operator edits tpm_hash_alg / tpm_signing_alg while the agent is down.
EditConfig(h, s) ==
    /\ phase = "down"
    /\ edits < MaxEdits
    /\ cfgHash' = h
    /\ cfgSign' = s
    /\ edits' = edits + 1
    /\ UNCHANGED <<disk, phase, snap, ak, gen, faults>>

\* Mutant: an unreadable record aborts the start (load(...)? instead of a
\* warning); the service manager's restart fails the same way.
StartLoadFatal ==
    /\ phase = "down"
    /\ IF disk = Partial
       THEN UNCHANGED vars
       ELSE /\ snap' = [hash_alg |-> cfgHash, sign_alg |-> cfgSign,
                        tpm_data |-> Load(disk)]
            /\ phase' = "loaded"
            /\ UNCHANGED <<cfgHash, cfgSign, disk, ak, gen, edits, faults>>

\* KeylimeConfig::build: the algorithms, then the record if it loads.
Start ==
    /\ phase = "down"
    /\ snap' = [hash_alg |-> cfgHash, sign_alg |-> cfgSign,
                tpm_data |-> Load(disk)]
    /\ phase' = "loaded"
    /\ UNCHANGED <<cfgHash, cfgSign, disk, ak, gen, edits, faults>>

\* The record was made for the configured algorithms: use its AK.
ReuseAk ==
    /\ phase = "loaded"
    /\ Reusable(snap)
    /\ ak' = snap.tpm_data
    /\ phase' = "up"
    /\ UNCHANGED <<cfgHash, cfgSign, disk, snap, gen, edits, faults>>

\* No record, or a stale one: create an AK for the configured algorithms.
CreateAk ==
    /\ phase = "loaded"
    /\ ~Reusable(snap)
    /\ gen < MaxGen
    /\ ak' = [hash |-> snap.hash_alg, sign |-> snap.sign_alg, ctx |-> gen]
    /\ gen' = gen + 1
    /\ phase' = "created"
    /\ UNCHANGED <<cfgHash, cfgSign, disk, snap, edits, faults>>

\* TpmData::store, File::create: the file now exists and is empty.
StoreCreate ==
    /\ phase = "created"
    /\ disk' = Partial
    /\ phase' = "writing"
    /\ UNCHANGED <<cfgHash, cfgSign, snap, ak, gen, edits, faults>>

\* Mutant: the write's error ignored (no ? on to_writer_pretty).
StoreWriteIgnoringError ==
    /\ phase = "writing"
    /\ disk' \in {ak, Partial}
    /\ phase' = "up"
    /\ UNCHANGED <<cfgHash, cfgSign, snap, ak, gen, edits, faults>>

\* TpmData::store, serde_json::to_writer_pretty: the record is written.
StoreWrite ==
    /\ phase = "writing"
    /\ disk' = ak
    /\ phase' = "up"
    /\ UNCHANGED <<cfgHash, cfgSign, snap, ak, gen, edits, faults>>

\* The agent dies at any point.  An I/O error of File::create or of the
\* write makes store return Err, which ends the agent the same way.
Crash ==
    /\ phase # "down"
    /\ faults < MaxFaults
    /\ phase' = "down"
    /\ snap' = None
    /\ ak' = None
    /\ faults' = faults + 1
    /\ UNCHANGED <<cfgHash, cfgSign, disk, gen, edits>>

\* The operator stops a running agent.
Stop ==
    /\ phase = "up"
    /\ phase' = "down"
    /\ snap' = None
    /\ ak' = None
    /\ UNCHANGED <<cfgHash, cfgSign, disk, gen, edits, faults>>

Next ==
    \/ \E h \in HashAlgs, s \in SignAlgs : EditConfig(h, s)
    \/ Start
    \/ ReuseAk
    \/ CreateAk
    \/ StoreCreate
    \/ StoreWrite
    \/ Crash
    \/ Stop

\* The agent's startup is one sequential program, and a stopped or crashed
\* agent is started again by its service manager.
Fairness ==
    /\ WF_vars(Start)
    /\ WF_vars(ReuseAk)
    /\ WF_vars(CreateAk)
    /\ WF_vars(StoreCreate)
    /\ WF_vars(StoreWrite)

Spec == Init /\ [][Next]_vars
FairSpec == Spec /\ Fairness

-----------------------------------------------------------------------------
(* Properties *)

\* Every variable has its type: the file holds nothing, a truncated record or
\* a TpmData, and the snapshot and the AK have the shapes build() gives them.
TypeOK ==
    /\ cfgHash \in HashAlgs
    /\ cfgSign \in SignAlgs
    /\ disk \in Records \cup {None, Partial}
    /\ phase \in {"down", "loaded", "created", "writing", "up"}
    /\ snap \in Snapshots \cup {None}
    /\ ak \in Records \cup {None}
    /\ gen \in Nat /\ edits \in Nat /\ faults \in Nat

\* Spec 4.3: an agent never works with an AK made for other algorithms than
\* the ones it was configured with -- a record left by an earlier
\* configuration is replaced, not reused.
AkMatchesConfig ==
    phase = "up" => /\ ak.hash = snap.hash_alg /\ ak.sign = snap.sign_alg
                    /\ snap.hash_alg = cfgHash /\ snap.sign_alg = cfgSign

\* Spec 3: the file is the durable source of truth -- while the agent runs,
\* tpmdata.json holds the AK it works with, so a restart finds that AK.
DiskHoldsRunningAk ==
    phase = "up" => disk = ak

\* The agent only creates an AK when it must: once at first start, then
\* once per configuration change and once per crash or failed store.
RegenerationsBounded ==
    gen <= 1 + edits + faults

\* A stopped or crashed agent eventually runs again with its AK on disk,
\* whatever crash left the record half-written.
Recovers ==
    phase = "down" ~> (phase = "up" /\ disk = ak)

\* The stored AK as the abstract identity sees it: the record tpmdata.json
\* holds, or None for no file and for a file that does not parse.
StoredAk == IF disk \in Records THEN disk ELSE None

\* The abstract identity: the agent is up in phase "up" only; the loading,
\* creating and writing steps of a start happen while it is still down.
Identity == INSTANCE AgentIdentityAbstract
              WITH up <- phase = "up", key <- StoredAk

\* Spec 3, 4.3: the start sequence of the agent (load, reuse or create,
\* File::create, write) with crashes anywhere implements the abstract
\* identity -- a stored AK is kept while it matches the configuration, is
\* replaced only by an AK for the configured algorithms, and is never lost
\* by a restart, a stop or a crash.
IdentityRefines == Identity!Spec

=============================================================================
