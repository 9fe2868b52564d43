-------------------------- MODULE ConfigBuildSteps --------------------------
(***************************************************************************)
(* KeylimeConfig::build (src/src/common.rs) one lookup at a time.  Every   *)
(* config_get call runs config_file_get and Ini::load_from_file again, so  *)
(* each lookup reads the file as it is at that moment; work_dir is read    *)
(* once and the paths derived from it reuse the value read.  A lookup that *)
(* fails ends the build (its ?), and the last one builds the snapshot.     *)
(*                                                                         *)
(* The operator's changes to the file -- its content, its sections, where  *)
(* it exists -- may happen while the agent is building when                *)
(* EditsWhileBuilding holds; the environment and the uid are the          *)
(* process's own and fixed once it runs.  KeylimeConfig's Start, which     *)
(* builds the whole snapshot in one step, is the abstract specification:   *)
(* Atomic below maps this module onto it.                                  *)
(***************************************************************************)
EXTENDS Naturals, Sequences

CONSTANTS
    Unset, Absent, None, UuidIds, EnvDomain, FileDomain, SectionSets,
    ConfSets, Euids, TpmFiles,
    EditsWhileBuilding   \* whether the file may change during a build

VARIABLES
    env, file, sections, confAt, euid, config, error,  \* as in KeylimeConfig
    phase,   \* "stopped", "building", "running" or "failed"
    pos,     \* the index in Fields of the next lookup
    acc,     \* the values the lookups made so far gave, by field
    fresh    \* the UUID Uuid::new_v4 returns in this build

vars == <<env, file, sections, confAt, euid, config, error, phase, pos, acc,
          fresh>>

\* The helpers of KeylimeConfig, and the atomic build as seen through the
\* refinement mapping: a build in progress is still a stopped agent.
Atomic == INSTANCE KeylimeConfig
            WITH phase <- IF phase = "building" THEN "stopped" ELSE phase

\* As in KeylimeConfig: Option::None is not the loaded identity record, and
\* every key has some value the file can give it.
ASSUME StepAssumption ==
    /\ None # "record"
    /\ \A k \in Atomic!Keys : FileDomain[k] # {}

\* Mutant: the registrar looked up before the agent's own address.
FieldsRegistrarFirst ==
    <<"registrar_ip", "agent_ip", "agent_port", "registrar_port",
      "agent_uuid", "agent_contact_ip", "agent_contact_port", "hash_alg",
      "enc_alg", "sign_alg", "run_revocation", "revocation_cert",
      "revocation_ip", "revocation_port", "secure_size", "payload_script",
      "dec_payload_filename", "key_filename", "extract_payload_zip",
      "work_dir", "tpm_data_path", "tpm_data", "keylime_ca_path",
      "revocation_actions", "revocation_actions_dir",
      "allow_payload_revocation_actions", "run_as", "mtls_enabled",
      "enable_insecure_payload">>

\* The snapshot's fields in the order build() computes them.
Fields == <<"agent_ip", "agent_port", "registrar_ip", "registrar_port",
            "agent_uuid", "agent_contact_ip", "agent_contact_port",
            "hash_alg", "enc_alg", "sign_alg", "run_revocation",
            "revocation_cert", "revocation_ip", "revocation_port",
            "secure_size", "payload_script", "dec_payload_filename",
            "key_filename", "extract_payload_zip", "work_dir",
            "tpm_data_path", "tpm_data", "keylime_ca_path",
            "revocation_actions", "revocation_actions_dir",
            "allow_payload_revocation_actions", "run_as", "mtls_enabled",
            "enable_insecure_payload">>

\* Mutant: work_dir read again by every lookup that uses it.
LookupRereadingWorkDir(f) == Atomic!ResolveIn(fresh, Atomic!work_dir_get)[f]

\* The lookup for field f against the file as it is now; the paths use the
\* work_dir already read, once it has been.
Lookup(f) ==
    LET wd == IF "work_dir" \in DOMAIN acc THEN acc["work_dir"]
                                           ELSE Atomic!work_dir_get
    IN  Atomic!ResolveIn(fresh, wd)[f]

Init ==
    /\ env = [v \in Atomic!EnvVars |-> CHOOSE x \in EnvDomain[v] : TRUE]
    /\ file = [k \in Atomic!Keys |-> CHOOSE x \in FileDomain[k] : TRUE]
    /\ sections = CHOOSE S \in SectionSets : TRUE
    /\ confAt = CHOOSE P \in ConfSets : TRUE
    /\ euid = CHOOSE u \in Euids : TRUE
    /\ phase = "stopped"
    /\ config = None
    /\ error = None
    /\ pos = 0
    /\ acc = <<>>
    /\ fresh \in UuidIds

\* Mutant: the values of the last build not cleared.
BeginBuildKeepAcc ==
    /\ phase = "stopped"
    /\ phase' = "building"
    /\ pos' = 1
    /\ fresh' \in UuidIds
    /\ UNCHANGED <<env, file, sections, confAt, euid, config, error, acc>>

\* The process starts and begins the build.
BeginBuild ==
    /\ phase = "stopped"
    /\ phase' = "building"
    /\ pos' = 1
    /\ acc' = <<>>
    /\ fresh' \in UuidIds
    /\ UNCHANGED <<env, file, sections, confAt, euid, config, error>>

\* One lookup of build(): its ? returns the error, the last one returns
\* Ok(KeylimeConfig { .. }).
BuildStep ==
    /\ phase = "building"
    /\ LET f == Fields[pos]
           r == Lookup(f)
           a == [x \in DOMAIN acc \cup {f} |-> IF x = f THEN r.val ELSE acc[x]]
       IN  IF ~r.ok
           THEN /\ phase' = "failed"
                /\ error' = [kind |-> r.kind, key |-> r.key]
                /\ UNCHANGED <<config, pos, acc>>
           ELSE IF pos = Len(Fields)
           THEN /\ phase' = "running"
                /\ config' = a
                /\ UNCHANGED <<error, pos, acc>>
           ELSE /\ acc' = a
                /\ pos' = pos + 1
                /\ UNCHANGED <<phase, config, error>>
    /\ UNCHANGED <<env, file, sections, confAt, euid, fresh>>

\* The operator's changes: the file only while stopped, or also during a
\* build; the process environment and uid only before the process starts.
FileChangeAllowed ==
    phase = "stopped" \/ (EditsWhileBuilding /\ phase = "building")

EditFile(k, x) ==
    /\ FileChangeAllowed
    /\ file' = [file EXCEPT ![k] = x]
    /\ UNCHANGED <<env, sections, confAt, euid, config, error, phase, pos,
                   acc, fresh>>

SetSections(S) ==
    /\ FileChangeAllowed
    /\ sections' = S
    /\ UNCHANGED <<env, file, confAt, euid, config, error, phase, pos, acc,
                   fresh>>

SetConfAt(P) ==
    /\ FileChangeAllowed
    /\ confAt' = P
    /\ UNCHANGED <<env, file, sections, euid, config, error, phase, pos, acc,
                   fresh>>

SetEnv(v, x) ==
    /\ phase = "stopped"
    /\ env' = [env EXCEPT ![v] = x]
    /\ UNCHANGED <<file, sections, confAt, euid, config, error, phase, pos,
                   acc, fresh>>

SetEuid(u) ==
    /\ phase = "stopped"
    /\ euid' = u
    /\ UNCHANGED <<env, file, sections, confAt, config, error, phase, pos,
                   acc, fresh>>

Stop ==
    /\ phase \in {"running", "failed"}
    /\ phase' = "stopped"
    /\ config' = None
    /\ error' = None
    /\ UNCHANGED <<env, file, sections, confAt, euid, pos, acc, fresh>>

Next ==
    \/ BeginBuild
    \/ BuildStep
    \/ \E k \in Atomic!Keys : \E x \in FileDomain[k] : EditFile(k, x)
    \/ \E S \in SectionSets : SetSections(S)
    \/ \E P \in ConfSets : SetConfAt(P)
    \/ \E v \in Atomic!EnvVars : \E x \in EnvDomain[v] : SetEnv(v, x)
    \/ \E u \in Euids : SetEuid(u)
    \/ Stop

Spec == Init /\ [][Next]_vars

-----------------------------------------------------------------------------
(* Properties *)

\* Every variable has its type; a build in progress has made exactly the
\* lookups before pos.
TypeOK ==
    /\ phase \in {"stopped", "building", "running", "failed"}
    /\ pos \in 0 .. Len(Fields)
    /\ phase = "building" => DOMAIN acc = {Fields[i] : i \in 1 .. pos - 1}
    /\ fresh \in UuidIds

\* Spec 2, 3: the snapshot is built as if in one step from one state of the
\* configuration -- the lookups of build() made one at a time, each
\* reloading the file, give the snapshot (or the first error) that the
\* atomic KeylimeConfig::Start gives.
BuildIsAtomic == Atomic!Spec

\* Spec 4.3, 4.5: the identity record the snapshot carries was loaded from
\* the work_dir the snapshot reports and tpm_data_path names, even when the
\* file changes under the build -- the agent stores its new AK where it
\* looked for the old one.
IdentityPathsAgree ==
    phase = "running" =>
      /\ config.tpm_data_path = Atomic!Join(config.work_dir, Atomic!TPM_DATA)
      /\ (config.tpm_data = "record") =
           (config.work_dir \in DOMAIN TpmFiles
              /\ TpmFiles[config.work_dir] = "record")
      /\ (config.keylime_ca_path = Atomic!Join(config.work_dir,
                                               Atomic!DEFAULT_CA_PATH)
          \/ \E k \in FileDomain["keylime_ca"] :
               k # Absent /\ k # Atomic!Txt("default")
                          /\ config.keylime_ca_path = k.w)

=============================================================================
