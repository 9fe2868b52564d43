--------------------------- MODULE KeylimeConfig ---------------------------
(***************************************************************************)
(* The agent's configuration resolution (src/src/common.rs):              *)
(* KeylimeConfig::build and the resolvers it calls -- config_file_get,    *)
(* config_get, config_get_env, get_uuid, cloudagent_contact_ip_get and    *)
(* cloudagent_contact_port_get.                                           *)
(*                                                                         *)
(* The environment, the INI file and the effective uid are state an       *)
(* operator changes while the agent is stopped; which directories hold an *)
(* identity file is fixed per model (TpmFiles).  The agent starts by      *)
(* building one immutable snapshot from them (or fails                   *)
(* with the first error in the order build() makes its lookups) and is    *)
(* stopped again.  Strings are abstracted to Texts: a word and whether it *)
(* was written in upper case, which is all to_lowercase, bool::from_str,  *)
(* the literal matches and Uuid::parse_str tell apart.                    *)
(***************************************************************************)
EXTENDS KeylimeConfigNames, Sequences, FiniteSets, FiniteSetsExt, TLC

CONSTANTS
    Unset,        \* an environment variable that is not set
    Absent,       \* a key that is not in its section of the INI file
    None,         \* Option::None
    UuidIds,      \* identities a UUID text can denote (canonical words)
    EnvDomain,    \* EnvDomain[v]: the values the operator may give variable v
    FileDomain,   \* FileDomain[k]: the values the operator may give key k
    SectionSets,  \* the sets of sections the file may contain
    ConfSets,     \* the sets of paths at which a config file may exist
    Euids,        \* effective uids the agent may be started with
    TpmFiles      \* TpmFiles[d]: what <d>/tpmdata.json holds ("corrupt",
                  \* "record"); a directory outside its domain has none

ASSUME ConfigAssumption ==
    /\ \A v \in EnvVars : EnvDomain[v] \subseteq Texts \cup {Unset}
    /\ \A k \in Keys : FileDomain[k] \subseteq Texts \cup {Absent}
    /\ \A k \in Keys : FileDomain[k] # {}
    /\ SectionSets \subseteq SUBSET Sections
    /\ UuidIds \subseteq STRING /\ UuidIds # {}
    /\ Euids \subseteq Nat

\* Option::None is not Some(record): TpmDataLoad's two outcomes differ.
ASSUME NoneAssumption == None # "record"

\* Uuid::parse_str reads a UUID from its hyphenated or its simple form:
\* distinct UUIDs have distinct simple forms, and no simple form is a
\* hyphenated one or one of the words get_uuid matches first.
ASSUME UuidAssumption ==
    \A id, id2 \in UuidIds :
        /\ Simple(id) \notin UuidIds \cup {"openstack", "hash_ek", "generate"}
        /\ Simple(id) = Simple(id2) => id = id2
        /\ id \notin {"openstack", "hash_ek", "generate"}

VARIABLES
    env,       \* the process environment
    file,      \* key -> value of the INI file (one text per key)
    sections,  \* the sections the INI file has
    confAt,    \* the paths at which the INI file exists
    euid,      \* the effective uid the agent runs with
    phase,     \* "stopped", "running" or "failed"
    config,    \* the snapshot built at the last start, or None
    error      \* the error the last start failed with, or None

vars == <<env, file, sections, confAt, euid, phase, config, error>>

Ok(v) == [ok |-> TRUE, val |-> v]
Err(kind, key) == [ok |-> FALSE, kind |-> kind, key |-> key]
\* Result::and_then
AndThen(r, F(_)) == IF r.ok THEN F(r.val) ELSE r
\* Result::or_else
OrElse(r, G) == IF r.ok THEN r ELSE G

IsSet(v) == env[v] \notin {Unset, Empty}

to_lowercase(t) == [t EXCEPT !.up = FALSE]

\* bool::from_str: only "true" and "false", exactly.
bool_from_str(t, key) ==
    IF ~t.up /\ t.w \in {"true", "false"} THEN Ok(t.w = "true")
                                          ELSE Err("ParseBool", key)

\* Path::join for a relative second component.
Join(dir, rel) == IF dir = "" THEN rel ELSE dir \o "/" \o rel

KeySection(k) == IF k \in GeneralKeys THEN "general" ELSE "cloud_agent"

config_file_get ==
    IF IsSet("KEYLIME_CONFIG") THEN env["KEYLIME_CONFIG"].w ELSE DEFAULT_CONFIG

\* Ini::load_from_file, then the section, then the key.
config_get(sec, key) ==
    IF config_file_get \notin confAt THEN Err("Io", key)
    ELSE IF sec \notin sections THEN Err("Configuration", key)
    ELSE IF file[key] = Absent THEN Err("Configuration", key)
    ELSE Ok(file[key])

\* Mutant: an empty variable taken as an override.
config_get_env_empty(sec, key, var) ==
    IF env[var] # Unset THEN Ok(env[var]) ELSE config_get(sec, key)

config_get_env(sec, key, var) ==
    IF IsSet(var) THEN Ok(env[var]) ELSE config_get(sec, key)

\* Parse a text with TryFrom for the algorithm names in Names.
AlgFrom(key, Names) ==
    AndThen(config_get("cloud_agent", key),
            LAMBDA t : IF ~t.up /\ t.w \in Names THEN Ok(t.w)
                                                ELSE Err("Algorithm", key))

\* A boolean setting that is required.
RequiredBool(key) ==
    AndThen(config_get("cloud_agent", key),
            LAMBDA t : bool_from_str(to_lowercase(t), key))

\* Mutant: a configured UUID kept in the case it was written in.
get_uuid_keepcase(t, fresh) ==
    IF t = Txt("openstack") \/ t = Txt("hash_ek") THEN t
    ELSE IF t = Txt("generate") THEN Txt(fresh)
    ELSE IF t.w \in UuidIds THEN t
    ELSE IF \E id \in UuidIds : t.w = Simple(id)
         THEN Txt(CHOOSE id \in UuidIds : t.w = Simple(id))
    ELSE Txt(fresh)

\* get_uuid: fresh is the UUID Uuid::new_v4 would return.
get_uuid(t, fresh) ==
    IF t = Txt("openstack") \/ t = Txt("hash_ek") THEN t
    ELSE IF t = Txt("generate") THEN Txt(fresh)
    ELSE IF t.w \in UuidIds THEN Txt(t.w)
    ELSE IF \E id \in UuidIds : t.w = Simple(id)
         THEN Txt(CHOOSE id \in UuidIds : t.w = Simple(id))
    ELSE Txt(fresh)

\* revocation_ip_get / revocation_port_get: the file's value unless the
\* variable is set (build() does not call them).
revocation_ip_get ==
    config_get_env("general", "receive_revocation_ip", "REVOCATION_IP")

revocation_port_get ==
    config_get_env("general", "receive_revocation_port", "REVOCATION_PORT")

cloudagent_contact_ip_get ==
    LET r == config_get_env("cloud_agent", "agent_contact_ip",
                            "KEYLIME_AGENT_CONTACT_IP")
    IN  IF r.ok THEN r.val ELSE None

\* Mutant: a missing contact port propagated as an error.
contact_port_required ==
    LET r == config_get_env("cloud_agent", "agent_contact_port",
                            "KEYLIME_AGENT_CONTACT_PORT")
    IN  IF ~r.ok THEN Err("Configuration", "agent_contact_port")
        ELSE IF r.val.w \in DOMAIN Numerals THEN Ok(Numerals[r.val.w])
        ELSE Err("Configuration", "agent_contact_port")

\* port_str.parse::<u32>()
cloudagent_contact_port_get ==
    LET r == config_get_env("cloud_agent", "agent_contact_port",
                            "KEYLIME_AGENT_CONTACT_PORT")
    IN  IF ~r.ok THEN Ok(None)
        ELSE IF r.val.w \in DOMAIN Numerals THEN Ok(Numerals[r.val.w])
        ELSE Err("Configuration", "agent_contact_port")

\* An optional boolean whose malformed value also falls back to a default
\* (mtls_cert_enabled, enable_insecure_payload).
LenientBool(key, default, absent) ==
    LET r == config_get("cloud_agent", key)
        b == IF r.ok THEN bool_from_str(to_lowercase(r.val), key) ELSE r
    IN  IF ~r.ok THEN absent ELSE IF b.ok THEN b.val ELSE default

work_dir_get ==
    LET r == config_get_env("cloud_agent", "keylime_dir", "KEYLIME_DIR")
    IN  IF r.ok THEN r.val.w ELSE WORK_DIR

\* Mutant: the record read from the default directory.
TpmDataLoadDefault(dir) ==
    IF WORK_DIR \in DOMAIN TpmFiles /\ TpmFiles[WORK_DIR] = "record"
    THEN "record" ELSE None

\* tpm_data_path.exists() then TpmData::load; a failure is a warning.
TpmDataLoad(dir) ==
    IF dir \in DOMAIN TpmFiles /\ TpmFiles[dir] = "record" THEN "record"
                                                          ELSE None

\* Mutant: the legacy key name tried first.
run_revocation_legacy_first ==
    AndThen(OrElse(config_get("cloud_agent", "listen_notfications"),
                   config_get("cloud_agent", "listen_notifications")),
            LAMBDA t : bool_from_str(to_lowercase(t), "listen_notifications"))

\* listen_notifications, else the misspelled key of older installations.
run_revocation_get ==
    AndThen(OrElse(config_get("cloud_agent", "listen_notifications"),
                   config_get("cloud_agent", "listen_notfications")),
            LAMBDA t : bool_from_str(to_lowercase(t), "listen_notifications"))

\* The outcome of every lookup build() makes, as a Result, with wd the
\* work_dir read earlier in the build.
ResolveIn(fresh, wd) ==
  LET ca == config_get("cloud_agent", "keylime_ca")
      ar == config_get("cloud_agent", "allow_payload_revocation_actions")
      ra == config_get("cloud_agent", "run_as")
  IN [agent_ip |-> config_get_env("cloud_agent", "cloudagent_ip",
                                  "CLOUDAGENT_IP"),
      agent_port |-> config_get_env("cloud_agent", "cloudagent_port",
                                    "CLOUDAGENT_PORT"),
      registrar_ip |-> config_get_env("cloud_agent", "registrar_ip",
                                      "REGISTRAR_IP"),
      registrar_port |-> config_get_env("cloud_agent", "registrar_port",
                                        "REGISTRAR_PORT"),
      agent_uuid |-> AndThen(config_get("cloud_agent", "agent_uuid"),
                             LAMBDA t : Ok(get_uuid(t, fresh))),
      agent_contact_ip |-> Ok(cloudagent_contact_ip_get),
      agent_contact_port |-> cloudagent_contact_port_get,
      hash_alg |-> AlgFrom("tpm_hash_alg", HashAlgs),
      enc_alg |-> AlgFrom("tpm_encryption_alg", EncAlgs),
      sign_alg |-> AlgFrom("tpm_signing_alg", SignAlgs),
      run_revocation |-> run_revocation_get,
      revocation_cert |-> config_get("cloud_agent", "revocation_cert"),
      revocation_ip |-> config_get("general", "receive_revocation_ip"),
      revocation_port |-> config_get("general", "receive_revocation_port"),
      secure_size |-> config_get("cloud_agent", "secure_size"),
      payload_script |-> config_get("cloud_agent", "payload_script"),
      dec_payload_filename |-> config_get("cloud_agent", "dec_payload_file"),
      key_filename |-> config_get("cloud_agent", "enc_keyname"),
      extract_payload_zip |-> RequiredBool("extract_payload_zip"),
      work_dir |-> Ok(wd),
      tpm_data_path |-> Ok(Join(wd, TPM_DATA)),
      tpm_data |-> Ok(TpmDataLoad(wd)),
      keylime_ca_path |-> AndThen(ca, LAMBDA t :
                            IF t = Txt("default") THEN Ok(Join(wd, DEFAULT_CA_PATH))
                                                  ELSE Ok(t.w)),
      revocation_actions |-> OrElse(config_get("cloud_agent",
                                     "revocation_actions"), Ok(Txt(REV_ACTIONS))),
      revocation_actions_dir |-> OrElse(config_get("cloud_agent",
                               "revocation_actions_dir"), Ok(Txt(REV_ACTIONS_DIR))),
      allow_payload_revocation_actions |->
          IF ar.ok THEN bool_from_str(to_lowercase(ar.val),
                                      "allow_payload_revocation_actions")
                   ELSE Ok(ALLOW_PAYLOAD_REV_ACTIONS),
      run_as |-> Ok(IF euid = 0 /\ ra.ok THEN ra.val ELSE None),
      mtls_enabled |-> Ok(LenientBool("mtls_cert_enabled", MTLS_ENABLED, TRUE)),
      enable_insecure_payload |->
          Ok(LenientBool("enable_insecure_payload", ALLOW_INSECURE_PAYLOAD, FALSE))]

\* Every lookup of one build, with work_dir read once and reused.
Resolve(fresh) == ResolveIn(fresh, work_dir_get)

\* The lookups that can fail, in the order build() makes them.
BuildOrder == <<"agent_ip", "agent_port", "registrar_ip", "registrar_port",
                "agent_uuid", "agent_contact_port", "hash_alg", "enc_alg",
                "sign_alg", "run_revocation", "revocation_cert",
                "revocation_ip", "revocation_port", "secure_size",
                "payload_script", "dec_payload_filename", "key_filename",
                "extract_payload_zip", "keylime_ca_path",
                "allow_payload_revocation_actions">>

\* build(): the first failing lookup's error, or the snapshot of all values.
Build(fresh) ==
  LET R == Resolve(fresh)
      bad == {i \in 1..Len(BuildOrder) : ~R[BuildOrder[i]].ok}
  IN  IF bad = {} THEN Ok([f \in DOMAIN R |-> R[f].val])
                  ELSE R[BuildOrder[Min(bad)]]

-----------------------------------------------------------------------------
(* The operator's changes, made while the agent is stopped. *)

SetEnv(v, x) ==
    /\ phase = "stopped"
    /\ env' = [env EXCEPT ![v] = x]
    /\ UNCHANGED <<file, sections, confAt, euid, phase, config, error>>

EditFile(k, x) ==
    /\ phase = "stopped"
    /\ file' = [file EXCEPT ![k] = x]
    /\ UNCHANGED <<env, sections, confAt, euid, phase, config, error>>

SetSections(S) ==
    /\ phase = "stopped"
    /\ sections' = S
    /\ UNCHANGED <<env, file, confAt, euid, phase, config, error>>

SetConfAt(P) ==
    /\ phase = "stopped"
    /\ confAt' = P
    /\ UNCHANGED <<env, file, sections, euid, phase, config, error>>

SetEuid(u) ==
    /\ phase = "stopped"
    /\ euid' = u
    /\ UNCHANGED <<env, file, sections, confAt, phase, config, error>>

(* The agent: KeylimeConfig::build at start, and a stop. *)

\* Mutant: the error of a failed build dropped.
StartSwallowError ==
    /\ phase = "stopped"
    /\ \E fresh \in UuidIds :
         LET r == Build(fresh) IN
         /\ phase' = IF r.ok THEN "running" ELSE "failed"
         /\ config' = IF r.ok THEN r.val ELSE None
         /\ error' = None
    /\ UNCHANGED <<env, file, sections, confAt, euid>>

Start ==
    /\ phase = "stopped"
    /\ \E fresh \in UuidIds :
         LET r == Build(fresh) IN
         /\ phase' = IF r.ok THEN "running" ELSE "failed"
         /\ config' = IF r.ok THEN r.val ELSE None
         /\ error' = IF r.ok THEN None ELSE [kind |-> r.kind, key |-> r.key]
    /\ UNCHANGED <<env, file, sections, confAt, euid>>

Stop ==
    /\ phase \in {"running", "failed"}
    /\ phase' = "stopped"
    /\ config' = None
    /\ error' = None
    /\ UNCHANGED <<env, file, sections, confAt, euid>>

Init ==
    /\ env = [v \in EnvVars |-> CHOOSE x \in EnvDomain[v] : TRUE]
    /\ file = [k \in Keys |-> CHOOSE x \in FileDomain[k] : TRUE]
    /\ sections = CHOOSE S \in SectionSets : TRUE
    /\ confAt = CHOOSE P \in ConfSets : TRUE
    /\ euid = CHOOSE u \in Euids : TRUE
    /\ phase = "stopped"
    /\ config = None
    /\ error = None

Next ==
    \/ \E v \in EnvVars : \E x \in EnvDomain[v] : SetEnv(v, x)
    \/ \E k \in Keys : \E x \in FileDomain[k] : EditFile(k, x)
    \/ \E S \in SectionSets : SetSections(S)
    \/ \E P \in ConfSets : SetConfAt(P)
    \/ \E u \in Euids : SetEuid(u)
    \/ Start
    \/ Stop

Spec == Init /\ [][Next]_vars

-----------------------------------------------------------------------------
(* Properties *)

\* Every variable has its type, and the agent holds a snapshot exactly while
\* it runs and an error exactly after build() failed -- a stop discards both.
TypeOK ==
    /\ env \in [EnvVars -> Texts \cup {Unset}]
    /\ file \in [Keys -> Texts \cup {Absent}]
    /\ sections \subseteq Sections
    /\ confAt \subseteq STRING
    /\ euid \in Euids
    /\ phase \in {"stopped", "running", "failed"}
    /\ (phase = "running") = (config # None)
    /\ (phase = "failed") = (error # None)

\* The file holds a value for key k that config_get can read.
InFile(k) ==
    /\ config_file_get \in confAt
    /\ KeySection(k) \in sections
    /\ file[k] # Absent

\* The settings build() reads through config_get_env: field, variable, key.
EnvBacked == {<<"agent_ip", "CLOUDAGENT_IP", "cloudagent_ip">>,
              <<"agent_port", "CLOUDAGENT_PORT", "cloudagent_port">>,
              <<"registrar_ip", "REGISTRAR_IP", "registrar_ip">>,
              <<"registrar_port", "REGISTRAR_PORT", "registrar_port">>}

\* Spec 4.1 and 8: a non-empty environment variable outranks the file
\* whatever the file says, an empty one counts as unset, and a required
\* setting found in neither stops the agent from running.  The same holds
\* of the optional contact address and the working directory, which fall
\* back to None and WORK_DIR.
EnvOutranksFile ==
    /\ \A t \in EnvBacked :
         /\ phase = "running" =>
              config[t[1]] = IF IsSet(t[2]) THEN env[t[2]] ELSE file[t[3]]
         /\ (~IsSet(t[2]) /\ ~InFile(t[3])) => phase # "running"
    /\ phase = "running" =>
         /\ config.agent_contact_ip =
              IF IsSet("KEYLIME_AGENT_CONTACT_IP")
              THEN env["KEYLIME_AGENT_CONTACT_IP"]
              ELSE IF InFile("agent_contact_ip") THEN file["agent_contact_ip"]
              ELSE None
         /\ config.work_dir =
              IF IsSet("KEYLIME_DIR") THEN env["KEYLIME_DIR"].w
              ELSE IF InFile("keylime_dir") THEN file["keylime_dir"].w
              ELSE WORK_DIR

\* Settings with a documented default, or that may be left out.
OptionalKeys == {"agent_contact_ip", "agent_contact_port", "keylime_dir",
                 "revocation_actions", "revocation_actions_dir",
                 "allow_payload_revocation_actions", "run_as",
                 "mtls_cert_enabled", "enable_insecure_payload"}

\* Spec 4.5 and 7: leaving out an optional setting never aborts the build;
\* when the agent fails on an optional setting, that setting had a value
\* (which was malformed).
OptionalAbsenceTolerated ==
    (phase = "failed" /\ error.key \in OptionalKeys) =>
        \/ InFile(error.key)
        \/ error.key = "agent_contact_port" /\ IsSet("KEYLIME_AGENT_CONTACT_PORT")

\* The text t denotes the UUID id, in either form and either case.
Denotes(t, id) == t.w \in {id, Simple(id)}

\* Spec 4.2 and 8 (get_uuid): the running agent's identifier is one of the
\* two placeholders or a canonical (lower-case, dashed) UUID, and a
\* configured UUID keeps its identity whatever form or case it was in.
UuidCanonical ==
    phase = "running" =>
      /\ \/ config.agent_uuid \in {Txt("openstack"), Txt("hash_ek")}
         \/ config.agent_uuid.w \in UuidIds /\ ~config.agent_uuid.up
      /\ \A id \in UuidIds :
           Denotes(file["agent_uuid"], id) => config.agent_uuid = Txt(id)

\* Spec 4.5 and 8: the files the agent uses live in the working directory it
\* resolved -- the CA path when configured as "default", and the identity
\* record, which is loaded exactly when that directory holds a good one.
WorkDirPaths ==
    phase = "running" =>
      /\ file["keylime_ca"] = Txt("default") =>
           config.keylime_ca_path = Join(config.work_dir, DEFAULT_CA_PATH)
      /\ file["keylime_ca"] # Txt("default") =>
           config.keylime_ca_path = file["keylime_ca"].w
      /\ config.tpm_data_path = Join(config.work_dir, TPM_DATA)
      /\ (config.tpm_data = "record") =
           (config.work_dir \in DOMAIN TpmFiles
              /\ TpmFiles[config.work_dir] = "record")

\* The boolean a text denotes after to_lowercase, when it denotes one.
BoolText(t) == t.w \in {"true", "false"}

\* Spec 4.5 and 8: listen_notifications is read under its current name, and
\* under the misspelled legacy name only when the current one is missing.
LegacyListenKey ==
    phase = "running" =>
      config.run_revocation =
        IF InFile("listen_notifications")
        THEN file["listen_notifications"].w = "true"
        ELSE file["listen_notfications"].w = "true"

(* Properties the code is checked against and does not satisfy. *)

\* Spec 4.5: a defaulted boolean (allow_payload_revocation_actions,
\* mtls_cert_enabled, enable_insecure_payload) whose value is not a boolean
\* aborts the build; only its absence is replaced by the default.
MalformedBoolRejected ==
    \A k \in {"allow_payload_revocation_actions", "mtls_cert_enabled",
              "enable_insecure_payload"} :
        (InFile(k) /\ ~BoolText(file[k])) => phase # "running"

\* The warning build() logs when elevated says run_as is "empty or missing":
\* in both cases the agent has no privilege-drop target.
RunAsEmptyNoDrop ==
    (phase = "running" /\ euid = 0 /\ ~(InFile("run_as") /\ file["run_as"] # Empty))
        => config.run_as = None

\* The comments of revocation_ip_get and revocation_port_get: the revocation
\* listener's address comes from keylime.conf only when REVOCATION_IP /
\* REVOCATION_PORT is not set (spec 4.1: the environment outranks the file).
RevocationEnvHonoured ==
    phase = "running" =>
      /\ config.revocation_ip = revocation_ip_get.val
      /\ config.revocation_port = revocation_port_get.val

\* Spec 7: agent_contact_port must parse as a port number.
ContactPortIsPort ==
    (phase = "running" /\ config.agent_contact_port # None)
        => config.agent_contact_port \in 1..65535

=============================================================================
