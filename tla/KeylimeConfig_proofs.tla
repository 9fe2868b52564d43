------------------------ MODULE KeylimeConfig_proofs ------------------------
(***************************************************************************)
(* Proofs that the configuration the agent runs with is the one the       *)
(* environment and keylime.conf prescribe, for every environment, file,   *)
(* uid and set of identity records.                                       *)
(*                                                                         *)
(* The argument: the operator's changes need a stopped agent, so while the *)
(* agent runs, env, file, sections, confAt and euid are those build() read *)
(* and the snapshot is Build(id).val for the current state (IInv).  A     *)
(* build that succeeded had no failing lookup among BuildOrder, since a   *)
(* failing one would have been returned (BuildOk); each property is then  *)
(* a fact about the lookups of one field.                                 *)
(***************************************************************************)
EXTENDS KeylimeConfig, WellFoundedInduction, TLAPS

\* build() succeeds on the current state, for some UUID Uuid::new_v4 gave,
\* with snapshot c.
Built(c) == \E id \in UuidIds : Build(id).ok /\ c = Build(id).val

\* build() fails on the current state, for some UUID, with error e.
Failed(e) ==
    \E id \in UuidIds : ~Build(id).ok
                       /\ e = [kind |-> Build(id).kind, key |-> Build(id).key]

IInv ==
    /\ file \in [Keys -> Texts \cup {Absent}]
    /\ phase = "running" => Built(config)
    /\ phase = "failed" => Failed(error)

USE ConfigAssumption

\* A non-empty set of naturals has a least element, and FiniteSetsExt's Min
\* picks it.
LEMMA MinOfNats ==
    ASSUME NEW S \in SUBSET Nat, S # {}
    PROVE  Min(S) \in S /\ \A y \in S : Min(S) <= y
<1>1. PICK x \in S : \A y \in S : ~(<<y, x>> \in OpToRel(<, Nat))
    BY Zenon, NatLessThanWellFounded, WFMin
<1>2. \A y \in S : ~(y < x)
    <2> TAKE y \in S
    <2>1. y < x => <<y, x>> \in OpToRel(<, Nat)
        BY Zenon DEF OpToRel
    <2>2. QED
        BY Zenon, <1>1, <2>1
<1>3. \A y \in S : x <= y
    BY <1>2
<1>4. QED
    BY Zenon, <1>3 DEF Min

\* A build that succeeds made every fallible lookup succeed, and its
\* snapshot holds each lookup's value.
LEMMA BuildOk ==
    ASSUME NEW id, Build(id).ok
    PROVE  /\ \A i \in 1 .. Len(BuildOrder) : Resolve(id)[BuildOrder[i]].ok
           /\ Build(id).val = [f \in DOMAIN Resolve(id) |-> Resolve(id)[f].val]
<1> DEFINE R == Resolve(id)
           bad == {i \in 1 .. Len(BuildOrder) : ~R[BuildOrder[i]].ok}
<1>1. bad = {}
    <2>1. SUFFICES ASSUME bad # {} PROVE FALSE
        OBVIOUS
    <2>2. bad \in SUBSET Nat
        BY DEF BuildOrder
    <2>3. Min(bad) \in bad
        BY <2>1, <2>2, MinOfNats
    <2>4. Build(id) = R[BuildOrder[Min(bad)]]
        BY <2>1 DEF Build
    <2>5. QED
        BY <2>3, <2>4
<1>2. QED
    BY <1>1 DEF Build, Ok

\* build() reads nothing but the environment, the file, its sections and
\* location, and the uid: the same state gives the same lookups, and the
\* same build.
LEMMA LookupsUnchanged ==
    ASSUME UNCHANGED <<env, file, sections, confAt, euid>>
    PROVE  /\ \A sec, key : config_get(sec, key)' = config_get(sec, key)
           /\ \A sec, key, var :
                config_get_env(sec, key, var)' = config_get_env(sec, key, var)
<1>1. \A v : IsSet(v)' = IsSet(v)
    BY DEF IsSet
<1>2. config_file_get' = config_file_get
    BY <1>1 DEF config_file_get
<1>3. \A sec, key : config_get(sec, key)' = config_get(sec, key)
    BY <1>2 DEF config_get
<1>4. QED
    BY <1>1, <1>3 DEF config_get_env

\* The same holds of the record of lookups, field by field: the provers
\* compare two 29-field records only through their fields.
LEMMA ResolveInUnchanged ==
    ASSUME NEW id, NEW wd, UNCHANGED <<env, file, sections, confAt, euid>>
    PROVE  ResolveIn(id, wd)' = ResolveIn(id, wd)
<1> DEFINE r == ResolveIn(id, wd)
<1>1. /\ \A sec, key : config_get(sec, key)' = config_get(sec, key)
      /\ \A sec, key, var :
            config_get_env(sec, key, var)' = config_get_env(sec, key, var)
    BY LookupsUnchanged
<1>2. /\ cloudagent_contact_ip_get' = cloudagent_contact_ip_get
      /\ cloudagent_contact_port_get' = cloudagent_contact_port_get
    BY Zenon, <1>1 DEF cloudagent_contact_ip_get, cloudagent_contact_port_get,
                AndThen, OrElse, Ok, Err
<1>3. run_revocation_get' = run_revocation_get
    BY Zenon, <1>1 DEF run_revocation_get, bool_from_str, to_lowercase,
                AndThen, OrElse, Ok, Err
<1>4. /\ \A k, N : AlgFrom(k, N)' = AlgFrom(k, N)
      /\ \A k : RequiredBool(k)' = RequiredBool(k)
      /\ \A k, d, a : LenientBool(k, d, a)' = LenientBool(k, d, a)
    BY Zenon, <1>1 DEF AlgFrom, RequiredBool, LenientBool, bool_from_str,
                to_lowercase, AndThen, OrElse, Ok, Err
<1>5. \A x : bool_from_str(to_lowercase(x), "allow_payload_revocation_actions")'
              = bool_from_str(to_lowercase(x), "allow_payload_revocation_actions")
    BY DEF bool_from_str, to_lowercase, Ok, Err
<1>6.
       /\ r'.agent_ip = r.agent_ip
       /\ r'.agent_port = r.agent_port
       /\ r'.registrar_ip = r.registrar_ip
       /\ r'.registrar_port = r.registrar_port
       /\ r'.agent_uuid = r.agent_uuid
       /\ r'.agent_contact_ip = r.agent_contact_ip
       /\ r'.agent_contact_port = r.agent_contact_port
       /\ r'.hash_alg = r.hash_alg
       /\ r'.enc_alg = r.enc_alg
       /\ r'.sign_alg = r.sign_alg
       /\ r'.run_revocation = r.run_revocation
       /\ r'.revocation_cert = r.revocation_cert
       /\ r'.revocation_ip = r.revocation_ip
       /\ r'.revocation_port = r.revocation_port
       /\ r'.secure_size = r.secure_size
       /\ r'.payload_script = r.payload_script
       /\ r'.dec_payload_filename = r.dec_payload_filename
       /\ r'.key_filename = r.key_filename
       /\ r'.extract_payload_zip = r.extract_payload_zip
       /\ r'.work_dir = r.work_dir
       /\ r'.tpm_data_path = r.tpm_data_path
       /\ r'.tpm_data = r.tpm_data
       /\ r'.keylime_ca_path = r.keylime_ca_path
       /\ r'.revocation_actions = r.revocation_actions
       /\ r'.revocation_actions_dir = r.revocation_actions_dir
       /\ r'.allow_payload_revocation_actions = r.allow_payload_revocation_actions
       /\ r'.run_as = r.run_as
       /\ r'.mtls_enabled = r.mtls_enabled
       /\ r'.enable_insecure_payload = r.enable_insecure_payload
    BY ZenonT(60), <1>1, <1>2, <1>3, <1>4, <1>5 DEF ResolveIn, AndThen, OrElse, Ok, Err
<1>7. r =
       [agent_ip |-> r.agent_ip, agent_port |-> r.agent_port,
        registrar_ip |-> r.registrar_ip,
        registrar_port |-> r.registrar_port, agent_uuid |-> r.agent_uuid,
        agent_contact_ip |-> r.agent_contact_ip,
        agent_contact_port |-> r.agent_contact_port,
        hash_alg |-> r.hash_alg, enc_alg |-> r.enc_alg,
        sign_alg |-> r.sign_alg, run_revocation |-> r.run_revocation,
        revocation_cert |-> r.revocation_cert,
        revocation_ip |-> r.revocation_ip,
        revocation_port |-> r.revocation_port,
        secure_size |-> r.secure_size, payload_script |-> r.payload_script,
        dec_payload_filename |-> r.dec_payload_filename,
        key_filename |-> r.key_filename,
        extract_payload_zip |-> r.extract_payload_zip,
        work_dir |-> r.work_dir, tpm_data_path |-> r.tpm_data_path,
        tpm_data |-> r.tpm_data, keylime_ca_path |-> r.keylime_ca_path,
        revocation_actions |-> r.revocation_actions,
        revocation_actions_dir |-> r.revocation_actions_dir,
        allow_payload_revocation_actions |-> r.allow_payload_revocation_actions,
        run_as |-> r.run_as, mtls_enabled |-> r.mtls_enabled,
        enable_insecure_payload |-> r.enable_insecure_payload]
    BY DEF ResolveIn
<1>8. r' =
       [agent_ip |-> r'.agent_ip, agent_port |-> r'.agent_port,
        registrar_ip |-> r'.registrar_ip,
        registrar_port |-> r'.registrar_port, agent_uuid |-> r'.agent_uuid,
        agent_contact_ip |-> r'.agent_contact_ip,
        agent_contact_port |-> r'.agent_contact_port,
        hash_alg |-> r'.hash_alg, enc_alg |-> r'.enc_alg,
        sign_alg |-> r'.sign_alg, run_revocation |-> r'.run_revocation,
        revocation_cert |-> r'.revocation_cert,
        revocation_ip |-> r'.revocation_ip,
        revocation_port |-> r'.revocation_port,
        secure_size |-> r'.secure_size,
        payload_script |-> r'.payload_script,
        dec_payload_filename |-> r'.dec_payload_filename,
        key_filename |-> r'.key_filename,
        extract_payload_zip |-> r'.extract_payload_zip,
        work_dir |-> r'.work_dir, tpm_data_path |-> r'.tpm_data_path,
        tpm_data |-> r'.tpm_data, keylime_ca_path |-> r'.keylime_ca_path,
        revocation_actions |-> r'.revocation_actions,
        revocation_actions_dir |-> r'.revocation_actions_dir,
        allow_payload_revocation_actions |-> r'.allow_payload_revocation_actions,
        run_as |-> r'.run_as, mtls_enabled |-> r'.mtls_enabled,
        enable_insecure_payload |-> r'.enable_insecure_payload]
    BY DEF ResolveIn
<1>9. QED
    BY <1>6, <1>7, <1>8

LEMMA ResolveUnchanged ==
    ASSUME NEW id, UNCHANGED <<env, file, sections, confAt, euid>>
    PROVE  Resolve(id)' = Resolve(id)
<1>1. work_dir_get' = work_dir_get
    BY LookupsUnchanged DEF work_dir_get
<1>2. QED
    BY <1>1, ResolveInUnchanged DEF Resolve

\* Build with the lookups given: a constant operator, so priming it only
\* primes its argument.
BuildFrom(R) ==
  LET bad == {i \in 1..Len(BuildOrder) : ~R[BuildOrder[i]].ok}
  IN  IF bad = {} THEN Ok([f \in DOMAIN R |-> R[f].val])
                  ELSE R[BuildOrder[Min(bad)]]

LEMMA BuildUnchanged ==
    ASSUME NEW id, UNCHANGED <<env, file, sections, confAt, euid>>
    PROVE  Build(id)' = Build(id)
<1>1. Build(id) = BuildFrom(Resolve(id))
    BY DEF Build, BuildFrom
<1>2. Build(id)' = BuildFrom(Resolve(id)')
    BY DEF Build, BuildFrom
<1>3. QED
    BY <1>1, <1>2, ResolveUnchanged

\* config_get: a value exactly when the file exists at the path
\* config_file_get gives, has the section and has the key; the value is the
\* key's text.
LEMMA ConfigGet ==
    ASSUME NEW sec, NEW key
    PROVE  /\ config_get(sec, key).ok <=>
                 config_file_get \in confAt /\ sec \in sections
                 /\ file[key] # Absent
           /\ config_get(sec, key).ok => config_get(sec, key).val = file[key]
BY DEF config_get, Ok, Err

\* config_get_env: a set variable's value, else what config_get gives.
LEMMA ConfigGetEnv ==
    ASSUME NEW sec, NEW key, NEW var
    PROVE  /\ config_get_env(sec, key, var).ok <=>
                 IsSet(var) \/ config_get(sec, key).ok
           /\ config_get_env(sec, key, var).ok =>
                 config_get_env(sec, key, var).val =
                   IF IsSet(var) THEN env[var] ELSE file[key]
BY ConfigGet DEF config_get_env, Ok

LEMMA InitIInv == Init => IInv
<1> SUFFICES ASSUME Init PROVE IInv
    OBVIOUS
<1>1. file \in [Keys -> Texts \cup {Absent}]
    BY DEF Init
<1>2. QED
    BY <1>1 DEF Init, IInv

LEMMA NextIInv == IInv /\ [Next]_vars => IInv'
<1> SUFFICES ASSUME IInv, [Next]_vars PROVE IInv'
    OBVIOUS
<1>1. ASSUME NEW k \in Keys, NEW x \in FileDomain[k], EditFile(k, x)
      PROVE  IInv'
    BY Zenon, <1>1 DEF EditFile, IInv
<1>2. CASE Start
    <2>1. PICK fresh \in UuidIds :
             LET r == Build(fresh) IN
             /\ phase' = IF r.ok THEN "running" ELSE "failed"
             /\ config' = IF r.ok THEN r.val ELSE None
             /\ error' = IF r.ok THEN None ELSE [kind |-> r.kind, key |-> r.key]
        BY Zenon, <1>2 DEF Start
    <2>2. Build(fresh)' = Build(fresh)
        BY <1>2, BuildUnchanged DEF Start
    <2>3. QED
        BY ZenonT(60), <1>2, <2>1, <2>2 DEF Start, IInv, Built, Failed
<1>3. CASE Stop
    BY <1>3 DEF Stop, IInv
<1>4. CASE UNCHANGED vars
    <2>1. \A id \in UuidIds : Build(id)' = Build(id)
        BY Zenon, <1>4, BuildUnchanged DEF vars
    <2>2. QED
        BY <1>4, <2>1, Zenon DEF vars, IInv, Built, Failed
<1>5. QED
    BY Zenon, <1>1, <1>2, <1>3, <1>4
    DEF Next, SetEnv, SetSections, SetConfAt, SetEuid, IInv


\* The lookups build() makes for the fields the properties are about, as
\* the code of build() writes them.
LEMMA ResolveFields ==
    ASSUME NEW id
    PROVE  LET R == Resolve(id)
               ca == config_get("cloud_agent", "keylime_ca")
           IN  /\ \A t \in EnvBacked :
                    /\ t[1] \in DOMAIN R
                    /\ R[t[1]] = config_get_env("cloud_agent", t[3], t[2])
               /\ {"agent_contact_ip", "work_dir", "tpm_data_path", "tpm_data",
                   "keylime_ca_path", "run_revocation"} \subseteq DOMAIN R
               /\ R.agent_contact_ip = Ok(cloudagent_contact_ip_get)
               /\ R.work_dir = Ok(work_dir_get)
               /\ R.tpm_data_path = Ok(Join(work_dir_get, TPM_DATA))
               /\ R.tpm_data = Ok(TpmDataLoad(work_dir_get))
               /\ R.keylime_ca_path =
                    IF ca.ok THEN IF ca.val = Txt("default")
                                  THEN Ok(Join(work_dir_get, DEFAULT_CA_PATH))
                                  ELSE Ok(ca.val.w)
                             ELSE ca
               /\ R.run_revocation = run_revocation_get
<1> DEFINE R == Resolve(id)
           r == ResolveIn(id, work_dir_get)
           ca == config_get("cloud_agent", "keylime_ca")
<1>1. R = r
    BY DEF Resolve
<1>2. /\ {"agent_ip", "agent_port", "registrar_ip", "registrar_port",
          "agent_contact_ip", "work_dir", "tpm_data_path", "tpm_data",
          "keylime_ca_path", "run_revocation"} \subseteq DOMAIN r
      /\ r.agent_ip = config_get_env("cloud_agent", "cloudagent_ip",
                                     "CLOUDAGENT_IP")
      /\ r.agent_port = config_get_env("cloud_agent", "cloudagent_port",
                                       "CLOUDAGENT_PORT")
      /\ r.registrar_ip = config_get_env("cloud_agent", "registrar_ip",
                                         "REGISTRAR_IP")
      /\ r.registrar_port = config_get_env("cloud_agent", "registrar_port",
                                           "REGISTRAR_PORT")
      /\ r.agent_contact_ip = Ok(cloudagent_contact_ip_get)
      /\ r.work_dir = Ok(work_dir_get)
      /\ r.tpm_data_path = Ok(Join(work_dir_get, TPM_DATA))
      /\ r.tpm_data = Ok(TpmDataLoad(work_dir_get))
      /\ r.run_revocation = run_revocation_get
    BY ZenonT(60) DEF ResolveIn, AndThen
<1>3. r.keylime_ca_path =
        IF ca.ok THEN IF ca.val = Txt("default")
                      THEN Ok(Join(work_dir_get, DEFAULT_CA_PATH))
                      ELSE Ok(ca.val.w)
                 ELSE ca
    BY Zenon DEF ResolveIn, AndThen
<1>4. \A t \in EnvBacked :
        /\ t[1] \in DOMAIN r
        /\ r[t[1]] = config_get_env("cloud_agent", t[3], t[2])
    <2> TAKE t \in EnvBacked
    <2>1. CASE t = <<"agent_ip", "CLOUDAGENT_IP", "cloudagent_ip">>
        BY <1>2, <2>1
    <2>2. CASE t = <<"agent_port", "CLOUDAGENT_PORT", "cloudagent_port">>
        BY <1>2, <2>2
    <2>3. CASE t = <<"registrar_ip", "REGISTRAR_IP", "registrar_ip">>
        BY <1>2, <2>3
    <2>4. CASE t = <<"registrar_port", "REGISTRAR_PORT", "registrar_port">>
        BY <1>2, <2>4
    <2>5. QED
        BY <2>1, <2>2, <2>3, <2>4 DEF EnvBacked
<1>5. QED
    BY Zenon, <1>1, <1>2, <1>3, <1>4

\* While the agent runs, each lookup build() checks succeeded and the
\* snapshot holds its value.
LEMMA Running ==
    ASSUME IInv, phase = "running"
    PROVE  \E id \in UuidIds :
                   /\ \A i \in 1 .. Len(BuildOrder) :
                        Resolve(id)[BuildOrder[i]].ok
                   /\ \A f \in DOMAIN Resolve(id) :
                        config[f] = Resolve(id)[f].val
<1>1. PICK id \in UuidIds : Build(id).ok /\ config = Build(id).val
    BY DEF IInv, Built
<1>2. /\ \A i \in 1 .. Len(BuildOrder) : Resolve(id)[BuildOrder[i]].ok
      /\ config = [f \in DOMAIN Resolve(id) |-> Resolve(id)[f].val]
    BY <1>1, BuildOk
<1>3. QED
    BY <1>2

\* The settings read through config_get_env are all checked by build(),
\* and none is in the [general] section.
LEMMA EnvBackedChecked ==
    \A t \in EnvBacked :
        /\ \E i \in 1 .. Len(BuildOrder) : BuildOrder[i] = t[1]
        /\ KeySection(t[3]) = "cloud_agent"
<1>1. \A t \in EnvBacked : \E i \in 1 .. 4 : BuildOrder[i] = t[1]
    BY DEF EnvBacked, BuildOrder
<1>2. QED
    BY <1>1 DEF EnvBacked, BuildOrder, KeySection, GeneralKeys

\* What a setting read through config_get_env gives when it succeeds.
LEMMA EnvBackedVal ==
    \A t \in EnvBacked :
        config_get_env("cloud_agent", t[3], t[2]).ok =>
            config_get_env("cloud_agent", t[3], t[2]).val =
              IF IsSet(t[2]) THEN env[t[2]] ELSE file[t[3]]
BY ConfigGetEnv

\* The snapshot holds, in a field whose lookup gave Ok(v), the value v.
LEMMA FieldVal ==
    ASSUME NEW R, NEW c, NEW f, NEW v,
           f \in DOMAIN R, R[f] = Ok(v),
           \A g \in DOMAIN R : c[g] = R[g].val
    PROVE  c[f] = v
BY DEF Ok

\* For every environment, file, uid and identity record: while the agent
\* runs, a non-empty environment variable outranks keylime.conf for the
\* address, ports, contact address and work_dir (config_get_env), an empty
\* one counts as unset, and a required setting found in neither keeps the
\* agent from running.
THEOREM EnvOutranksFileHolds == Spec => []EnvOutranksFile
<1>1. IInv => EnvOutranksFile
    <2> SUFFICES ASSUME IInv PROVE EnvOutranksFile
        OBVIOUS
    <2>1. ASSUME NEW t \in EnvBacked, phase = "running"
          PROVE  config[t[1]] = IF IsSet(t[2]) THEN env[t[2]] ELSE file[t[3]]
        <3>1. PICK id : /\ \A i \in 1 .. Len(BuildOrder) :
                             Resolve(id)[BuildOrder[i]].ok
                        /\ \A f \in DOMAIN Resolve(id) :
                             config[f] = Resolve(id)[f].val
            BY <2>1, Running
        <3>3. /\ t[1] \in DOMAIN Resolve(id)
              /\ Resolve(id)[t[1]] = config_get_env("cloud_agent", t[3], t[2])
            BY ResolveFields
        <3>2. config_get_env("cloud_agent", t[3], t[2]).ok
            <4>1. PICK i \in 1 .. Len(BuildOrder) : BuildOrder[i] = t[1]
                BY EnvBackedChecked
            <4>3. Resolve(id)[t[1]].ok
                BY <3>1, <4>1
            <4>4. QED
                BY <4>3, <3>3
        <3>4. config_get_env("cloud_agent", t[3], t[2]).val =
                IF IsSet(t[2]) THEN env[t[2]] ELSE file[t[3]]
            BY <3>2, EnvBackedVal
        <3>5. QED
            BY <3>1, <3>3, <3>4
    <2>2. ASSUME NEW t \in EnvBacked, ~IsSet(t[2]), ~InFile(t[3])
          PROVE  phase # "running"
        <3>1. SUFFICES ASSUME phase = "running" PROVE FALSE
            OBVIOUS
        <3>2. PICK id : \A i \in 1 .. Len(BuildOrder) :
                          Resolve(id)[BuildOrder[i]].ok
            BY <3>1, Running
        <3>3. config_get_env("cloud_agent", t[3], t[2]).ok
            BY <3>2, EnvBackedChecked, ResolveFields
        <3>4. QED
            BY <2>2, <3>3, EnvBackedChecked, ConfigGetEnv, ConfigGet DEF InFile
    <2>3. ASSUME phase = "running"
          PROVE  config.agent_contact_ip =
                   IF IsSet("KEYLIME_AGENT_CONTACT_IP")
                   THEN env["KEYLIME_AGENT_CONTACT_IP"]
                   ELSE IF InFile("agent_contact_ip") THEN file["agent_contact_ip"]
                   ELSE None
        <3>1. PICK id : \A f \in DOMAIN Resolve(id) :
                          config[f] = Resolve(id)[f].val
            BY <2>3, Running
        <3>2. config.agent_contact_ip = cloudagent_contact_ip_get
            <4>1. /\ "agent_contact_ip" \in DOMAIN Resolve(id)
                  /\ Resolve(id)["agent_contact_ip"] =
                       Ok(cloudagent_contact_ip_get)
                BY ResolveFields
            <4>2. QED
                BY <3>1, <4>1, FieldVal
        <3>3. QED
            BY <3>2, ConfigGetEnv, ConfigGet
            DEF cloudagent_contact_ip_get, InFile, KeySection, GeneralKeys
    <2>4. ASSUME phase = "running"
          PROVE  config.work_dir =
                   IF IsSet("KEYLIME_DIR") THEN env["KEYLIME_DIR"].w
                   ELSE IF InFile("keylime_dir") THEN file["keylime_dir"].w
                   ELSE WORK_DIR
        <3>1. PICK id : \A f \in DOMAIN Resolve(id) :
                          config[f] = Resolve(id)[f].val
            BY <2>4, Running
        <3>2. config.work_dir = work_dir_get
            <4>1. /\ "work_dir" \in DOMAIN Resolve(id)
                  /\ Resolve(id)["work_dir"] = Ok(work_dir_get)
                BY ResolveFields
            <4>2. QED
                BY <3>1, <4>1, FieldVal
        <3>3. QED
            BY <3>2, ConfigGetEnv, ConfigGet
            DEF work_dir_get, InFile, KeySection, GeneralKeys
    <2>5. QED
        BY <2>1, <2>2, <2>3, <2>4 DEF EnvOutranksFile
<1>2. QED
    BY <1>1, InitIInv, NextIInv, PTL DEF Spec


\* to_lowercase changes the case of a text and not its word.
LEMMA LowercaseWord ==
    ASSUME NEW t \in Texts
    PROVE  to_lowercase(t).w = t.w
BY DEF to_lowercase, Texts

\* For every environment, file, uid and identity record: while the agent
\* runs, a keylime_ca of "default" is cv_ca/cacert.crt under the working
\* directory build() resolved (any other value is taken as the path), the
\* identity record path is tpmdata.json under that same directory, and the
\* record is loaded exactly when that directory holds a good one.
THEOREM WorkDirPathsHold == Spec => []WorkDirPaths
<1>1. IInv => WorkDirPaths
    <2> SUFFICES ASSUME IInv, phase = "running"
                 PROVE  WorkDirPaths
        BY DEF WorkDirPaths
    <2> DEFINE ca == config_get("cloud_agent", "keylime_ca")
               wd == work_dir_get
    <2>1. PICK id : /\ \A i \in 1 .. Len(BuildOrder) :
                         Resolve(id)[BuildOrder[i]].ok
                    /\ \A f \in DOMAIN Resolve(id) :
                         config[f] = Resolve(id)[f].val
        BY Running
    <2>2. Resolve(id).keylime_ca_path.ok
        BY <2>1 DEF BuildOrder
    <2>3. ca.ok /\ ca.val = file["keylime_ca"]
        BY ZenonT(60), <2>2, ResolveFields, ConfigGet
    <2>4. /\ config.work_dir = wd
          /\ config.keylime_ca_path =
               IF file["keylime_ca"] = Txt("default")
               THEN Join(wd, DEFAULT_CA_PATH) ELSE file["keylime_ca"].w
          /\ config.tpm_data_path = Join(wd, TPM_DATA)
          /\ config.tpm_data = TpmDataLoad(wd)
        <3>1. /\ {"work_dir", "keylime_ca_path", "tpm_data_path", "tpm_data"}
                  \subseteq DOMAIN Resolve(id)
              /\ Resolve(id)["work_dir"] = Ok(wd)
              /\ Resolve(id)["tpm_data_path"] = Ok(Join(wd, TPM_DATA))
              /\ Resolve(id)["tpm_data"] = Ok(TpmDataLoad(wd))
              /\ Resolve(id)["keylime_ca_path"] =
                   IF ca.ok THEN IF ca.val = Txt("default")
                                 THEN Ok(Join(wd, DEFAULT_CA_PATH))
                                 ELSE Ok(ca.val.w)
                            ELSE ca
            BY ZenonT(60), ResolveFields
        <3>2. Resolve(id)["keylime_ca_path"] =
                Ok(IF file["keylime_ca"] = Txt("default")
                   THEN Join(wd, DEFAULT_CA_PATH) ELSE file["keylime_ca"].w)
            BY <2>3, <3>1
        <3>3. QED
            BY <2>1, <3>1, <3>2, FieldVal
    <2>5. None # "record"
        BY NoneAssumption
    <2>6. QED
        BY Zenon, <2>4, <2>5 DEF WorkDirPaths, TpmDataLoad
<1>2. QED
    BY <1>1, InitIInv, NextIInv, PTL DEF Spec

\* For every environment, file, uid and identity record: while the agent
\* runs, its run_revocation is what listen_notifications says, and what the
\* misspelled listen_notfications of older installations says only when
\* the current key is missing (run_revocation_get's or_else).
THEOREM LegacyListenKeyHolds == Spec => []LegacyListenKey
<1>1. IInv => LegacyListenKey
    <2> SUFFICES ASSUME IInv, phase = "running"
                 PROVE  LegacyListenKey
        BY DEF LegacyListenKey
    <2> DEFINE c1 == config_get("cloud_agent", "listen_notifications")
               c2 == config_get("cloud_agent", "listen_notfications")
               o == IF c1.ok THEN c1 ELSE c2
               key == IF InFile("listen_notifications")
                      THEN "listen_notifications" ELSE "listen_notfications"
    <2>1. PICK id : /\ \A i \in 1 .. Len(BuildOrder) :
                         Resolve(id)[BuildOrder[i]].ok
                    /\ \A f \in DOMAIN Resolve(id) :
                         config[f] = Resolve(id)[f].val
        BY Running
    <2>2. run_revocation_get.ok /\ config.run_revocation = run_revocation_get.val
        <3>1. BuildOrder[10] = "run_revocation" /\ 10 \in 1 .. Len(BuildOrder)
            BY DEF BuildOrder
        <3>2. /\ "run_revocation" \in DOMAIN Resolve(id)
              /\ Resolve(id)["run_revocation"] = run_revocation_get
            BY ResolveFields
        <3>3. Resolve(id)["run_revocation"].ok
            BY <2>1, <3>1
        <3>4. config["run_revocation"] = Resolve(id)["run_revocation"].val
            BY <2>1, <3>2
        <3>5. QED
            BY <3>2, <3>3, <3>4
    <2>3. run_revocation_get =
            IF o.ok THEN bool_from_str(to_lowercase(o.val), "listen_notifications")
                    ELSE o
        BY DEF run_revocation_get, AndThen, OrElse
    <2>4. c1.ok <=> InFile("listen_notifications")
        BY ConfigGet DEF InFile, KeySection, GeneralKeys
    <2>5. o.ok /\ o.val = file[key] /\ file[key] # Absent
        <3>1. o.ok
            BY <2>2, <2>3
        <3>2. CASE c1.ok
            BY <3>2, <2>4, ConfigGet
        <3>3. CASE ~c1.ok
            BY <3>1, <3>3, <2>4, ConfigGet
        <3>4. QED
            BY <3>1, <3>2, <3>3
    <2>6. file[key] \in Texts
        BY <2>5 DEF IInv, Keys, GeneralKeys
    <2>7. to_lowercase(o.val).w = o.val.w
        BY <2>5, <2>6, LowercaseWord
    <2>8. config.run_revocation = (o.val.w = "true")
        BY ZenonT(60), <2>2, <2>3, <2>5, <2>7 DEF bool_from_str, Ok, Err
    <2>9. QED
        BY <2>5, <2>8 DEF LegacyListenKey
<1>2. QED
    BY <1>1, InitIInv, NextIInv, PTL DEF Spec

-----------------------------------------------------------------------------
(* The agent's UUID. *)

\* get_uuid's result, for any text and any UUID new_v4 returns: a
\* placeholder or a canonical UUID, and the UUID a configured text denotes.
LEMMA GetUuid ==
    ASSUME NEW t \in Texts, NEW fr \in UuidIds
    PROVE  /\ \/ get_uuid(t, fr) \in {Txt("openstack"), Txt("hash_ek")}
              \/ get_uuid(t, fr).w \in UuidIds /\ ~get_uuid(t, fr).up
           /\ \A id \in UuidIds : Denotes(t, id) => get_uuid(t, fr) = Txt(id)
<1> DEFINE g == get_uuid(t, fr)
           Placeholder == t = Txt("openstack") \/ t = Txt("hash_ek")
           IsSimple == \E id \in UuidIds : t.w = Simple(id)
<1>1. CASE Placeholder
    <2>1. g = t
        BY <1>1 DEF get_uuid
    <2>2. \A id \in UuidIds : ~Denotes(t, id)
        BY <1>1, UuidAssumption DEF Denotes, Txt
    <2>3. QED
        BY <1>1, <2>1, <2>2
<1>2. CASE ~Placeholder /\ t = Txt("generate")
    <2>1. g = Txt(fr)
        BY <1>2 DEF get_uuid
    <2>2. \A id \in UuidIds : ~Denotes(t, id)
        BY <1>2, UuidAssumption DEF Denotes, Txt
    <2>3. QED
        BY <2>1, <2>2 DEF Txt
<1>3. CASE ~Placeholder /\ t # Txt("generate") /\ t.w \in UuidIds
    <2>1. g = Txt(t.w)
        BY <1>3 DEF get_uuid
    <2>2. \A id \in UuidIds : Denotes(t, id) => t.w = id
        BY Zenon, <1>3, UuidAssumption DEF Denotes
    <2>3. g.w = t.w /\ g.up = FALSE
        BY <2>1 DEF Txt
    <2>4. \A id \in UuidIds : t.w = id => g = Txt(id)
        BY <2>1
    <2>5. QED
        BY <1>3, <2>2, <2>3, <2>4
<1>4. CASE ~Placeholder /\ t # Txt("generate") /\ t.w \notin UuidIds
           /\ IsSimple
    <2> DEFINE c == CHOOSE id \in UuidIds : t.w = Simple(id)
    <2>1. c \in UuidIds /\ t.w = Simple(c)
        BY <1>4
    <2>2. g = Txt(c)
        BY <1>4 DEF get_uuid
    <2>3. \A id \in UuidIds : Denotes(t, id) => id = c
        BY <1>4, <2>1, UuidAssumption DEF Denotes
    <2>4. g.w = c /\ g.up = FALSE
        BY <2>2 DEF Txt
    <2>5. QED
        BY Zenon, <2>1, <2>2, <2>3, <2>4
<1>5. CASE ~Placeholder /\ t # Txt("generate") /\ t.w \notin UuidIds
           /\ ~IsSimple
    <2>1. g = Txt(fr)
        BY <1>5 DEF get_uuid
    <2>2. \A id \in UuidIds : ~Denotes(t, id)
        BY <1>5 DEF Denotes
    <2>3. QED
        BY <2>1, <2>2 DEF Txt
<1>6. QED
    BY Zenon, <1>1, <1>2, <1>3, <1>4, <1>5

\* For every environment, file, uid and identity record: while the agent
\* runs, its agent_uuid is a placeholder or a canonical lower-case UUID, and
\* a UUID configured in either form and either case is the one the agent
\* reports (get_uuid, Uuid::parse_str and to_string).
THEOREM UuidCanonicalHolds == Spec => []UuidCanonical
<1>1. IInv => UuidCanonical
    <2> SUFFICES ASSUME IInv, phase = "running"
                 PROVE  UuidCanonical
        BY DEF UuidCanonical
    <2> DEFINE c == config_get("cloud_agent", "agent_uuid")
    <2>1. PICK id \in UuidIds :
             /\ \A i \in 1 .. Len(BuildOrder) : Resolve(id)[BuildOrder[i]].ok
             /\ \A f \in DOMAIN Resolve(id) : config[f] = Resolve(id)[f].val
        BY Running
    <2>2. /\ "agent_uuid" \in DOMAIN Resolve(id)
          /\ Resolve(id).agent_uuid =
               IF c.ok THEN Ok(get_uuid(c.val, id)) ELSE c
        BY Zenon DEF Resolve, ResolveIn, AndThen
    <2>3. Resolve(id).agent_uuid.ok
        BY <2>1 DEF BuildOrder
    <2>4. c.ok /\ c.val = file["agent_uuid"] /\ file["agent_uuid"] # Absent
        BY <2>2, <2>3, ConfigGet DEF Err
    <2>5. file["agent_uuid"] \in Texts
        BY <2>4 DEF IInv, Keys
    <2>6. config.agent_uuid = get_uuid(file["agent_uuid"], id)
        BY <2>1, <2>2, <2>4 DEF Ok
    <2>7. QED
        BY <2>5, <2>6, GetUuid DEF UuidCanonical
<1>2. QED
    BY <1>1, InitIInv, NextIInv, PTL DEF Spec

-----------------------------------------------------------------------------
(* The errors a build can fail with. *)

\* A setting's error is harmless when the setting is not optional, or when
\* the file, or for the contact port the environment, gave it a value.
Tolerable(k) ==
    k \in OptionalKeys =>
        \/ InFile(k)
        \/ k = "agent_contact_port" /\ IsSet("KEYLIME_AGENT_CONTACT_PORT")

\* config_get, config_get_env and bool::from_str fail naming the key they
\* were asked for.
LEMMA ErrKeys ==
    \A sec, key, var, t :
      /\ ~config_get(sec, key).ok => config_get(sec, key).key = key
      /\ ~config_get_env(sec, key, var).ok =>
            config_get_env(sec, key, var).key = key
      /\ ~bool_from_str(t, key).ok => bool_from_str(t, key).key = key
BY DEF config_get, config_get_env, bool_from_str, Ok, Err

\* The keys of the settings build() requires.
RequiredKeys ==
    {"cloudagent_ip", "cloudagent_port", "registrar_ip", "registrar_port",
     "agent_uuid", "tpm_hash_alg", "tpm_encryption_alg", "tpm_signing_alg",
     "listen_notifications", "listen_notfications", "revocation_cert",
     "receive_revocation_ip", "receive_revocation_port", "secure_size",
     "payload_script", "dec_payload_file", "enc_keyname",
     "extract_payload_zip", "keylime_ca"}

\* Every lookup build() checks fails, if at all, naming a required key, or
\* an optional one the file or the environment set.
LEMMA LookupErrors ==
    ASSUME NEW id
    PROVE  \A i \in 1 .. Len(BuildOrder) :
             ~Resolve(id)[BuildOrder[i]].ok =>
                Tolerable(Resolve(id)[BuildOrder[i]].key)
<1> DEFINE r == ResolveIn(id, work_dir_get)
<1>1. Resolve(id) = r
    BY DEF Resolve
<1>2. \A k \in RequiredKeys : Tolerable(k)
    BY DEF RequiredKeys, Tolerable, OptionalKeys
<1>3. /\ ~r.agent_ip.ok => r.agent_ip.key = "cloudagent_ip"
      /\ ~r.agent_port.ok => r.agent_port.key = "cloudagent_port"
      /\ ~r.registrar_ip.ok => r.registrar_ip.key = "registrar_ip"
      /\ ~r.registrar_port.ok => r.registrar_port.key = "registrar_port"
    BY ErrKeys DEF ResolveIn
<1>4. /\ ~r.agent_uuid.ok => r.agent_uuid.key = "agent_uuid"
      /\ ~r.hash_alg.ok => r.hash_alg.key = "tpm_hash_alg"
      /\ ~r.enc_alg.ok => r.enc_alg.key = "tpm_encryption_alg"
      /\ ~r.sign_alg.ok => r.sign_alg.key = "tpm_signing_alg"
    BY ZenonT(60), ErrKeys DEF ResolveIn, AndThen, AlgFrom, Ok, Err
<1>5. ~r.run_revocation.ok =>
        r.run_revocation.key \in {"listen_notifications", "listen_notfications"}
    BY Zenon, ErrKeys DEF ResolveIn, run_revocation_get, AndThen, OrElse
<1>6. /\ ~r.revocation_cert.ok => r.revocation_cert.key = "revocation_cert"
      /\ ~r.revocation_ip.ok => r.revocation_ip.key = "receive_revocation_ip"
      /\ ~r.revocation_port.ok =>
            r.revocation_port.key = "receive_revocation_port"
      /\ ~r.secure_size.ok => r.secure_size.key = "secure_size"
      /\ ~r.payload_script.ok => r.payload_script.key = "payload_script"
      /\ ~r.dec_payload_filename.ok =>
            r.dec_payload_filename.key = "dec_payload_file"
      /\ ~r.key_filename.ok => r.key_filename.key = "enc_keyname"
    BY ErrKeys DEF ResolveIn
<1>7. /\ ~r.extract_payload_zip.ok =>
            r.extract_payload_zip.key = "extract_payload_zip"
      /\ ~r.keylime_ca_path.ok => r.keylime_ca_path.key = "keylime_ca"
    BY Zenon, ErrKeys DEF ResolveIn, AndThen, RequiredBool, Ok
<1>8. ~r.agent_contact_port.ok =>
        /\ r.agent_contact_port.key = "agent_contact_port"
        /\ \/ IsSet("KEYLIME_AGENT_CONTACT_PORT")
           \/ config_get("cloud_agent", "agent_contact_port").ok
    BY Zenon, ConfigGetEnv DEF ResolveIn, cloudagent_contact_port_get, Ok, Err
<1>9. ~r.allow_payload_revocation_actions.ok =>
        /\ r.allow_payload_revocation_actions.key =
             "allow_payload_revocation_actions"
        /\ config_get("cloud_agent", "allow_payload_revocation_actions").ok
    BY Zenon, ErrKeys DEF ResolveIn, Ok
<1>10. /\ config_get("cloud_agent", "agent_contact_port").ok =>
            InFile("agent_contact_port")
       /\ config_get("cloud_agent", "allow_payload_revocation_actions").ok =>
            InFile("allow_payload_revocation_actions")
    BY ConfigGet DEF InFile, KeySection, GeneralKeys
<1> DEFINE Checked ==
        {"agent_ip", "agent_port", "registrar_ip", "registrar_port",
         "agent_uuid", "agent_contact_port", "hash_alg", "enc_alg",
         "sign_alg", "run_revocation", "revocation_cert", "revocation_ip",
         "revocation_port", "secure_size", "payload_script",
         "dec_payload_filename", "key_filename", "extract_payload_zip",
         "keylime_ca_path", "allow_payload_revocation_actions"}
<1>11. \A i \in 1 .. Len(BuildOrder) : BuildOrder[i] \in Checked
    BY DEF BuildOrder
<1>12. \A f \in Checked : ~r[f].ok => Tolerable(r[f].key)
    <2>1. \A k \in RequiredKeys \cup {"agent_contact_port",
                "allow_payload_revocation_actions"} :
            k \in OptionalKeys => k \in {"agent_contact_port",
                "allow_payload_revocation_actions"}
        BY DEF RequiredKeys, OptionalKeys
    <2>2. QED
        BY ZenonT(60), <2>1, <1>3, <1>4, <1>5, <1>6, <1>7, <1>8, <1>9, <1>10
        DEF RequiredKeys, Tolerable
<1>13. \A f \in Checked : ~Resolve(id)[f].ok => Tolerable(Resolve(id)[f].key)
    BY <1>1, <1>12
<1>14. QED
    <2> SUFFICES ASSUME NEW i \in 1 .. Len(BuildOrder),
                        ~Resolve(id)[BuildOrder[i]].ok
                 PROVE  Tolerable(Resolve(id)[BuildOrder[i]].key)
        OBVIOUS
    <2>1. BuildOrder[i] \in Checked
        BY <1>11
    <2>2. QED
        BY Zenon, <2>1, <1>13

\* A build that fails returns the error of one of its lookups.
LEMMA FailedTolerable ==
    ASSUME NEW id, ~Build(id).ok
    PROVE  Tolerable(Build(id).key)
<1> DEFINE R == Resolve(id)
           bad == {i \in 1 .. Len(BuildOrder) : ~R[BuildOrder[i]].ok}
<1>1. bad # {}
    BY DEF Build, Ok
<1>2. Min(bad) \in bad
    <2>1. bad \in SUBSET Nat
        BY DEF BuildOrder
    <2>2. QED
        BY <1>1, <2>1, MinOfNats
<1>3. Build(id) = R[BuildOrder[Min(bad)]]
    BY <1>1 DEF Build
<1>4. QED
    BY <1>2, <1>3, LookupErrors

\* For every environment, file, uid and identity record: when the agent
\* failed to start on an optional setting (or_else defaults, Ok(None) for a
\* missing contact port, the Err(_) arms of the lenient matches), the file
\* or the environment gave that setting a value -- leaving it out is never
\* what stops the agent.
THEOREM OptionalAbsenceToleratedHolds == Spec => []OptionalAbsenceTolerated
<1>1. IInv => OptionalAbsenceTolerated
    <2> SUFFICES ASSUME IInv, phase = "failed", error.key \in OptionalKeys
                 PROVE  OptionalAbsenceTolerated
        BY DEF OptionalAbsenceTolerated
    <2>1. PICK id \in UuidIds :
             ~Build(id).ok /\ error = [kind |-> Build(id).kind,
                                       key |-> Build(id).key]
        BY DEF IInv, Failed
    <2>2. Tolerable(Build(id).key)
        BY <2>1, FailedTolerable
    <2>3. QED
        BY Zenon, <2>1, <2>2 DEF Tolerable, OptionalAbsenceTolerated
<1>2. QED
    BY <1>1, InitIInv, NextIInv, PTL DEF Spec

=============================================================================
