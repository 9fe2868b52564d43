----------------------- MODULE ConfigBuildSteps_paths -----------------------
(***************************************************************************)
(* Proofs about build(), made one lookup at a time, that hold whether or   *)
(* not the file may change while the agent builds (any                    *)
(* EditsWhileBuilding): every variable keeps its type, and the identity    *)
(* record the snapshot carries was loaded from, and will be stored to, the *)
(* work_dir the snapshot reports.                                         *)
(*                                                                         *)
(* The argument: build() reads work_dir once (the 20th lookup) and the    *)
(* three lookups after it -- tpm_data_path, tpm_data, keylime_ca_path --  *)
(* use the value read, not the file as it is by then.  So each of them,   *)
(* once made, agrees with acc's work_dir (AccPaths), whatever the file    *)
(* says later, and the snapshot the last lookup builds inherits that.     *)
(***************************************************************************)
EXTENDS ConfigBuildSteps_proofs

\* The variables keep their types, and a build in progress has made the
\* lookups before pos, whatever the operator edits.
TInv ==
    /\ phase \in {"stopped", "building", "running", "failed"}
    /\ fresh \in UuidIds
    /\ pos \in 0 .. Len(Fields)
    /\ DOMAIN file = Atomic!Keys
    /\ \A k \in Atomic!Keys : file[k] \in FileDomain[k]
    /\ phase = "building" =>
         /\ pos \in 1 .. Len(Fields)
         /\ DOMAIN acc = {Fields[i] : i \in 1 .. pos - 1}

\* The identity paths that a snapshot (or the lookups made so far) c holds
\* agree with its work_dir: each conjunct is about a field c has.
PathsFrom(c) ==
    /\ "tpm_data_path" \in DOMAIN c =>
         c["tpm_data_path"] = Atomic!Join(c["work_dir"], Atomic!TPM_DATA)
    /\ "tpm_data" \in DOMAIN c =>
         (c["tpm_data"] = "record") =
           (c["work_dir"] \in DOMAIN TpmFiles
              /\ TpmFiles[c["work_dir"]] = "record")
    /\ "keylime_ca_path" \in DOMAIN c =>
         \/ c["keylime_ca_path"] =
              Atomic!Join(c["work_dir"], Atomic!DEFAULT_CA_PATH)
         \/ \E k \in FileDomain["keylime_ca"] :
              k # Absent /\ k # Atomic!Txt("default")
                         /\ c["keylime_ca_path"] = k.w

\* The inductive invariant: the types, the lookups made so far agree with
\* the work_dir they made, and so does a running agent's snapshot.
PInv ==
    /\ TInv
    /\ phase = "building" => PathsFrom(acc)
    /\ IdentityPathsAgree

-----------------------------------------------------------------------------
(* Lemmas about the lookups of the identity paths. *)

\* Where the work_dir and the paths derived from it come in Fields.
LEMMA PathIdx ==
    /\ Fields[20] = "work_dir"
    /\ Fields[21] = "tpm_data_path"
    /\ Fields[22] = "tpm_data"
    /\ Fields[23] = "keylime_ca_path"
    /\ Fields[29] = "enable_insecure_payload"
BY DEF Fields

\* During a build, the fields acc has are exactly those before pos.
LEMMA InAcc ==
    ASSUME TInv, phase = "building"
    PROVE  \A j \in 1 .. 29 : Fields[j] \in DOMAIN acc <=> j < pos
<1> SUFFICES ASSUME NEW j \in 1 .. 29
             PROVE  Fields[j] \in DOMAIN acc <=> j < pos
    OBVIOUS
<1>1. pos \in 1 .. 29 /\ DOMAIN acc = {Fields[i] : i \in 1 .. pos - 1}
    BY OrderLengths DEF TInv
<1>2. ASSUME NEW i \in 1 .. pos - 1, Fields[j] = Fields[i]
      PROVE  j < pos
    BY <1>1, <1>2, FieldsInjective
<1>3. QED
    BY <1>1, <1>2

\* The lookups of the paths, made with a work_dir wd read earlier.
LEMMA ResolvePaths ==
    ASSUME NEW id, NEW wd
    PROVE  LET r  == Atomic!ResolveIn(id, wd)
               ca == Atomic!config_get("cloud_agent", "keylime_ca")
           IN  /\ r["tpm_data_path"] =
                    Atomic!Ok(Atomic!Join(wd, Atomic!TPM_DATA))
               /\ r["tpm_data"] = Atomic!Ok(Atomic!TpmDataLoad(wd))
               /\ r["keylime_ca_path"] =
                    IF ca.ok
                    THEN IF ca.val = Atomic!Txt("default")
                         THEN Atomic!Ok(Atomic!Join(wd, Atomic!DEFAULT_CA_PATH))
                         ELSE Atomic!Ok(ca.val.w)
                    ELSE ca
BY Zenon DEF Atomic!ResolveIn, Atomic!AndThen

\* config_get gives the file's value, and only a value that is there.
LEMMA CaGet ==
    ASSUME NEW key
    PROVE  Atomic!config_get("cloud_agent", key).ok =>
             /\ Atomic!config_get("cloud_agent", key).val = file[key]
             /\ file[key] # Absent
BY DEF Atomic!config_get, Atomic!Ok, Atomic!Err

\* TpmData::load gives the record exactly when the directory holds one.
LEMMA TpmLoad ==
    ASSUME NEW wd
    PROVE  (Atomic!TpmDataLoad(wd) = "record") =
             (wd \in DOMAIN TpmFiles /\ TpmFiles[wd] = "record")
BY StepAssumption DEF Atomic!TpmDataLoad

-----------------------------------------------------------------------------
(* The invariant is inductive. *)

LEMMA InitPInv == Init => PInv
<1> SUFFICES ASSUME Init PROVE PInv
    OBVIOUS
<1>1. \A k \in Atomic!Keys : file[k] \in FileDomain[k]
    BY StepAssumption DEF Init
<1>2. QED
    BY <1>1, OrderLengths DEF Init, PInv, TInv, IdentityPathsAgree

\* The operator's edits and the process's environment and uid: PInv says
\* nothing of sections, confAt, env or euid, and file only keeps its type.
LEMMA EditsKeepPInv ==
    ASSUME PInv,
           \/ \E k \in Atomic!Keys : \E x \in FileDomain[k] : EditFile(k, x)
           \/ \E S \in SectionSets : SetSections(S)
           \/ \E P \in ConfSets : SetConfAt(P)
           \/ \E v \in Atomic!EnvVars : \E x \in EnvDomain[v] : SetEnv(v, x)
           \/ \E u \in Euids : SetEuid(u)
    PROVE  PInv'
<1>1. CASE \E k \in Atomic!Keys : \E x \in FileDomain[k] : EditFile(k, x)
    <2>0. PICK k \in Atomic!Keys : \E x \in FileDomain[k] : EditFile(k, x)
        BY <1>1
    <2>1. PICK x \in FileDomain[k] : EditFile(k, x)
        BY <2>0
    <2>2. TInv'
        BY <2>1 DEF PInv, TInv, EditFile
    <2>3. QED
        BY <2>1, <2>2 DEF PInv, PathsFrom, IdentityPathsAgree, EditFile
<1>2. CASE \E S \in SectionSets : SetSections(S)
    BY <1>2 DEF PInv, TInv, PathsFrom, IdentityPathsAgree, SetSections
<1>3. CASE \E P \in ConfSets : SetConfAt(P)
    BY <1>3 DEF PInv, TInv, PathsFrom, IdentityPathsAgree, SetConfAt
<1>4. CASE \E v \in Atomic!EnvVars : \E x \in EnvDomain[v] : SetEnv(v, x)
    BY <1>4 DEF PInv, TInv, PathsFrom, IdentityPathsAgree, SetEnv
<1>5. CASE \E u \in Euids : SetEuid(u)
    BY <1>5 DEF PInv, TInv, PathsFrom, IdentityPathsAgree, SetEuid
<1>6. QED
    BY <1>1, <1>2, <1>3, <1>4, <1>5

\* One lookup of build(): a failing ? and the last lookup only change the
\* phase and the snapshot; the lookup of a path field uses acc's work_dir.
LEMMA BuildStepKeepsPInv ==
    ASSUME PInv, BuildStep
    PROVE  PInv'
<1> DEFINE f  == Fields[pos]
           wd == IF "work_dir" \in DOMAIN acc THEN acc["work_dir"]
                                              ELSE Atomic!work_dir_get
           r  == Lookup(f)
           a  == [x \in DOMAIN acc \cup {f} |->
                    IF x = f THEN r.val ELSE acc[x]]
<1>1. /\ TInv
      /\ phase = "building"
      /\ pos \in 1 .. 29
      /\ DOMAIN acc = {Fields[i] : i \in 1 .. pos - 1}
      /\ PathsFrom(acc)
    BY OrderLengths DEF PInv, TInv, BuildStep
<1>2. r = Atomic!ResolveIn(fresh, wd)[f]
    BY DEF Lookup
<1>3. \A j \in 1 .. 29 : Fields[j] \in DOMAIN acc <=> j < pos
    BY <1>1, InAcc
<1>4. f \notin DOMAIN acc
    BY <1>1, <1>3
<1>5. \A x \in DOMAIN acc : a[x] = acc[x]
    BY <1>4
<1>6. /\ UNCHANGED <<env, file, sections, confAt, euid, fresh>>
      /\ IF ~r.ok
         THEN /\ phase' = "failed"
              /\ UNCHANGED <<config, pos, acc>>
         ELSE IF pos = Len(Fields)
         THEN /\ phase' = "running"
              /\ config' = a
              /\ UNCHANGED <<pos, acc>>
         ELSE /\ acc' = a
              /\ pos' = pos + 1
              /\ UNCHANGED <<phase, config>>
    BY Zenon DEF BuildStep
<1>7. CASE ~r.ok
    BY <1>1, <1>6, <1>7 DEF PInv, TInv, IdentityPathsAgree
<1>8. CASE r.ok /\ pos = 29
    <2>1. /\ "work_dir" \in DOMAIN acc
          /\ "tpm_data_path" \in DOMAIN acc
          /\ "tpm_data" \in DOMAIN acc
          /\ "keylime_ca_path" \in DOMAIN acc
        BY <1>3, <1>8, PathIdx
    <2>2. /\ a["work_dir"] = acc["work_dir"]
          /\ a["tpm_data_path"] = acc["tpm_data_path"]
          /\ a["tpm_data"] = acc["tpm_data"]
          /\ a["keylime_ca_path"] = acc["keylime_ca_path"]
        BY <1>5, <2>1
    <2>3. phase' = "running" /\ config' = a /\ TInv'
        BY <1>1, <1>6, <1>8, OrderLengths DEF TInv
    <2>4. IdentityPathsAgree'
        BY <1>1, <2>1, <2>2, <2>3 DEF IdentityPathsAgree, PathsFrom
    <2>5. QED
        BY <2>3, <2>4 DEF PInv
<1>9. CASE r.ok /\ pos # 29
    <2>1. acc' = a /\ pos' = pos + 1 /\ phase' = "building"
          /\ UNCHANGED <<config, env, file, sections, confAt, euid, fresh>>
        BY <1>1, <1>6, <1>9, OrderLengths
    <2>2. \A j \in 1 .. 29 : Fields[j] \in DOMAIN a <=> j <= pos
        BY <1>1, <1>3, FieldsInjective
    <2>3. TInv'
        <3>1. DOMAIN a = {Fields[i] : i \in 1 .. pos}
            BY <1>1
        <3>2. QED
            BY <1>1, <1>9, <2>1, <3>1, OrderLengths DEF TInv
    <2>4. IdentityPathsAgree'
        BY <2>1 DEF IdentityPathsAgree
    <2>5. PathsFrom(a)
        <3>1. CASE pos < 21
            BY <2>2, <3>1, <1>1, PathIdx DEF PathsFrom
        <3>2. CASE pos > 23
            <4>1. /\ "work_dir" \in DOMAIN acc
                  /\ "tpm_data_path" \in DOMAIN acc
                  /\ "tpm_data" \in DOMAIN acc
                  /\ "keylime_ca_path" \in DOMAIN acc
                BY <1>1, <1>3, <3>2, PathIdx
            <4>2. /\ a["work_dir"] = acc["work_dir"]
                  /\ a["tpm_data_path"] = acc["tpm_data_path"]
                  /\ a["tpm_data"] = acc["tpm_data"]
                  /\ a["keylime_ca_path"] = acc["keylime_ca_path"]
                BY <1>5, <4>1
            <4>3. QED
                BY <1>1, <4>1, <4>2 DEF PathsFrom
        <3>3. CASE pos \in 21 .. 23
            <4>1. "work_dir" \in DOMAIN acc /\ wd = acc["work_dir"]
                /\ a["work_dir"] = acc["work_dir"]
                BY <1>1, <1>3, <1>5, <3>3, PathIdx
            <4>2. a[f] = r.val
                OBVIOUS
            <4>3. PICK id : id = fresh
                OBVIOUS
            <4>4. PICK w : w = wd
                OBVIOUS
            <4>5. r = Atomic!ResolveIn(id, w)[f]
                BY <1>2, <4>3, <4>4
            <4>6. LET ca == Atomic!config_get("cloud_agent", "keylime_ca")
                  IN  /\ Atomic!ResolveIn(id, w)["tpm_data_path"] =
                           Atomic!Ok(Atomic!Join(w, Atomic!TPM_DATA))
                      /\ Atomic!ResolveIn(id, w)["tpm_data"] =
                           Atomic!Ok(Atomic!TpmDataLoad(w))
                      /\ Atomic!ResolveIn(id, w)["keylime_ca_path"] =
                           IF ca.ok
                           THEN IF ca.val = Atomic!Txt("default")
                                THEN Atomic!Ok(Atomic!Join(w,
                                                 Atomic!DEFAULT_CA_PATH))
                                ELSE Atomic!Ok(ca.val.w)
                           ELSE ca
                BY ResolvePaths
            <4>7. CASE pos = 21
                <5>1. r.val = Atomic!Join(wd, Atomic!TPM_DATA)
                    BY <4>4, <4>5, <4>6, <4>7, PathIdx DEF Atomic!Ok
                <5>2. QED
                    BY <2>2, <4>1, <4>2, <4>7, <5>1, PathIdx DEF PathsFrom
            <4>8. CASE pos = 22
                <5>1. r.val = Atomic!TpmDataLoad(w)
                    BY <4>5, <4>6, <4>8, PathIdx DEF Atomic!Ok
                <5>2. (Atomic!TpmDataLoad(w) = "record") =
                        (w \in DOMAIN TpmFiles /\ TpmFiles[w] = "record")
                    BY TpmLoad
                <5>3. "tpm_data_path" \in DOMAIN acc
                      /\ a["tpm_data_path"] = acc["tpm_data_path"]
                    BY <1>3, <1>5, <4>8, PathIdx
                <5>4. QED
                    BY Zenon, <1>1, <2>2, <4>1, <4>2, <4>4, <4>8, <5>1, <5>2,
                       <5>3, PathIdx DEF PathsFrom
            <4>9. CASE pos = 23
                <5> DEFINE ca == Atomic!config_get("cloud_agent",
                                                   "keylime_ca")
                <5>1. r = IF ca.ok
                          THEN IF ca.val = Atomic!Txt("default")
                               THEN Atomic!Ok(Atomic!Join(wd,
                                                Atomic!DEFAULT_CA_PATH))
                               ELSE Atomic!Ok(ca.val.w)
                          ELSE ca
                    BY <4>4, <4>5, <4>6, <4>9, PathIdx
                <5>2. ca.ok
                    BY <1>9, <5>1
                <5>3. ca.val = file["keylime_ca"] /\ file["keylime_ca"] # Absent
                    BY <5>2, CaGet
                <5>4. file["keylime_ca"] \in FileDomain["keylime_ca"]
                    BY <1>1 DEF TInv, Atomic!Keys
                <5>5. \/ r.val = Atomic!Join(wd, Atomic!DEFAULT_CA_PATH)
                      \/ \E k \in FileDomain["keylime_ca"] :
                           k # Absent /\ k # Atomic!Txt("default")
                                      /\ r.val = k.w
                    BY <5>1, <5>2, <5>3, <5>4 DEF Atomic!Ok
                <5>6. /\ "tpm_data_path" \in DOMAIN acc
                      /\ a["tpm_data_path"] = acc["tpm_data_path"]
                      /\ "tpm_data" \in DOMAIN acc
                      /\ a["tpm_data"] = acc["tpm_data"]
                    BY <1>3, <1>5, <4>9, PathIdx
                <5>7. QED
                    BY Zenon, <1>1, <2>2, <4>1, <4>2, <4>9, <5>5, <5>6,
                       PathIdx DEF PathsFrom
            <4>10. QED
                BY <3>3, <4>7, <4>8, <4>9
        <3>4. QED
            BY <1>1, <3>1, <3>2, <3>3
    <2>6. QED
        BY <2>1, <2>3, <2>4, <2>5 DEF PInv
<1>10. QED
    BY <1>1, <1>7, <1>8, <1>9, OrderLengths

LEMMA NextPInv ==
    ASSUME PInv, [Next]_vars
    PROVE  PInv'
<1>1. CASE BeginBuild
    <2>1. DOMAIN acc' = {Fields[i] : i \in 1 .. pos' - 1}
        BY <1>1 DEF BeginBuild
    <2>2. QED
        BY <1>1, <2>1, OrderLengths
           DEF BeginBuild, PInv, TInv, PathsFrom, IdentityPathsAgree
<1>2. CASE BuildStep
    BY <1>2, BuildStepKeepsPInv
<1>3. CASE Stop
    BY <1>3 DEF Stop, PInv, TInv, IdentityPathsAgree
<1>4. CASE UNCHANGED vars
    BY <1>4 DEF vars, PInv, TInv, PathsFrom, IdentityPathsAgree
<1>5. QED
    BY <1>1, <1>2, <1>3, <1>4, EditsKeepPInv DEF Next

-----------------------------------------------------------------------------
(* The theorems. *)

\* Every variable of the step-by-step build keeps its type, whatever the
\* operator does to the file between the lookups of build().
THEOREM TypeOKHolds == Spec => []TypeOK
<1>1. PInv => TypeOK
    BY DEF PInv, TInv, TypeOK
<1>2. QED
    BY InitPInv, NextPInv, <1>1, PTL DEF Spec

\* A running agent's snapshot loads and stores its identity record under
\* the work_dir it reports, and takes the CA path from that work_dir or from
\* the file, even when keylime_dir is edited while build() runs: build()
\* reads work_dir once and the later lookups use the value read.
THEOREM IdentityPathsAgreeHolds == Spec => []IdentityPathsAgree
<1>1. PInv => IdentityPathsAgree
    BY DEF PInv
<1>2. QED
    BY InitPInv, NextPInv, <1>1, PTL DEF Spec

=============================================================================
